--------------------------- MODULE DeferredCommits ---------------------------
(***************************************************************************)
(* Acknowledging what a consumer middleware dropped (DeferredCommits, and  *)
(* the receive_batch of the filter and the deduplication middleware) on a  *)
(* source with cumulative acks.  The commit of a source batch the          *)
(* middleware emptied is held and runs from inside the commit of the next  *)
(* delivery, which the route orders; it runs at once while no delivery is  *)
(* uncommitted, and on an empty batch.  A source that has caught up returns *)
(* empty batches too, and the route reads on.  The filter fills a delivery *)
(* from several source batches, deduplication returns the first that       *)
(* retains anything.                                                       *)
(***************************************************************************)
EXTENDS Naturals, Sequences, SequencesExt, FiniteSets

CONSTANTS
    SourceBatches,  \* how many batches the source has
    DcTarget,       \* max_messages of a receive_batch
    MaxDeferred     \* MAX_DEFERRED_COMMITS

ASSUME DeferredBounds == SourceBatches \in Nat /\ DcTarget \in Nat \ {0} /\ MaxDeferred \in Nat \ {0}

VARIABLES
    dcFills,        \* the middleware is the filter, which fills its deliveries
    dcExits,        \* exit_on_empty: the route ends on an empty batch
    dcMode,         \* what the consumer is doing
    dcRead,         \* source batches read so far
    dcFate,         \* what the middleware did with each batch read
    dcHeld,         \* DeferredCommits.held, oldest first
    dcRunning,      \* held commits being run outside of a delivery
    dcCall,         \* commits collected by the running receive_batch
    dcGot,          \* messages collected by it
    dcOut,          \* deliveries handed to the route, in order
    dcInFlight,     \* DeferredCommits.in_flight
    dcAcked,        \* source batches whose commit has run
    dcEarly         \* those whose held commit ran on an empty batch or on disconnect

dcConf == <<dcFills, dcExits>>
dcVars == <<dcConf, dcMode, dcRead, dcFate, dcHeld, dcRunning, dcCall, dcGot, dcOut, dcInFlight, dcAcked, dcEarly>>

DcBatches == 1..SourceBatches

DcInit ==
    /\ dcFills \in BOOLEAN
    /\ dcExits \in BOOLEAN
    /\ dcMode = "reading"
    /\ dcRead = 0
    /\ dcFate = [b \in DcBatches |-> "unread"]
    /\ dcHeld = <<>>
    /\ dcRunning = <<>>
    /\ dcCall = <<>>
    /\ dcGot = 0
    /\ dcOut = <<>>
    /\ dcInFlight = 0
    /\ dcAcked = {}
    /\ dcEarly = {}

-----------------------------------------------------------------------------
(* DeferredCommits *)

\* hold makes room for one more commit: the oldest plain ack goes, a reply never does.
DropOldestAck(q) ==
    LET acks == {i \in DOMAIN q : dcFate[q[i]] = "ack"}
    IN  IF Len(q) < MaxDeferred \/ acks = {} THEN q
        ELSE RemoveAt(q, CHOOSE i \in acks : \A j \in acks : i <= j)

\* Mutated: does not look at what is in flight.
HoldNever(b) ==
    /\ dcRunning' = Append(dcHeld, b)
    /\ dcHeld' = <<>>
    /\ dcMode' = "flushing"

\* hold: kept while a delivery is in flight, else everything held runs now, oldest first.
Hold(b) ==
    IF dcInFlight = 0
      THEN /\ dcRunning' = Append(dcHeld, b)
           /\ dcHeld' = <<>>
           /\ dcMode' = "flushing"
      ELSE /\ dcHeld' = Append(DropOldestAck(dcHeld), b)
           /\ UNCHANGED <<dcRunning, dcMode>>

\* One of the held commits run by hold, on an empty batch or on disconnect succeeds.
RunHeld ==
    /\ dcRunning # <<>>
    /\ dcAcked' = dcAcked \cup {Head(dcRunning)}
    /\ dcEarly' = IF dcMode = "flushing" THEN dcEarly ELSE dcEarly \cup {Head(dcRunning)}
    /\ dcRunning' = Tail(dcRunning)
    /\ UNCHANGED <<dcConf, dcMode, dcRead, dcFate, dcHeld, dcCall, dcGot, dcOut, dcInFlight>>

\* It fails: the call returns the error (receive_batch as a connection error), and what it
\* had collected is dropped with it.  hold pops its queue as it goes, so what it had not
\* come to is still held; the list an empty batch took is gone.
RunHeldFails ==
    /\ dcRunning # <<>>
    /\ dcHeld' = IF dcMode = "flushing" THEN Tail(dcRunning) ELSE dcHeld
    /\ dcRunning' = <<>>
    /\ dcCall' = <<>>
    /\ dcMode' = IF dcMode = "leaving" THEN "gone" ELSE "failed"
    /\ UNCHANGED <<dcConf, dcRead, dcFate, dcGot, dcOut, dcInFlight, dcAcked, dcEarly>>

\* The last one has run.  The route pauses after an empty batch and reads on, or ends.
HeldDone ==
    /\ dcRunning = <<>>
    /\ dcMode \in {"flushing", "draining", "leaving"}
    /\ dcMode' = [flushing |-> "reading", draining |-> IF dcExits THEN "drained" ELSE "reading",
                   leaving |-> "gone"][dcMode]
    /\ UNCHANGED <<dcConf, dcRead, dcFate, dcHeld, dcRunning, dcCall, dcGot, dcOut, dcInFlight, dcAcked, dcEarly>>

-----------------------------------------------------------------------------
(* receive_batch *)

\* receive_batch returns: the delivery is tracked and carries its commits, in source order.
Deliver(commits) ==
    /\ dcOut' = Append(dcOut, [todo |-> commits, state |-> "writing"])
    /\ dcInFlight' = dcInFlight + 1
    /\ dcCall' = <<>>
    /\ dcGot' = 0

\* The source hands over a batch of which kept messages pass.  The filter asks for more
\* while its delivery has room and the source fills what is asked for.
ReceiveKept ==
    /\ dcMode = "reading"
    /\ dcRead < SourceBatches
    /\ dcRead' = dcRead + 1
    /\ dcFate' = [dcFate EXCEPT ![dcRead + 1] = "kept"]
    /\ LET requested == DcTarget - dcGot
           commits == Append(dcCall \o dcHeld, dcRead + 1)
       IN \E count \in 1..requested : \E kept \in 1..count :
            IF dcFills /\ dcGot + kept < DcTarget /\ count = requested
              THEN /\ dcCall' = commits
                   /\ dcGot' = dcGot + kept
                   /\ UNCHANGED <<dcOut, dcInFlight>>
              ELSE Deliver(commits)
    /\ dcHeld' = <<>>
    /\ UNCHANGED <<dcConf, dcMode, dcRunning, dcAcked, dcEarly>>

\* Nothing of the batch passes.  Only deduplication answers a dropped request.
ReceiveEmptied ==
    /\ dcMode = "reading"
    /\ dcRead < SourceBatches
    /\ dcRead' = dcRead + 1
    /\ \E fate \in IF dcFills THEN {"ack"} ELSE {"ack", "reply"} :
            dcFate' = [dcFate EXCEPT ![dcRead + 1] = fate]
    /\ Hold(dcRead + 1)
    /\ UNCHANGED <<dcConf, dcCall, dcGot, dcOut, dcInFlight, dcAcked, dcEarly>>

\* An empty batch, of a source that is drained or has only caught up: what is held runs now,
\* whatever is in flight, or last in the delivery that was being filled.
ReceiveNone ==
    /\ dcMode = "reading"
    /\ dcHeld' = <<>>
    /\ IF dcCall = <<>>
         THEN /\ dcRunning' = dcHeld
              /\ dcMode' = "draining"
              /\ UNCHANGED <<dcOut, dcInFlight, dcCall, dcGot>>
         ELSE /\ Deliver(dcCall \o dcHeld)
              /\ UNCHANGED <<dcMode, dcRunning>>
    /\ UNCHANGED <<dcConf, dcRead, dcFate, dcAcked, dcEarly>>

\* The source fails: what the call had collected is dropped with it.
ReceiveFails ==
    /\ dcMode = "reading"
    /\ dcMode' = "failed"
    /\ dcCall' = <<>>
    /\ UNCHANGED <<dcConf, dcRead, dcFate, dcHeld, dcRunning, dcGot, dcOut, dcInFlight, dcAcked, dcEarly>>

-----------------------------------------------------------------------------
(* The route: commits in order, none past a delivery that failed *)

\* The commits that may run next: every earlier delivery has settled.
Turn(d) == dcOut[d].state = "writing" /\ \A e \in 1..(d - 1) : dcOut[e].state = "settled"

\* The delivery's commit function runs the commits it carries one by one; after the last
\* the delivery is settled.
CommitDelivery(d) ==
    LET todo == dcOut[d].todo
    IN  /\ Turn(d)
        /\ todo # <<>>
        /\ dcAcked' = dcAcked \cup {Head(todo)}
        /\ dcOut' = [dcOut EXCEPT ![d].todo = Tail(todo),
                                  ![d].state = IF Len(todo) = 1 THEN "settled" ELSE "writing"]
        /\ dcInFlight' = IF Len(todo) = 1 THEN dcInFlight - 1 ELSE dcInFlight
        /\ UNCHANGED <<dcConf, dcMode, dcRead, dcFate, dcHeld, dcRunning, dcCall, dcGot, dcEarly>>

\* The sink refuses the delivery or one of its commits fails: it stays counted.
DeliveryFails(d) ==
    /\ dcOut[d].state = "writing"
    /\ dcOut' = [dcOut EXCEPT ![d].state = "failed"]
    /\ UNCHANGED <<dcConf, dcMode, dcRead, dcFate, dcHeld, dcRunning, dcCall, dcGot, dcInFlight, dcAcked, dcEarly>>

\* on_disconnect_hook, when the run is over: no delivery's commit will run any more.  The
\* receive_batch the route drops on a stop loses the held commit it was running, and with it
\* the list an empty batch had taken.
Disconnect ==
    /\ dcMode \in {"reading", "flushing", "draining", "drained", "failed"}
    /\ \A d \in DOMAIN dcOut : ~Turn(d)
    /\ dcMode' = "leaving"
    /\ dcRunning' = IF dcMode = "flushing" /\ dcRunning # <<>> THEN Tail(dcRunning) ELSE dcHeld
    /\ dcHeld' = <<>>
    /\ dcCall' = <<>>
    /\ UNCHANGED <<dcConf, dcRead, dcFate, dcGot, dcOut, dcInFlight, dcAcked, dcEarly>>

DcRoute == \E d \in DOMAIN dcOut : CommitDelivery(d) \/ DeliveryFails(d)

DcNext ==
    \/ ReceiveKept \/ ReceiveEmptied \/ ReceiveNone \/ ReceiveFails
    \/ RunHeld \/ RunHeldFails \/ HeldDone \/ DcRoute \/ Disconnect

DcSpec == DcInit /\ [][DcNext]_dcVars

-----------------------------------------------------------------------------
(* Properties *)

DcDeliveries == [todo : Seq(DcBatches), state : {"writing", "settled", "failed"}]

\* The types of the variables.
DcTypeOK ==
    /\ dcFills \in BOOLEAN /\ dcExits \in BOOLEAN
    /\ dcMode \in {"reading", "flushing", "draining", "drained", "failed", "leaving", "gone"}
    /\ dcRead \in 0..SourceBatches
    /\ dcFate \in [DcBatches -> {"unread", "kept", "ack", "reply"}]
    /\ dcHeld \in Seq(DcBatches)
    /\ dcRunning \in Seq(DcBatches)
    /\ dcCall \in Seq(DcBatches)
    /\ dcGot \in 0..DcTarget
    /\ dcOut \in Seq(DcDeliveries)
    /\ dcInFlight \in 0..SourceBatches
    /\ dcEarly \subseteq dcAcked /\ dcAcked \subseteq DcBatches

\* What deferred_commit.rs is for: no commit reaches the source while an earlier batch
\* retained messages that are not committed, on a cumulative source an ack of both.
NoAckPastRetained ==
    \A c \in dcAcked : \A b \in 1..(c - 1) : dcFate[b] = "kept" => b \in dcAcked

\* The header of deferred_commit.rs says that the ack of a dropped duplicate never overtakes
\* a delivery the route is still writing.  Only an empty batch or the end of the run makes deduplication ack past a delivery that is
\* not committed: every other commit, run by hold or inside of a delivery, before or after
\* any number of empty batches, comes behind all that was retained ahead of it.
OnlyEmptyOvertakes ==
    ~dcFills => \A c \in dcAcked \ dcEarly : \A b \in 1..(c - 1) : dcFate[b] = "kept" => b \in dcAcked

\* What ack_emptied says of itself, for the filter: "On a source needing ordered commits the
\* commit is held while a retained batch is uncommitted" (deferred_commit.rs).
FilteredBehindRetained ==
    dcFills /\ dcMode \in {"reading", "flushing"} => NoAckPastRetained

\* The commits a delivery carries keep the order of the source, whatever was emptied in
\* between, so that a delivery that settles never moves the source's position back.
CommitsInSourceOrder ==
    \A d \in DOMAIN dcOut : LET todo == dcOut[d].todo IN
        \A i, j \in DOMAIN todo : i < j => todo[i] < todo[j]

\* The commits deliveries carry and have not run.
Carried == UNION {Range(dcOut[d].todo) : d \in DOMAIN dcOut}

\* A reply the middleware owes is never given up while the run goes on without failure:
\* its commit has run, is held, or is carried by a delivery, however many are held.
RepliesKept ==
    \A b \in DcBatches :
        dcFate[b] = "reply" /\ dcMode \notin {"failed", "leaving", "gone"} =>
            b \in dcAcked \cup Range(dcHeld) \cup Range(dcRunning) \cup Carried

\* A consumer that has handed on, run or released everything it held, and whose deliveries
\* have settled, leaves nothing unacknowledged, although it may have released held acks at
\* MAX_DEFERRED_COMMITS: a later ack covers them.
IdleAcksAll ==
    /\ dcMode \in {"reading", "drained"} /\ dcHeld = <<>> /\ dcCall = <<>>
    /\ \A d \in DOMAIN dcOut : dcOut[d].state = "settled"
    => \A b \in 1..dcRead : \E c \in dcAcked : b <= c

\* What holding back the acks of emptied batches keeps true.
DeferredCommitsInv == DcTypeOK /\ OnlyEmptyOvertakes /\ CommitsInSourceOrder /\ RepliesKept /\ IdleAcksAll

-----------------------------------------------------------------------------
(* The inductive invariant *)

Ascending(q) == \A i, j \in DOMAIN q : i < j => q[i] < q[j]
Precedes(p, q) == \A b \in Range(p), c \in Range(q) : b < c

\* What is carried, collected and held follows the order of the source.
OrderInv ==
    /\ Ascending(dcCall) /\ Ascending(dcHeld) /\ Ascending(dcRunning)
    /\ Precedes(dcCall, dcHeld)
    /\ Range(dcCall) \cup Range(dcHeld) \cup Range(dcRunning) \cup dcAcked \subseteq 1..dcRead
    /\ \A d \in DOMAIN dcOut :
        /\ Ascending(dcOut[d].todo)
        /\ Range(dcOut[d].todo) \subseteq 1..dcRead
        /\ Precedes(dcOut[d].todo, dcCall) /\ Precedes(dcOut[d].todo, dcHeld)
        /\ \A e \in DOMAIN dcOut : d < e => Precedes(dcOut[d].todo, dcOut[e].todo)

\* in_flight counts the deliveries that still carry a commit.
InFlightInv ==
    /\ \A d \in DOMAIN dcOut : dcOut[d].state = "settled" <=> dcOut[d].todo = <<>>
    /\ dcInFlight = Cardinality({d \in DOMAIN dcOut : dcOut[d].state # "settled"})
    /\ Len(dcOut) + (IF dcCall = <<>> THEN 0 ELSE 1) <= dcRead

\* Held commits run outside of a delivery only while none is in flight, or at the end.
ModeInv ==
    /\ dcRunning # <<>> => dcMode \in {"flushing", "draining", "leaving"}
    /\ dcMode = "flushing" => dcInFlight = 0 /\ dcHeld = <<>>
    /\ dcMode \in {"draining", "drained"} => dcHeld = <<>> /\ dcCall = <<>>
    /\ ~dcFills => dcCall = <<>>

\* What was retained is carried until it is acknowledged; the newest batch is never dropped.
FateInv ==
    /\ \A b \in DcBatches : /\ dcFate[b] = "unread" <=> b > dcRead
                            /\ dcFate[b] = "reply" => ~dcFills
                            /\ dcFate[b] = "kept" /\ ~dcFills => b \in dcAcked \cup Carried
    /\ dcRead > 0 /\ dcMode \in {"reading", "flushing", "draining", "drained"} =>
        dcRead \in dcAcked \cup Carried \cup Range(dcHeld) \cup Range(dcRunning) \cup Range(dcCall)

DcInv == DeferredCommitsInv /\ OrderInv /\ InFlightInv /\ ModeInv /\ FateInv
=============================================================================
