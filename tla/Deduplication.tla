---------------------------- MODULE Deduplication ----------------------------
(***************************************************************************)
(* The deduplication middleware: consumers that share one DedupStore,      *)
(* reserve the keys of what they receive, wait out keys another delivery   *)
(* holds, hand on what they claimed, and settle the store before the       *)
(* source.  A marker may fail to be written and a flush may fail: both are *)
(* only logged.  The process may crash at any step.  Markers do not reach  *)
(* their TTL here; a source gives out again what was not acknowledged.     *)
(***************************************************************************)
EXTENDS Naturals, FiniteSets

CONSTANTS
    Consumers,      \* DeduplicationConsumers on one store
    Keys,           \* dedup keys
    Copies,         \* the messages of the source
    KeyOf,          \* dedup_key of each
    DdBatch,        \* max_messages of a receive_batch
    Durable,        \* sync makes the markers durable
    MaxCrashes      \* bound on process crashes

ASSUME KeyOfAssumption ==
    KeyOf \in [Copies -> Keys] /\ \A k \in Keys : \E m \in Copies : KeyOf[m] = k
ASSUME DdBounds == DdBatch \in Nat \ {0} /\ Durable \in BOOLEAN /\ MaxCrashes \in Nat

VARIABLES
    ddSource,       \* each copy: queued at the source, given out, acknowledged
    ddPhase,        \* what each consumer is doing
    ddHas,          \* the copies a consumer is reserving
    ddState,        \* what reserve answered for each of their keys
    ddLate,         \* the deadline of settle_in_flight, IN_FLIGHT_WAIT_CAP after its start
    ddClaimed,      \* keys the store holds a claim for
    ddMarker,       \* the store's processed marker of each key
    ddOut,          \* deliveries the route holds, with their commit
    ddWritten,      \* keys the sink has taken
    ddSettled,      \* keys acknowledged by the delivery that wrote them
    ddMissed,       \* keys a failed write or flush of the store left without a durable marker
    ddCapped,       \* some delivery was handed on unclaimed
    ddFaulty,       \* writes and flushes of the store may fail
    ddCrashes       \* crashes that may still come

ddVars == <<ddSource, ddPhase, ddHas, ddState, ddLate, ddClaimed, ddMarker, ddOut, ddWritten, ddSettled, ddMissed, ddCapped, ddFaulty, ddCrashes>>

KeysOf(S) == {KeyOf[m] : m \in S}

DdInit ==
    /\ ddSource = [m \in Copies |-> "queued"]
    /\ ddPhase = [c \in Consumers |-> "idle"]
    /\ ddHas = [c \in Consumers |-> {}]
    /\ ddState = [c \in Consumers |-> <<>>]
    /\ ddLate = [c \in Consumers |-> "off"]
    /\ ddClaimed = {}
    /\ ddMarker = [k \in Keys |-> "none"]
    /\ ddOut = {}
    /\ ddWritten = {}
    /\ ddSettled = {}
    /\ ddMissed = {}
    /\ ddCapped = FALSE
    /\ ddFaulty \in BOOLEAN
    /\ ddCrashes \in 0..MaxCrashes

SetSource(S, s) == [m \in Copies |-> IF m \in S THEN s ELSE ddSource[m]]

-----------------------------------------------------------------------------
(* receive_batch *)

\* The source gives out a batch, and its distinct keys are to be reserved.
DdReceive(c) ==
    /\ ddPhase[c] = "idle"
    /\ \E S \in SUBSET {m \in Copies : ddSource[m] = "queued"} :
            /\ Cardinality(S) \in 1..DdBatch
            /\ ddHas' = [ddHas EXCEPT ![c] = S]
            /\ ddSource' = SetSource(S, "out")
    /\ ddPhase' = [ddPhase EXCEPT ![c] = "reserving"]
    /\ ddState' = [ddState EXCEPT ![c] = <<>>]
    /\ ddLate' = [ddLate EXCEPT ![c] = "off"]
    /\ UNCHANGED <<ddClaimed, ddMarker, ddOut, ddWritten, ddSettled, ddMissed, ddCapped, ddFaulty, ddCrashes>>

\* claim_key / reserve_key: a live claim, else the stored marker, else the key is free.
StoredState(k) ==
    IF k \in ddClaimed THEN "InFlight"
    ELSE IF ddMarker[k] # "none" THEN "Processed" ELSE "Claimed"

Answered(states, k, state) ==
    [j \in DOMAIN states \cup {k} |-> IF j = k THEN state ELSE states[j]]

\* reserve_many claims or looks up one key after the other.
Reserve(c) ==
    /\ ddPhase[c] = "reserving"
    /\ \E k \in KeysOf(ddHas[c]) \ DOMAIN ddState[c] :
            /\ ddState' = [ddState EXCEPT ![c] = Answered(@, k, StoredState(k))]
            /\ ddClaimed' = IF StoredState(k) = "Claimed" THEN ddClaimed \cup {k} ELSE ddClaimed
    /\ UNCHANGED <<ddSource, ddPhase, ddHas, ddLate, ddMarker, ddOut, ddWritten, ddSettled, ddMissed, ddCapped, ddFaulty, ddCrashes>>

KeysIn(c, states) == {k \in DOMAIN ddState[c] : ddState[c][k] \in states}

Reserved(c) == ddPhase[c] = "reserving" /\ KeysOf(ddHas[c]) = DOMAIN ddState[c]

\* settle_in_flight: a key is held elsewhere.  The batch's own claims are released for the
\* time of the wait.
SettleWait(c) ==
    /\ Reserved(c)
    /\ KeysIn(c, {"InFlight"}) # {}
    /\ ddLate[c] # "passed"
    /\ ddLate' = [ddLate EXCEPT ![c] = "running"]
    /\ ddClaimed' = ddClaimed \ KeysIn(c, {"Claimed"})
    /\ ddPhase' = [ddPhase EXCEPT ![c] = "waiting"]
    /\ UNCHANGED <<ddSource, ddHas, ddState, ddMarker, ddOut, ddWritten, ddSettled, ddMissed, ddCapped, ddFaulty, ddCrashes>>

\* After IN_FLIGHT_POLL every key of the batch is reserved again.
SettlePoll(c) ==
    /\ ddPhase[c] = "waiting"
    /\ ddPhase' = [ddPhase EXCEPT ![c] = "reserving"]
    /\ ddState' = [ddState EXCEPT ![c] = <<>>]
    /\ UNCHANGED <<ddSource, ddHas, ddLate, ddClaimed, ddMarker, ddOut, ddWritten, ddSettled, ddMissed, ddCapped, ddFaulty, ddCrashes>>

\* Mutated: there is no end to the wait.
WaitCapNever(c) == FALSE /\ UNCHANGED ddVars

\* IN_FLIGHT_WAIT_CAP passes.
WaitCap(c) ==
    /\ ddLate[c] = "running"
    /\ ddLate' = [ddLate EXCEPT ![c] = "passed"]
    /\ UNCHANGED <<ddSource, ddPhase, ddHas, ddState, ddClaimed, ddMarker, ddOut, ddWritten, ddSettled, ddMissed, ddCapped, ddFaulty, ddCrashes>>

\* The batch is settled: duplicates of processed keys are dropped, a repeat inside the batch
\* rides on the first copy of its key, and the rest is handed on under a lease.  A batch
\* left without messages is acknowledged.
DdDeliver(c) ==
    /\ Reserved(c)
    /\ KeysIn(c, {"InFlight"}) = {} \/ ddLate[c] = "passed"
    /\ LET keys == KeysIn(c, {"Claimed", "InFlight"})
       IN  IF keys = {}
             THEN /\ ddSource' = SetSource(ddHas[c], "acked")
                  /\ ddOut' = ddOut
             ELSE /\ \E kept \in SUBSET ddHas[c] :
                        /\ KeysOf(kept) = keys /\ Cardinality(kept) = Cardinality(keys)
                        /\ ddOut' = ddOut \cup {[kept |-> kept, dropped |-> ddHas[c] \ kept,
                                                 ok |-> {}, stage |-> "writing"]}
                  /\ ddSource' = ddSource
    /\ ddCapped' = (ddCapped \/ KeysIn(c, {"InFlight"}) # {})
    /\ ddPhase' = [ddPhase EXCEPT ![c] = "idle"]
    /\ ddHas' = [ddHas EXCEPT ![c] = {}]
    /\ ddState' = [ddState EXCEPT ![c] = <<>>]
    /\ ddLate' = [ddLate EXCEPT ![c] = "off"]
    /\ UNCHANGED <<ddClaimed, ddMarker, ddWritten, ddSettled, ddMissed, ddFaulty, ddCrashes>>

\* The store fails: the batch is handed back and the error returned.  What it had claimed
\* is left to lapse.
ReserveFails(c) ==
    /\ ddPhase[c] = "reserving"
    /\ ddSource' = SetSource(ddHas[c], "queued")
    /\ ddPhase' = [ddPhase EXCEPT ![c] = "idle"]
    /\ ddHas' = [ddHas EXCEPT ![c] = {}]
    /\ ddState' = [ddState EXCEPT ![c] = <<>>]
    /\ ddLate' = [ddLate EXCEPT ![c] = "off"]
    /\ UNCHANGED <<ddClaimed, ddMarker, ddOut, ddWritten, ddSettled, ddMissed, ddCapped, ddFaulty, ddCrashes>>

-----------------------------------------------------------------------------
(* The delivery's commit *)

Becomes(d, e) == ddOut' = (ddOut \ {d}) \cup {e}

\* The route has sent the delivery; what failed will be committed with a Nack.
Sent(d) ==
    /\ d.stage = "writing"
    /\ \E ok \in SUBSET d.kept :
            /\ Becomes(d, [d EXCEPT !.ok = ok, !.stage = "sent"])
            /\ ddWritten' = ddWritten \cup KeysOf(ok)
    /\ UNCHANGED <<ddSource, ddPhase, ddHas, ddState, ddLate, ddClaimed, ddMarker, ddSettled, ddMissed, ddCapped, ddFaulty, ddCrashes>>

\* mark_processed_many and release_many, then the lease is dropped.  A marker that cannot be
\* written is only logged, and its claim goes all the same.
Mark(d) ==
    /\ d.stage = "sent"
    /\ \E unwritten \in IF ddFaulty THEN SUBSET KeysOf(d.ok) ELSE {{}} :
            /\ ddMarker' = [k \in Keys |-> IF k \in KeysOf(d.ok) \ unwritten /\ ddMarker[k] = "none"
                                             THEN "written" ELSE ddMarker[k]]
            /\ ddMissed' = ddMissed \cup {k \in unwritten : ddMarker[k] # "durable"}
    /\ ddClaimed' = ddClaimed \ KeysOf(d.kept)
    /\ Becomes(d, [d EXCEPT !.stage = "marked"])
    /\ UNCHANGED <<ddSource, ddPhase, ddHas, ddState, ddLate, ddWritten, ddSettled, ddCapped, ddFaulty, ddCrashes>>

\* Mutated: the markers stay in memory.
SyncLater(d) ==
    /\ d.stage = "marked"
    /\ Becomes(d, [d EXCEPT !.stage = "synced"])
    /\ UNCHANGED <<ddSource, ddPhase, ddHas, ddState, ddLate, ddClaimed, ddMarker, ddWritten, ddSettled, ddMissed, ddCapped, ddFaulty, ddCrashes>>

\* flush_async makes what has been written durable; when it fails the source ack goes on.
FlushStore == /\ ddMarker' = [k \in Keys |-> IF ddMarker[k] = "written" THEN "durable" ELSE ddMarker[k]]
              /\ ddMissed' = {k \in ddMissed : ddMarker[k] = "none"}
FlushFails(d) == /\ ddFaulty
                 /\ ddMissed' = ddMissed \cup {k \in KeysOf(d.ok) : ddMarker[k] # "durable"}
                 /\ ddMarker' = ddMarker

\* sync.
Sync(d) ==
    /\ d.stage = "marked"
    /\ IF Durable THEN FlushStore \/ FlushFails(d) ELSE UNCHANGED <<ddMarker, ddMissed>>
    /\ Becomes(d, [d EXCEPT !.stage = "synced"])
    /\ UNCHANGED <<ddSource, ddPhase, ddHas, ddState, ddLate, ddClaimed, ddWritten, ddSettled, ddCapped, ddFaulty, ddCrashes>>

\* The source's commit: it takes the acks, and queues again what was nacked.
SourceAck(d) ==
    /\ d.stage = "synced"
    /\ ddOut' = ddOut \ {d}
    /\ ddSource' = [m \in Copies |-> IF m \in d.ok \cup d.dropped THEN "acked"
                                     ELSE IF m \in d.kept THEN "queued" ELSE ddSource[m]]
    /\ ddSettled' = ddSettled \cup KeysOf(d.ok)
    /\ UNCHANGED <<ddPhase, ddHas, ddState, ddLate, ddClaimed, ddMarker, ddWritten, ddMissed, ddCapped, ddFaulty, ddCrashes>>

\* A commit held for an emptied batch fails ahead of the markers, the source's own commit
\* fails, or the route drops the delivery or its commit on the way: the source gives
\* everything out again, and claims still held are left to lapse.
CommitLost(d) ==
    /\ ddOut' = ddOut \ {d}
    /\ ddSource' = SetSource(d.kept \cup d.dropped, "queued")
    /\ UNCHANGED <<ddPhase, ddHas, ddState, ddLate, ddClaimed, ddMarker, ddWritten, ddSettled, ddMissed, ddCapped, ddFaulty, ddCrashes>>

\* Keys whose claim is being renewed or was made a moment ago.
Renewed ==
    (UNION {KeysOf(d.kept) : d \in {e \in ddOut : e.stage \in {"writing", "sent"}}})
    \cup (UNION {KeysIn(c, {"Claimed"}) : c \in {e \in Consumers : ddPhase[e] = "reserving"}})

\* PENDING_TTL_SECS pass for a claim nobody renews.
Lapse(k) ==
    /\ k \in ddClaimed \ Renewed
    /\ ddClaimed' = ddClaimed \ {k}
    /\ UNCHANGED <<ddSource, ddPhase, ddHas, ddState, ddLate, ddMarker, ddOut, ddWritten, ddSettled, ddMissed, ddCapped, ddFaulty, ddCrashes>>

\* The process dies: claims, deliveries and markers not yet durable go with it.
Crash ==
    /\ ddCrashes > 0
    /\ ddCrashes' = ddCrashes - 1
    /\ ddSource' = SetSource({m \in Copies : ddSource[m] = "out"}, "queued")
    /\ ddPhase' = [c \in Consumers |-> "idle"]
    /\ ddHas' = [c \in Consumers |-> {}]
    /\ ddState' = [c \in Consumers |-> <<>>]
    /\ ddLate' = [c \in Consumers |-> "off"]
    /\ ddClaimed' = {}
    /\ ddMarker' = [k \in Keys |-> IF ddMarker[k] = "written" THEN "none" ELSE ddMarker[k]]
    /\ ddOut' = {}
    /\ UNCHANGED <<ddWritten, ddSettled, ddMissed, ddCapped, ddFaulty>>

DdConsume(c) == Reserve(c) \/ SettleWait(c) \/ SettlePoll(c) \/ DdDeliver(c)

DdNext ==
    \/ \E c \in Consumers : DdReceive(c) \/ DdConsume(c) \/ WaitCap(c) \/ ReserveFails(c)
    \/ \E d \in ddOut : Sent(d) \/ Mark(d) \/ Sync(d) \/ SourceAck(d) \/ CommitLost(d)
    \/ \E k \in Keys : Lapse(k)
    \/ Crash

DdSpec == DdInit /\ [][DdNext]_ddVars

\* The consumer is polled and its timers fire.
DdFairness == \A c \in Consumers : WF_ddVars(DdConsume(c)) /\ WF_ddVars(WaitCap(c))

-----------------------------------------------------------------------------
(* Properties *)

\* The types of the variables.
DdTypeOK ==
    /\ ddSource \in [Copies -> {"queued", "out", "acked"}]
    /\ ddPhase \in [Consumers -> {"idle", "reserving", "waiting"}]
    /\ ddHas \in [Consumers -> SUBSET Copies]
    /\ \A c \in Consumers : DOMAIN ddState[c] \subseteq KeysOf(ddHas[c])
    /\ ddLate \in [Consumers -> {"off", "running", "passed"}]
    /\ ddClaimed \subseteq Keys
    /\ ddMarker \in [Keys -> {"none", "written", "durable"}]
    /\ \A d \in ddOut : d.ok \subseteq d.kept /\ d.stage \in {"writing", "sent", "marked", "synced"}
    /\ ddWritten \subseteq Keys
    /\ ddSettled \subseteq ddWritten
    /\ ddMissed \subseteq Keys
    /\ ddCapped \in BOOLEAN /\ ddFaulty \in BOOLEAN
    /\ ddCrashes \in 0..MaxCrashes

\* Nothing is lost: the source never has the acks of all copies of a message the sink did
\* not take, although copies are acknowledged on the strength of another one, which may
\* fail, be dropped with its commit or die with the process.
NoKeyLost ==
    \A k \in Keys :
        (\A m \in Copies : KeyOf[m] = k => ddSource[m] = "acked") => k \in ddWritten

\* Only one delivery of a key is with the sink at a time, whatever copies the consumers
\* hold, as long as no wait ran into IN_FLIGHT_WAIT_CAP.
OneDeliveryPerKey ==
    ~ddCapped =>
        \A d, e \in {x \in ddOut : x.stage \in {"writing", "sent"}} :
            d # e => KeysOf(d.kept) \cap KeysOf(e.kept) = {}

\* With durable markers, a settled message is recognised again after a crash: once the
\* delivery that wrote a key has been acknowledged, no other copy goes to the sink, unless
\* a consumer had stopped waiting for it, or the store had failed to write or flush the
\* marker of this very key and no later flush made up for it.
AckedNotRedone ==
    Durable /\ ~ddCapped =>
        \A d \in ddOut : d.stage = "writing" => KeysOf(d.kept) \cap ddSettled \subseteq ddMissed

\* What deduplication keeps true of its store, the source and the sink.
DeduplicationInv == DdTypeOK /\ NoKeyLost /\ OneDeliveryPerKey /\ AckedNotRedone

\* A consumer does not wait for ever, although the holder of a key may renew it without
\* end and two consumers may hold what the other needs.
WaitEnds == \A c \in Consumers : []<>(ddPhase[c] = "idle")

-----------------------------------------------------------------------------
(* The inductive invariant *)

DeliverySet ==
    [kept : SUBSET Copies, dropped : SUBSET Copies, ok : SUBSET Copies,
     stage : {"writing", "sent", "marked", "synced"}]

\* The deliveries that hold their keys, and the consumers that do.
Holding(d) == d \in ddOut /\ d.stage \in {"writing", "sent"}
Claims(c) == IF ddPhase[c] = "reserving" THEN KeysIn(c, {"Claimed"}) ELSE {}

\* A copy is dropped on the strength of one that is kept or of one the sink took.
DropInv ==
    /\ ddOut \subseteq DeliverySet
    /\ \A d \in ddOut :
        /\ d.kept \cap d.dropped = {}
        /\ KeysOf(d.dropped) \subseteq KeysOf(d.kept) \cup ddWritten

\* What a consumer takes for processed, the sink took.
StateInv ==
    /\ DOMAIN ddState = Consumers
    /\ \A c \in Consumers : \A k \in DOMAIN ddState[c] :
        /\ ddState[c][k] \in {"Claimed", "InFlight", "Processed"}
        /\ ddState[c][k] = "Processed" => k \in ddWritten

\* A marker stands for what the sink took; a delivery has its markers before its acks, but
\* for what the store failed to keep.
MarkerInv ==
    /\ \A k \in Keys : ddMarker[k] # "none" => k \in ddWritten
    /\ \A d \in ddOut :
        /\ d.stage = "writing" => d.ok = {}
        /\ \A k \in KeysOf(d.ok) :
            /\ k \in ddWritten
            /\ d.stage \in {"marked", "synced"} => ddMarker[k] # "none" \/ k \in ddMissed
            /\ d.stage = "synced" /\ Durable => ddMarker[k] = "durable" \/ k \in ddMissed
    /\ Durable => \A k \in ddSettled : ddMarker[k] = "durable" \/ k \in ddMissed

\* Keys that are held are claimed in the store, have no marker yet and one holder.
Free(k) == k \in ddClaimed /\ ddMarker[k] = "none"

ClaimInv == ~ddCapped =>
    /\ \A d \in ddOut : Holding(d) => \A k \in KeysOf(d.kept) : Free(k)
    /\ \A c \in Consumers : \A k \in Claims(c) : Free(k)
    /\ \A d \in ddOut, c \in Consumers : Holding(d) => KeysOf(d.kept) \cap Claims(c) = {}
    /\ \A c, b \in Consumers : c # b => Claims(c) \cap Claims(b) = {}

DdInv == DeduplicationInv /\ DropInv /\ StateInv /\ MarkerInv /\ ClaimInv
=============================================================================
