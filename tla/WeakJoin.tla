------------------------------- MODULE WeakJoin -------------------------------
(***************************************************************************)
(* WeakJoinConsumer: messages of a group are buffered until the group is   *)
(* complete or its time is over, and handed on as one joined message.  A   *)
(* source batch is committed once every member of it was settled by the    *)
(* message it was joined into; a joined message may have members of        *)
(* several batches, and the members of a batch go into several messages.   *)
(***************************************************************************)
EXTENDS Naturals, Sequences, FiniteSets

CONSTANTS
    WjGroups,       \* values of group_by
    WjBranches,     \* values of branch_by
    WjSource,       \* the source's batches: sequences of messages with a group and a branch
    WjRequired,     \* required, where it is set
    WjExpected,     \* expected_count
    WjTarget        \* max_messages of a receive_batch

ASSUME JoinBounds ==
    /\ WjExpected \in Nat \ {0} /\ WjTarget \in Nat \ {0} /\ WjRequired # {}
    /\ WjSource \in Seq(Seq([group : WjGroups, branch : WjBranches]) \ {<<>>})

JoinBatches == 1..Len(WjSource)
Members(b) == {<<b, i>> : i \in 1..Len(WjSource[b])}
Slots == UNION {Members(b) : b \in JoinBatches}
Member(slot) == WjSource[slot[1]][slot[2]]

VARIABLES
    wjConf,         \* the configuration and the source's kind
    wjRead,         \* batches the source has given out
    wjTaken,        \* the batch inside the pending receive, 0 for none
    wjPending,      \* JoinState.pending: the slots of each group, none if it is not open,
    wjStarted,      \*   and the batch that started it
    wjReady,        \* JoinState.ready_buffer: the slots of each joined message
    wjCall,         \* what the receive_batch call is doing
    wjClosing,      \* groups it has yet to close
    wjNew,          \* slots it has yet to admit
    wjDiscarding,   \* slots of the groups it discards
    wjBase,         \* AckTracker.base
    wjNext,         \* base + batches.len(), which the next batch is registered under
    wjDisp,         \* InnerBatch.dispositions
    wjLeft,         \* InnerBatch.remaining
    wjHeld,         \* batches whose InnerBatch.commit is there
    wjOut,          \* deliveries handed to the route and not settled: numbered sets of joins
    wjGiven,        \* how many there have been
    wjFate,         \* what became of each slot
    wjAcks,         \* what the source was told of each slot
    wjRan,          \* batches whose commit has been run
    wjEnd           \* how the run ended

wjGroup == <<wjPending, wjStarted, wjReady>>
wjCollect == <<wjCall, wjClosing, wjNew, wjDiscarding>>
wjTracker == <<wjBase, wjNext, wjDisp, wjLeft, wjHeld>>
wjRoute == <<wjOut, wjGiven, wjFate>>
wjTold == <<wjAcks, wjRan>>
wjVars == <<wjConf, wjRead, wjTaken, wjGroup, wjCollect, wjTracker, wjRoute, wjTold, wjEnd>>

WjInit ==
    /\ wjConf \in [branches : BOOLEAN,  \* branch_by is set
                   required : BOOLEAN,  \* required is not empty
                   onJoin : BOOLEAN,    \* ack: on_join, else on_receive
                   ordered : BOOLEAN,   \* commit_requires_order of the source
                   discard : BOOLEAN,   \* on_timeout: discard
                   drain : BOOLEAN]     \* exit_on_empty
    /\ wjRead = 0 /\ wjTaken = 0
    /\ wjPending = [k \in WjGroups |-> {}] /\ wjStarted = [k \in WjGroups |-> 0]
    /\ wjReady = <<>>
    /\ wjCall = "idle" /\ wjClosing = {} /\ wjNew = {} /\ wjDiscarding = {}
    /\ wjBase = 1 /\ wjNext = 1
    /\ wjDisp = [s \in Slots |-> "ack"]
    /\ wjLeft = [b \in JoinBatches |-> 0]
    /\ wjHeld = {}
    /\ wjOut = {} /\ wjGiven = 0
    /\ wjFate = [s \in Slots |-> "open"]
    /\ wjAcks = [s \in Slots |-> "none"]
    /\ wjRan = {}
    /\ wjEnd = "running"

-----------------------------------------------------------------------------
(* The tracker *)

Tracked == wjBase..(wjNext - 1)

\* register: a batch waits until none of its members is left.
RegisterBatch(b) ==
    /\ wjNext' = wjNext + 1
    /\ wjLeft' = [wjLeft EXCEPT ![b] = Cardinality(Members(b))]
    /\ wjHeld' = wjHeld \cup {b}
    /\ UNCHANGED <<wjBase, wjDisp>>

Settling(fates, b) == {s \in DOMAIN fates : s[1] = b}

\* Mutated: a batch is told of one member for each message it went into.
LeftByMessage(fates) ==
    [b \in JoinBatches |->
        IF b \in Tracked /\ Settling(fates, b) # {} THEN 0 ELSE wjLeft[b]]

\* settle, for every slot with a fate: what is left of a batch.
LeftAfter(fates) ==
    [b \in JoinBatches |->
        IF b \in Tracked THEN wjLeft[b] - Cardinality(Settling(fates, b)) ELSE wjLeft[b]]

DispAfter(fates) ==
    [s \in Slots |-> IF s \in DOMAIN fates /\ s[1] \in Tracked THEN fates[s] ELSE wjDisp[s]]

\* pop_due: the tracked batches up to last are settled, and the one behind is not.
SettledUpTo(left, last) ==
    /\ \A b \in wjBase..last : left[b] = 0
    /\ last + 1 < wjNext => left[last + 1] # 0

\* The commits of due are run with what was collected; those in failing return an error.
RunCommits(disp, due, failing) ==
    /\ wjAcks' = [s \in Slots |-> IF s[1] \in due \ failing THEN disp[s] ELSE wjAcks[s]]
    /\ wjRan' = wjRan \cup due
    /\ wjHeld' = wjHeld \ due
    /\ wjEnd' = IF failing # {} THEN "failed" ELSE wjEnd

\* An ordered source's commits run in order and stop behind the first that fails, whose
\* batch is gone; the ones behind stay tracked.
CommitInOrder(disp, last) ==
    \/ /\ RunCommits(disp, wjBase..last, {})
       /\ wjBase' = last + 1
    \/ \E b \in wjBase..last :
            /\ RunCommits(disp, wjBase..b, {b})
            /\ wjBase' = b + 1

\* Any other source's commits run as soon as their batch is settled, all of them.
CommitAsSettled(left, disp, last) ==
    LET due == {b \in Tracked : left[b] = 0} \cap wjHeld
    IN  /\ \E failing \in SUBSET due : RunCommits(disp, due, failing)
        /\ wjBase' = last + 1

\* settle_and_commit, under the tracker's lock.
SettleAndCommit(fates) ==
    /\ wjLeft' = LeftAfter(fates)
    /\ wjDisp' = DispAfter(fates)
    /\ wjNext' = wjNext
    /\ \E last \in (wjBase - 1)..(wjNext - 1) :
            /\ SettledUpTo(wjLeft', last)
            /\ IF wjConf.ordered THEN CommitInOrder(wjDisp', last)
                                 ELSE CommitAsSettled(wjLeft', wjDisp', last)

-----------------------------------------------------------------------------
(* receive_batch *)

\* is_complete: enough messages, or the required branches, or enough distinct ones.  A
\* message without the branch field counts for none.
Complete(slots) ==
    LET seen == {Member(s).branch : s \in slots} \ {"none"}
    IN  IF ~wjConf.branches THEN Cardinality(slots) >= WjExpected
        ELSE IF wjConf.required THEN WjRequired \subseteq seen
        ELSE Cardinality(seen) >= WjExpected

OpenGroups == {k \in WjGroups : wjPending[k] # {}}

\* check_timeouts: groups that are as old as one that has run out of time have too.
Expirable(groups) ==
    /\ groups \subseteq OpenGroups
    /\ \A k \in groups, j \in OpenGroups : wjStarted[j] <= wjStarted[k] => j \in groups

Joining == wjEnd = "running" /\ wjCall = "idle"

\* The source's receive gets hold of a batch; it is kept between calls of receive_batch.
InnerReads ==
    /\ wjEnd = "running"
    /\ wjTaken = 0
    /\ wjRead < Len(WjSource)
    /\ wjRead' = wjRead + 1
    /\ wjTaken' = wjRead + 1
    /\ UNCHANGED <<wjConf, wjGroup, wjCollect, wjTracker, wjRoute, wjTold, wjEnd>>

\* The groups that have run out of time are closed before what is new is admitted.
Collect(groups, new) ==
    /\ Expirable(groups)
    /\ wjClosing' = groups
    /\ wjNew' = new
    /\ wjCall' = "collecting"
    /\ UNCHANGED wjDiscarding

\* The source gives a batch: its commit is tracked, or run at once, which may fail.
ReceiveBatch ==
    /\ Joining /\ wjReady = <<>> /\ wjTaken # 0
    /\ wjTaken' = 0
    /\ \/ /\ \E groups \in SUBSET WjGroups : Collect(groups, Members(wjTaken))
          /\ IF wjConf.onJoin
               THEN RegisterBatch(wjTaken) /\ UNCHANGED wjTold
               ELSE /\ wjAcks' = [s \in Slots |-> IF s[1] = wjTaken THEN "ack" ELSE wjAcks[s]]
                    /\ wjRan' = wjRan \cup {wjTaken}
                    /\ UNCHANGED wjTracker
          /\ wjEnd' = wjEnd
       \/ /\ ~wjConf.onJoin
          /\ wjRan' = wjRan \cup {wjTaken}
          /\ wjEnd' = "failed"
          /\ UNCHANGED <<wjCollect, wjTracker, wjAcks>>
    /\ UNCHANGED <<wjConf, wjRead, wjGroup, wjRoute>>

\* The source has nothing; once it is drained every group is closed.
ReceiveEmpty ==
    /\ Joining /\ wjReady = <<>> /\ wjTaken = 0
    /\ wjConf.drain => wjRead = Len(WjSource)
    /\ \E groups \in SUBSET WjGroups :
            /\ wjConf.drain => groups = OpenGroups
            /\ Collect(groups, {})
    /\ UNCHANGED <<wjConf, wjRead, wjTaken, wjGroup, wjTracker, wjRoute, wjTold, wjEnd>>

\* A group's time is over before the source has anything; without a group, an hour is.
ReceiveTimeout ==
    /\ Joining /\ wjReady = <<>>
    /\ \E groups \in SUBSET WjGroups :
            /\ groups = {} => OpenGroups = {}
            /\ Collect(groups, {})
    /\ UNCHANGED <<wjConf, wjRead, wjTaken, wjGroup, wjTracker, wjRoute, wjTold, wjEnd>>

\* The source fails, and the route with it.
JoinSourceFails ==
    /\ Joining /\ wjReady = <<>>
    /\ wjEnd' = "failed"
    /\ wjTaken' = 0
    /\ UNCHANGED <<wjConf, wjRead, wjGroup, wjCollect, wjTracker, wjRoute, wjTold>>

\* close_group, in no particular order: joined as it is, or discarded.
CloseGroup(k) ==
    /\ wjCall = "collecting" /\ k \in wjClosing
    /\ wjClosing' = wjClosing \ {k}
    /\ wjPending' = [wjPending EXCEPT ![k] = {}]
    /\ IF wjConf.discard
         THEN wjDiscarding' = wjDiscarding \cup wjPending[k] /\ wjReady' = wjReady
         ELSE wjReady' = Append(wjReady, wjPending[k]) /\ wjDiscarding' = wjDiscarding
    /\ UNCHANGED <<wjConf, wjRead, wjTaken, wjStarted, wjCall, wjNew, wjTracker, wjRoute, wjTold, wjEnd>>

\* One message is added to its group, which is closed when that completes it.
Admit(s) ==
    LET k     == Member(s).group
        slots == wjPending[k] \cup {s}
    IN  /\ wjCall = "collecting" /\ wjClosing = {}
        /\ s \in wjNew /\ \A r \in wjNew : s[2] <= r[2]
        /\ wjNew' = wjNew \ {s}
        /\ wjStarted' = [wjStarted EXCEPT ![k] = IF wjPending[k] = {} THEN s[1] ELSE @]
        /\ IF Complete(slots)
             THEN /\ wjPending' = [wjPending EXCEPT ![k] = {}]
                  /\ wjReady' = Append(wjReady, slots)
             ELSE /\ wjPending' = [wjPending EXCEPT ![k] = slots]
                  /\ wjReady' = wjReady
        /\ UNCHANGED <<wjConf, wjRead, wjTaken, wjCall, wjClosing, wjDiscarding, wjTracker, wjRoute,
                       wjTold, wjEnd>>

\* ack_discarded: joined messages stay in the buffer until it has succeeded.
AckDiscarded ==
    /\ wjCall = "collecting" /\ wjClosing = {} /\ wjNew = {}
    /\ wjDiscarding' = {}
    /\ wjFate' = [s \in Slots |-> IF s \in wjDiscarding THEN "dropped" ELSE wjFate[s]]
    /\ IF wjConf.onJoin /\ wjDiscarding # {}
         THEN SettleAndCommit([s \in wjDiscarding |-> "ack"])
         ELSE UNCHANGED <<wjTracker, wjTold, wjEnd>>
    /\ wjCall' = IF wjEnd' = "failed" THEN "idle" ELSE "taking"
    /\ UNCHANGED <<wjConf, wjRead, wjTaken, wjGroup, wjClosing, wjNew, wjOut, wjGiven>>

Count == IF Len(wjReady) <= WjTarget THEN Len(wjReady) ELSE WjTarget

\* take_ready: up to max_messages joined messages, at once if some are left from an earlier
\* call.  A draining route takes an empty batch for the end.
TakeReady ==
    /\ wjCall = "taking" \/ (Joining /\ wjReady # <<>>)
    /\ wjCall' = "idle"
    /\ wjReady' = SubSeq(wjReady, Count + 1, Len(wjReady))
    /\ IF Count = 0
         THEN /\ wjEnd' = IF wjConf.drain /\ wjEnd = "running" THEN "drained" ELSE wjEnd
              /\ UNCHANGED <<wjOut, wjGiven>>
         ELSE /\ wjOut' = wjOut \cup {[no |-> wjGiven, joins |-> {wjReady[m] : m \in 1..Count}]}
              /\ wjGiven' = wjGiven + 1
              /\ wjEnd' = wjEnd
    /\ UNCHANGED <<wjConf, wjRead, wjTaken, wjPending, wjStarted, wjClosing, wjNew, wjDiscarding,
                   wjTracker, wjFate, wjTold>>

\* Every member has the fate of the message it was joined into.
Fates(joins, fates) ==
    [s \in UNION joins |-> fates[CHOOSE j \in joins : s \in j]]

\* The route settles a delivery, the oldest first if the source needs that.
JoinCommit(d) ==
    /\ wjConf.ordered => \A e \in wjOut : d.no <= e.no
    /\ \E fates \in [d.joins -> {"ack", "nack"}] :
            /\ wjFate' = [s \in Slots |->
                            IF s \in UNION d.joins THEN Fates(d.joins, fates)[s] ELSE wjFate[s]]
            /\ IF wjConf.onJoin THEN SettleAndCommit(Fates(d.joins, fates))
                                ELSE UNCHANGED <<wjTracker, wjTold, wjEnd>>
    /\ wjOut' = wjOut \ {d}
    /\ UNCHANGED <<wjConf, wjRead, wjTaken, wjGroup, wjCollect, wjGiven>>

WjNext ==
    \/ InnerReads \/ ReceiveBatch \/ ReceiveEmpty \/ ReceiveTimeout \/ JoinSourceFails
    \/ \E k \in WjGroups : CloseGroup(k)
    \/ \E s \in wjNew : Admit(s)
    \/ AckDiscarded \/ TakeReady
    \/ \E d \in wjOut : JoinCommit(d)

WjSpec == WjInit /\ [][WjNext]_wjVars

-----------------------------------------------------------------------------
(* Properties *)

\* The types of the variables.  A batch is tracked under its own number.
WjTypeOK ==
    /\ wjRead \in 0..Len(WjSource) /\ wjTaken \in 0..wjRead
    /\ wjCall \in {"idle", "collecting", "taking"}
    /\ wjEnd \in {"running", "drained", "failed"}
    /\ wjLeft \in [JoinBatches -> Nat]
    /\ wjConf.onJoin /\ wjTaken # 0 => wjNext = wjTaken

InPending(s) == \E k \in WjGroups : s \in wjPending[k]
InReady(s) == \E m \in DOMAIN wjReady : s \in wjReady[m]
InOut(s) == \E d \in wjOut : \E j \in d.joins : s \in j

\* A member's message is acknowledged to the source as the message it was joined into was
\* settled, and only when all members of its batch are: none is acknowledged that waits in
\* a group, in the ready buffer or with the route, whatever batches the joins span.
MembersAckedByJoin ==
    wjConf.onJoin =>
        \A s \in Slots : wjAcks[s] # "none" =>
            wjAcks[s] = IF wjFate[s] = "dropped" THEN "ack" ELSE wjFate[s]

\* No message goes missing between the source and the route: whatever a source batch
\* brought is buffered, ready, with the route or settled, until the run fails.
EveryMemberKept ==
    wjEnd # "failed" =>
        \A s \in Slots : s[1] <= wjRead =>
            \/ wjTaken = s[1] \/ s \in wjNew \/ InPending(s) \/ s \in wjDiscarding \/ InReady(s)
            \/ InOut(s) \/ wjFate[s] # "open"

\* An ordered source's commits run in the order of its batches, with none left out.
JoinCommitsInOrder == wjConf.ordered => \A b \in wjRan : 1..b \subseteq wjRan

\* A settled batch is not forgotten: once no member of a batch is open its commit has run,
\* or an earlier one of an ordered source has yet to.
SettledCommitRuns ==
    wjConf.onJoin /\ wjEnd # "failed" =>
        \A b \in 1..wjRead : (\A s \in Members(b) : wjFate[s] # "open") =>
            \/ b \in wjRan
            \/ wjConf.ordered /\ \E a \in 1..(b - 1) : a \notin wjRan

\* No complete group waits for its time to run out.
GroupsCloseWhenComplete == \A k \in OpenGroups : ~Complete(wjPending[k])

\* What the weak join keeps true between a source and the route.
WeakJoinInv ==
    WjTypeOK /\ MembersAckedByJoin /\ EveryMemberKept /\ JoinCommitsInOrder /\ SettledCommitRuns
    /\ GroupsCloseWhenComplete

\* As the drain flag's comment has it, "we must flush buffered pending groups before exposing
\* an empty batch, so exit only happens once every group is drained".
DrainFlushesGroups == wjEnd = "drained" => \A k \in WjGroups : wjPending[k] = {}
-----------------------------------------------------------------------------
(* The inductive invariant *)

InLoose(s) == s \in wjNew \/ InPending(s) \/ s \in wjDiscarding

JoinTypes ==
    /\ wjConf \in [branches : BOOLEAN, required : BOOLEAN, onJoin : BOOLEAN, ordered : BOOLEAN,
                   discard : BOOLEAN, drain : BOOLEAN]
    /\ wjPending \in [WjGroups -> SUBSET Slots] /\ wjReady \in Seq(SUBSET Slots)
    /\ wjNew \subseteq Slots /\ wjDiscarding \subseteq Slots /\ wjClosing \subseteq WjGroups
    /\ wjCall \in {"idle", "collecting", "taking"}
    /\ wjCall # "collecting" => wjNew = {} /\ wjDiscarding = {} /\ wjClosing = {}
    /\ \A d \in wjOut : d.joins \subseteq SUBSET Slots

TrackerTypes ==
    /\ wjBase \in Nat \ {0} /\ wjNext \in Nat /\ wjBase <= wjNext
    /\ wjDisp \in [Slots -> {"ack", "nack"}]
    /\ wjLeft \in [JoinBatches -> Nat]
    /\ wjFate \in [Slots -> {"open", "ack", "nack", "dropped"}]
    /\ wjAcks \in [Slots -> {"none", "ack", "nack"}]
    /\ wjEnd \in {"running", "drained", "failed"}

\* The batch inside the pending receive is the last one read, and the next to be tracked.
ReceiveInv ==
    /\ wjRead \in 0..Len(WjSource) /\ wjTaken \in {0, wjRead}
    /\ wjConf.onJoin =>
        /\ wjNext <= wjRead + 1
        /\ wjTaken # 0 => wjNext = wjTaken
        /\ wjTaken = 0 /\ wjEnd # "failed" => wjNext = wjRead + 1

\* What waits somewhere has come, is open, and is tracked if that is asked for; and what
\* has not come is open.
OpenInv ==
    \A s \in Slots :
        /\ InLoose(s) \/ InReady(s) \/ InOut(s) =>
            /\ wjFate[s] = "open" /\ s[1] <= wjRead /\ s[1] # wjTaken
            /\ wjConf.onJoin => s[1] < wjNext
        /\ s[1] > wjRead \/ s[1] = wjTaken => wjFate[s] = "open"

\* A message waits in one place.
OnePlaceInv ==
    /\ \A k \in WjGroups : \A s \in wjPending[k] :
            Member(s).group = k /\ s \notin wjNew /\ s \notin wjDiscarding
    /\ wjNew \cap wjDiscarding = {}
    /\ \A s \in Slots : InLoose(s) => ~InReady(s) /\ ~InOut(s)
    /\ \A s \in Slots : ~(InReady(s) /\ InOut(s))
    /\ \A m, n \in DOMAIN wjReady : m # n => wjReady[m] \cap wjReady[n] = {}
    /\ \A d, e \in wjOut : d # e => (UNION d.joins) \cap (UNION e.joins) = {}

Told(fate) == IF fate = "dropped" THEN "ack" ELSE fate
OpenOf(b) == {s \in Members(b) : wjFate[s] = "open"}

\* The tracker counts the open members of a batch, and remembers how the others were settled.
TrackInv ==
    wjConf.onJoin =>
        /\ \A b \in Tracked : wjLeft[b] = Cardinality(OpenOf(b))
        /\ \A s \in Slots :
            /\ s[1] < wjBase => wjFate[s] # "open"
            /\ s[1] \in Tracked /\ wjFate[s] # "open" => wjDisp[s] = Told(wjFate[s])
            /\ wjAcks[s] # "none" => wjFate[s] # "open" /\ wjAcks[s] = Told(wjFate[s])

\* The commits that have been run: all before the tracked ones, those a batch no longer
\* holds, or all that were received.
RanInv ==
    /\ wjConf.onJoin /\ wjConf.ordered =>
        /\ wjRan = 1..(wjBase - 1)
        /\ wjEnd # "failed" /\ wjBase < wjNext => wjLeft[wjBase] # 0
    /\ wjConf.onJoin /\ ~wjConf.ordered =>
        /\ wjRan = {b \in 1..(wjNext - 1) : b \notin wjHeld}
        /\ wjHeld \subseteq {b \in Tracked : wjLeft[b] # 0}
    /\ ~wjConf.onJoin =>
        /\ \A b \in wjRan : 1..b \subseteq wjRan
        /\ wjEnd # "failed" => wjRan = 1..(IF wjTaken # 0 THEN wjRead - 1 ELSE wjRead)

WjInv ==
    /\ JoinTypes /\ TrackerTypes /\ ReceiveInv /\ OpenInv /\ OnePlaceInv /\ TrackInv /\ RanInv
    /\ EveryMemberKept /\ GroupsCloseWhenComplete
=============================================================================
