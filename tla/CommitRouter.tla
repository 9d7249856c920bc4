----------------------------- MODULE CommitRouter -----------------------------
(***************************************************************************)
(* The commit side of a route, whatever runner drives it: the permits that *)
(* bound the batches in flight, the dispositions a send's outcome turns    *)
(* into, the flush gate and the sequencer.  RouterSpec is the abstract     *)
(* specification of a runner: it reads batches under permits, sends them   *)
(* in any order with any outcome, calls or drops each commit closure, and  *)
(* may wind down or fail at any time.  The two runners implement it.       *)
(***************************************************************************)
EXTENDS FlushGate

CONSTANTS Sending,      \* batches the runner can hold before their commit is queued
          HasRetry,     \* the output has a retry middleware
          HasDlq,       \* the output has a DLQ middleware
          Policy,       \* TransientPublishFailurePolicy of the input
          Outcomes      \* outcomes of send_batch that are explored

Results == {"ok", "reply", "transient", "permanent"}

(***************************************************************************)
(* An outcome of send_batch is its variant and the set of what happened to *)
(* the batch's messages: Ok(Ack), Ok(Partial) with accepted, answered and  *)
(* failed messages, or Err with one error for the whole batch.             *)
(***************************************************************************)
AllOutcomes ==
    {[kind |-> "Ack", results |-> {"ok"}]}
      \cup [kind : {"Partial"}, results : (SUBSET Results) \ {{}}]
      \cup [kind : {"Err"}, results : {{"transient"}, {"permanent"}}]

Unsent == [kind |-> "Unsent", results |-> {}]

ASSUME SendingAssumption == Sending \in Nat \ {0}
ASSUME MiddlewareAssumption == HasRetry \in BOOLEAN /\ HasDlq \in BOOLEAN
ASSUME OutcomesAssumption == Outcomes \subseteq AllOutcomes
\* Only an HTTP input answers with 502, and its commits are unordered.
ASSUME PolicyAssumption ==
    /\ Policy \in {"StopRoute", "ReplyBadGateway"}
    /\ Policy = "ReplyBadGateway" => ~Ordered

\* CommitRouter::new: the permits of the read or of the dispatch semaphore.
Capacity == IF Ordered THEN CommitLimit + Sending ELSE CommitLimit

\* CommitRouter::flush_gate: the gate flushes once half the commit slots are held.
ASSUME MaxHeldIsHalf == MaxHeld = IF Capacity < 2 THEN 1 ELSE Capacity \div 2

VARIABLES
    outcome,    \* [Batches -> AllOutcomes \cup {Unsent}], set when send_batch returns
    readPc,     \* receive_with_permit: "idle", "starved" or "recv"
    readPermit, \* the reader holds a permit no batch has taken yet
    readSeq,    \* batches read so far: the sequence number of the next one
    tasks       \* batches whose commit runs in a spawned task

routerVars == <<outcome, readPc, readPermit, readSeq, tasks>>
vars == <<csVars, gateVars, routerVars>>

RouterInit ==
    /\ SeqInit
    /\ GateInit
    /\ outcome = [s \in Batches |-> Unsent]
    /\ readPc = "idle"
    /\ readPermit = FALSE
    /\ readSeq = 0
    /\ tasks = {}

-----------------------------------------------------------------------------
Settled(o) == o # Unsent

\* map_responses_to_dispositions, then apply_server_failure_policy where a transient
\* failure takes that path.
DispositionOf(r) ==
    CASE r = "ok" -> "Ack"
      [] r = "reply" -> "Reply"
      [] r = "transient" -> "Nack"
      [] r = "permanent" -> IF HasDlq THEN "Nack" ELSE "Ack"

ApplyPolicy(d) == IF Policy = "ReplyBadGateway" /\ d = "Nack" THEN "Reply" ELSE d

DispositionsOf(o) ==
    IF "transient" \in o.results
      THEN {ApplyPolicy(DispositionOf(r)) : r \in o.results}
      ELSE {DispositionOf(r) : r \in o.results}

\* A failed send commits before send_batch_and_commit returns; any other in a task.
CommitsInline(o) == o.kind = "Err" \/ "transient" \in o.results

\* What send_batch_and_commit returns once an inline commit has resolved with res.
InlineFails(o, res) ==
    \/ /\ Policy = "StopRoute" /\ "transient" \in o.results
       /\ o.kind = "Partial" => ~HasRetry
    \/ o.results = {"permanent"} /\ o.kind = "Err" /\ (HasDlq \/ res # "ok")
    \/ Policy # "StopRoute" /\ "transient" \in o.results /\ o.kind = "Err" /\ res # "ok"

-----------------------------------------------------------------------------
(***************************************************************************)
(* Permits.  An ordered batch holds one from its read until its commit     *)
(* returned; an unordered one only while its commit task runs.             *)
(***************************************************************************)
InFlight == {s \in Batches : stage[s] \notin {"unread", "done", "gone"}}

Permits == Capacity - Cardinality(IF Ordered THEN InFlight ELSE InFlight \cap tasks)
             - (IF readPermit THEN 1 ELSE 0)

\* Mutated: the gate does not look at the reader's permits.
ReaderNeverStarved == FALSE

\* GateTask::reader_starved: an unordered router gives the gate no permits to look at.
ReaderStarved == Ordered /\ Permits = 0

\* receive_with_permit, up to the call of receive_batch.  Without a permit it nudges the gate.
BeginRead ==
    /\ readPc = "idle"
    /\ IF ~Ordered \/ readPermit \/ Permits > 0
         THEN readPc' = "recv" /\ readPermit' = Ordered /\ gateQ' = gateQ
         ELSE readPc' = "starved" /\ readPermit' = FALSE /\ Tell("Nudge")
    /\ UNCHANGED <<csVars, gateTaskVars, accepted, errQueued, outcome, readSeq, tasks>>

GetPermit ==
    /\ readPc = "starved"
    /\ Permits > 0
    /\ readPc' = "recv"
    /\ readPermit' = TRUE
    /\ UNCHANGED <<csVars, gateVars, outcome, readSeq, tasks>>

\* receive_batch returned a batch; the permit moves into its commit closure.
ReadBatch ==
    /\ readPc = "recv"
    /\ ~latch
    /\ readSeq \in Batches
    /\ stage' = [stage EXCEPT ![readSeq] = "work"]
    /\ readSeq' = readSeq + 1
    /\ readPc' = "idle"
    /\ readPermit' = FALSE
    /\ UNCHANGED <<disps, chan, buffer, nextSeq, seqOpen, routerUp, seqDone, srcVars,
                   gateVars, outcome, tasks>>

\* receive_batch returned an empty batch: the permit is kept and the gate nudged.
ReadEmpty ==
    /\ readPc = "recv"
    /\ ~latch
    /\ readPc' = "idle"
    /\ Tell("Nudge")
    /\ UNCHANGED <<csVars, gateTaskVars, accepted, errQueued, outcome, readPermit, readSeq, tasks>>

-----------------------------------------------------------------------------
\* send_batch of batch s returned o.
SendReturns(s, o) ==
    /\ stage[s] = "work"
    /\ outcome[s] = Unsent
    /\ outcome' = [outcome EXCEPT ![s] = o]
    /\ accepted' = IF o.results \cap {"ok", "reply"} # {} THEN accepted \cup {s} ELSE accepted
    /\ UNCHANGED <<csVars, gateQ, gateTaskVars, errQueued, readPc, readPermit, readSeq, tasks>>

\* Mutated: an unordered commit task starts without a dispatch permit.
SpawnCommitUnbounded(s) ==
    /\ stage[s] = "work"
    /\ Settled(outcome[s])
    /\ ~CommitsInline(outcome[s])
    /\ s \notin tasks
    /\ tasks' = tasks \cup {s}
    /\ UNCHANGED <<csVars, gateVars, outcome, readPc, readPermit, readSeq>>

\* Spawning the commit task of an accepted batch; unordered, it first takes a permit.
SpawnCommit(s) ==
    /\ stage[s] = "work"
    /\ Settled(outcome[s])
    /\ ~CommitsInline(outcome[s])
    /\ s \notin tasks
    /\ Ordered \/ Permits > 0
    /\ tasks' = tasks \cup {s}
    /\ UNCHANGED <<csVars, gateVars, outcome, readPc, readPermit, readSeq>>

\* The commit closure of a sent batch is called with the dispositions of its outcome.
CallCommit(s) ==
    /\ stage[s] = "work"
    /\ Settled(outcome[s])
    /\ CommitsInline(outcome[s]) \/ s \in tasks
    /\ HoldCommit(s, DispositionsOf(outcome[s]))
    /\ UNCHANGED <<chan, buffer, nextSeq, seqOpen, routerUp, seqDone, srcVars,
                   gateTaskVars, accepted, errQueued, routerVars>>

\* A batch that is never sent is nacked.
NackUnsent(s) ==
    /\ stage[s] = "work"
    /\ outcome[s] = Unsent
    /\ HoldCommit(s, {"Nack"})
    /\ UNCHANGED <<chan, buffer, nextSeq, seqOpen, routerUp, seqDone, srcVars,
                   gateTaskVars, accepted, errQueued, routerVars>>

\* An unordered commit needs no wrapping: it runs at the source at once.  The source settles
\* each message on its own, so the position is not moved.
CommitDirect(s) ==
    /\ ~Ordered
    /\ stage[s] = "ready"
    /\ \E res \in {"ok", "err"} :
          (res = "err" => Disturbed) /\ stage' = [stage EXCEPT ![s] = res]
    /\ ran' = ran \cup {s}
    /\ UNCHANGED <<disps, chan, buffer, nextSeq, seqOpen, routerUp, seqDone,
                   position, latch, gateVars, routerVars>>

\* Mutated: a failed commit task goes unreported.
CommitReturnsSilently(s, report) ==
    /\ stage[s] \in Resolved
    /\ stage' = [stage EXCEPT ![s] = "done"]
    /\ IF report THEN ReportRouteError ELSE errQueued' = errQueued
    /\ UNCHANGED <<disps, chan, buffer, nextSeq, seqOpen, routerUp, seqDone, srcVars,
                   gateQ, gateTaskVars, accepted, routerVars>>

\* The caller of the commit sees its result and lets go of the permit.  A commit task
\* reports a failure unless the gate already did; report is the inline caller's choice.
CommitReturns(s, report) ==
    /\ stage[s] \in Resolved
    /\ stage' = [stage EXCEPT ![s] = "done"]
    /\ IF (s \in tasks /\ stage[s] = "err") \/ report
         THEN ReportRouteError
         ELSE errQueued' = errQueued
    /\ UNCHANGED <<disps, chan, buffer, nextSeq, seqOpen, routerUp, seqDone, srcVars,
                   gateQ, gateTaskVars, accepted, routerVars>>

-----------------------------------------------------------------------------
(***************************************************************************)
(* What a runner does around the batches: it stops reading (taking a       *)
(* reported error along), tells the gate that it winds down or fails,      *)
(* closes the sequencer behind a gap, loses commits with a panicked send,  *)
(* and shuts the gate and then the router down.                            *)
(***************************************************************************)
StopReading(takeErr) ==
    /\ readPc' = "idle"
    /\ errQueued' = (errQueued /\ ~takeErr)
    /\ UNCHANGED <<csVars, gateQ, gateTaskVars, accepted, outcome, readPermit, readSeq, tasks>>

WindDown(e, gap) ==
    /\ Tell(e)
    /\ CloseForGap(gap)
    /\ UNCHANGED <<stage, disps, chan, buffer, nextSeq, routerUp, seqDone, srcVars,
                   gateTaskVars, accepted, errQueued, routerVars>>

\* CommitRouter::abandon on its own.
AbandonSequence ==
    /\ CloseForGap(TRUE)
    /\ UNCHANGED <<stage, disps, chan, buffer, nextSeq, routerUp, seqDone, srcVars,
                   gateVars, routerVars>>

\* A panicked send drops its batch; the commit tasks it aborts go when they are next polled.
DropCommits(S) ==
    /\ stage' = [s \in Batches |->
                   IF s \in S /\ stage[s] \notin {"unread", "done"} THEN "gone" ELSE stage[s]]
    /\ UNCHANGED <<disps, chan, buffer, nextSeq, seqOpen, routerUp, seqDone, srcVars,
                   gateVars, routerVars>>

\* FlushGate::shutdown, up to the await of the task.
ShutdownGate ==
    /\ Tell("Shutdown")
    /\ UNCHANGED <<csVars, gateTaskVars, accepted, errQueued, routerVars>>

\* CommitRouter::shutdown, up to the await of the sequencer.
ShutdownRouter ==
    /\ gatePc = "end"
    /\ routerUp' = FALSE
    /\ UNCHANGED <<stage, disps, chan, buffer, nextSeq, seqOpen, seqDone, srcVars,
                   gateVars, routerVars>>

Sequencer == SequencerStep /\ UNCHANGED <<gateVars, routerVars>>
Gate == (GateRecv(ReaderStarved) \/ FlushOk \/ FlushErr) /\ UNCHANGED routerVars
Timer == GateTimer /\ UNCHANGED routerVars
Handover(s) == \/ Ordered /\ SubmitStep(s) /\ UNCHANGED <<gateVars, routerVars>>
               \/ CommitDirect(s)
Reader == BeginRead \/ GetPermit \/ ReadBatch \/ ReadEmpty
Runner(s) ==
    \/ \E o \in Outcomes : SendReturns(s, o)
    \/ SpawnCommit(s)
    \/ CallCommit(s)
    \/ NackUnsent(s)
    \/ \E report \in BOOLEAN : CommitReturns(s, report)
WindingDown ==
    \/ \E takeErr \in BOOLEAN : StopReading(takeErr)
    \/ \E e \in {"Close", "Abandon"}, gap \in BOOLEAN : WindDown(e, gap)
    \/ AbandonSequence
    \/ \E S \in SUBSET Batches : DropCommits(S)
    \/ ShutdownGate
    \/ ShutdownRouter

RouterNext ==
    \/ Sequencer \/ Gate \/ Timer
    \/ Reader
    \/ \E s \in Batches : Handover(s) \/ Runner(s)
    \/ WindingDown

RouterSpec == RouterInit /\ [][RouterNext]_vars

-----------------------------------------------------------------------------
GateEvents ==
    [ev : {"Hold"}, batch : Batches, urgent : BOOLEAN]
      \cup [ev : {"Nudge", "Close", "Abandon", "Shutdown"}]

DataTypeOK ==
    /\ stage \in [Batches -> Stages]
    /\ disps \in [Batches -> SUBSET Dispositions]
    /\ chan \in Seq(Batches)
    /\ buffer \subseteq Batches
    /\ nextSeq \in 0 .. NumBatches
    /\ position \in 0 .. NumBatches
    /\ ran \subseteq Batches
    /\ gateQ \in Seq(GateEvents)
    /\ gatePc \in {"run", "flush", "lastFlush", "end"}
    /\ held \subseteq Batches /\ flushing \subseteq Batches
    /\ snap \subseteq Batches /\ durable \subseteq Batches /\ accepted \subseteq Batches
    /\ outcome \in [Batches -> AllOutcomes \cup {Unsent}]
    /\ readPc \in {"idle", "starved", "recv"}
    /\ readSeq \in 0 .. NumBatches
    /\ tasks \subseteq Batches

FlagTypeOK ==
    /\ seqOpen \in BOOLEAN /\ routerUp \in BOOLEAN /\ seqDone \in BOOLEAN
    /\ latch \in BOOLEAN
    /\ closing \in BOOLEAN /\ failed \in BOOLEAN
    /\ errQueued \in BOOLEAN
    /\ readPermit \in BOOLEAN

\* The types of the commit path's state.
RouterTypeOK == DataTypeOK /\ FlagTypeOK

\* Every message was taken by the sink, or dropped for good because no DLQ could take it.
Clean(s) ==
    /\ outcome[s] # Unsent
    /\ "transient" \notin outcome[s].results
    /\ HasDlq => "permanent" \notin outcome[s].results

\* What the sink took is durable, if the sink defers commits.
Flushed(s) == Gated /\ s \in accepted => s \in durable

\* A batch that needs no redelivery.
Safe(s) == Clean(s) /\ Flushed(s)

\* At-least-once: whatever is sent, nacked, dropped or flushed in whatever order, the source
\* position never passes a batch that still needs redelivery, so a crash loses nothing.
NoLoss == \A s \in Batches : s < position => Safe(s)

\* The source never commits a batch the sink took but has not flushed (FlushGate::hold).
FlushedBeforeCommit == \A s \in ran : Flushed(s)

\* An ordered commit runs only after every earlier one ran: a dropped or refused commit is a
\* gap no later commit crosses (spawn_sequencer, GateTask::fail, CommitRouter::abandon).
NoCommitPastGap == Ordered => \A s \in ran : \A t \in Batches : t < s => t \in ran

\* A task that has ended leaves nobody waiting for its answer: the sequencer's exit notifies
\* what it had buffered, the gate's exit what it held.
NothingStranded ==
    /\ seqDone => \A s \in Batches : stage[s] # "wait"
    /\ gatePc = "end" => \A s \in Batches : stage[s] # "hold"

\* What makes the commit path safe: nothing is lost, committed before its flush or over a
\* gap, or left waiting for an answer.
CommitSafety == NoLoss /\ FlushedBeforeCommit /\ NoCommitPastGap /\ NothingStranded

\* Batches in flight never exceed the permits, and the permits never go negative.
InFlightBound == Permits >= 0

\* The route as the delivery contract sees it.
Contract == INSTANCE Delivery WITH settled <- {s \in Batches : Safe(s)}
DeliveryContract == Contract!Spec

-----------------------------------------------------------------------------
(***************************************************************************)
(* The inductive invariant behind the safety properties.                   *)
(***************************************************************************)
Queued == {chan[i] : i \in DOMAIN chan}
Called(s) == stage[s] \notin {"unread", "work"}
Passed == {s \in Batches : stage[s] = "ready"} \cup buffer \cup Queued

\* A closure is called at most once, after its send, and is known to the gate and the
\* sequencer only from then on.
CallInv ==
    /\ \A s \in Batches : stage[s] = "unread" <=> s >= readSeq
    /\ \A s \in accepted : outcome[s].results \cap {"ok", "reply"} # {}
    /\ \A s \in held \cup flushing \cup buffer \cup Queued \cup ran : Called(s)
    /\ \A i \in DOMAIN gateQ : gateQ[i].ev = "Hold" => Called(gateQ[i].batch)
    /\ \A s \in Batches : stage[s] = "hold" =>
          outcome[s] # Unsent /\ disps[s] = DispositionsOf(outcome[s])

\* A flush covers the batches whose commits it releases, and nothing unflushed gets past it.
GateInv ==
    /\ \A s \in flushing : s \in accepted => s \in snap
    /\ \A s \in Passed \cup ran : Flushed(s)
    /\ gatePc = "end" => \A s \in Batches : stage[s] # "hold"

\* The commits run so far are a prefix, and without a nack every batch in it is settled.
SeqInv ==
    /\ Ordered \/ (chan = <<>> /\ buffer = {})
    /\ Ordered => ran = {s \in Batches : s < nextSeq}
    /\ Ordered => \A s \in Passed : "Nack" \notin disps[s] => Clean(s)
    /\ Ordered /\ ~latch => \A s \in Batches : s < nextSeq => Safe(s)
    /\ position <= nextSeq
    /\ NoLoss

\* A waiting caller's commit is with the sequencer, and an ended sequencer has none.
WaitInv ==
    /\ \A s \in Batches : stage[s] = "wait" => s \in buffer \cup Queued
    /\ seqDone => buffer = {} /\ chan = <<>> /\ ~seqOpen

\* Together they are preserved by every step of every runner.
RouterInv == RouterTypeOK /\ CallInv /\ GateInv /\ SeqInv /\ WaitInv

\* A reader that calls the source holds a permit if batches take one with the read, and only
\* a batch that was read has a commit task.
PermitInv ==
    /\ InFlightBound
    /\ Ordered /\ readPc = "recv" => readPermit
    /\ ~Ordered => ~readPermit /\ readPc # "starved"
    /\ \A s \in tasks : stage[s] # "unread"

\* What the sequencer has was handed over, and the source latches when it runs a commit
\* that nacks.
SettleInv ==
    /\ \A s \in buffer \cup Queued : stage[s] \notin {"unread", "work", "hold", "ready"}
    /\ Ordered => \A s \in ran : "Nack" \in disps[s] => latch

\* Nothing has failed on the commit path, but for commits that failed at the source and
\* whose callers have not looked yet: every commit that ended was run, and unless a nack
\* latched the source or the caller of a failed commit is still to learn of it, the position
\* covers them all.
PathFine ==
    /\ seqOpen
    /\ ~failed
    /\ gatePc \in IF Gated THEN {"run", "flush"} ELSE {"end"}
    /\ \A i \in DOMAIN gateQ : gateQ[i].ev \notin {"Abandon", "Shutdown"}
    /\ \A s \in Batches : stage[s] \notin {"unflushed", "gone"}
    /\ \A s \in Batches : stage[s] \in {"ok", "err", "done"} => s \in ran
    /\ Ordered /\ ~latch => position = nextSeq \/ \E s \in Batches : stage[s] = "err"
=============================================================================
