--------------------------- MODULE CommitSequencer ---------------------------
(***************************************************************************)
(* The ordered commit path of a route: the sequencer task started by       *)
(* spawn_sequencer, the commit closures wrap_commit builds, and the        *)
(* cumulative-ack source (Kafka) whose position those commits move.        *)
(*                                                                         *)
(* A batch is named by its sequence number.  Its commit closure is called  *)
(* once with the dispositions of the batch's messages; the set of the      *)
(* dispositions is kept, which is all the source and the gate look at.     *)
(***************************************************************************)
EXTENDS Naturals, Sequences

CONSTANTS NumBatches,     \* batches the source holds, a bound on one run
          CommitLimit,    \* commit_concurrency_limit, after its max(1)
          Disturbed       \* whether commits, flushes and reads may fail and a stop may be requested

ASSUME NumBatchesAssumption == NumBatches \in Nat
ASSUME CommitLimitAssumption == CommitLimit \in Nat \ {0}
ASSUME DisturbedAssumption == Disturbed \in BOOLEAN

Batches == 0 .. (NumBatches - 1)

\* MessageDisposition, without the payload of a reply.
Dispositions == {"Ack", "Nack", "Reply"}

(***************************************************************************)
(* Where the commit closure of a batch is:                                 *)
(*   unread     not read from the source yet                               *)
(*   work       read; the runner owns the closure and has not called it    *)
(*   hold       waits at the flush gate (see FlushGate)                    *)
(*   ready      about to hand the commit to the sequencer                  *)
(*   wait       handed over; waits for the sequencer's notification        *)
(*   ok         resolved: the commit ran                                   *)
(*   err        resolved: the commit failed or was never run               *)
(*   unflushed  resolved by the gate: never run                            *)
(*   done       the caller has seen the result                             *)
(*   gone       the closure or its future was dropped before it resolved   *)
(***************************************************************************)
Resolved == {"ok", "err", "unflushed"}
Stages == {"unread", "work", "hold", "ready", "wait", "done", "gone"} \cup Resolved

VARIABLES
    stage,      \* [Batches -> Stages]
    disps,      \* [Batches -> SUBSET Dispositions], {} until the commit is called
    chan,       \* the bounded channel seq_tx/seq_rx, in arrival order
    buffer,     \* the sequencer's BTreeMap, as the set of its keys
    nextSeq,    \* next_seq
    seqOpen,    \* the channel is open: neither close()d nor without its receiver
    routerUp,   \* the commit router still holds its sender
    seqDone,    \* the sequencer task has ended
    position,   \* the source's committed position: batches below it are never redelivered
    latch,      \* NackLatch.tripped
    ran         \* history: batches whose source commit was run

seqVars == <<stage, disps, chan, buffer, nextSeq, seqOpen, routerUp, seqDone>>
srcVars == <<position, latch, ran>>
csVars == <<seqVars, srcVars>>

SeqInit ==
    /\ stage = [s \in Batches |-> "unread"]
    /\ disps = [s \in Batches |-> {}]
    /\ chan = <<>>
    /\ buffer = {}
    /\ nextSeq = 0
    /\ seqOpen = TRUE
    /\ routerUp = TRUE
    /\ seqDone = FALSE
    /\ position = 0
    /\ latch = FALSE
    /\ ran = {}

-----------------------------------------------------------------------------
(***************************************************************************)
(* The source.  A nack trips the latch, and a tripped latch keeps every    *)
(* later commit from moving the position; a skipped commit still succeeds. *)
(* An untripped commit may fail at the broker, which leaves the position.  *)
(***************************************************************************)
\* Mutated: without the latch, a commit after a nacked batch moves the position over it.
SourceCommitUnlatched(s, d, res) ==
    /\ ran' = ran \cup {s}
    /\ latch' = latch
    /\ \/ res = "ok" /\ position' = IF "Nack" \in d THEN position ELSE s + 1
       \/ res = "err" /\ position' = position

SourceCommit(s, d, res) ==
    /\ ran' = ran \cup {s}
    /\ latch' = (latch \/ "Nack" \in d)
    /\ IF latch'
         THEN res = "ok" /\ position' = position
         ELSE \/ res = "ok" /\ position' = s + 1
              \/ Disturbed /\ res = "err" /\ position' = position

-----------------------------------------------------------------------------
(***************************************************************************)
(* wrap_commit: hand the commit over, waiting while the channel is full,   *)
(* and fail at once when it is closed.                                     *)
(***************************************************************************)
Submit(s) ==
    /\ stage[s] = "ready"
    /\ seqOpen
    /\ Len(chan) < CommitLimit
    /\ chan' = Append(chan, s)
    /\ stage' = [stage EXCEPT ![s] = "wait"]
    /\ UNCHANGED <<disps, buffer, nextSeq, seqOpen, routerUp, seqDone, srcVars>>

SubmitClosed(s) ==
    /\ stage[s] = "ready"
    /\ ~seqOpen
    /\ stage' = [stage EXCEPT ![s] = "err"]
    /\ UNCHANGED <<disps, chan, buffer, nextSeq, seqOpen, routerUp, seqDone, srcVars>>

\* The result reaches the caller unless its future was dropped meanwhile.
Notify(S, res) == [s \in Batches |-> IF s \in S /\ stage[s] = "wait" THEN res ELSE stage[s]]

\* Mutated: takes the first buffered commit, whether or not it is the next one.
SeqCommitFirst ==
    /\ ~seqDone
    /\ \E s \in buffer :
          /\ \A t \in buffer : s <= t
          /\ \E res \in {"ok", "err"} :
                /\ SourceCommit(s, disps[s], res)
                /\ stage' = Notify({s}, res)
          /\ buffer' = buffer \ {s}
          /\ nextSeq' = s + 1
    /\ UNCHANGED <<disps, chan, seqOpen, routerUp, seqDone>>

\* The next commit in sequence is buffered: run it.  The sequence advances even if it fails.
SeqCommit ==
    /\ ~seqDone
    /\ nextSeq \in buffer
    /\ \E res \in {"ok", "err"} :
          /\ SourceCommit(nextSeq, disps[nextSeq], res)
          /\ stage' = Notify({nextSeq}, res)
    /\ buffer' = buffer \ {nextSeq}
    /\ nextSeq' = nextSeq + 1
    /\ UNCHANGED <<disps, chan, seqOpen, routerUp, seqDone>>

\* Otherwise take an item from the channel; one the sequence has passed is refused.
SeqRecv ==
    /\ ~seqDone
    /\ nextSeq \notin buffer
    /\ chan # <<>>
    /\ LET s == Head(chan) IN
          IF s < nextSeq
            THEN stage' = Notify({s}, "err") /\ buffer' = buffer
            ELSE stage' = stage /\ buffer' = buffer \cup {s}
    /\ chan' = Tail(chan)
    /\ UNCHANGED <<disps, nextSeq, seqOpen, routerUp, seqDone, srcVars>>

\* Every commit closure that could still send holds a clone of the sender.
SendersGone == ~routerUp /\ \A s \in Batches : stage[s] \notin {"work", "hold", "ready"}

\* A closed and empty channel ends the task; what is buffered behind the gap fails.  The
\* receiver goes with the task, so a later send fails too.
SeqEnd ==
    /\ ~seqDone
    /\ nextSeq \notin buffer
    /\ chan = <<>>
    /\ ~seqOpen \/ SendersGone
    /\ stage' = Notify(buffer, "err")
    /\ buffer' = {}
    /\ seqDone' = TRUE
    /\ seqOpen' = FALSE
    /\ UNCHANGED <<disps, chan, nextSeq, routerUp, srcVars>>

SequencerStep == SeqCommit \/ SeqRecv \/ SeqEnd
SubmitStep(s) == Submit(s) \/ SubmitClosed(s)
=============================================================================
