---------------------------- MODULE SequentialRoute ----------------------------
(***************************************************************************)
(* Route::run_sequentially: one task reads, another one sends a batch at a *)
(* time, so the next batch is read ahead while the last one is sent.  The  *)
(* main loop has two parts: its top takes a finished send and starts the   *)
(* next one; its select waits for an error, a stop, the read or the send.  *)
(***************************************************************************)
EXTENDS CommitRouter

CONSTANTS ExitOnEmpty,      \* options.exit_on_empty
          MaxPanics         \* bound on the sink panics explored

ASSUME SendingIsTwo == Sending = 2
ASSUME ExitAssumption == ExitOnEmpty \in BOOLEAN
ASSUME MaxPanicsAssumption == MaxPanics \in Nat

VARIABLES
    mainPc,     \* "top", "select", "nackWait", "down", "drain", "gate", "router", "end"
    sendPc,     \* the send task: "none", "send", "sent", "inline", then how it ended
    sendBatch,  \* the batches (none or one) it sends
    reaped,     \* "none", or how the send taken from its task ended
    prefetched, \* the batches (none or one) read ahead
    ending,     \* "none", "err", "stop" (Ok(true)) or "drain" (Ok(false))
    idle,       \* pausing after an empty batch
    tasksLost,  \* send_parts went with a panicked send task, its commit tasks aborted
    stopReq     \* a stop was requested on the route's shutdown channel

loopVars == <<mainPc, sendPc, sendBatch, reaped, prefetched, ending, idle, tasksLost, stopReq>>
allVars == <<vars, loopVars>>

Init ==
    /\ RouterInit
    /\ mainPc = "top"
    /\ sendPc = "none"
    /\ sendBatch = {}
    /\ reaped = "none"
    /\ prefetched = {}
    /\ ending = "none"
    /\ idle = FALSE
    /\ tasksLost = FALSE
    /\ stopReq = FALSE

-----------------------------------------------------------------------------
(***************************************************************************)
(* The top of the loop.                                                    *)
(***************************************************************************)
\* Mutated: the sequence is not abandoned after a panicked send.
TakeReapedNoAbandon ==
    /\ mainPc = "top"
    /\ reaped # "none"
    /\ ending' = IF reaped = "ok" THEN ending ELSE "err"
    /\ reaped' = "none"
    /\ UNCHANGED <<vars, mainPc, sendPc, sendBatch, prefetched, idle, tasksLost, stopReq>>

\* The first error stays; a panicked send leaves a gap no ordered commit may wait on.
TakeReaped ==
    /\ mainPc = "top"
    /\ reaped # "none"
    /\ ending' = IF reaped = "ok" THEN ending ELSE "err"
    /\ IF reaped = "panicked" THEN AbandonSequence ELSE UNCHANGED vars
    /\ reaped' = "none"
    /\ UNCHANGED <<mainPc, sendPc, sendBatch, prefetched, idle, tasksLost, stopReq>>

StartSend ==
    /\ mainPc = "top"
    /\ reaped = "none"
    /\ sendPc = "none"
    /\ prefetched # {}
    /\ ending # "err"
    /\ sendPc' = "send"
    /\ sendBatch' = prefetched
    /\ prefetched' = {}
    /\ mainPc' = "select"
    /\ UNCHANGED <<vars, reaped, ending, idle, tasksLost, stopReq>>

\* After a failure the batch read ahead goes back; the main task awaits its commit.
NackPrefetched ==
    /\ mainPc = "top"
    /\ reaped = "none"
    /\ sendPc = "none"
    /\ ending = "err"
    /\ \E s \in prefetched : NackUnsent(s)
    /\ mainPc' = "nackWait"
    /\ UNCHANGED <<sendPc, sendBatch, reaped, prefetched, ending, idle, tasksLost, stopReq>>

NackReturn ==
    /\ mainPc = "nackWait"
    /\ \E s \in prefetched : CommitReturns(s, FALSE)
    /\ prefetched' = {}
    /\ mainPc' = "down"
    /\ UNCHANGED <<sendPc, sendBatch, reaped, ending, idle, tasksLost, stopReq>>

\* Nothing to start: wait, or leave the loop once the last send has ended.
TopDone ==
    /\ mainPc = "top"
    /\ reaped = "none"
    /\ sendPc # "none" \/ prefetched = {}
    /\ mainPc' = IF sendPc = "none" /\ ending # "none" THEN "down" ELSE "select"
    /\ UNCHANGED <<vars, sendPc, sendBatch, reaped, prefetched, ending, idle, tasksLost, stopReq>>

-----------------------------------------------------------------------------
(***************************************************************************)
(* The select, which is not biased.  The read runs only while nothing is   *)
(* read ahead; a branch that wins drops the read, which keeps its permit.  *)
(***************************************************************************)
WantReceive == prefetched = {} /\ ~idle /\ ending = "none"

\* Back to the top with the route ending as e.
EndAs(e) ==
    /\ ending' = e
    /\ mainPc' = "top"
    /\ UNCHANGED <<sendPc, sendBatch, reaped, prefetched, idle, tasksLost, stopReq>>

SelectError ==
    /\ mainPc = "select" /\ ending = "none"
    /\ errQueued
    /\ StopReading(TRUE)
    /\ EndAs("err")

SelectStop ==
    /\ mainPc = "select" /\ ending = "none"
    /\ stopReq
    /\ StopReading(FALSE)
    /\ EndAs("stop")

SelectIdleOver ==
    /\ mainPc = "select" /\ ending = "none"
    /\ idle
    /\ idle' = FALSE
    /\ mainPc' = "top"
    /\ UNCHANGED <<vars, sendPc, sendBatch, reaped, prefetched, ending, tasksLost, stopReq>>

SelectRead ==
    /\ mainPc = "select" /\ WantReceive
    /\ BeginRead \/ GetPermit
    /\ UNCHANGED loopVars

SelectBatch ==
    /\ mainPc = "select" /\ WantReceive
    /\ ReadBatch
    /\ prefetched' = {readSeq}
    /\ mainPc' = "top"
    /\ UNCHANGED <<sendPc, sendBatch, reaped, ending, idle, tasksLost, stopReq>>

SelectEmpty ==
    /\ mainPc = "select" /\ WantReceive
    /\ ~ExitOnEmpty
    /\ ReadEmpty
    /\ idle' = TRUE
    /\ mainPc' = "top"
    /\ UNCHANGED <<sendPc, sendBatch, reaped, prefetched, ending, tasksLost, stopReq>>

\* An empty batch under exit_on_empty, or the end of the stream.
SelectDrained ==
    /\ mainPc = "select" /\ WantReceive
    /\ readPc = "recv" /\ ~latch
    /\ StopReading(FALSE)
    /\ EndAs("drain")

\* The read failed: a lost connection, a gap, a permanent error, or the source's nack latch.
SelectReadError ==
    /\ mainPc = "select" /\ WantReceive
    /\ readPc = "recv"
    /\ Disturbed \/ latch
    /\ StopReading(FALSE)
    /\ EndAs("err")

\* Mutated: a finished send starts the loop over with nothing read ahead.
SelectSentStartsOver ==
    /\ mainPc = "select"
    /\ sendPc \in {"ok", "failed", "panicked"}
    /\ reaped' = sendPc
    /\ sendPc' = "none"
    /\ sendBatch' = {}
    /\ StopReading(FALSE)
    /\ mainPc' = "top"
    /\ prefetched' = {}
    /\ UNCHANGED <<ending, idle, tasksLost, stopReq>>

\* next_step: the send has finished.  While a read runs, only a failed send cancels it.
SelectSent ==
    /\ mainPc = "select"
    /\ sendPc \in {"ok", "failed", "panicked"}
    /\ reaped' = sendPc
    /\ sendPc' = "none"
    /\ sendBatch' = {}
    /\ IF WantReceive /\ sendPc = "ok"
         THEN mainPc' = mainPc /\ UNCHANGED vars
         ELSE mainPc' = "top" /\ StopReading(FALSE)
    /\ UNCHANGED <<prefetched, ending, idle, tasksLost, stopReq>>

-----------------------------------------------------------------------------
(***************************************************************************)
(* The send task: send_batch_and_commit for one batch.                     *)
(***************************************************************************)
TaskSend ==
    /\ sendPc = "send"
    /\ \E s \in sendBatch, o \in Outcomes : SendReturns(s, o)
    /\ sendPc' = "sent"
    /\ UNCHANGED <<mainPc, sendBatch, reaped, prefetched, ending, idle, tasksLost, stopReq>>

TaskSpawn ==
    /\ sendPc = "sent"
    /\ \E s \in sendBatch : SpawnCommit(s)
    /\ sendPc' = "ok"
    /\ UNCHANGED <<mainPc, sendBatch, reaped, prefetched, ending, idle, tasksLost, stopReq>>

TaskInline ==
    /\ sendPc = "sent"
    /\ \E s \in sendBatch : CommitsInline(outcome[s]) /\ CallCommit(s)
    /\ sendPc' = "inline"
    /\ UNCHANGED <<mainPc, sendBatch, reaped, prefetched, ending, idle, tasksLost, stopReq>>

\* The error of a failed batch is the task's result; it is not reported.
TaskReturn ==
    /\ sendPc = "inline"
    /\ \E s \in sendBatch :
          /\ CommitReturns(s, FALSE)
          /\ sendPc' = IF InlineFails(outcome[s], stage[s]) THEN "failed" ELSE "ok"
    /\ UNCHANGED <<mainPc, sendBatch, reaped, prefetched, ending, idle, tasksLost, stopReq>>

\* The sink panics: the batch is dropped and the JoinSet aborts every commit task.
TaskPanic ==
    /\ sendPc = "send"
    /\ MaxPanics > 0
    /\ \E s \in sendBatch : DropCommits({s})
    /\ sendPc' = "panicked"
    /\ tasksLost' = TRUE
    /\ UNCHANGED <<mainPc, sendBatch, reaped, prefetched, ending, idle, stopReq>>

SendTask == TaskSend \/ TaskSpawn \/ TaskInline \/ TaskReturn

\* A commit task; an aborted one may still finish the poll it is in.
CommitCall(s) == s \in tasks /\ CallCommit(s) /\ UNCHANGED loopVars
CommitEnds(s) == s \in tasks /\ CommitReturns(s, FALSE) /\ UNCHANGED loopVars
LiveTasks == {s \in tasks : stage[s] \notin {"done", "gone"}}
CommitAborts(s) ==
    /\ tasksLost
    /\ s \in LiveTasks
    /\ DropCommits({s})
    /\ UNCHANGED loopVars

-----------------------------------------------------------------------------
(***************************************************************************)
(* Shutdown.                                                               *)
(***************************************************************************)
BeginDown ==
    /\ mainPc = "down"
    /\ WindDown(IF ending = "err" THEN "Abandon" ELSE "Close", FALSE)
    /\ mainPc' = "drain"
    /\ UNCHANGED <<sendPc, sendBatch, reaped, prefetched, ending, idle, tasksLost, stopReq>>

\* Mutated: an error that arrives while the commits drain is only logged.
DrainErrorLogged ==
    /\ mainPc = "drain"
    /\ errQueued
    /\ StopReading(TRUE)
    /\ UNCHANGED loopVars

\* Errors reported meanwhile come first; one of them fails a drain that looked complete.
DrainError ==
    /\ mainPc = "drain"
    /\ errQueued
    /\ StopReading(TRUE)
    /\ ending' = IF ending = "drain" THEN "err" ELSE ending
    /\ UNCHANGED <<mainPc, sendPc, sendBatch, reaped, prefetched, idle, tasksLost, stopReq>>

\* The commit tasks are joined, unless they were lost with the send task.
DrainDone ==
    /\ mainPc = "drain"
    /\ ~errQueued
    /\ tasksLost \/ LiveTasks = {}
    /\ IF Gated THEN ShutdownGate ELSE UNCHANGED vars
    /\ mainPc' = "gate"
    /\ UNCHANGED <<sendPc, sendBatch, reaped, prefetched, ending, idle, tasksLost, stopReq>>

\* Mutated: does not await the gate's task, which still holds a sender of the sequencer.
DownRouterEarly ==
    /\ mainPc = "gate"
    /\ routerUp' = FALSE
    /\ mainPc' = "router"
    /\ UNCHANGED <<stage, disps, chan, buffer, nextSeq, seqOpen, seqDone, srcVars, gateVars,
                   routerVars, sendPc, sendBatch, reaped, prefetched, ending, idle, tasksLost,
                   stopReq>>

DownRouter ==
    /\ mainPc = "gate"
    /\ gatePc = "end"
    /\ ShutdownRouter
    /\ mainPc' = "router"
    /\ UNCHANGED <<sendPc, sendBatch, reaped, prefetched, ending, idle, tasksLost, stopReq>>

Return ==
    /\ mainPc = "router"
    /\ Ordered => seqDone
    /\ mainPc' = "end"
    /\ UNCHANGED <<vars, sendPc, sendBatch, reaped, prefetched, ending, idle, tasksLost, stopReq>>

\* RouteHandle::stop.
RequestStop ==
    /\ Disturbed
    /\ ~stopReq
    /\ mainPc # "end"
    /\ stopReq' = TRUE
    /\ UNCHANGED <<vars, mainPc, sendPc, sendBatch, reaped, prefetched, ending, idle, tasksLost>>

-----------------------------------------------------------------------------
LoopTop == TakeReaped \/ StartSend \/ NackPrefetched \/ NackReturn \/ TopDone
Select ==
    \/ SelectError \/ SelectStop \/ SelectIdleOver \/ SelectRead \/ SelectBatch \/ SelectEmpty
    \/ SelectDrained \/ SelectReadError \/ SelectSent
WindsDown == BeginDown \/ DrainError \/ DrainDone \/ DownRouter \/ Return
Main == LoopTop \/ Select \/ WindsDown
CommitTask(s) == CommitCall(s) \/ CommitEnds(s) \/ CommitAborts(s)

\* A run that has returned does nothing more.
Ended == mainPc = "end" /\ UNCHANGED allVars

Next ==
    \/ Main
    \/ SendTask \/ TaskPanic
    \/ \E s \in Batches : CommitTask(s)
    \/ Sequencer /\ UNCHANGED loopVars
    \/ Gate /\ UNCHANGED loopVars
    \/ Timer /\ UNCHANGED loopVars
    \/ \E s \in Batches : Handover(s) /\ UNCHANGED loopVars
    \/ RequestStop
    \/ Ended

(***************************************************************************)
(* Every task is scheduled and calls of the sink and the source return.    *)
(* The select is unbiased, so a stop or an error that stays ready is taken *)
(* although the source keeps delivering.                                   *)
(***************************************************************************)
Fairness ==
    /\ WF_allVars(Main)
    /\ SF_allVars(SelectError) /\ SF_allVars(SelectStop) /\ SF_allVars(SelectSent)
    /\ WF_allVars(SendTask)
    /\ \A s \in Batches : WF_allVars(CommitTask(s))
    /\ WF_allVars(Sequencer /\ UNCHANGED loopVars)
    /\ WF_allVars(Gate /\ UNCHANGED loopVars)
    /\ \A s \in Batches : WF_allVars(Handover(s) /\ UNCHANGED loopVars)

Spec == Init /\ [][Next]_allVars
FairSpec == Spec /\ Fairness
\* The gate's deadline passes: the timer needs nothing else to happen.
TimedSpec == FairSpec /\ WF_allVars(Timer /\ UNCHANGED loopVars)

-----------------------------------------------------------------------------
SendStates == {"none", "send", "sent", "inline", "ok", "failed", "panicked"}

LoopDataOK ==
    /\ mainPc \in {"top", "select", "nackWait", "down", "drain", "gate", "router", "end"}
    /\ sendPc \in SendStates
    /\ sendBatch \subseteq Batches
    /\ reaped \in {"none", "ok", "failed", "panicked"}
    /\ prefetched \subseteq Batches
    /\ ending \in {"none", "err", "stop", "drain"}

\* The types of the runner's own state.
LoopTypeOK ==
    /\ LoopDataOK
    /\ idle \in BOOLEAN /\ tasksLost \in BOOLEAN /\ stopReq \in BOOLEAN

\* The runner drives the commit path the way RouterSpec allows.
ImplementsRouter == RouterSpec

\* A run that reports a complete drain has run the commit of every batch it read, and unless
\* a nack latched the source its position covers all of them: no error of a late commit or
\* flush is lost on the way out (the drain loop of run_sequentially).
DrainCommitsAll ==
    mainPc = "end" /\ ending = "drain" =>
        /\ \A s \in Batches : stage[s] # "unread" => s \in ran
        /\ Ordered /\ ~latch => position = readSeq

\* No batch is forgotten: one that was read is being sent, waits to be sent, has had its
\* commit called, or was lost with a panicked send (next_step, prefetched, reaped).
NoBatchForgotten ==
    \A s \in Batches :
        stage[s] = "work" => s \in sendBatch \cup prefetched \/ s \in tasks

(***************************************************************************)
(* The inductive invariant of the runner behind the two properties above.  *)
(***************************************************************************)
\* One batch is read ahead and one is sent; a batch in flight is one of them or has its
\* commit task.  A finished send is taken before the next one starts.
HandsInv ==
    /\ \A s, t \in sendBatch : s = t
    /\ \A s, t \in prefetched : s = t
    /\ \A s \in sendBatch \cup prefetched : stage[s] # "unread"
    /\ sendPc = "none" => sendBatch = {}
    /\ reaped # "none" => sendPc = "none"
    /\ \A s \in Batches :
          stage[s] \in {"unread", "done", "gone"} \/ s \in sendBatch \cup prefetched \cup tasks
    /\ sendPc = "inline" => \A s \in sendBatch :
          Called(s) /\ CommitsInline(outcome[s]) /\ disps[s] = DispositionsOf(outcome[s])
    /\ sendPc \in {"ok", "failed", "panicked"} =>
          \A s \in sendBatch : stage[s] \in {"done", "gone"} \/ s \in tasks

\* The loop is left only with nothing in hand, and the gate only once the run is over.
ExitInv ==
    /\ mainPc \notin {"top", "select"} => sendPc = "none" /\ reaped = "none" /\ ending # "none"
    /\ mainPc \notin {"top", "select", "nackWait"} => prefetched = {}
    /\ mainPc = "nackWait" => ending = "err"
    /\ tasksLost => ending = "err" \/ sendPc = "panicked" \/ reaped = "panicked"
    /\ mainPc \notin {"router", "end"} => routerUp

\* The runner knows, or is about to learn, that the run is no complete drain.
Troubled ==
    \/ errQueued
    \/ ending \in {"err", "stop"}
    \/ sendPc \in {"failed", "panicked"} \/ reaped \in {"failed", "panicked"}

Draining == mainPc \in {"gate", "router", "end"}

\* Whatever goes wrong on the commit path before the commit tasks are joined troubles the
\* runner; once they are joined, a run that still reports a drain has nothing left to do.
TroubleInv ==
    /\ ~Draining => Troubled \/ PathFine
    /\ Draining /\ ending = "drain" =>
          /\ \A s \in Batches : stage[s] = "unread" \/ (stage[s] = "done" /\ s \in ran)
          /\ Ordered /\ ~latch => position = readSeq

LoopInv == LoopTypeOK /\ HandsInv /\ ExitInv /\ TroubleInv

\* A stop request or a panicked send ends the run, although the main task may await the nack
\* of a batch whose turn in the sequence comes only after a commit held at the gate.
StopEnds == (stopReq \/ sendPc = "panicked") ~> mainPc = "end"

\* A reader out of permits gets one, although what it waits on may be held at the gate or
\* sit in the sequencer behind something held there (nudge, reader_starved).
StarvedReaderResumes == readPc = "starved" ~> readPc # "starved"
=============================================================================
