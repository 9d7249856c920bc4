--------------------------- MODULE ConcurrentRoute ---------------------------
(***************************************************************************)
(* Route::run_concurrently: the main task that reads batches into a        *)
(* bounded work channel, the worker pool that sends them and dispatches    *)
(* their commits, and the graceful shutdown on every way out.              *)
(***************************************************************************)
EXTENDS CommitRouter

CONSTANTS Workers,          \* the pool; options.concurrency is its size
          NoWorker,
          OrderedPublish,   \* requires_ordered_publish() of the sink
          ExitOnEmpty,      \* options.exit_on_empty
          MaxPanics         \* bound on the worker panics explored

Concurrency == Cardinality(Workers)

ASSUME WorkersAssumption == IsFiniteSet(Workers) /\ NoWorker \notin Workers
ASSUME SendingIsPool == Sending = Concurrency + Concurrency + 1
ASSUME PublishAssumption == OrderedPublish \in BOOLEAN /\ ExitOnEmpty \in BOOLEAN
ASSUME MaxPanicsAssumption == MaxPanics \in Nat

VARIABLES
    mainPc,     \* "loop", "enqueue", "down", "join", "nack", "nackWait", "gate", "router", "end"
    workQ,      \* the work channel, in batches
    workOpen,   \* it is open: work_tx is alive and no worker has left
    leftover,   \* the batches (none or one) that could not be enqueued
    wpc,        \* [Workers -> ...] see the worker actions
    wbatch,     \* [Workers -> batch being sent, or NumBatches]
    owner,      \* [Batches -> worker that took the batch, or NoWorker]
    aborted,    \* commit tasks aborted with their panicked worker
    stopReq,    \* a stop was requested on the route's shutdown channel
    loopError,  \* loop_error.is_some()
    panicked,   \* worker_panicked
    drained,
    result      \* "none", "err", "completed" (Ok(false)) or "stopped" (Ok(true))

mainVars == <<mainPc, leftover, stopReq, loopError, panicked, drained, result>>
poolVars == <<wpc, wbatch, owner, aborted>>
workVars == <<workQ, workOpen>>
routeVars == <<mainVars, poolVars, workVars>>
allVars == <<vars, routeVars>>

NoBatch == NumBatches

Init ==
    /\ RouterInit
    /\ mainPc = "loop"
    /\ workQ = <<>>
    /\ workOpen = TRUE
    /\ leftover = {}
    /\ wpc = [w \in Workers |-> "recv"]
    /\ wbatch = [w \in Workers |-> NoBatch]
    /\ owner = [s \in Batches |-> NoWorker]
    /\ aborted = {}
    /\ stopReq = FALSE
    /\ loopError = FALSE
    /\ panicked = FALSE
    /\ drained = FALSE
    /\ result = "none"

-----------------------------------------------------------------------------
(***************************************************************************)
(* The main loop.  The select is biased: a reported error first, then a    *)
(* finished worker, then the shutdown signal, then the read.               *)
(***************************************************************************)
Finished(w) == wpc[w] \in {"ended", "panicked"}
ReadsFirst == ~errQueued /\ (\A w \in Workers : ~Finished(w)) /\ ~stopReq

LoopError ==
    /\ mainPc = "loop"
    /\ errQueued
    /\ StopReading(TRUE)
    /\ mainPc' = "down"
    /\ loopError' = TRUE
    /\ UNCHANGED <<leftover, stopReq, panicked, drained, result, poolVars, workVars>>

LoopJoin(w) ==
    /\ mainPc = "loop"
    /\ ~errQueued
    /\ Finished(w)
    /\ StopReading(FALSE)
    /\ wpc' = [wpc EXCEPT ![w] = "joined"]
    /\ mainPc' = "down"
    /\ loopError' = TRUE
    /\ panicked' = (panicked \/ wpc[w] = "panicked")
    /\ UNCHANGED <<leftover, stopReq, drained, result, wbatch, owner, aborted, workVars>>

LoopShutdown ==
    /\ mainPc = "loop"
    /\ ~errQueued /\ (\A w \in Workers : ~Finished(w)) /\ stopReq
    /\ StopReading(FALSE)
    /\ mainPc' = "down"
    /\ UNCHANGED <<leftover, stopReq, loopError, panicked, drained, result, poolVars, workVars>>

\* Waiting for a permit and for the source.
LoopRead ==
    /\ mainPc = "loop"
    /\ ReadsFirst
    /\ BeginRead \/ GetPermit
    /\ UNCHANGED routeVars

\* A batch arrived: it is wrapped, and the main task goes on to enqueue it.
LoopBatch ==
    /\ mainPc = "loop"
    /\ ReadsFirst
    /\ ReadBatch
    /\ mainPc' = "enqueue"
    /\ UNCHANGED <<leftover, stopReq, loopError, panicked, drained, result, poolVars, workVars>>

LoopEmpty ==
    /\ mainPc = "loop"
    /\ ReadsFirst
    /\ ~ExitOnEmpty
    /\ ReadEmpty
    /\ UNCHANGED routeVars

\* An empty batch under exit_on_empty, or the end of the stream.
LoopDrained ==
    /\ mainPc = "loop"
    /\ ReadsFirst
    /\ readPc = "recv"
    /\ ~latch
    /\ StopReading(FALSE)
    /\ mainPc' = "down"
    /\ drained' = TRUE
    /\ UNCHANGED <<leftover, stopReq, loopError, panicked, result, poolVars, workVars>>

\* The read failed: a lost connection, a gap, a permanent error, or the source's nack latch.
LoopReadError ==
    /\ mainPc = "loop"
    /\ ReadsFirst
    /\ readPc = "recv"
    /\ Disturbed \/ latch
    /\ StopReading(FALSE)
    /\ mainPc' = "down"
    /\ loopError' = TRUE
    /\ UNCHANGED <<leftover, stopReq, panicked, drained, result, poolVars, workVars>>

\* work_tx.send: waits while the channel is full, gives the batch back when it is closed.
Enqueue ==
    /\ mainPc = "enqueue"
    /\ LET s == readSeq - 1 IN
          \/ /\ workOpen
             /\ Len(workQ) < Concurrency
             /\ workQ' = Append(workQ, s)
             /\ mainPc' = "loop"
             /\ leftover' = leftover
          \/ /\ ~workOpen
             /\ leftover' = {s}
             /\ mainPc' = "down"
             /\ workQ' = workQ
    /\ UNCHANGED <<stopReq, loopError, panicked, drained, result, poolVars, workOpen, vars>>

-----------------------------------------------------------------------------
(***************************************************************************)
(* A worker.  wpc: "recv" waits for work, "send" is in send_batch,         *)
(* "sent" dispatches the commit, "inline" awaits a failed send's commit,   *)
(* "leave" closes the work channel, "drain" waits for its commit tasks.    *)
(***************************************************************************)
WorkerRecv(w) ==
    /\ wpc[w] = "recv"
    /\ IF workQ # <<>>
         THEN /\ wpc' = [wpc EXCEPT ![w] = "send"]
              /\ wbatch' = [wbatch EXCEPT ![w] = Head(workQ)]
              /\ owner' = [owner EXCEPT ![Head(workQ)] = w]
              /\ workQ' = Tail(workQ)
         ELSE /\ ~workOpen
              /\ wpc' = [wpc EXCEPT ![w] = "leave"]
              /\ UNCHANGED <<wbatch, owner, workQ>>
    /\ UNCHANGED <<vars, mainVars, aborted, workOpen>>

\* Mutated: publishes whenever a worker is ready.
HasTurnAlways(s) == TRUE

\* OrderTicket: the batch before this one has been sent, or its worker is gone.
HasTurn(s) == OrderedPublish /\ s > 0 => outcome[s - 1] # Unsent \/ stage[s - 1] # "work"

WorkerSend(w) ==
    /\ wpc[w] = "send"
    /\ HasTurn(wbatch[w])
    /\ \E o \in Outcomes : SendReturns(wbatch[w], o)
    /\ wpc' = [wpc EXCEPT ![w] = "sent"]
    /\ UNCHANGED <<mainVars, wbatch, owner, aborted, workVars>>

\* The rest of send_batch_and_commit for a batch whose commit goes to a task.
WorkerSpawn(w) ==
    /\ wpc[w] = "sent"
    /\ SpawnCommit(wbatch[w])
    /\ wpc' = [wpc EXCEPT ![w] = "recv"]
    /\ wbatch' = [wbatch EXCEPT ![w] = NoBatch]
    /\ UNCHANGED <<mainVars, owner, aborted, workVars>>

\* ... and for a failed send, whose commit is awaited.
WorkerInline(w) ==
    /\ wpc[w] = "sent"
    /\ CommitsInline(outcome[wbatch[w]])
    /\ CallCommit(wbatch[w])
    /\ wpc' = [wpc EXCEPT ![w] = "inline"]
    /\ UNCHANGED <<mainVars, wbatch, owner, aborted, workVars>>

\* A worker whose batch failed reports the error before it leaves its loop.
WorkerReturn(w) ==
    LET s == wbatch[w]
        fails == InlineFails(outcome[s], stage[s]) IN
    /\ wpc[w] = "inline"
    /\ CommitReturns(s, fails)
    /\ wpc' = [wpc EXCEPT ![w] = IF fails THEN "leave" ELSE "recv"]
    /\ wbatch' = [wbatch EXCEPT ![w] = NoBatch]
    /\ UNCHANGED <<mainVars, owner, aborted, workVars>>

\* Dropping the CloseOnDrop closes the work channel.
WorkerLeave(w) ==
    /\ wpc[w] = "leave"
    /\ workOpen' = FALSE
    /\ wpc' = [wpc EXCEPT ![w] = "drain"]
    /\ UNCHANGED <<vars, mainVars, wbatch, owner, aborted, workQ>>

TasksOf(w) == {s \in tasks : owner[s] = w /\ stage[s] \notin {"done", "gone"}}

WorkerEnd(w) ==
    /\ wpc[w] = "drain"
    /\ TasksOf(w) = {}
    /\ wpc' = [wpc EXCEPT ![w] = "ended"]
    /\ UNCHANGED <<vars, mainVars, wbatch, owner, aborted, workVars>>

\* The sink panics: the batch is dropped uncommitted, the worker's commit tasks are aborted
\* with their JoinSet, and the unwinding closes the work channel.  Nobody waits for an
\* aborted task, which may still finish the poll it is in.
WorkerPanic(w) ==
    /\ wpc[w] = "send"
    /\ HasTurn(wbatch[w])
    /\ Cardinality({v \in Workers : wpc[v] = "panicked"}) + (IF panicked THEN 1 ELSE 0) < MaxPanics
    /\ DropCommits({wbatch[w]})
    /\ aborted' = aborted \cup TasksOf(w)
    /\ workOpen' = FALSE
    /\ wpc' = [wpc EXCEPT ![w] = "panicked"]
    /\ wbatch' = [wbatch EXCEPT ![w] = NoBatch]
    /\ UNCHANGED <<mainVars, owner, workQ>>

\* A commit task, from its first step to its end.
TaskCall(s) == s \in tasks /\ CallCommit(s) /\ UNCHANGED routeVars
TaskReturn(s) == s \in tasks /\ CommitReturns(s, FALSE) /\ UNCHANGED routeVars
TaskAborts(s) ==
    /\ s \in aborted
    /\ stage[s] \notin {"done", "gone"}
    /\ DropCommits({s})
    /\ UNCHANGED routeVars

-----------------------------------------------------------------------------
(***************************************************************************)
(* Graceful shutdown.                                                      *)
(***************************************************************************)
\* Drop work_tx, tell the gate how the route ends, abandon the sequence after a panic.
BeginDown ==
    /\ mainPc = "down"
    /\ workOpen' = FALSE
    /\ WindDown(IF loopError \/ panicked THEN "Abandon" ELSE "Close", panicked)
    /\ mainPc' = "join"
    /\ UNCHANGED <<leftover, stopReq, loopError, panicked, drained, result, poolVars, workQ>>

JoinWorker(w) ==
    /\ mainPc = "join"
    /\ Finished(w)
    /\ wpc' = [wpc EXCEPT ![w] = "joined"]
    /\ IF wpc[w] = "panicked"
         THEN panicked' = TRUE /\ WindDown("Abandon", TRUE)
         ELSE panicked' = panicked /\ UNCHANGED vars
    /\ UNCHANGED <<mainPc, leftover, stopReq, loopError, drained, result, wbatch, owner, aborted, workVars>>

JoinedAll ==
    /\ mainPc = "join"
    /\ \A w \in Workers : wpc[w] = "joined"
    /\ mainPc' = "nack"
    /\ UNCHANGED <<vars, leftover, stopReq, loopError, panicked, drained, result, poolVars,
                   workVars>>

\* Batches no worker took are nacked one by one, the leftover last.
NackNext ==
    /\ mainPc = "nack"
    /\ IF workQ # <<>>
         THEN NackUnsent(Head(workQ))
         ELSE \E s \in leftover : NackUnsent(s)
    /\ mainPc' = "nackWait"
    /\ UNCHANGED <<leftover, stopReq, loopError, panicked, drained, result, poolVars, workVars>>

NackReturn ==
    /\ mainPc = "nackWait"
    /\ IF workQ # <<>>
         THEN CommitReturns(Head(workQ), FALSE) /\ workQ' = Tail(workQ) /\ leftover' = leftover
         ELSE /\ \E s \in leftover : CommitReturns(s, FALSE)
              /\ workQ' = workQ
              /\ leftover' = {}
    /\ mainPc' = "nack"
    /\ UNCHANGED <<stopReq, loopError, panicked, drained, result, poolVars, workOpen>>

DownGate ==
    /\ mainPc = "nack"
    /\ workQ = <<>> /\ leftover = {}
    /\ IF Gated THEN ShutdownGate ELSE UNCHANGED vars
    /\ mainPc' = "gate"
    /\ UNCHANGED <<leftover, stopReq, loopError, panicked, drained, result, poolVars, workVars>>

\* Mutated: does not await the gate's task, which still holds a sender of the sequencer.
DownRouterEarly ==
    /\ mainPc = "gate"
    /\ routerUp' = FALSE
    /\ mainPc' = "router"
    /\ UNCHANGED <<stage, disps, chan, buffer, nextSeq, seqOpen, seqDone, srcVars, gateVars,
                   routerVars, leftover, stopReq, loopError, panicked, drained, result,
                   poolVars, workVars>>

DownRouter ==
    /\ mainPc = "gate"
    /\ gatePc = "end"
    /\ ShutdownRouter
    /\ mainPc' = "router"
    /\ UNCHANGED <<leftover, stopReq, loopError, panicked, drained, result, poolVars, workVars>>

\* The sequencer has ended too: decide what the run returns.
Return ==
    /\ mainPc = "router"
    /\ Ordered => seqDone
    /\ result' = IF loopError \/ panicked \/ errQueued THEN "err"
                 ELSE IF drained THEN "completed" ELSE "stopped"
    /\ mainPc' = "end"
    /\ UNCHANGED <<vars, leftover, stopReq, loopError, panicked, drained, poolVars, workVars>>

\* RouteHandle::stop.
RequestStop ==
    /\ Disturbed
    /\ ~stopReq
    /\ mainPc # "end"
    /\ stopReq' = TRUE
    /\ UNCHANGED <<vars, mainPc, leftover, loopError, panicked, drained, result, poolVars,
                   workVars>>

-----------------------------------------------------------------------------
Main ==
    \/ LoopError \/ LoopShutdown \/ LoopRead \/ LoopBatch \/ LoopEmpty \/ LoopDrained
    \/ LoopReadError \/ Enqueue \/ BeginDown \/ JoinedAll \/ NackNext \/ NackReturn
    \/ DownGate \/ DownRouter \/ Return
    \/ \E w \in Workers : LoopJoin(w) \/ JoinWorker(w)

Worker(w) ==
    \/ WorkerRecv(w) \/ WorkerSend(w) \/ WorkerSpawn(w) \/ WorkerInline(w) \/ WorkerReturn(w)
    \/ WorkerLeave(w) \/ WorkerEnd(w)

CommitTask(s) == TaskCall(s) \/ TaskReturn(s) \/ TaskAborts(s)

CommitMachinery ==
    \/ Sequencer /\ UNCHANGED routeVars
    \/ Gate /\ UNCHANGED routeVars
    \/ \E s \in Batches : Handover(s) /\ UNCHANGED routeVars

\* A run that has returned does nothing more.
Ended == mainPc = "end" /\ UNCHANGED allVars

Next ==
    \/ Main
    \/ \E w \in Workers : Worker(w) \/ WorkerPanic(w)
    \/ \E s \in Batches : CommitTask(s)
    \/ CommitMachinery
    \/ Timer /\ UNCHANGED routeVars
    \/ RequestStop
    \/ Ended

(***************************************************************************)
(* Every task is scheduled, and calls of the sink and the source return.   *)
(* Nothing is assumed of the gate's timer, of panics or of a stop request. *)
(***************************************************************************)
Fairness ==
    /\ WF_allVars(Main)
    /\ \A w \in Workers : WF_allVars(Worker(w))
    /\ \A s \in Batches : WF_allVars(CommitTask(s))
    /\ WF_allVars(Sequencer /\ UNCHANGED routeVars)
    /\ WF_allVars(Gate /\ UNCHANGED routeVars)
    /\ \A s \in Batches : WF_allVars(Handover(s) /\ UNCHANGED routeVars)

Spec == Init /\ [][Next]_allVars
FairSpec == Spec /\ Fairness

-----------------------------------------------------------------------------
RouteDataOK ==
    /\ mainPc \in {"loop", "enqueue", "down", "join", "nack", "nackWait", "gate", "router", "end"}
    /\ workQ \in Seq(Batches)
    /\ leftover \subseteq Batches
    /\ wpc \in [Workers -> {"recv", "send", "sent", "inline", "leave", "drain",
                            "ended", "panicked", "joined"}]
    /\ wbatch \in [Workers -> Batches \cup {NoBatch}]
    /\ owner \in [Batches -> Workers \cup {NoWorker}]
    /\ aborted \subseteq Batches
    /\ result \in {"none", "err", "completed", "stopped"}

RouteFlagOK ==
    /\ workOpen \in BOOLEAN
    /\ stopReq \in BOOLEAN /\ loopError \in BOOLEAN
    /\ panicked \in BOOLEAN /\ drained \in BOOLEAN

\* Who is busy with a batch has one: a worker from the moment it takes it, the main task
\* while it enqueues the batch it has just read.
HandsInv ==
    /\ \A w \in Workers : wpc[w] \in {"send", "sent", "inline"} => wbatch[w] \in Batches
    /\ mainPc = "enqueue" => readSeq # 0

\* The types of the runner's own state, and who holds a batch (worker loop and main loop of
\* run_concurrently).
RouteTypeOK == RouteDataOK /\ RouteFlagOK /\ HandsInv

\* A run that returns without an error has run the commit of every batch it read: nothing
\* was dropped, refused by the gate or left behind in a channel without the route saying so,
\* and unless a nack latched the source its position covers all of them.
CleanEndCommitsAll ==
    result \in {"completed", "stopped"} =>
        /\ \A s \in Batches : stage[s] # "unread" => s \in ran
        /\ Ordered /\ ~latch => position = readSeq

\* An order-sensitive sink sees batches in source order: when a batch is sent, each earlier
\* one has been sent or was lost with its panicked worker (OrderTicket).
PublishInOrder ==
    [][\A s \in Batches :
          OrderedPublish /\ outcome[s] # outcome'[s] =>
             \A t \in Batches : t < s => outcome[t] # Unsent \/ stage[t] = "gone"]_allVars

(***************************************************************************)
(* The inductive invariant of the runner behind the two properties above.  *)
(***************************************************************************)
Busy(w) == wpc[w] \in {"send", "sent", "inline"}
Waiting == {workQ[i] : i \in DOMAIN workQ}

\* What was read and has been offered to the workers: all but the batch being enqueued.
Offered == IF mainPc = "enqueue" THEN readSeq - 1 ELSE readSeq

\* Batches wait in source order behind all that a worker has taken, each worker is busy
\* with a batch of its own, and a pool without workers is given none.
FifoInv ==
    /\ \A i, j \in DOMAIN workQ : i < j => workQ[i] < workQ[j]
    /\ \A s \in Waiting : s < Offered
    /\ \A s \in Batches : owner[s] # NoWorker => s < Offered /\ \A t \in Waiting : s < t
    /\ \A w \in Workers : Busy(w) => owner[wbatch[w]] = w
    /\ Workers = {} => workQ = <<>>

\* A batch that is not finished is in somebody's hands: the channel's, the main task's, a
\* worker's, or a commit task's that its worker waits for or has aborted.
HeldInv ==
    \A s \in Batches :
        \/ stage[s] \in {"unread", "done", "gone"}
        \/ s \in Waiting \cup leftover
        \/ mainPc = "enqueue" /\ s = readSeq - 1
        \/ \E w \in Workers : Busy(w) /\ wbatch[w] = s
        \/ s \in tasks /\ (s \in aborted \/ wpc[owner[s]] \notin {"ended", "panicked", "joined"})

\* A worker awaits the commit of a failed send; the batches of commit tasks were sent, by
\* a worker.
SentInv ==
    /\ \A w \in Workers : wpc[w] = "inline" =>
          /\ Called(wbatch[w]) /\ CommitsInline(outcome[wbatch[w]])
          /\ disps[wbatch[w]] = DispositionsOf(outcome[wbatch[w]])
    /\ \A s \in tasks : outcome[s] # Unsent /\ owner[s] \in Workers
    /\ aborted \subseteq tasks

\* The run knows, or is about to learn, that it ends with an error.
Troubled == errQueued \/ loopError \/ panicked \/ \E w \in Workers : wpc[w] = "panicked"

\* Without an error a worker leaves only an empty, closed channel, so nothing is nacked.
LeaveInv ==
    /\ mainPc \in {"loop", "enqueue"} /\ ~workOpen => Troubled
    /\ leftover # {} \/ aborted # {} \/ mainPc = "nackWait" => Troubled
    /\ \A w \in Workers : wpc[w] \in {"leave", "drain", "ended", "joined"} =>
          Troubled \/ (workQ = <<>> /\ ~workOpen)

Draining == mainPc \in {"gate", "router", "end"}

\* At most one batch is left over when the loop ends.  The pool is joined before the nacks,
\* those are over before the gate is shut down, and the gate before the router.
ExitInv ==
    /\ \A s, t \in leftover : s = t
    /\ mainPc \in {"loop", "enqueue"} => leftover = {}
    /\ mainPc \in {"nack", "nackWait"} \/ Draining => \A w \in Workers : wpc[w] = "joined"
    /\ Draining => workQ = <<>> /\ leftover = {}
    /\ mainPc \notin {"router", "end"} => routerUp

\* Every batch read is committed, and the position covers it unless a nack latched it.
AllCommitted ==
    /\ \A s \in Batches : stage[s] = "unread" \/ (stage[s] = "done" /\ s \in ran)
    /\ Ordered /\ ~latch => position = readSeq

\* Whatever goes wrong on the commit path troubles the runner; if nothing did, all is
\* committed once the workers and their tasks are joined.
TroubleInv ==
    /\ ~Draining => Troubled \/ PathFine
    /\ Draining => Troubled \/ AllCommitted
    /\ result \in {"completed", "stopped"} => Draining /\ AllCommitted

\* Batches take their turn at the sink one after the other, until the pool is joined.
HadTurn(s) == outcome[s] # Unsent \/ stage[s] = "gone"
TurnInv ==
    /\ OrderedPublish => \A s, t \in Batches : HadTurn(s) /\ t < s => HadTurn(t)
    /\ \A s \in Batches : Called(s) /\ ~HadTurn(s) => mainPc \in {"nack", "nackWait"} \/ Draining

RouteInv ==
    /\ FifoInv /\ HeldInv /\ SentInv
    /\ LeaveInv /\ ExitInv /\ TroubleInv
    /\ TurnInv

\* The runner drives the commit path the way RouterSpec allows.
ImplementsRouter == RouterSpec

\* A stop request, a reported error or a panicked worker ends the run: no worker, commit
\* task, gate or sequencer waits for ever on another one, and no timer has to fire.
StopEnds ==
    (stopReq \/ errQueued \/ \E w \in Workers : wpc[w] = "panicked") ~> mainPc = "end"
=============================================================================
