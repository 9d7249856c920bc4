------------------------ MODULE ConcurrentRoute_proofs ------------------------
(***************************************************************************)
(* The concurrent runner implements RouterSpec, for every pool of workers, *)
(* every number of batches and every limit; with CommitRouter_proofs this  *)
(* makes the safety of the commit path a fact about run_concurrently.      *)
(***************************************************************************)
EXTENDS ConcurrentRoute, CommitRouter_proofs

\* What the main task does is a step of the reader or of the winding down, or no step.
LEMMA MainSteps ==
    ASSUME RouteDataOK, RouteFlagOK, Main
    PROVE  [RouterNext]_vars
<1> USE DEF Reader, Runner, WindingDown, RouterNext
<1>1. ASSUME LoopError \/ LoopShutdown \/ LoopDrained \/ LoopReadError PROVE RouterNext
  BY <1>1 DEF LoopError, LoopShutdown, LoopDrained, LoopReadError
<1>2. ASSUME LoopRead \/ LoopBatch \/ LoopEmpty PROVE RouterNext
  BY <1>2 DEF LoopRead, LoopBatch, LoopEmpty
<1>3. ASSUME Enqueue \/ JoinedAll \/ Return PROVE UNCHANGED vars
  BY <1>3 DEF Enqueue, JoinedAll, Return
<1>4. ASSUME BeginDown PROVE RouterNext
  <2>1. WindDown("Abandon", panicked) \/ WindDown("Close", panicked)
    BY <1>4 DEF BeginDown
  <2> QED
    BY <2>1 DEF RouteFlagOK
<1>5. ASSUME NackNext PROVE RouterNext
  <2>1. \E s \in Batches : NackUnsent(s)
    BY <1>5 DEF NackNext, RouteDataOK
  <2> QED
    BY <2>1
<1>6. ASSUME NackReturn PROVE RouterNext
  <2>1. \E s \in Batches : CommitReturns(s, FALSE)
    <3>1. CASE workQ # <<>>
      <4>1. Head(workQ) \in Batches
        BY <3>1 DEF RouteDataOK
      <4> QED
        BY <1>6, <3>1, <4>1 DEF NackReturn
    <3>2. CASE workQ = <<>>
      BY <1>6, <3>2 DEF NackReturn, RouteDataOK
    <3> QED
      BY <3>1, <3>2
  <2> QED
    BY <2>1
<1>7. ASSUME DownGate PROVE RouterNext \/ UNCHANGED vars
  BY <1>7 DEF DownGate
<1>8. ASSUME DownRouter PROVE RouterNext
  BY <1>8 DEF DownRouter
<1>9. ASSUME NEW w \in Workers, LoopJoin(w) \/ JoinWorker(w) PROVE RouterNext \/ UNCHANGED vars
  BY <1>9 DEF LoopJoin, JoinWorker
<1> QED
  BY <1>1, <1>2, <1>3, <1>4, <1>5, <1>6, <1>7, <1>8, <1>9 DEF Main

\* A worker handles its batch the way any runner may, and loses it the way any runner may.
LEMMA WorkerSteps ==
    ASSUME DataTypeOK, RouteDataOK, HandsInv, NEW w \in Workers, Worker(w) \/ WorkerPanic(w)
    PROVE  [RouterNext]_vars
<1> USE DEF Runner, WindingDown, RouterNext
<1>1. ASSUME WorkerRecv(w) \/ WorkerLeave(w) \/ WorkerEnd(w) PROVE UNCHANGED vars
  BY <1>1 DEF WorkerRecv, WorkerLeave, WorkerEnd
<1>2. ASSUME WorkerSend(w) PROVE RouterNext
  BY <1>2 DEF WorkerSend, HandsInv
<1>3. ASSUME WorkerSpawn(w) PROVE RouterNext
  BY <1>3 DEF WorkerSpawn, HandsInv
<1>4. ASSUME WorkerInline(w) PROVE RouterNext
  BY <1>4 DEF WorkerInline, HandsInv
<1>5. ASSUME WorkerReturn(w) PROVE RouterNext
  <2>1. wbatch[w] \in Batches
    BY <1>5 DEF WorkerReturn, HandsInv
  <2>2. InlineFails(outcome[wbatch[w]], stage[wbatch[w]]) \in BOOLEAN
    BY DEF InlineFails
  <2>3. \E report \in BOOLEAN : CommitReturns(wbatch[w], report)
    BY <1>5, <2>2, Zenon DEF WorkerReturn
  <2> QED
    BY <2>1, <2>3
<1>6. ASSUME WorkerPanic(w) PROVE RouterNext
  <2>1. {wbatch[w]} \in SUBSET Batches
    BY <1>6 DEF WorkerPanic, HandsInv
  <2> QED
    BY <1>6, <2>1 DEF WorkerPanic
<1> QED
  BY <1>1, <1>2, <1>3, <1>4, <1>5, <1>6 DEF Worker

\* Every step of the runner is a step RouterSpec allows.
LEMMA RouteSteps ==
    ASSUME DataTypeOK, RouteTypeOK, [Next]_allVars
    PROVE  [RouterNext]_vars
<1>0. RouteDataOK /\ RouteFlagOK /\ HandsInv
  BY DEF RouteTypeOK
<1>1. CASE Main
  BY <1>0, <1>1, MainSteps
<1>2. ASSUME NEW w \in Workers, Worker(w) \/ WorkerPanic(w) PROVE [RouterNext]_vars
  BY <1>0, <1>2, WorkerSteps
<1>3. ASSUME NEW s \in Batches, CommitTask(s) PROVE RouterNext
  BY <1>3 DEF CommitTask, TaskCall, TaskReturn, TaskAborts, RouterNext, Runner, WindingDown
<1>4. ASSUME CommitMachinery \/ (Timer /\ UNCHANGED routeVars) PROVE RouterNext
  BY <1>4 DEF CommitMachinery, RouterNext
<1>5. ASSUME RequestStop \/ Ended \/ UNCHANGED allVars PROVE UNCHANGED vars
  BY <1>5 DEF RequestStop, Ended, allVars
<1> QED
  BY <1>1, <1>2, <1>3, <1>4, <1>5 DEF Next

\* The reader only moves forward.
LEMMA ReadSeqGrows ==
    ASSUME DataTypeOK, [RouterNext]_vars
    PROVE  readSeq' = readSeq \/ readSeq' = readSeq + 1
<1> USE DEF routerVars
<1>1. ASSUME Sequencer \/ Gate \/ Timer PROVE readSeq' = readSeq
  BY <1>1 DEF Sequencer, Gate, Timer
<1>2. ASSUME Reader PROVE readSeq' = readSeq \/ readSeq' = readSeq + 1
  BY <1>2 DEF Reader, BeginRead, GetPermit, ReadBatch, ReadEmpty
<1>3. ASSUME NEW s \in Batches, Handover(s) PROVE readSeq' = readSeq
  BY <1>3 DEF Handover, CommitDirect
<1>4. ASSUME NEW s \in Batches, Runner(s) PROVE readSeq' = readSeq
  BY <1>4 DEF Runner, SendReturns, SpawnCommit, CallCommit, NackUnsent, CommitReturns
<1>5. ASSUME WindingDown PROVE readSeq' = readSeq
  BY <1>5 DEF WindingDown, StopReading, WindDown, AbandonSequence, DropCommits,
              ShutdownGate, ShutdownRouter
<1>6. ASSUME UNCHANGED vars PROVE readSeq' = readSeq
  BY <1>6 DEF vars
<1> QED
  BY <1>1, <1>2, <1>3, <1>4, <1>5, <1>6 DEF RouterNext

\* The flags of the main task and of the work channel stay Boolean.
LEMMA RouteFlagsStep ==
    ASSUME RouteFlagOK, [Next]_allVars
    PROVE  RouteFlagOK'
<1> USE DEF mainVars, workVars, routeVars, RouteFlagOK
<1>1. CASE LoopError \/ LoopShutdown \/ LoopRead \/ LoopBatch \/ LoopEmpty \/ LoopDrained
             \/ LoopReadError \/ Enqueue
  BY <1>1, Zenon DEF LoopError, LoopShutdown, LoopRead, LoopBatch, LoopEmpty, LoopDrained,
                     LoopReadError, Enqueue
<1>2. CASE BeginDown \/ JoinedAll \/ NackNext \/ NackReturn \/ DownGate \/ DownRouter \/ Return
  BY <1>2, Zenon DEF BeginDown, JoinedAll, NackNext, NackReturn, DownGate, DownRouter, Return
<1>3. ASSUME NEW w \in Workers, LoopJoin(w) \/ JoinWorker(w) PROVE RouteFlagOK'
  <2>1. UNCHANGED <<workOpen, stopReq, drained>>
    BY <1>3, Zenon DEF LoopJoin, JoinWorker
  <2>2. loopError' \in BOOLEAN
    BY <1>3, Zenon DEF LoopJoin, JoinWorker
  <2>3. panicked' = panicked \/ panicked' = TRUE \/ panicked' = (panicked \/ wpc[w] = "panicked")
    BY <1>3, Zenon DEF LoopJoin, JoinWorker
  <2> QED
    BY <2>1, <2>2, <2>3, Zenon
<1>4. ASSUME NEW w \in Workers, Worker(w) \/ WorkerPanic(w) PROVE RouteFlagOK'
  BY <1>4, Zenon DEF Worker, WorkerRecv, WorkerSend, WorkerSpawn, WorkerInline, WorkerReturn,
                     WorkerLeave, WorkerEnd, WorkerPanic
<1>5. CASE UNCHANGED routeVars
  BY <1>5, Zenon
<1>6. CASE RequestStop
  BY <1>6, Zenon DEF RequestStop
<1> QED
  BY <1>1, <1>2, <1>3, <1>4, <1>5, <1>6
     DEF Next, Main, CommitTask, TaskCall, TaskReturn, TaskAborts, CommitMachinery, Ended, allVars

\* The main task keeps its data well typed and enqueues only what it has read.
LEMMA MainDataStep ==
    ASSUME DataTypeOK, RouteDataOK, HandsInv, Main,
           readSeq' = readSeq \/ readSeq' = readSeq + 1
    PROVE  RouteDataOK' /\ HandsInv'
<1> USE DEF mainVars, workVars, poolVars, routeVars, RouteDataOK, HandsInv
<1>0. readSeq \in Nat /\ (readSeq # 0 => readSeq' # 0)
  BY NumBatchesAssumption DEF DataTypeOK
<1>1. CASE LoopError \/ LoopShutdown \/ LoopRead \/ LoopEmpty \/ LoopDrained \/ LoopReadError
  BY <1>0, <1>1 DEF LoopError, LoopShutdown, LoopRead, LoopEmpty, LoopDrained, LoopReadError
<1>2. CASE LoopBatch
  <2>1. readSeq' # 0
    BY <1>0, <1>2 DEF LoopBatch, ReadBatch
  <2> QED
    BY <1>2, <2>1 DEF LoopBatch
<1>3. CASE Enqueue
  <2>1. readSeq - 1 \in Batches
    BY <1>0, <1>3, NumBatchesAssumption DEF Enqueue, DataTypeOK, Batches
  <2>2. \/ workQ' = Append(workQ, readSeq - 1) /\ leftover' = leftover
        \/ workQ' = workQ /\ leftover' = {readSeq - 1}
    BY <1>3 DEF Enqueue
  <2>3. workQ' \in Seq(Batches) /\ leftover' \subseteq Batches
    BY <2>1, <2>2
  <2> QED
    BY <1>3, <2>3 DEF Enqueue
<1>4. CASE BeginDown \/ JoinedAll \/ NackNext \/ DownGate \/ DownRouter \/ Return
  BY <1>0, <1>4 DEF BeginDown, JoinedAll, NackNext, DownGate, DownRouter, Return
<1>5. CASE NackReturn
  <2>0. \/ workQ # <<>> /\ workQ' = Tail(workQ) /\ leftover' = leftover
        \/ workQ' = workQ /\ leftover' = {}
    BY <1>5 DEF NackReturn
  <2>1. workQ' \in Seq(Batches) /\ leftover' \subseteq Batches
    BY <2>0
  <2> QED
    BY <1>5, <2>1 DEF NackReturn
<1>6. ASSUME NEW w \in Workers, LoopJoin(w) \/ JoinWorker(w) PROVE RouteDataOK' /\ HandsInv'
  BY <1>0, <1>6 DEF LoopJoin, JoinWorker
<1> QED
  BY <1>1, <1>2, <1>3, <1>4, <1>5, <1>6 DEF Main

\* A worker is busy exactly while it has a batch of the source.
LEMMA WorkerDataStep ==
    ASSUME DataTypeOK, RouteDataOK, HandsInv, NEW w \in Workers, Worker(w) \/ WorkerPanic(w),
           readSeq' = readSeq \/ readSeq' = readSeq + 1
    PROVE  RouteDataOK' /\ HandsInv'
<1> USE DEF mainVars, workVars, poolVars, RouteDataOK, HandsInv
<1>0. readSeq # 0 => readSeq' # 0
  BY NumBatchesAssumption DEF DataTypeOK
<1>1. CASE WorkerRecv(w)
  <2>1. CASE workQ # <<>>
    <3>1. Head(workQ) \in Batches /\ Tail(workQ) \in Seq(Batches)
      BY <2>1
    <3> QED
      BY <1>0, <1>1, <2>1, <3>1 DEF WorkerRecv
  <2>2. CASE workQ = <<>>
    BY <1>0, <1>1, <2>2 DEF WorkerRecv
  <2> QED
    BY <2>1, <2>2
<1>2. CASE WorkerSend(w) \/ WorkerInline(w) \/ WorkerLeave(w) \/ WorkerEnd(w)
  BY <1>0, <1>2 DEF WorkerSend, WorkerInline, WorkerLeave, WorkerEnd
<1>3. CASE WorkerSpawn(w) \/ WorkerReturn(w) \/ WorkerPanic(w)
  BY <1>0, <1>3 DEF WorkerSpawn, WorkerReturn, WorkerPanic, TasksOf, DataTypeOK
<1> QED
  BY <1>1, <1>2, <1>3 DEF Worker

\* The runner's own invariant is preserved by every step.
LEMMA RouteTypeStep ==
    ASSUME DataTypeOK, RouteTypeOK, [Next]_allVars
    PROVE  RouteTypeOK'
<1>0. RouteDataOK /\ RouteFlagOK /\ HandsInv
  BY DEF RouteTypeOK
<1>1. RouteFlagOK'
  BY <1>0, RouteFlagsStep
<1>2. readSeq' = readSeq \/ readSeq' = readSeq + 1
  BY RouteSteps, ReadSeqGrows
<1>3. RouteDataOK' /\ HandsInv'
  <2>1. CASE Main
    BY <1>0, <1>2, <2>1, MainDataStep
  <2>2. ASSUME NEW w \in Workers, Worker(w) \/ WorkerPanic(w) PROVE RouteDataOK' /\ HandsInv'
    BY <1>0, <1>2, <2>2, WorkerDataStep
  <2>3. CASE UNCHANGED <<mainPc, leftover, result, poolVars, workQ>>
    BY <1>0, <1>2, <2>3, NumBatchesAssumption DEF poolVars, DataTypeOK, RouteDataOK, HandsInv
  <2> QED
    BY <2>1, <2>2, <2>3
       DEF Next, CommitTask, TaskCall, TaskReturn, TaskAborts, CommitMachinery, RequestStop, Ended,
           allVars, routeVars, mainVars, workVars
<1> QED
  BY <1>1, <1>3 DEF RouteTypeOK

-----------------------------------------------------------------------------
(***************************************************************************)
(* The runner's own invariant.                                             *)
(***************************************************************************)
\* Only the main loop reads a batch, and only a worker spawns a commit task.
LEMMA ReadsAndSpawns ==
    ASSUME [Next]_allVars
    PROVE  /\ LoopBatch \/ readSeq' = readSeq
           /\ (\E w \in Workers : WorkerSpawn(w)) \/ tasks' = tasks
<1> USE DEF vars, routerVars
<1>1. CASE Main
  <2>1. CASE LoopError \/ LoopShutdown \/ LoopRead \/ LoopEmpty \/ LoopDrained \/ LoopReadError
    BY <2>1 DEF LoopError, LoopShutdown, LoopRead, LoopEmpty, LoopDrained, LoopReadError,
                StopReading, BeginRead, GetPermit, ReadEmpty
  <2>2. CASE Enqueue \/ BeginDown \/ JoinedAll \/ NackNext \/ NackReturn
    BY <2>2 DEF Enqueue, BeginDown, WindDown, JoinedAll, NackNext, NackUnsent, NackReturn,
                CommitReturns
  <2>3. CASE DownGate \/ DownRouter \/ Return \/ LoopBatch
    BY <2>3 DEF DownGate, ShutdownGate, DownRouter, ShutdownRouter, Return, LoopBatch, ReadBatch
  <2>4. ASSUME NEW w \in Workers, LoopJoin(w) \/ JoinWorker(w)
        PROVE  readSeq' = readSeq /\ tasks' = tasks
    BY <2>4 DEF LoopJoin, StopReading, JoinWorker, WindDown
  <2> QED
    BY <1>1, <2>1, <2>2, <2>3, <2>4 DEF Main
<1>2. ASSUME NEW w \in Workers, Worker(w) \/ WorkerPanic(w)
      PROVE  readSeq' = readSeq /\ (WorkerSpawn(w) \/ tasks' = tasks)
  BY <1>2 DEF Worker, WorkerRecv, WorkerSend, SendReturns, WorkerSpawn, SpawnCommit,
              WorkerInline, CallCommit, WorkerReturn, CommitReturns, WorkerLeave, WorkerEnd,
              WorkerPanic, DropCommits
<1>3. ASSUME NEW s \in Batches, CommitTask(s) \/ Handover(s)
      PROVE  readSeq' = readSeq /\ tasks' = tasks
  BY <1>3 DEF CommitTask, TaskCall, CallCommit, TaskReturn, CommitReturns, TaskAborts,
              DropCommits, Handover, CommitDirect
<1>4. CASE Sequencer \/ Gate \/ Timer \/ RequestStop \/ Ended \/ UNCHANGED allVars
  BY <1>4 DEF Sequencer, Gate, Timer, RequestStop, Ended, allVars
<1> QED
  BY <1>1, <1>2, <1>3, <1>4 DEF Next, CommitMachinery

\* What the steps of the main task leave alone: it changes no worker but the one it joins,
\* and the channel only when it enqueues or nacks.
LEMMA MainFrame ==
    ASSUME RouteDataOK, Main
    PROVE  /\ UNCHANGED <<wbatch, owner, aborted>>
           /\ \/ wpc' = wpc
              \/ \E w \in Workers : Finished(w) /\ wpc' = [wpc EXCEPT ![w] = "joined"]
           /\ Enqueue \/ NackReturn \/ workQ' = workQ
           /\ LoopBatch \/ Enqueue \/ (mainPc # "enqueue" /\ mainPc' # "enqueue")
<1> USE DEF mainVars, poolVars, workVars, routeVars
<1>1. CASE LoopError \/ LoopShutdown \/ LoopRead \/ LoopEmpty \/ LoopDrained \/ LoopReadError
             \/ LoopBatch
  BY <1>1 DEF LoopError, LoopShutdown, LoopRead, LoopEmpty, LoopDrained, LoopReadError, LoopBatch
<1>2. CASE Enqueue \/ BeginDown \/ JoinedAll \/ NackNext \/ NackReturn
  BY <1>2 DEF Enqueue, BeginDown, JoinedAll, NackNext, NackReturn
<1>3. CASE DownGate \/ DownRouter \/ Return
  BY <1>3 DEF DownGate, DownRouter, Return
<1>4. CASE \E w \in Workers : LoopJoin(w) \/ JoinWorker(w)
  BY <1>4 DEF LoopJoin, JoinWorker
<1> QED
  BY <1>1, <1>2, <1>3, <1>4 DEF Main

\* What the steps of a worker leave alone.
LEMMA WorkerFrame ==
    ASSUME RouteDataOK, NEW w \in Workers, Worker(w) \/ WorkerPanic(w)
    PROVE  /\ UNCHANGED mainVars
           /\ \A v \in Workers : v # w => wpc'[v] = wpc[v] /\ wbatch'[v] = wbatch[v]
           /\ WorkerRecv(w) \/ UNCHANGED <<workQ, owner>>
           /\ WorkerRecv(w) \/ (Busy(w)' => Busy(w) /\ wbatch'[w] = wbatch[w])
<1> USE DEF RouteDataOK, workVars, Busy
<1>1. CASE WorkerRecv(w)
  BY <1>1 DEF WorkerRecv
<1>2. CASE WorkerSend(w) \/ WorkerSpawn(w) \/ WorkerInline(w) \/ WorkerReturn(w)
  BY <1>2 DEF WorkerSend, WorkerSpawn, WorkerInline, WorkerReturn
<1>3. CASE WorkerLeave(w) \/ WorkerEnd(w) \/ WorkerPanic(w)
  BY <1>3 DEF WorkerLeave, WorkerEnd, WorkerPanic
<1> QED
  BY <1>1, <1>2, <1>3 DEF Worker

\* Every other step leaves all the runner's state alone, but for a stop request.
LEMMA OthersFrame ==
    ASSUME [Next]_allVars, ~Main, \A w \in Workers : ~Worker(w) /\ ~WorkerPanic(w)
    PROVE  UNCHANGED <<mainPc, leftover, loopError, panicked, drained, result, poolVars, workVars>>
BY DEF Next, CommitTask, TaskCall, TaskReturn, TaskAborts, CommitMachinery, RequestStop, Ended,
       allVars, routeVars, mainVars

\* The channel, as the set of batches that wait in it.
LEMMA WaitingAdds ==
    ASSUME workQ \in Seq(Batches), NEW e \in Batches, workQ' = Append(workQ, e)
    PROVE  Waiting' = Waiting \cup {e}
<1>1. {Append(workQ, e)[i] : i \in DOMAIN Append(workQ, e)} = {workQ[i] : i \in DOMAIN workQ} \cup {e}
  BY AddLast
<1> QED
  BY <1>1 DEF Waiting

LEMMA WaitingTakes ==
    ASSUME workQ \in Seq(Batches), workQ # <<>>, workQ' = Tail(workQ)
    PROVE  Waiting = {Head(workQ)} \cup Waiting' /\ Head(workQ) \in Batches
BY TakeFirst DEF Waiting

\* Batches wait in source order, behind all that was taken.
LEMMA FifoStep ==
    ASSUME DataTypeOK, RouteDataOK, HandsInv, FifoInv, [Next]_allVars
    PROVE  FifoInv'
<1> USE NumBatchesAssumption, WorkersAssumption DEF Waiting, Offered
<1>0. /\ readSeq \in Nat /\ workQ \in Seq(Batches)
      /\ \A s \in Batches : s \in Nat
      /\ mainPc = "enqueue" => readSeq - 1 \in Batches
  BY DEF DataTypeOK, RouteDataOK, HandsInv, Batches
<1>1. ASSUME Offered' = Offered, workQ' = workQ, owner' = owner,
             \A w \in Workers : Busy(w)' => Busy(w) /\ wbatch'[w] = wbatch[w]
      PROVE  FifoInv'
  <2> HIDE DEF Offered
  <2> QED
    BY <1>1 DEF FifoInv
<1>2. CASE LoopBatch
  <2>1. /\ UNCHANGED <<workQ, owner, wpc, wbatch>> /\ mainPc = "loop" /\ mainPc' = "enqueue"
        /\ readSeq' = readSeq + 1
    BY <1>2 DEF LoopBatch, ReadBatch, poolVars, workVars
  <2> QED
    BY <1>0, <1>1, <2>1 DEF Busy
<1>3. CASE Enqueue
  <2> DEFINE s == readSeq - 1
  <2>1. /\ UNCHANGED <<owner, wpc, wbatch, readSeq>> /\ mainPc = "enqueue" /\ mainPc' # "enqueue"
        /\ workQ' = workQ \/ (workQ' = Append(workQ, s) /\ Len(workQ) < Concurrency)
    BY <1>3 DEF Enqueue, poolVars, workVars, vars, routerVars
  <2>2. Offered = s /\ Offered' = readSeq /\ s \in Batches /\ s < readSeq
    BY <1>0, <2>1
  <2>3. CASE workQ' = workQ
    <3> HIDE DEF Offered, Waiting, s
    <3>1. \A t \in Nat : t < Offered => t < Offered'
      BY <1>0, <2>2 DEF s
    <3>2. Waiting' = Waiting /\ Waiting \subseteq Batches
      BY <1>0, <2>3 DEF Waiting
    <3> QED
      BY <1>0, <2>1, <2>3, <3>1, <3>2 DEF FifoInv, Busy
  <2>4. CASE workQ' = Append(workQ, s) /\ Len(workQ) < Concurrency
    <3>1. Workers # {}
      BY <1>0, <2>4, FS_EmptySet DEF Concurrency
    <3>2. Waiting' = Waiting \cup {s}
      BY <1>0, <2>2, <2>4, WaitingAdds
    <3>3. \A i, j \in DOMAIN workQ' : i < j => workQ'[i] < workQ'[j]
      <4> SUFFICES ASSUME NEW i \in DOMAIN workQ', NEW j \in DOMAIN workQ', i < j
                   PROVE  workQ'[i] < workQ'[j]
        OBVIOUS
      <4>1. i \in DOMAIN workQ /\ workQ'[i] = workQ[i]
        BY <1>0, <2>2, <2>4
      <4>2. CASE j = Len(workQ) + 1
        <5>1. workQ'[j] = s
          BY <1>0, <2>2, <2>4, <4>2
        <5>2. workQ[i] < s
          BY <2>2, <4>1 DEF FifoInv
        <5> QED
          BY <4>1, <5>1, <5>2
      <4>3. CASE j # Len(workQ) + 1
        <5>1. j \in DOMAIN workQ /\ workQ'[j] = workQ[j]
          BY <1>0, <2>2, <2>4, <4>3
        <5> QED
          BY <4>1, <5>1 DEF FifoInv
      <4> QED
        BY <4>2, <4>3
    <3> HIDE DEF Waiting, Offered, s
    <3>4. \A t \in Waiting : t < s
      BY <2>2 DEF FifoInv
    <3>5. \A t \in Waiting : t \in Nat
      BY <1>0 DEF Waiting
    <3>6. \A t \in Waiting' : t < Offered'
      BY <1>0, <2>2, <3>2, <3>4, <3>5 DEF s
    <3>7. \A t \in Batches : owner'[t] # NoWorker => t < Offered' /\ \A u \in Waiting' : t < u
      BY <1>0, <2>1, <2>2, <3>2 DEF FifoInv, s
    <3>8. \A w \in Workers : Busy(w)' => owner'[wbatch'[w]] = w
      BY <2>1 DEF FifoInv, Busy
    <3> QED
      BY <3>1, <3>3, <3>6, <3>7, <3>8 DEF FifoInv
  <2> QED
    BY <2>1, <2>3, <2>4
<1>4. ASSUME workQ # <<>>, workQ' = Tail(workQ), Offered' = Offered
      PROVE  /\ \A i, j \in DOMAIN workQ' : i < j => workQ'[i] < workQ'[j]
             /\ \A s \in Waiting' : s < Offered'
             /\ Waiting = {Head(workQ)} \cup Waiting'
             /\ \A t \in Waiting' : Head(workQ) < t
             /\ Head(workQ) \in Batches
             /\ Workers # {}
  <2>1. Waiting = {Head(workQ)} \cup Waiting' /\ Head(workQ) \in Batches
    BY <1>0, <1>4, WaitingTakes
  <2>2. /\ \A i \in DOMAIN workQ' : i + 1 \in DOMAIN workQ /\ workQ'[i] = workQ[i + 1] /\ i \in Nat /\ 1 < i + 1
        /\ 1 \in DOMAIN workQ /\ Head(workQ) = workQ[1]
    BY <1>0, <1>4
  <2>3. \A i, j \in DOMAIN workQ' : i < j => workQ'[i] < workQ'[j]
    <3> SUFFICES ASSUME NEW i \in DOMAIN workQ', NEW j \in DOMAIN workQ', i < j
                 PROVE  workQ[i + 1] < workQ[j + 1]
      BY <2>2
    <3>1. i + 1 < j + 1
      BY <2>2
    <3> QED
      BY <2>2, <3>1 DEF FifoInv
  <2>4. \A t \in Waiting' : Head(workQ) < t
    BY <2>2 DEF FifoInv
  <2> QED
    BY <1>4, <2>1, <2>3, <2>4 DEF FifoInv
<1>5. CASE NackReturn
  <2>1. /\ UNCHANGED <<wpc, wbatch, owner, readSeq>> /\ mainPc = "nackWait" /\ mainPc' = "nack"
        /\ workQ' = workQ \/ (workQ # <<>> /\ workQ' = Tail(workQ))
    BY <1>5, ReadsAndSpawns DEF NackReturn, LoopBatch, poolVars
  <2>2. Offered' = Offered
    BY <2>1
  <2>3. CASE workQ' = workQ
    BY <1>1, <2>1, <2>2, <2>3 DEF Busy
  <2>4. CASE workQ # <<>> /\ workQ' = Tail(workQ)
    <3> HIDE DEF Offered, Waiting
    <3> QED
      BY <1>4, <2>1, <2>2, <2>4 DEF FifoInv, Busy
  <2> QED
    BY <2>1, <2>3, <2>4
<1>6. CASE Main
  <2>1. CASE LoopBatch \/ Enqueue \/ NackReturn
    BY <1>2, <1>3, <1>5, <2>1
  <2>2. CASE ~LoopBatch /\ ~Enqueue /\ ~NackReturn
    <3>1. /\ UNCHANGED <<wbatch, owner, workQ, readSeq>>
          /\ mainPc # "enqueue" /\ mainPc' # "enqueue"
      BY <1>6, <2>2, MainFrame, ReadsAndSpawns
    <3>2. \A w \in Workers : Busy(w)' => Busy(w)
      BY <1>6, MainFrame DEF Busy, RouteDataOK
    <3>3. Offered' = Offered
      BY <3>1
    <3> QED
      BY <1>1, <3>1, <3>2, <3>3
  <2> QED
    BY <2>1, <2>2
<1>7. ASSUME NEW w \in Workers, Worker(w) \/ WorkerPanic(w) PROVE FifoInv'
  <2>1. readSeq' = readSeq /\ mainPc' = mainPc
    BY <1>7, WorkerFrame, ReadsAndSpawns DEF mainVars, LoopBatch, Next
  <2>2. Offered' = Offered
    BY <2>1
  <2>3. CASE WorkerRecv(w) /\ workQ # <<>>
    <3>1. /\ wbatch' = [wbatch EXCEPT ![w] = Head(workQ)]
          /\ owner' = [owner EXCEPT ![Head(workQ)] = w]
          /\ workQ' = Tail(workQ)
      BY <2>3 DEF WorkerRecv
    <3> HIDE DEF Offered, Waiting
    <3>2. /\ Head(workQ) \in Batches /\ Head(workQ) \in Waiting
          /\ Waiting = {Head(workQ)} \cup Waiting' /\ \A t \in Waiting' : Head(workQ) < t
      BY <1>4, <2>2, <2>3, <3>1
    <3>3. \A s \in Batches : owner'[s] # NoWorker => s < Offered' /\ \A t \in Waiting' : s < t
      BY <2>2, <3>1, <3>2 DEF FifoInv, RouteDataOK
    <3>4. owner[Head(workQ)] = NoWorker
      <4>1. Head(workQ) \in Nat
        BY <1>0, <3>2
      <4>2. owner[Head(workQ)] # NoWorker => Head(workQ) < Head(workQ)
        BY <3>2 DEF FifoInv
      <4> QED
        BY <4>1, <4>2
    <3>5. ASSUME NEW v \in Workers, Busy(v)' PROVE owner'[wbatch'[v]] = v
      <4>1. CASE v = w
        BY <3>1, <3>2, <4>1 DEF RouteDataOK
      <4>2. CASE v # w
        <5>1. Busy(v) /\ wbatch'[v] = wbatch[v]
          BY <1>7, <3>5, <4>2, WorkerFrame DEF Busy
        <5>2. wbatch[v] \in Batches /\ owner[wbatch[v]] = v
          BY <5>1 DEF FifoInv, HandsInv, Busy
        <5> QED
          BY <3>1, <3>4, <5>1, <5>2 DEF RouteDataOK
      <4> QED
        BY <4>1, <4>2
    <3> QED
      BY <1>4, <2>2, <2>3, <3>1, <3>3, <3>5 DEF FifoInv
  <2>4. CASE ~(WorkerRecv(w) /\ workQ # <<>>)
    <3>1. UNCHANGED <<workQ, owner>>
      BY <1>7, <2>4, WorkerFrame DEF WorkerRecv
    <3>2. \A v \in Workers : Busy(v)' => Busy(v) /\ wbatch'[v] = wbatch[v]
      BY <1>7, <2>4, WorkerFrame DEF WorkerRecv, Busy, RouteDataOK
    <3> QED
      BY <1>1, <2>2, <3>1, <3>2
  <2> QED
    BY <2>3, <2>4
<1>8. CASE ~Main /\ \A w \in Workers : ~Worker(w) /\ ~WorkerPanic(w)
  <2>1. UNCHANGED <<mainPc, workQ, wpc, wbatch, owner, readSeq>>
    <3>1. ~LoopBatch
      BY <1>8 DEF Main
    <3> QED
      BY <1>8, <3>1, OthersFrame, ReadsAndSpawns DEF poolVars, workVars
  <2>2. Offered' = Offered
    BY <2>1
  <2> QED
    BY <1>1, <2>1, <2>2 DEF Busy
<1> QED
  BY <1>6, <1>7, <1>8

\* Commit tasks are those of sent batches, and a worker awaits a commit it has called.
LEMMA SentStep ==
    ASSUME RouterInv, RouteDataOK, HandsInv, FifoInv, SentInv, [Next]_allVars, [RouterNext]_vars
    PROVE  SentInv'
<1>0. DataTypeOK
  BY DEF RouterInv, RouterTypeOK
<1>1. ASSUME NEW s \in tasks, s \notin tasks' PROVE FALSE
  BY <1>0, <1>1, HistoryGrows
<1>2. ASSUME NEW s \in tasks' PROVE outcome'[s] # Unsent /\ owner'[s] \in Workers
  <2>1. CASE s \in tasks
    <3>1. s \in Batches /\ outcome[s] # Unsent /\ owner[s] \in Workers
      BY <1>0, <2>1 DEF SentInv, DataTypeOK
    <3>2. outcome'[s] # Unsent
      BY <3>1, SentStays
    <3>3. owner'[s] \in Workers
      <4>1. ASSUME NEW w \in Workers, WorkerRecv(w) PROVE owner'[s] \in Workers
        BY <3>1, <4>1 DEF WorkerRecv, RouteDataOK
      <4> QED
        BY <3>1, <4>1, MainFrame, WorkerFrame, OthersFrame DEF poolVars
    <3> QED
      BY <3>2, <3>3
  <2>2. CASE s \notin tasks
    <3>1. PICK w \in Workers : WorkerSpawn(w)
      BY <1>2, <2>2, ReadsAndSpawns
    <3>2. /\ s = wbatch[w] /\ outcome'[s] = outcome[s] /\ outcome[s] # Unsent /\ owner' = owner
          /\ wpc[w] = "sent"
      BY <1>2, <2>2, <3>1 DEF WorkerSpawn, SpawnCommit, Settled
    <3> QED
      BY <3>1, <3>2 DEF FifoInv, Busy, Unsent
  <2> QED
    BY <2>1, <2>2
<1>3. aborted' \subseteq tasks'
  <2>1. ASSUME NEW w \in Workers, WorkerPanic(w) PROVE aborted' \subseteq tasks
    BY <2>1 DEF WorkerPanic, TasksOf, SentInv
  <2>2. aborted' = aborted \/ \E w \in Workers : WorkerPanic(w)
    BY MainFrame, OthersFrame DEF poolVars, Worker, WorkerRecv, WorkerSend, WorkerSpawn,
          WorkerInline, WorkerReturn, WorkerLeave, WorkerEnd
  <2> QED
    BY <1>1, <2>1, <2>2 DEF SentInv
<1>4. ASSUME NEW w \in Workers, wpc'[w] = "inline"
      PROVE  (/\ Called(wbatch[w]) /\ CommitsInline(outcome[wbatch[w]])
              /\ disps[wbatch[w]] = DispositionsOf(outcome[wbatch[w]]))'
  <2>1. CASE WorkerInline(w)
    <3> DEFINE s == wbatch[w]
    <3>1. /\ wbatch' = wbatch /\ CommitsInline(outcome[s]) /\ s \in Batches
          /\ CallCommit(s)
      BY <2>1 DEF WorkerInline, HandsInv
    <3>2. /\ stage'[s] \in {"hold", "ready", "unflushed"} /\ disps'[s] = DispositionsOf(outcome[s])
          /\ outcome' = outcome
      BY <1>0, <3>1 DEF CallCommit, HoldCommit, routerVars, DataTypeOK
    <3> QED
      BY <3>1, <3>2 DEF Called, CommitsInline, DispositionsOf
  <2>2. CASE ~WorkerInline(w)
    <3>1. wpc[w] = "inline" /\ wbatch'[w] = wbatch[w]
      <4>1. CASE Main
        BY <1>4, <4>1, MainFrame DEF RouteDataOK
      <4>2. ASSUME NEW v \in Workers, Worker(v) \/ WorkerPanic(v)
            PROVE  wpc[w] = "inline" /\ wbatch'[w] = wbatch[w]
        <5>1. CASE v # w
          BY <1>4, <4>2, <5>1, WorkerFrame
        <5>2. CASE v = w
          BY <1>4, <2>2, <4>2, <5>2 DEF RouteDataOK, Worker, WorkerRecv, WorkerSend, WorkerSpawn,
                WorkerReturn, WorkerLeave, WorkerEnd, WorkerPanic
        <5> QED
          BY <5>1, <5>2
      <4> QED
        BY <1>4, <4>1, <4>2, OthersFrame DEF poolVars
    <3>2. wbatch[w] \in Batches /\ Called(wbatch[w])
      BY <3>1 DEF HandsInv, SentInv
    <3> QED
      BY <3>1, <3>2, CalledStays DEF SentInv, CommitsInline, DispositionsOf
  <2> QED
    BY <2>1, <2>2
<1> QED
  BY <1>2, <1>3, <1>4 DEF SentInv

\* In whose hands a batch is.
InHands(s) ==
    \/ s \in Waiting \cup leftover
    \/ mainPc = "enqueue" /\ s = readSeq - 1
    \/ \E w \in Workers : Busy(w) /\ wbatch[w] = s
    \/ s \in tasks /\ (s \in aborted \/ wpc[owner[s]] \notin {"ended", "panicked", "joined"})

\* The main task passes a batch on or sees the end of its commit.
LEMMA MainKeepsHeld ==
    ASSUME DataTypeOK, RouteDataOK, HandsInv, SentInv, ExitInv, Main, ~LoopBatch, tasks' = tasks,
           readSeq' = readSeq, NEW s \in Batches, InHands(s)
    PROVE  InHands(s)' \/ stage'[s] = "done"
<1> USE DEF RouteDataOK, mainVars, poolVars, workVars, routeVars
<1>0. UNCHANGED <<wbatch, owner, aborted>>
  BY MainFrame
<1>1. \A w \in Workers : Busy(w) => Busy(w)'
  BY MainFrame DEF Busy, Finished
<1>2. ASSUME s \in tasks, wpc[owner[s]] \notin {"ended", "panicked", "joined"}
      PROVE  wpc'[owner[s]] \notin {"ended", "panicked", "joined"}
  BY <1>2, MainFrame DEF SentInv, Finished
<1>3. ASSUME s \in Waiting' \cup leftover' \/ (s \notin Waiting \cup leftover /\ mainPc # "enqueue")
      PROVE  InHands(s)'
  <2> HIDE DEF RouteDataOK
  <2> QED
    BY <1>0, <1>1, <1>2, <1>3 DEF InHands
<1>4. CASE Enqueue
  <2>1. CASE workQ' = workQ
    <3>1. leftover' = {readSeq - 1} /\ leftover = {} /\ Waiting' = Waiting
      BY <1>4, <2>1 DEF Enqueue, ExitInv, Waiting
    <3> QED
      BY <1>0, <1>1, <1>2, <3>1 DEF InHands
  <2>2. CASE workQ' # workQ
    <3>1. workQ' = Append(workQ, readSeq - 1) /\ leftover' = leftover /\ mainPc = "enqueue"
      BY <1>4, <2>2 DEF Enqueue
    <3>2. readSeq - 1 \in Batches
      BY <3>1, NumBatchesAssumption DEF HandsInv, DataTypeOK, Batches
    <3>3. Waiting' = Waiting \cup {readSeq - 1}
      BY <3>1, <3>2, WaitingAdds
    <3> QED
      BY <1>0, <1>1, <1>2, <3>1, <3>3 DEF InHands
  <2> QED
    BY <2>1, <2>2
<1>5. CASE NackReturn
  <2>1. CASE workQ # <<>>
    <3>1. CommitReturns(Head(workQ), FALSE) /\ workQ' = Tail(workQ) /\ leftover' = leftover
      BY <1>5, <2>1 DEF NackReturn
    <3>2. Waiting = {Head(workQ)} \cup Waiting' /\ Head(workQ) \in Batches
      BY <2>1, <3>1, WaitingTakes
    <3>3. stage'[Head(workQ)] = "done"
      BY <3>1, <3>2 DEF CommitReturns, DataTypeOK
    <3>4. CASE s = Head(workQ)
      BY <3>3, <3>4
    <3>5. CASE s # Head(workQ)
      BY <1>3, <1>5, <3>1, <3>2, <3>5 DEF NackReturn
    <3> QED
      BY <3>4, <3>5
  <2>2. CASE workQ = <<>>
    <3>1. PICK t \in leftover : CommitReturns(t, FALSE) /\ leftover' = {} /\ workQ' = workQ
      BY <1>5, <2>2 DEF NackReturn
    <3>2. stage'[t] = "done" /\ leftover = {t} /\ Waiting' = Waiting
      BY <3>1 DEF CommitReturns, DataTypeOK, ExitInv, Waiting
    <3> QED
      BY <1>3, <1>5, <3>1, <3>2 DEF NackReturn
  <2> QED
    BY <2>1, <2>2
<1>6. CASE ~Enqueue /\ ~NackReturn
  <2>1. Waiting' = Waiting /\ mainPc # "enqueue"
    BY <1>6, MainFrame DEF Waiting
  <2>2. leftover' = leftover
    BY <1>6 DEF Main, LoopError, LoopShutdown, LoopRead, LoopEmpty, LoopDrained, LoopReadError,
                BeginDown, JoinedAll, NackNext, DownGate, DownRouter, Return, LoopJoin, JoinWorker
  <2> QED
    BY <1>3, <2>1, <2>2
<1> QED
  BY <1>4, <1>5, <1>6

\* A worker takes a batch from the channel, hands it to a commit task or sees its end, and
\* leaves no commit task behind.
LEMMA WorkerKeepsHeld ==
    ASSUME DataTypeOK, RouteDataOK, HandsInv, FifoInv, SentInv,
           NEW w \in Workers, Worker(w) \/ WorkerPanic(w), readSeq' = readSeq,
           NEW s \in Batches, InHands(s)
    PROVE  InHands(s)' \/ stage'[s] \in {"unread", "done", "gone"}
<1> USE DEF RouteDataOK
<1>0. mainPc' = mainPc /\ leftover' = leftover
  BY WorkerFrame DEF mainVars
<1>a. \A v \in Workers : v # w => wpc'[v] = wpc[v] /\ wbatch'[v] = wbatch[v]
  BY WorkerFrame
<1>1. CASE WorkerRecv(w) /\ workQ # <<>>
  <2>1. /\ wpc[w] = "recv"
        /\ wpc' = [wpc EXCEPT ![w] = "send"] /\ wbatch' = [wbatch EXCEPT ![w] = Head(workQ)]
        /\ owner' = [owner EXCEPT ![Head(workQ)] = w] /\ workQ' = Tail(workQ)
        /\ aborted' = aborted /\ tasks' = tasks
    BY <1>1 DEF WorkerRecv, vars, routerVars
  <2>2. Waiting = {Head(workQ)} \cup Waiting' /\ Head(workQ) \in Batches
    BY <1>1, <2>1, WaitingTakes
  <2>3. Busy(w)' /\ wbatch'[w] = Head(workQ) /\ ~Busy(w)
    BY <2>1, <2>2 DEF Busy
  <2>4. CASE s = Head(workQ)
    BY <2>3, <2>4 DEF InHands
  <2>5. CASE s # Head(workQ)
    <3>1. owner'[s] = owner[s]
      BY <2>1, <2>5
    <3>2. ASSUME s \in tasks, wpc[owner[s]] \notin {"ended", "panicked", "joined"}
          PROVE  wpc'[owner[s]] \notin {"ended", "panicked", "joined"}
      BY <2>1, <3>2 DEF SentInv
    <3>3. \A v \in Workers : Busy(v) => Busy(v)' /\ wbatch'[v] = wbatch[v]
      BY <1>a, <2>3 DEF Busy
    <3> HIDE DEF RouteDataOK
    <3> QED
      BY <1>0, <2>1, <2>2, <2>5, <3>1, <3>2, <3>3 DEF InHands
  <2> QED
    BY <2>4, <2>5
<1>2. CASE ~(WorkerRecv(w) /\ workQ # <<>>)
  <2>1. UNCHANGED <<workQ, owner>> /\ Waiting' = Waiting
    BY <1>2, WorkerFrame DEF WorkerRecv, Waiting
  <2>2. ASSUME Busy(w) /\ wbatch[w] = s
               => \/ InHands(s)' \/ stage'[s] \in {"unread", "done", "gone"},
               s \in tasks => s \in tasks',
               aborted \subseteq aborted',
               s \in tasks /\ owner[s] = w /\ wpc[w] \notin {"ended", "panicked", "joined"}
               => \/ s \in aborted' \/ wpc'[w] \notin {"ended", "panicked", "joined"}
                  \/ stage'[s] \in {"unread", "done", "gone"}
        PROVE  InHands(s)' \/ stage'[s] \in {"unread", "done", "gone"}
    <3>1. CASE s \in Waiting \cup leftover \/ (mainPc = "enqueue" /\ s = readSeq - 1)
      BY <1>0, <2>1, <3>1 DEF InHands
    <3>2. ASSUME NEW v \in Workers, Busy(v), wbatch[v] = s
          PROVE  InHands(s)' \/ stage'[s] \in {"unread", "done", "gone"}
      <4>1. CASE v = w
        BY <2>2, <3>2, <4>1
      <4>2. CASE v # w
        BY <1>a, <3>2, <4>2 DEF InHands, Busy
      <4> QED
        BY <4>1, <4>2
    <3>3. CASE s \in tasks /\ (s \in aborted \/ wpc[owner[s]] \notin {"ended", "panicked", "joined"})
      <4>1. owner[s] \in Workers
        BY <3>3 DEF SentInv
      <4>2. CASE owner[s] = w
        BY <2>1, <2>2, <3>3, <4>2 DEF InHands
      <4>3. CASE owner[s] # w
        BY <1>a, <2>1, <2>2, <3>3, <4>1, <4>3 DEF InHands
      <4> QED
        BY <4>2, <4>3
    <3> QED
      BY <3>1, <3>2, <3>3 DEF InHands
  <2>3. CASE WorkerRecv(w) \/ WorkerSend(w) \/ WorkerInline(w) \/ WorkerLeave(w)
    <3>1. /\ aborted' = aborted /\ tasks' = tasks /\ wpc'[w] \notin {"ended", "panicked", "joined"}
          /\ Busy(w) => Busy(w)' /\ wbatch'[w] = wbatch[w]
      BY <1>2, <2>3 DEF WorkerRecv, WorkerSend, SendReturns, WorkerInline, CallCommit, WorkerLeave,
                  vars, routerVars, Busy
    <3> QED
      BY <2>2, <3>1 DEF InHands
  <2>4. CASE WorkerSpawn(w)
    <3>1. /\ aborted' = aborted /\ tasks' = tasks \cup {wbatch[w]} /\ wpc'[w] = "recv"
          /\ wpc[w] = "sent"
      BY <2>4 DEF WorkerSpawn, SpawnCommit
    <3>2. owner[wbatch[w]] = w
      BY <3>1 DEF FifoInv, Busy
    <3>3. wbatch[w] = s => InHands(s)'
      BY <2>1, <3>1, <3>2 DEF InHands
    <3> QED
      BY <2>2, <3>1, <3>3
  <2>5. CASE WorkerReturn(w)
    <3>1. /\ aborted' = aborted /\ tasks' = tasks /\ wpc'[w] \notin {"ended", "panicked", "joined"}
          /\ wbatch[w] \in Batches /\ stage' = [stage EXCEPT ![wbatch[w]] = "done"]
      BY <2>5 DEF WorkerReturn, CommitReturns, routerVars, HandsInv
    <3>2. wbatch[w] = s => stage'[s] = "done"
      BY <3>1 DEF DataTypeOK
    <3> QED
      BY <2>2, <3>1, <3>2
  <2>6. CASE WorkerEnd(w)
    <3>1. /\ UNCHANGED <<aborted, tasks, stage>> /\ TasksOf(w) = {} /\ wpc[w] = "drain"
      BY <2>6 DEF WorkerEnd, vars, csVars, seqVars, routerVars
    <3>2. s \in tasks /\ owner[s] = w => stage'[s] \in {"done", "gone"}
      BY <3>1 DEF TasksOf
    <3> QED
      BY <2>2, <3>1, <3>2 DEF Busy
  <2>7. CASE WorkerPanic(w)
    <3>1. /\ aborted' = aborted \cup TasksOf(w) /\ tasks' = tasks
          /\ DropCommits({wbatch[w]})
      BY <2>7 DEF WorkerPanic, DropCommits, routerVars
    <3>2. wbatch[w] = s => stage'[s] \in {"unread", "done", "gone"}
      BY <3>1 DEF DropCommits
    <3>3. s \in tasks /\ owner[s] = w => s \in aborted' \/ stage'[s] \in {"done", "gone"}
      BY <3>1 DEF TasksOf, DropCommits
    <3> QED
      BY <2>2, <3>1, <3>2, <3>3
  <2> QED
    BY <2>3, <2>4, <2>5, <2>6, <2>7 DEF Worker
<1> QED
  BY <1>1, <1>2

\* No batch is lost sight of.
LEMMA HeldStep ==
    ASSUME RouterInv, RouteDataOK, HandsInv, FifoInv, HeldInv, SentInv, ExitInv,
           [Next]_allVars, [RouterNext]_vars
    PROVE  HeldInv'
<1>0. DataTypeOK
  BY DEF RouterInv, RouterTypeOK
<1> SUFFICES ASSUME NEW s \in Batches, stage'[s] \notin {"unread", "done", "gone"}
             PROVE  InHands(s)'
  BY DEF HeldInv, InHands
<1>1. CASE LoopBatch
  <2>1. /\ readSeq \in Batches /\ stage' = [stage EXCEPT ![readSeq] = "work"]
        /\ mainPc' = "enqueue" /\ readSeq' = readSeq + 1 /\ mainPc = "loop"
        /\ UNCHANGED <<tasks, leftover, workQ, wpc, wbatch, owner, aborted>>
    BY <1>1 DEF LoopBatch, ReadBatch, poolVars, workVars
  <2>2. CASE s = readSeq
    BY <1>0, <2>1, <2>2, NumBatchesAssumption DEF InHands, Batches
  <2>3. CASE s # readSeq
    <3>1. InHands(s)
      BY <1>0, <2>1, <2>3 DEF HeldInv, InHands, DataTypeOK
    <3> QED
      BY <2>1, <3>1 DEF InHands, Waiting, Busy
  <2> QED
    BY <2>2, <2>3
<1>2. CASE ~LoopBatch
  <2>1. readSeq' = readSeq
    BY <1>2, ReadsAndSpawns
  <2>2. InHands(s)
    BY <1>0, <2>1, NoReadMovesOn DEF MovesOn, HeldInv, InHands
  <2>3. ASSUME NEW w \in Workers, Worker(w) \/ WorkerPanic(w) PROVE InHands(s)'
    BY <1>0, <2>1, <2>2, <2>3, WorkerKeepsHeld
  <2>4. CASE \A w \in Workers : ~Worker(w) /\ ~WorkerPanic(w)
    <3>1. tasks' = tasks
      BY <2>4, ReadsAndSpawns DEF Worker
    <3>2. CASE Main
      BY <1>0, <1>2, <2>1, <2>2, <3>1, <3>2, MainKeepsHeld
    <3>3. CASE ~Main
      <4>1. UNCHANGED <<mainPc, leftover, workQ, wpc, wbatch, owner, aborted>>
        BY <2>4, <3>3, OthersFrame DEF poolVars, workVars
      <4> QED
        BY <2>1, <2>2, <3>1, <4>1 DEF InHands, Waiting, Busy
    <3> QED
      BY <3>2, <3>3
  <2> QED
    BY <2>3, <2>4
<1> QED
  BY <1>1, <1>2

\* An error is not forgotten: the main loop takes a reported one as its own, and a join
\* notices a panic.
LEMMA TroubleStays ==
    ASSUME RouteDataOK, Troubled, [Next]_allVars
    PROVE  Troubled'
<1> USE DEF vars, gateVars
<1>1. CASE Main
  <2>1. CASE LoopError
    BY <2>1 DEF LoopError, Troubled
  <2>2. ASSUME NEW w \in Workers, LoopJoin(w) PROVE Troubled'
    BY <2>2 DEF LoopJoin, Troubled
  <2>3. ASSUME NEW w \in Workers, JoinWorker(w) PROVE Troubled'
    <3>1. loopError' = loopError /\ errQueued' = errQueued /\ (panicked => panicked')
      BY <2>3 DEF JoinWorker, WindDown
    <3>2. ASSUME NEW v \in Workers, wpc[v] = "panicked" PROVE wpc'[v] = "panicked" \/ panicked'
      BY <2>3, <3>2 DEF JoinWorker, RouteDataOK
    <3> QED
      BY <3>1, <3>2 DEF Troubled
  <2>4. CASE LoopShutdown \/ LoopRead \/ LoopBatch \/ LoopEmpty \/ LoopDrained \/ LoopReadError
    <3>1. UNCHANGED <<panicked, wpc>> /\ (loopError' = loopError \/ loopError' = TRUE)
      BY <2>4 DEF LoopShutdown, LoopRead, LoopBatch, LoopEmpty, LoopDrained, LoopReadError,
                  poolVars, routeVars, mainVars
    <3>2. ~errQueued
      BY <2>4 DEF LoopShutdown, LoopRead, LoopBatch, LoopEmpty, LoopDrained, LoopReadError,
                  ReadsFirst
    <3> QED
      BY <3>1, <3>2 DEF Troubled
  <2>5. CASE Enqueue \/ BeginDown \/ JoinedAll \/ NackNext \/ NackReturn
    <3>1. UNCHANGED <<panicked, wpc, loopError>> /\ (errQueued => errQueued')
      BY <2>5 DEF Enqueue, BeginDown, WindDown, JoinedAll, NackNext, NackUnsent, NackReturn,
                  CommitReturns, ReportRouteError, poolVars
    <3> QED
      BY <3>1 DEF Troubled
  <2>6. CASE DownGate \/ DownRouter \/ Return
    <3>1. UNCHANGED <<panicked, wpc, loopError, errQueued>>
      BY <2>6 DEF DownGate, ShutdownGate, DownRouter, ShutdownRouter, Return, poolVars
    <3> QED
      BY <3>1 DEF Troubled
  <2> QED
    BY <1>1, <2>1, <2>2, <2>3, <2>4, <2>5, <2>6 DEF Main
<1>2. ASSUME NEW w \in Workers, Worker(w) \/ WorkerPanic(w) PROVE Troubled'
  <2>1. UNCHANGED <<panicked, loopError>>
    BY <1>2, WorkerFrame DEF mainVars
  <2>2. errQueued => errQueued'
    BY <1>2 DEF Worker, WorkerRecv, WorkerSend, SendReturns, WorkerSpawn, SpawnCommit, WorkerInline,
                CallCommit, WorkerReturn, CommitReturns, ReportRouteError, WorkerLeave, WorkerEnd,
                WorkerPanic, DropCommits
  <2>3. ASSUME NEW v \in Workers, wpc[v] = "panicked" PROVE wpc'[v] = "panicked"
    <3>1. CASE v = w
      BY <1>2, <2>3, <3>1 DEF Worker, WorkerRecv, WorkerSend, WorkerSpawn, WorkerInline,
            WorkerReturn, WorkerLeave, WorkerEnd, WorkerPanic
    <3> QED
      BY <1>2, <2>3, <3>1, WorkerFrame
  <2> QED
    BY <2>1, <2>2, <2>3 DEF Troubled
<1>3. CASE ~Main /\ \A w \in Workers : ~Worker(w) /\ ~WorkerPanic(w)
  <2>1. UNCHANGED <<panicked, loopError, wpc>>
    BY <1>3, OthersFrame DEF poolVars
  <2>2. ASSUME NEW s \in Batches, CommitTask(s) \/ Handover(s), errQueued PROVE errQueued'
    BY <2>2 DEF CommitTask, TaskCall, CallCommit, TaskReturn, CommitReturns, TaskAborts,
                DropCommits, Handover, CommitDirect, ReportRouteError
  <2>3. ASSUME Sequencer \/ Gate \/ Timer \/ RequestStop \/ Ended \/ UNCHANGED allVars, errQueued
        PROVE  errQueued'
    BY <2>3 DEF Sequencer, Gate, GateRecv, FlushOk, FlushErr, Timer, GateTimer, RequestStop,
                Ended, allVars, ReportRouteError
  <2>4. errQueued => errQueued'
    BY <1>3, <2>2, <2>3 DEF Next, CommitMachinery
  <2> QED
    BY <2>1, <2>4 DEF Troubled
<1> QED
  BY <1>1, <1>2, <1>3

\* How the channel closes: with the loop's end or behind a worker that is in trouble.  Nothing
\* is put into it afterwards.
LEMMA LeaveStep ==
    ASSUME DataTypeOK, RouteDataOK, FifoInv, LeaveInv, ExitInv, [Next]_allVars
    PROVE  LeaveInv'
<1>0. Troubled => Troubled'
  BY TroubleStays
<1> SUFFICES ASSUME ~Troubled' PROVE LeaveInv'
  BY DEF LeaveInv
<1>a. ~Troubled
  BY <1>0
<1>b. /\ leftover = {} /\ aborted = {} /\ mainPc # "nackWait"
      /\ mainPc \in {"loop", "enqueue"} => workOpen
      /\ \A w \in Workers : wpc[w] \in {"leave", "drain", "ended", "joined"} =>
            workQ = <<>> /\ ~workOpen
  BY <1>a DEF LeaveInv
<1>c. ASSUME leftover' = {}, aborted' = {}, mainPc' # "nackWait",
             mainPc' \in {"loop", "enqueue"} => workOpen',
             workQ = <<>> /\ ~workOpen => workQ' = <<>> /\ ~workOpen',
             \A w \in Workers : wpc'[w] \in {"leave", "drain", "ended", "joined"} =>
                  \/ wpc[w] \in {"leave", "drain", "ended", "joined"}
                  \/ workQ = <<>> /\ ~workOpen
      PROVE  LeaveInv'
  BY <1>b, <1>c DEF LeaveInv
<1> USE DEF RouteDataOK, mainVars, poolVars, workVars, routeVars
<1>1. CASE LoopError
  BY <1>1 DEF LoopError, Troubled
<1>2. CASE \E w \in Workers : LoopJoin(w)
  BY <1>2 DEF LoopJoin, Troubled
<1>3. CASE LoopShutdown \/ LoopRead \/ LoopBatch \/ LoopEmpty \/ LoopDrained \/ LoopReadError
  <2>1. /\ UNCHANGED <<leftover, aborted, wpc, workQ, workOpen>> /\ mainPc = "loop"
        /\ mainPc' # "nackWait"
    BY <1>3 DEF LoopShutdown, LoopRead, LoopBatch, LoopEmpty, LoopDrained, LoopReadError
  <2> QED
    BY <1>b, <1>c, <2>1
<1>4. CASE Enqueue
  <2>1. /\ workOpen /\ workOpen' = workOpen /\ leftover' = leftover /\ mainPc' = "loop"
        /\ UNCHANGED <<aborted, wpc>>
    BY <1>4, <1>b DEF Enqueue
  <2> QED
    BY <1>b, <1>c, <2>1
<1>5. CASE BeginDown
  <2>1. /\ UNCHANGED <<leftover, aborted, wpc, workQ>> /\ mainPc' = "join" /\ ~workOpen'
    BY <1>5 DEF BeginDown
  <2> QED
    BY <1>b, <1>c, <2>1
<1>6. ASSUME NEW w \in Workers, JoinWorker(w) PROVE LeaveInv'
  <2>1. wpc[w] = "ended"
    BY <1>6, <1>a DEF JoinWorker, Finished, Troubled
  <2>2. /\ UNCHANGED <<leftover, aborted, workQ, workOpen, mainPc>>
        /\ wpc' = [wpc EXCEPT ![w] = "joined"]
    BY <1>6 DEF JoinWorker
  <2> QED
    BY <1>b, <1>c, <2>1, <2>2
<1>7. CASE JoinedAll \/ DownGate \/ DownRouter \/ Return
  <2>1. /\ UNCHANGED <<leftover, aborted, wpc, workQ, workOpen>>
        /\ mainPc' \in {"nack", "gate", "router", "end"}
    BY <1>7 DEF JoinedAll, DownGate, DownRouter, Return
  <2> QED
    BY <1>b, <1>c, <2>1
<1>8. CASE NackNext
  <2>1. mainPc = "nack" /\ workQ # <<>>
    BY <1>8, <1>b DEF NackNext
  <2>2. PICK w \in Workers : wpc[w] = "joined"
    BY <2>1 DEF ExitInv, FifoInv
  <2> QED
    BY <1>b, <2>1, <2>2
<1>9. CASE NackReturn
  BY <1>9, <1>b DEF NackReturn
<1>10. ASSUME NEW w \in Workers, Worker(w) \/ WorkerPanic(w) PROVE LeaveInv'
  <2>0. UNCHANGED <<mainPc, leftover>>
    BY <1>10, WorkerFrame
  <2>1. CASE WorkerRecv(w)
    <3>1. /\ UNCHANGED <<aborted, workOpen>>
          /\ \A v \in Workers : v # w => wpc'[v] = wpc[v]
          /\ \/ wpc'[w] = "send" /\ workQ # <<>>
             \/ workQ' = workQ /\ workQ = <<>> /\ ~workOpen
      BY <2>1 DEF WorkerRecv
    <3> QED
      BY <1>b, <1>c, <2>0, <3>1
  <2>2. CASE WorkerSend(w) \/ WorkerSpawn(w) \/ WorkerInline(w)
    <3>1. /\ UNCHANGED <<aborted, workQ, workOpen>>
          /\ \A v \in Workers : v # w => wpc'[v] = wpc[v]
          /\ wpc'[w] \in {"sent", "recv", "inline"}
      BY <2>2 DEF WorkerSend, WorkerSpawn, WorkerInline
    <3> QED
      BY <1>b, <1>c, <2>0, <3>1
  <2>3. CASE WorkerReturn(w)
    <3>1. /\ UNCHANGED <<aborted, workQ, workOpen>>
          /\ \A v \in Workers : v # w => wpc'[v] = wpc[v]
          /\ wpc'[w] \in {"recv", "leave"}
      BY <2>3 DEF WorkerReturn
    <3>2. wpc'[w] = "recv"
      BY <2>3 DEF WorkerReturn, CommitReturns, ReportRouteError, Troubled
    <3> QED
      BY <1>b, <1>c, <2>0, <3>1, <3>2
  <2>4. CASE WorkerLeave(w)
    <3>1. /\ UNCHANGED <<aborted, workQ>> /\ ~workOpen'
          /\ \A v \in Workers : v # w => wpc'[v] = wpc[v]
          /\ wpc[w] = "leave"
      BY <2>4 DEF WorkerLeave
    <3> QED
      BY <1>b, <1>c, <2>0, <3>1
  <2>5. CASE WorkerEnd(w)
    <3>1. /\ UNCHANGED <<aborted, workQ, workOpen>> /\ wpc[w] = "drain"
          /\ \A v \in Workers : v # w => wpc'[v] = wpc[v]
      BY <2>5 DEF WorkerEnd
    <3> QED
      BY <1>b, <1>c, <2>0, <3>1
  <2>6. CASE WorkerPanic(w)
    BY <2>6 DEF WorkerPanic, Troubled
  <2> QED
    BY <1>10, <2>1, <2>2, <2>3, <2>4, <2>5, <2>6 DEF Worker
<1>11. CASE ~Main /\ \A w \in Workers : ~Worker(w) /\ ~WorkerPanic(w)
  BY <1>11, <1>b, <1>c, OthersFrame
<1> QED
  BY <1>1, <1>2, <1>3, <1>4, <1>5, <1>6, <1>7, <1>8, <1>9, <1>10, <1>11 DEF Main

\* The order of the shutdown.
LEMMA ExitStep ==
    ASSUME RouteDataOK, RouteFlagOK, HandsInv, ExitInv, [Next]_allVars
    PROVE  ExitInv'
<1> USE DEF RouteDataOK, mainVars, poolVars, workVars, routeVars, Draining
<1>1. CASE LoopError \/ LoopShutdown \/ LoopRead \/ LoopBatch \/ LoopEmpty \/ LoopDrained
             \/ LoopReadError \/ \E w \in Workers : LoopJoin(w)
  <2>1. /\ leftover' = leftover /\ mainPc = "loop" /\ mainPc' \in {"loop", "enqueue", "down"}
    BY <1>1 DEF LoopError, LoopShutdown, LoopRead, LoopBatch, LoopEmpty, LoopDrained,
                LoopReadError, LoopJoin
  <2>2. routerUp' = routerUp
    BY <1>1, RouterStaysUp
       DEF LoopError, LoopShutdown, LoopRead, LoopBatch, LoopEmpty, LoopDrained, LoopReadError,
           LoopJoin, Reader
  <2> QED
    BY <2>1, <2>2 DEF ExitInv
<1>2. CASE Enqueue
  <2>1. /\ leftover' \in {leftover, {readSeq - 1}} /\ mainPc = "enqueue"
        /\ \/ mainPc' = "loop" /\ leftover' = leftover
           \/ mainPc' = "down"
        /\ routerUp' = routerUp
    BY <1>2 DEF Enqueue, vars, csVars, seqVars
  <2> QED
    BY <2>1 DEF ExitInv
<1>3. CASE BeginDown \/ JoinedAll
  <2>1. /\ leftover' = leftover /\ wpc' = wpc
        /\ \/ mainPc = "down" /\ mainPc' = "join"
           \/ mainPc = "join" /\ mainPc' = "nack" /\ \A w \in Workers : wpc[w] = "joined"
    BY <1>3 DEF BeginDown, JoinedAll
  <2>2. routerUp' = routerUp
    BY <1>3 DEF BeginDown, JoinedAll, WindDown, vars, csVars, seqVars
  <2> QED
    BY <2>1, <2>2 DEF ExitInv
<1>4. CASE NackNext \/ NackReturn
  <2>1. /\ leftover' \in {leftover, {}} /\ wpc' = wpc
        /\ mainPc \in {"nack", "nackWait"} /\ mainPc' \in {"nack", "nackWait"}
    BY <1>4 DEF NackNext, NackReturn
  <2>2. routerUp' = routerUp
    BY <1>4 DEF NackNext, NackUnsent, NackReturn, CommitReturns
  <2> QED
    BY <2>1, <2>2 DEF ExitInv
<1>5. CASE DownGate \/ DownRouter \/ Return
  <2>1. /\ leftover' = leftover /\ wpc' = wpc /\ workQ' = workQ
        /\ \/ mainPc = "nack" /\ mainPc' = "gate" /\ workQ = <<>> /\ leftover = {}
           \/ mainPc = "gate" /\ mainPc' = "router"
           \/ mainPc = "router" /\ mainPc' = "end"
    BY <1>5 DEF DownGate, DownRouter, Return
  <2>2. mainPc' = "gate" => routerUp' = routerUp
    BY <1>5 DEF DownGate, DownRouter, Return, ShutdownGate, vars, csVars, seqVars
  <2> QED
    BY <2>1, <2>2 DEF ExitInv
<1>6. ASSUME NEW w \in Workers, JoinWorker(w) PROVE ExitInv'
  <2>1. leftover' = leftover /\ mainPc = "join" /\ mainPc' = "join"
    BY <1>6 DEF JoinWorker
  <2>2. routerUp' = routerUp
    BY <1>6 DEF JoinWorker, WindDown, vars, csVars, seqVars
  <2> QED
    BY <2>1, <2>2 DEF ExitInv
<1>7. ASSUME NEW w \in Workers, Worker(w) \/ WorkerPanic(w) PROVE ExitInv'
  <2>1. UNCHANGED <<mainPc, leftover>>
    BY <1>7, WorkerFrame
  <2>2. mainPc \notin {"nack", "nackWait", "gate", "router", "end"}
    BY <1>7 DEF ExitInv, Worker, WorkerRecv, WorkerSend, WorkerSpawn, WorkerInline, WorkerReturn,
          WorkerLeave, WorkerEnd, WorkerPanic
  <2>3. routerUp' = routerUp
    BY <1>7 DEF Worker, WorkerRecv, WorkerSend, SendReturns, WorkerSpawn, SpawnCommit, WorkerInline,
          CallCommit, WorkerReturn, CommitReturns, WorkerLeave, WorkerEnd, WorkerPanic,
          DropCommits, vars, csVars, seqVars
  <2> QED
    BY <2>1, <2>2, <2>3 DEF ExitInv
<1>8. CASE ~Main /\ \A w \in Workers : ~Worker(w) /\ ~WorkerPanic(w)
  <2>1. UNCHANGED <<mainPc, leftover, workQ, wpc>>
    BY <1>8, OthersFrame
  <2>2. routerUp' = routerUp
    <3>1. ASSUME NEW s \in Batches, CommitTask(s) PROVE routerUp' = routerUp
      BY <3>1 DEF CommitTask, TaskCall, CallCommit, TaskReturn, CommitReturns, TaskAborts, DropCommits
    <3>2. CASE RequestStop \/ Ended \/ UNCHANGED allVars
      BY <3>2 DEF RequestStop, Ended, allVars, vars, csVars, seqVars
    <3>3. CASE Sequencer \/ Gate \/ Timer \/ \E s \in Batches : Handover(s)
      BY <3>3, RouterStaysUp
    <3> QED
      BY <1>8, <3>1, <3>2, <3>3 DEF Next, CommitMachinery
  <2> QED
    BY <2>1, <2>2 DEF ExitInv
<1> QED
  BY <1>1, <1>2, <1>3, <1>4, <1>5, <1>6, <1>7, <1>8 DEF Main

-----------------------------------------------------------------------------
(***************************************************************************)
(* A run that ends without an error has nothing to hide.                   *)
(***************************************************************************)
\* Before the gate is shut down, a step of the main task that learns of no trouble leaves the
\* commit path fine.
LEMMA MainKeepsFine ==
    ASSUME RouterInv, RouteDataOK, RouteFlagOK, LeaveInv, PathFine, Main,
           ~Troubled, ~Troubled', ~Draining'
    PROVE  PathFine'
<1>1. CASE LoopError \/ LoopReadError \/ \E w \in Workers : LoopJoin(w)
  BY <1>1 DEF LoopError, LoopReadError, LoopJoin, Troubled
<1>2. CASE LoopShutdown \/ LoopDrained
  <2>1. StopReading(FALSE)
    BY <1>2 DEF LoopShutdown, LoopDrained
  <2> QED
    BY <2>1, ReaderKeepsFine
<1>3. CASE LoopRead \/ LoopBatch \/ LoopEmpty
  BY <1>3, ReaderKeepsFine DEF LoopRead, LoopBatch, LoopEmpty, Reader
<1>4. CASE Enqueue \/ JoinedAll
  BY <1>4, FineUnchanged DEF Enqueue, JoinedAll
<1>5. CASE BeginDown
  <2>1. ~loopError /\ panicked = FALSE
    BY Zenon DEF Troubled, RouteFlagOK
  <2>2. WindDown("Close", FALSE)
    BY <1>5, <2>1 DEF BeginDown
  <2> QED
    BY <2>2, ReaderKeepsFine
<1>6. ASSUME NEW w \in Workers, JoinWorker(w) PROVE PathFine'
  <2>1. UNCHANGED vars
    BY <1>6 DEF JoinWorker, Troubled
  <2> QED
    BY <2>1, FineUnchanged
<1>7. CASE NackNext
  <2>1. \E s \in Batches : NackUnsent(s)
    BY <1>7 DEF NackNext, RouteDataOK
  <2> QED
    BY <2>1, ClosureKeepsFine
<1>8. CASE NackReturn
  BY <1>8 DEF NackReturn, LeaveInv
<1>9. CASE DownGate \/ DownRouter \/ Return
  BY <1>9 DEF DownGate, DownRouter, Return, Draining
<1> QED
  BY <1>1, <1>2, <1>3, <1>4, <1>5, <1>6, <1>7, <1>8, <1>9 DEF Main

\* The same for a worker.
LEMMA WorkerKeepsFine ==
    ASSUME RouterInv, SettleInv, RouteDataOK, HandsInv, SentInv, PathFine,
           NEW w \in Workers, Worker(w) \/ WorkerPanic(w), ~Troubled'
    PROVE  PathFine'
<1>1. CASE WorkerRecv(w) \/ WorkerLeave(w) \/ WorkerEnd(w)
  BY <1>1, FineUnchanged DEF WorkerRecv, WorkerLeave, WorkerEnd
<1>2. CASE WorkerSend(w) \/ WorkerSpawn(w) \/ WorkerInline(w)
  <2>1. wbatch[w] \in Batches
    BY <1>2 DEF WorkerSend, WorkerSpawn, WorkerInline, HandsInv
  <2> QED
    BY <1>2, <2>1, ClosureKeepsFine DEF WorkerSend, WorkerSpawn, WorkerInline
<1>3. CASE WorkerReturn(w)
  <2> DEFINE s == wbatch[w]
             fails == InlineFails(outcome[s], stage[s])
  <2>1. /\ CommitReturns(s, fails) /\ s \in Batches
        /\ CommitsInline(outcome[s]) /\ disps[s] = DispositionsOf(outcome[s])
    BY <1>3 DEF WorkerReturn, HandsInv, SentInv
  <2>2. ~fails
    BY <2>1 DEF CommitReturns, ReportRouteError, Troubled
  <2>3. Ordered /\ stage[s] = "err" => latch
    BY <2>1, <2>2, QuietFailureLatched
  <2> HIDE DEF s, fails
  <2> QED
    BY <2>1, <2>3, ReturnKeepsFine
<1>4. CASE WorkerPanic(w)
  BY <1>4 DEF WorkerPanic, Troubled, RouteDataOK
<1> QED
  BY <1>1, <1>2, <1>3, <1>4 DEF Worker

\* And for the commit tasks and the tasks of the commit path, while the router is up.
LEMMA PathKeepsFine ==
    ASSUME RouterInv, SettleInv, LeaveInv, PathFine, routerUp, ~Troubled, ~Troubled',
           \/ \E s \in Batches : CommitTask(s)
           \/ CommitMachinery \/ Timer
    PROVE  PathFine'
<1>1. ASSUME NEW s \in Batches, CommitTask(s) PROVE PathFine'
  <2>1. CASE TaskCall(s)
    BY <2>1, ClosureKeepsFine DEF TaskCall
  <2>2. CASE TaskReturn(s)
    <3>1. CommitReturns(s, FALSE) /\ s \in tasks
      BY <2>2 DEF TaskReturn
    <3>2. stage[s] # "err"
      BY <3>1 DEF CommitReturns, ReportRouteError, Troubled
    <3> QED
      BY <3>1, <3>2, ReturnKeepsFine
  <2>3. CASE TaskAborts(s)
    BY <2>3 DEF TaskAborts, LeaveInv
  <2> QED
    BY <1>1, <2>1, <2>2, <2>3 DEF CommitTask
<1>2. CASE Sequencer
  BY <1>2, SequencerKeepsFine
<1>3. CASE Gate \/ Timer
  BY <1>3, GateKeepsFine DEF Troubled
<1>4. ASSUME NEW s \in Batches, Handover(s) PROVE PathFine'
  BY <1>4, ClosureKeepsFine
<1> QED
  BY <1>1, <1>2, <1>3, <1>4 DEF CommitMachinery

\* Every step keeps the account of what went wrong.
LEMMA TroubleStep ==
    ASSUME RouterInv, SettleInv, RouteTypeOK, RouteInv, [Next]_allVars, [RouterNext]_vars
    PROVE  TroubleInv'
<1>0. /\ RouteDataOK /\ RouteFlagOK /\ HandsInv
      /\ HeldInv /\ SentInv /\ LeaveInv /\ ExitInv /\ TroubleInv
      /\ Troubled => Troubled'
  BY TroubleStays DEF RouteTypeOK, RouteInv
<1>1. CASE ~Draining /\ ~Draining'
  <2>0. result \notin {"completed", "stopped"}
    BY <1>0, <1>1 DEF TroubleInv
  <2>1. result' = result
    <3>1. CASE Main
      BY <1>1, <3>1 DEF Main, LoopError, LoopShutdown, LoopRead, LoopBatch, LoopEmpty, LoopDrained,
            LoopReadError, Enqueue, BeginDown, JoinedAll, NackNext, NackReturn, DownGate, DownRouter,
            Return, LoopJoin, JoinWorker, Draining, routeVars, mainVars
    <3>2. CASE ~Main
      BY <1>0, <3>2, WorkerFrame, OthersFrame DEF mainVars
    <3> QED
      BY <3>1, <3>2
  <2> SUFFICES ASSUME ~Troubled' PROVE PathFine'
    BY <1>1, <2>0, <2>1 DEF TroubleInv
  <2>2. ~Troubled /\ PathFine /\ routerUp
    BY <1>0, <1>1 DEF TroubleInv, ExitInv, Draining
  <2>3. CASE Main
    BY <1>0, <1>1, <2>2, <2>3, MainKeepsFine
  <2>4. CASE \E w \in Workers : Worker(w) \/ WorkerPanic(w)
    BY <1>0, <2>2, <2>4, WorkerKeepsFine
  <2>5. CASE (\E s \in Batches : CommitTask(s)) \/ CommitMachinery \/ Timer
    BY <1>0, <2>2, <2>5, PathKeepsFine
  <2>6. CASE RequestStop \/ Ended \/ UNCHANGED allVars
    BY <2>2, <2>6, FineUnchanged DEF RequestStop, Ended, allVars
  <2> QED
    BY <2>3, <2>4, <2>5, <2>6 DEF Next
<1>2. CASE ~Draining /\ Draining'
  <2>1. mainPc' # mainPc
    BY <1>2 DEF Draining
  <2>2. DownGate
    <3>1. Main
      BY <1>0, <2>1, WorkerFrame, OthersFrame DEF mainVars
    <3> QED
      BY <1>2, <3>1 DEF Main, LoopError, LoopShutdown, LoopRead, LoopBatch, LoopEmpty, LoopDrained,
            LoopReadError, Enqueue, BeginDown, JoinedAll, NackNext, NackReturn, DownRouter,
            Return, LoopJoin, JoinWorker, Draining, routeVars, mainVars
  <2>3. /\ UNCHANGED <<stage, ran, latch, position, readSeq, result>>
        /\ mainPc = "nack" /\ workQ = <<>> /\ leftover = {}
    BY <2>2 DEF DownGate, ShutdownGate, vars, csVars, seqVars, srcVars, routerVars
  <2>4. result \notin {"completed", "stopped"}
    BY <1>0, <1>2 DEF TroubleInv
  <2> SUFFICES ASSUME ~Troubled' PROVE AllCommitted
    BY <1>2, <2>3, <2>4 DEF TroubleInv, AllCommitted
  <2>5. ~Troubled /\ PathFine /\ aborted = {} /\ \A w \in Workers : wpc[w] = "joined"
    BY <1>0, <1>2, <2>3 DEF TroubleInv, LeaveInv, ExitInv
  <2>6. Waiting = {}
    BY <2>3 DEF Waiting
  <2>7. \A s \in Batches : stage[s] \in {"unread", "done"}
    BY <1>0, <2>3, <2>5, <2>6 DEF HeldInv, Busy, SentInv, PathFine
  <2> QED
    BY <2>5, <2>7, AllDoneCovered DEF AllCommitted
<1>3. CASE Draining
  <2>1. Draining' /\ ~LoopBatch /\ (result' = result \/ Return)
    <3>1. CASE Main
      BY <1>3, <3>1 DEF Main, LoopError, LoopShutdown, LoopRead, LoopBatch, LoopEmpty, LoopDrained,
            LoopReadError, Enqueue, BeginDown, JoinedAll, NackNext, NackReturn, DownGate, DownRouter,
            Return, LoopJoin, JoinWorker, Draining, routeVars, mainVars
    <3>2. CASE ~Main
      <4>1. UNCHANGED <<mainPc, result>>
        BY <1>0, <3>2, WorkerFrame, OthersFrame DEF mainVars
      <4> QED
        BY <1>3, <3>2, <4>1 DEF Draining, Main
    <3> QED
      BY <3>1, <3>2
  <2>2. readSeq' = readSeq
    BY <2>1, ReadsAndSpawns
  <2>3. AllCommitted => AllCommitted'
    BY <2>2, AllDoneStays DEF AllCommitted
  <2>4. ASSUME Return, result' \in {"completed", "stopped"} PROVE AllCommitted
    <3>1. ~loopError /\ ~panicked /\ ~errQueued
      BY <2>4 DEF Return
    <3>2. \A w \in Workers : wpc[w] = "joined"
      BY <1>0, <1>3 DEF ExitInv
    <3> QED
      BY <1>0, <1>3, <3>1, <3>2 DEF TroubleInv, Troubled
  <2>5. result' \in {"completed", "stopped"} => AllCommitted'
    BY <1>0, <2>1, <2>3, <2>4 DEF TroubleInv
  <2> QED
    BY <1>0, <1>3, <2>1, <2>3, <2>5 DEF TroubleInv
<1> QED
  BY <1>1, <1>2, <1>3

-----------------------------------------------------------------------------
(***************************************************************************)
(* An order-sensitive sink sees the batches in the order of the source.    *)
(***************************************************************************)
\* A batch whose worker has its turn comes after batches that had theirs.
LEMMA TurnsBefore ==
    ASSUME RouterInv, RouteDataOK, HandsInv, FifoInv, ExitInv, TurnInv, OrderedPublish,
           NEW w \in Workers, wpc[w] = "send", HasTurn(wbatch[w]),
           NEW t \in Batches, t < wbatch[w]
    PROVE  HadTurn(t)
<1> DEFINE s == wbatch[w]
<1>0. s \in Batches /\ owner[s] = w /\ w # NoWorker /\ readSeq \in Nat
  BY WorkersAssumption, NumBatchesAssumption
     DEF HandsInv, FifoInv, Busy, RouterInv, RouterTypeOK, DataTypeOK
<1>1. s < Offered
  BY <1>0 DEF FifoInv
<1>2. s \in Nat /\ t \in Nat /\ s < readSeq /\ s > 0 /\ s - 1 \in Batches
  BY <1>0, <1>1, NumBatchesAssumption DEF Offered, Batches
<1> HIDE DEF s
<1>3. stage[s - 1] # "unread"
  BY <1>0, <1>2 DEF RouterInv, CallInv
<1>4. mainPc \notin {"nack", "nackWait"} /\ ~Draining
  BY DEF ExitInv
<1>5. outcome[s - 1] # Unsent \/ stage[s - 1] # "work"
  BY <1>2 DEF HasTurn, s
<1>6. HadTurn(s - 1)
  BY <1>2, <1>3, <1>4, <1>5 DEF TurnInv, Called, HadTurn
<1>7. t = s - 1 \/ t < s - 1
  BY <1>2 DEF s
<1> QED
  BY <1>2, <1>6, <1>7 DEF TurnInv

\* Who has had a turn has had it for good.
LEMMA TurnsStay ==
    ASSUME RouterInv, [RouterNext]_vars, NEW s \in Batches, HadTurn(s)
    PROVE  HadTurn(s)'
<1>1. CASE outcome[s] # Unsent
  BY <1>1, SentStays DEF HadTurn, Unsent
<1>2. CASE stage[s] = "gone"
  <2>1. DataTypeOK
    BY DEF RouterInv, RouterTypeOK
  <2>2. CASE ReadBatch
    <3>1. readSeq \in Batches /\ stage[readSeq] = "unread" /\ stage' = [stage EXCEPT ![readSeq] = "work"]
      BY <2>2 DEF ReadBatch, RouterInv, CallInv, RouterTypeOK, DataTypeOK, Batches
    <3> QED
      BY <1>2, <2>1, <3>1 DEF HadTurn, DataTypeOK
  <2>3. CASE \A t \in Batches : MovesOn(t)
    BY <1>2, <2>3 DEF MovesOn, HadTurn
  <2> QED
    BY <2>1, <2>2, <2>3, StagesMoveOn
<1> QED
  BY <1>1, <1>2 DEF HadTurn

\* Batches get a turn from their worker only, and the closure of a batch that had none is
\* called only to nack it.
LEMMA NewTurns ==
    ASSUME RouterInv, RouteDataOK, HandsInv, SentInv, [Next]_allVars,
           NEW s \in Batches, ~HadTurn(s)
    PROVE  /\ HadTurn(s)' => \E w \in Workers : /\ wpc[w] = "send" /\ wbatch[w] = s
                                                /\ HasTurn(s)
           /\ Called(s)' /\ ~HadTurn(s)' => Called(s) \/ (mainPc = "nack" /\ mainPc' = "nackWait")
<1> USE DEF vars, csVars, seqVars, routerVars
<1>0. DataTypeOK
  BY DEF RouterInv, RouterTypeOK
<1>a. s \notin tasks /\ s \notin aborted
  BY DEF SentInv, HadTurn
<1>1. ASSUME NEW w \in Workers, WorkerSend(w)
      PROVE  /\ stage' = stage /\ (outcome'[s] # Unsent => wbatch[w] = s)
             /\ wpc[w] = "send" /\ HasTurn(wbatch[w])
  BY <1>0, <1>1 DEF WorkerSend, SendReturns, HadTurn, DataTypeOK, HandsInv
<1>2. ASSUME NEW w \in Workers, WorkerPanic(w)
      PROVE  /\ outcome' = outcome /\ (s # wbatch[w] => stage'[s] = stage[s])
             /\ Called(s)' => Called(s) \/ stage'[s] = "gone"
             /\ wpc[w] = "send" /\ HasTurn(wbatch[w])
  BY <1>2 DEF WorkerPanic, DropCommits, Called
<1>3. ASSUME \/ NackNext
             \/ \E w \in Workers : WorkerInline(w)
             \/ \E t \in Batches : TaskCall(t) \/ TaskAborts(t)
      PROVE  /\ outcome' = outcome /\ (stage'[s] = "gone" => stage[s] = "gone")
             /\ Called(s)' => Called(s) \/ (mainPc = "nack" /\ mainPc' = "nackWait")
  <2>1. CASE NackNext
    <3>1. PICK t \in Batches : NackUnsent(t)
      BY <2>1 DEF NackNext, RouteDataOK
    <3>2. outcome' = outcome /\ (stage'[s] = "gone" => stage[s] = "gone")
      BY <1>0, <3>1 DEF NackUnsent, HoldCommit, DataTypeOK
    <3> QED
      BY <2>1, <3>2 DEF NackNext
  <2>2. ASSUME NEW t \in Batches, CallCommit(t) PROVE outcome' = outcome /\ stage'[s] = stage[s]
    BY <1>0, <2>2 DEF CallCommit, HoldCommit, DataTypeOK, HadTurn, Settled
  <2>3. ASSUME NEW t \in Batches, TaskAborts(t) PROVE outcome' = outcome /\ stage'[s] = stage[s]
    BY <1>a, <2>3 DEF TaskAborts, DropCommits
  <2> QED
    BY <1>3, <2>1, <2>2, <2>3 DEF WorkerInline, TaskCall, HandsInv, Called
<1>4. ASSUME ~NackNext,
             \A w \in Workers : ~WorkerSend(w) /\ ~WorkerPanic(w) /\ ~WorkerInline(w),
             \A t \in Batches : ~TaskCall(t) /\ ~TaskAborts(t)
      PROVE  /\ outcome' = outcome /\ (stage'[s] = "gone" => stage[s] = "gone")
             /\ Called(s)' => Called(s)
  <2>1. CASE Main
    <3>1. CASE LoopError \/ LoopShutdown \/ LoopDrained \/ LoopReadError
                 \/ \E w \in Workers : LoopJoin(w)
      <4>1. (\E takeErr \in BOOLEAN : StopReading(takeErr)) /\ outcome' = outcome
        BY <3>1 DEF LoopError, LoopShutdown, LoopDrained, LoopReadError, LoopJoin, StopReading
      <4> QED
        BY <1>0, <4>1, KeepsItsPlace
    <3>2. CASE LoopRead \/ LoopBatch \/ LoopEmpty
      <4>1. Reader /\ outcome' = outcome
        BY <3>2 DEF LoopRead, LoopBatch, LoopEmpty, Reader, BeginRead, GetPermit, ReadBatch, ReadEmpty
      <4> QED
        BY <1>0, <4>1, KeepsItsPlace
    <3>3. CASE Enqueue \/ JoinedAll \/ Return
      <4>1. UNCHANGED vars
        BY <3>3 DEF Enqueue, JoinedAll, Return
      <4> QED
        BY <1>0, <4>1, KeepsItsPlace
    <3>4. CASE BeginDown \/ DownGate \/ DownRouter \/ \E w \in Workers : JoinWorker(w)
      <4>1. outcome' = outcome /\ stage' = stage
        BY <3>4 DEF BeginDown, DownGate, DownRouter, JoinWorker, WindDown, ShutdownGate, ShutdownRouter
      <4> QED
        BY <4>1 DEF Called
    <3>5. CASE NackReturn
      <4>1. PICK t \in Batches : CommitReturns(t, FALSE)
        <5>1. CASE workQ # <<>>
          <6>1. Head(workQ) \in Batches
            BY <5>1 DEF RouteDataOK
          <6> QED
            BY <3>5, <5>1, <6>1 DEF NackReturn
        <5>2. CASE workQ = <<>>
          BY <3>5, <5>2 DEF NackReturn, RouteDataOK
        <5> QED
          BY <5>1, <5>2
      <4>2. outcome' = outcome
        BY <4>1 DEF CommitReturns
      <4> QED
        BY <1>0, <4>1, <4>2, KeepsItsPlace
    <3> QED
      BY <1>4, <2>1, <3>1, <3>2, <3>3, <3>4, <3>5 DEF Main
  <2>2. ASSUME NEW w \in Workers, Worker(w) \/ WorkerPanic(w)
        PROVE  /\ outcome' = outcome /\ (stage'[s] = "gone" => stage[s] = "gone")
               /\ Called(s)' => Called(s)
    <3>1. CASE WorkerRecv(w) \/ WorkerLeave(w) \/ WorkerEnd(w)
      <4>1. UNCHANGED vars
        BY <3>1 DEF WorkerRecv, WorkerLeave, WorkerEnd
      <4> QED
        BY <1>0, <4>1, KeepsItsPlace
    <3>2. CASE WorkerSpawn(w)
      <4>1. UNCHANGED <<outcome, stage>>
        BY <3>2 DEF WorkerSpawn, SpawnCommit
      <4> QED
        BY <4>1 DEF Called
    <3>3. CASE WorkerReturn(w)
      <4>1. /\ wbatch[w] \in Batches /\ stage' = [stage EXCEPT ![wbatch[w]] = "done"]
            /\ stage[wbatch[w]] \in Resolved /\ outcome' = outcome
        BY <3>3 DEF WorkerReturn, CommitReturns, HandsInv
      <4> QED
        BY <1>0, <4>1 DEF Called, Resolved, DataTypeOK
    <3> QED
      BY <1>4, <2>2, <3>1, <3>2, <3>3 DEF Worker
  <2>3. ASSUME NEW t \in Batches, CommitTask(t) \/ Handover(t)
        PROVE  /\ outcome' = outcome /\ (stage'[s] = "gone" => stage[s] = "gone")
               /\ Called(s)' => Called(s)
    <3>1. Handover(t) \/ CommitReturns(t, FALSE)
      BY <1>4, <2>3 DEF CommitTask, TaskReturn
    <3>2. outcome' = outcome
      BY <3>1 DEF Handover, CommitDirect, CommitReturns
    <3> QED
      BY <1>0, <3>1, <3>2, KeepsItsPlace
  <2>4. CASE Sequencer \/ Gate \/ Timer \/ UNCHANGED vars
    <3>1. outcome' = outcome
      BY <2>4 DEF Sequencer, Gate, Timer
    <3> QED
      BY <1>0, <2>4, <3>1, KeepsItsPlace
  <2> QED
    BY <2>1, <2>2, <2>3, <2>4 DEF Next, CommitMachinery, RequestStop, Ended, allVars
<1> QED
  BY <1>1, <1>2, <1>3, <1>4 DEF HadTurn, Called

\* Turns are had in order.
LEMMA TurnStep ==
    ASSUME RouterInv, RouteTypeOK, RouteInv, [Next]_allVars, [RouterNext]_vars
    PROVE  TurnInv'
<1>0. RouteDataOK /\ HandsInv /\ FifoInv /\ SentInv /\ ExitInv /\ TurnInv
  BY DEF RouteTypeOK, RouteInv
<1>1. ASSUME OrderedPublish, NEW s \in Batches, NEW t \in Batches, HadTurn(s)', t < s
      PROVE  HadTurn(t)'
  <2>1. HadTurn(t)
    <3>1. CASE HadTurn(s)
      BY <1>0, <1>1, <3>1 DEF TurnInv
    <3>2. CASE ~HadTurn(s)
      <4>1. PICK w \in Workers : wpc[w] = "send" /\ wbatch[w] = s /\ HasTurn(s)
        BY <1>0, <1>1, <3>2, NewTurns
      <4> QED
        BY <1>0, <1>1, <4>1, TurnsBefore
    <3> QED
      BY <3>1, <3>2
  <2> QED
    BY <2>1, TurnsStay
<1>2. ASSUME NEW s \in Batches, Called(s)', ~HadTurn(s)'
      PROVE  (mainPc \in {"nack", "nackWait"} \/ Draining)'
  <2>1. ~HadTurn(s)
    BY <1>2, TurnsStay
  <2>2. Called(s) \/ (mainPc = "nack" /\ mainPc' = "nackWait")
    BY <1>0, <1>2, <2>1, NewTurns
  <2>3. mainPc \in {"nack", "nackWait"} \/ Draining => (mainPc \in {"nack", "nackWait"} \/ Draining)'
    <3>1. CASE Main
      BY <3>1 DEF Main, LoopError, LoopShutdown, LoopRead, LoopBatch, LoopEmpty, LoopDrained,
            LoopReadError, Enqueue, BeginDown, JoinedAll, NackNext, NackReturn, DownGate, DownRouter,
            Return, LoopJoin, JoinWorker, Draining, routeVars, mainVars
    <3>2. CASE ~Main
      <4>1. mainPc' = mainPc
        BY <1>0, <3>2, WorkerFrame, OthersFrame DEF mainVars
      <4> QED
        BY <4>1 DEF Draining
    <3> QED
      BY <3>1, <3>2
  <2> QED
    BY <1>0, <2>1, <2>2, <2>3 DEF TurnInv
<1> QED
  BY <1>1, <1>2 DEF TurnInv

-----------------------------------------------------------------------------
\* The runner starts as RouterSpec does, with nobody busy.
LEMMA RouteInit ==
    ASSUME Init
    PROVE  RouterInit /\ RouteTypeOK /\ RouteInv
<1> USE DEF Init
<1>0. /\ \A s \in Batches : stage[s] = "unread" /\ outcome[s] = Unsent
      /\ readSeq = 0 /\ tasks = {} /\ routerUp
  BY DEF RouterInit, SeqInit
<1>1. RouteDataOK /\ HandsInv
  BY NumBatchesAssumption DEF RouteDataOK, HandsInv, NoBatch, Batches
<1>2. RouteFlagOK
  BY Zenon DEF RouteFlagOK
<1>3. FifoInv /\ HeldInv
  BY <1>0 DEF FifoInv, HeldInv, Waiting, Busy
<1>4. SentInv /\ LeaveInv /\ ExitInv
  BY <1>0 DEF SentInv, LeaveInv, ExitInv, Draining
<1>5. TroubleInv /\ TurnInv
  BY <1>0, FineInit DEF TroubleInv, TurnInv, Draining, HadTurn, Called
<1> QED
  BY <1>1, <1>2, <1>3, <1>4, <1>5 DEF RouteTypeOK, RouteInv

\* In every run of run_concurrently, with any number of workers, the commit path keeps its
\* inductive invariant and the runner its own.
THEOREM RouteInvariant == Spec => [](RouterInv /\ SettleInv /\ RouteTypeOK /\ RouteInv)
<1> DEFINE Inv == RouterInv /\ SettleInv /\ RouteTypeOK /\ RouteInv
<1>1. Init => Inv
  BY RouteInit, RouterInvInit, SettleInit
<1>2. Inv /\ [Next]_allVars => Inv'
  <2> SUFFICES ASSUME RouterInv, SettleInv, RouteTypeOK, RouteInv, [Next]_allVars
               PROVE  RouterInv' /\ SettleInv' /\ RouteTypeOK' /\ RouteInv'
    OBVIOUS
  <2>1. DataTypeOK /\ RouteDataOK /\ RouteFlagOK /\ HandsInv
    BY DEF RouterInv, RouterTypeOK, RouteTypeOK
  <2>2. FifoInv /\ HeldInv /\ SentInv /\ LeaveInv /\ ExitInv
    BY DEF RouteInv
  <2>3. [RouterNext]_vars
    BY <2>1, RouteSteps
  <2>4. RouterInv' /\ SettleInv' /\ RouteTypeOK'
    BY <2>1, <2>3, RouterInvStep, SettleStep, RouteTypeStep
  <2>5. FifoInv' /\ HeldInv' /\ SentInv'
    BY <2>1, <2>2, <2>3, FifoStep, HeldStep, SentStep
  <2>6. LeaveInv' /\ ExitInv'
    BY <2>1, <2>2, LeaveStep, ExitStep
  <2>7. TroubleInv' /\ TurnInv'
    BY <2>3, TroubleStep, TurnStep
  <2> QED
    BY <2>4, <2>5, <2>6, <2>7 DEF RouteInv
<1> QED
  BY <1>1, <1>2, PTL DEF Spec

\* The runner's state keeps its types; who is busy with a batch has one.
THEOREM RouteTypes == Spec => []RouteTypeOK
BY RouteInvariant, PTL

\* A run that returns without an error has run the commit of every batch it read, whatever
\* was sent, refused, nacked, flushed or shut down in whatever order: no failure on the
\* commit path and no panic escapes the result of run_concurrently.
THEOREM RouteCommitsAll == Spec => []CleanEndCommitsAll
<1>1. RouteInv => CleanEndCommitsAll
  BY DEF RouteInv, TroubleInv, AllCommitted, CleanEndCommitsAll
<1> QED
  BY <1>1, RouteInvariant, PTL

\* An order-sensitive sink is given the batches in source order, for any number of workers
\* that race for them and any panics (OrderTicket).
THEOREM RoutePublishesInOrder == Spec => PublishInOrder
<1> DEFINE InTurn == \A s \in Batches :
              OrderedPublish /\ outcome[s] # outcome'[s] =>
                 \A t \in Batches : t < s => outcome[t] # Unsent \/ stage[t] = "gone"
<1>1. RouterInv /\ RouteTypeOK /\ RouteInv /\ [Next]_allVars => [InTurn]_allVars
  <2> SUFFICES ASSUME RouterInv, RouteTypeOK, RouteInv, [Next]_allVars,
                      NEW s \in Batches, OrderedPublish, outcome[s] # outcome'[s],
                      NEW t \in Batches, t < s
               PROVE  HadTurn(t)
    BY DEF HadTurn
  <2>0. /\ DataTypeOK /\ RouteDataOK /\ HandsInv /\ FifoInv /\ SentInv /\ ExitInv /\ TurnInv
    BY DEF RouterInv, RouterTypeOK, RouteTypeOK, RouteInv
  <2>1. [RouterNext]_vars
    BY <2>0, RouteSteps
  <2>2. stage[s] = "work" /\ outcome[s] = Unsent
    <3>1. PICK b \in Batches, o \in Outcomes : SendReturns(b, o)
      BY <2>1, OutcomesStay
    <3>2. b = s
      BY <2>0, <3>1 DEF SendReturns, DataTypeOK
    <3> QED
      BY <3>1, <3>2 DEF SendReturns
  <2>3. ~HadTurn(s) /\ HadTurn(s)'
    BY <2>2 DEF HadTurn, Unsent
  <2>4. PICK w \in Workers : wpc[w] = "send" /\ wbatch[w] = s /\ HasTurn(s)
    BY <2>0, <2>3, NewTurns
  <2> QED
    BY <2>0, <2>4, TurnsBefore
<1> QED
  BY <1>1, RouteInvariant, PTL DEF Spec, PublishInOrder

\* run_concurrently drives the commit path only in ways RouterSpec allows.
THEOREM RouteImplementsRouter == Spec => ImplementsRouter
<1>1. Init => RouterInit
  BY RouteInit
<1>2. RouterInv /\ RouteTypeOK /\ [Next]_allVars => [RouterNext]_vars
  <2> SUFFICES ASSUME RouterInv, RouteTypeOK, [Next]_allVars PROVE [RouterNext]_vars
    OBVIOUS
  <2>1. DataTypeOK
    BY DEF RouterInv, RouterTypeOK
  <2> QED
    BY <2>1, RouteSteps
<1> QED
  BY <1>1, <1>2, RouteInvariant, PTL DEF Spec, ImplementsRouter, RouterSpec

\* Hence no run of the concurrent runner moves the source position over a batch that still
\* needs redelivery, commits past a gap or before the flush, strands a waiting commit, or
\* has more in flight than there are permits.
THEOREM RouteSafety == Spec => []CommitSafety /\ []InFlightBound
BY RouteImplementsRouter, RouterCommitSafety, RouterPermits, PTL DEF ImplementsRouter

\* And every run keeps the delivery contract with the source (module Delivery).
THEOREM RouteKeepsContract == Spec => DeliveryContract
BY RouteImplementsRouter, RouterKeepsContract, PTL DEF ImplementsRouter
=============================================================================
