------------------------ MODULE SequentialRoute_proofs ------------------------
(***************************************************************************)
(* The sequential runner implements RouterSpec, for every number of        *)
(* batches and every limit; with CommitRouter_proofs this makes the safety *)
(* of the commit path a fact about run_sequentially.                       *)
(***************************************************************************)
EXTENDS SequentialRoute, CommitRouter_proofs

\* The top of the loop starts, nacks or abandons, the way any runner may.
LEMMA TopSteps ==
    ASSUME LoopDataOK, LoopTop
    PROVE  [RouterNext]_vars
<1> USE DEF Runner, WindingDown, RouterNext
<1>1. ASSUME TakeReaped PROVE RouterNext \/ UNCHANGED vars
  BY <1>1 DEF TakeReaped
<1>2. ASSUME StartSend \/ TopDone PROVE UNCHANGED vars
  BY <1>2 DEF StartSend, TopDone
<1>3. ASSUME NackPrefetched PROVE RouterNext
  BY <1>3 DEF NackPrefetched, LoopDataOK
<1>4. ASSUME NackReturn PROVE RouterNext
  BY <1>4 DEF NackReturn, LoopDataOK
<1> QED
  BY <1>1, <1>2, <1>3, <1>4 DEF LoopTop

\* A branch of the select reads, or stops reading.
LEMMA SelectSteps ==
    ASSUME Select
    PROVE  [RouterNext]_vars
<1> USE DEF Reader, WindingDown, RouterNext
<1>1. ASSUME SelectError \/ SelectStop \/ SelectDrained \/ SelectReadError PROVE RouterNext
  BY <1>1 DEF SelectError, SelectStop, SelectDrained, SelectReadError
<1>2. ASSUME SelectRead \/ SelectBatch \/ SelectEmpty PROVE RouterNext
  BY <1>2 DEF SelectRead, SelectBatch, SelectEmpty
<1>3. ASSUME SelectIdleOver \/ SelectSent PROVE RouterNext \/ UNCHANGED vars
  BY <1>3 DEF SelectIdleOver, SelectSent
<1> QED
  BY <1>1, <1>2, <1>3 DEF Select

\* The send task handles its batch, and winding down ends the gate before the router.
LEMMA SendAndDownSteps ==
    ASSUME LoopDataOK, SendTask \/ TaskPanic \/ WindsDown
    PROVE  [RouterNext]_vars
<1> USE DEF Runner, WindingDown, RouterNext
<1>1. ASSUME TaskSend PROVE RouterNext
  BY <1>1 DEF TaskSend, LoopDataOK
<1>2. ASSUME TaskSpawn \/ TaskInline PROVE RouterNext
  BY <1>2 DEF TaskSpawn, TaskInline, LoopDataOK
<1>3. ASSUME TaskReturn PROVE RouterNext
  BY <1>3 DEF TaskReturn, LoopDataOK
<1>4. ASSUME TaskPanic PROVE RouterNext
  <2>1. PICK s \in Batches : DropCommits({s})
    BY <1>4 DEF TaskPanic, LoopDataOK
  <2>2. {s} \in SUBSET Batches
    OBVIOUS
  <2> QED
    BY <2>1, <2>2
<1>5. ASSUME BeginDown PROVE RouterNext
  BY <1>5 DEF BeginDown
<1>6. ASSUME DrainError \/ DrainDone \/ DownRouter PROVE RouterNext \/ UNCHANGED vars
  BY <1>6 DEF DrainError, DrainDone, DownRouter
<1>7. ASSUME Return PROVE UNCHANGED vars
  BY <1>7 DEF Return
<1> QED
  BY <1>1, <1>2, <1>3, <1>4, <1>5, <1>6, <1>7 DEF SendTask, WindsDown

\* Every step of the runner is a step RouterSpec allows.
LEMMA LoopSteps ==
    ASSUME DataTypeOK, LoopDataOK, [Next]_allVars
    PROVE  [RouterNext]_vars
<1>1. CASE Main
  BY <1>1, TopSteps, SelectSteps, SendAndDownSteps DEF Main
<1>2. CASE SendTask \/ TaskPanic
  BY <1>2, SendAndDownSteps
<1>3. ASSUME NEW s \in Batches, CommitTask(s) PROVE RouterNext
  <2>1. {s} \in SUBSET Batches
    OBVIOUS
  <2> QED
    BY <1>3, <2>1 DEF CommitTask, CommitCall, CommitEnds, CommitAborts, RouterNext, Runner,
                      WindingDown
<1>4. ASSUME \/ Sequencer \/ Gate \/ Timer
             \/ \E s \in Batches : Handover(s)
      PROVE  RouterNext
  BY <1>4 DEF RouterNext
<1>5. ASSUME RequestStop \/ Ended \/ UNCHANGED allVars PROVE UNCHANGED vars
  BY <1>5 DEF RequestStop, Ended, allVars
<1> QED
  BY <1>1, <1>2, <1>3, <1>4, <1>5 DEF Next

-----------------------------------------------------------------------------
\* The runner's data stays well typed: what it sends, holds or has read ahead are batches.
LEMMA LoopDataStep ==
    ASSUME DataTypeOK, LoopDataOK, [Next]_allVars
    PROVE  LoopDataOK'
<1> USE DEF LoopDataOK, SendStates, loopVars
<1>1. CASE LoopTop
  BY <1>1 DEF LoopTop, TakeReaped, StartSend, NackPrefetched, NackReturn, TopDone
<1>2. CASE SelectError \/ SelectStop \/ SelectIdleOver \/ SelectRead \/ SelectEmpty
             \/ SelectDrained \/ SelectReadError \/ SelectSent
  BY <1>2 DEF SelectError, SelectStop, SelectIdleOver, SelectRead, SelectEmpty, SelectDrained,
              SelectReadError, SelectSent, EndAs
<1>3. CASE SelectBatch
  BY <1>3 DEF SelectBatch, ReadBatch
<1>4. CASE SendTask \/ TaskPanic
  BY <1>4 DEF SendTask, TaskSend, TaskSpawn, TaskInline, TaskReturn, TaskPanic
<1>5. CASE WindsDown
  BY <1>5 DEF WindsDown, BeginDown, DrainError, DrainDone, DownRouter, Return
<1>6. CASE UNCHANGED <<mainPc, sendPc, sendBatch, reaped, prefetched, ending>>
  BY <1>6
<1> QED
  BY <1>1, <1>2, <1>3, <1>4, <1>5, <1>6
     DEF Next, Main, Select, CommitTask, CommitCall, CommitEnds, CommitAborts, RequestStop,
         Ended, allVars

-----------------------------------------------------------------------------
(***************************************************************************)
(* The runner's own invariant.                                             *)
(***************************************************************************)
\* Only the select reads a batch.
LEMMA OnlySelectReads ==
    ASSUME [Next]_allVars, ~SelectBatch
    PROVE  readSeq' = readSeq
<1> USE DEF vars, routerVars
<1>1. CASE LoopTop
  BY <1>1 DEF LoopTop, TakeReaped, AbandonSequence, StartSend, NackPrefetched, NackUnsent,
              NackReturn, CommitReturns, TopDone
<1>2. CASE Select
  BY <1>2 DEF Select, SelectError, SelectStop, SelectIdleOver, SelectRead, SelectEmpty,
              SelectDrained, SelectReadError, SelectSent, StopReading, BeginRead, GetPermit, ReadEmpty
<1>3. CASE WindsDown \/ SendTask \/ TaskPanic
  BY <1>3 DEF WindsDown, BeginDown, WindDown, DrainError, StopReading, DrainDone, ShutdownGate,
              DownRouter, ShutdownRouter, Return, SendTask, TaskSend, SendReturns, TaskSpawn,
              SpawnCommit, TaskInline, CallCommit, TaskReturn, CommitReturns, TaskPanic, DropCommits
<1>4. ASSUME NEW s \in Batches, CommitTask(s) \/ Handover(s) PROVE readSeq' = readSeq
  BY <1>4 DEF CommitTask, CommitCall, CallCommit, CommitEnds, CommitReturns, CommitAborts,
              DropCommits, Handover, CommitDirect
<1>5. CASE Sequencer \/ Gate \/ Timer \/ RequestStop \/ Ended \/ UNCHANGED allVars
  BY <1>5 DEF Sequencer, Gate, Timer, RequestStop, Ended, allVars
<1> QED
  BY <1>1, <1>2, <1>3, <1>4, <1>5 DEF Next, Main

\* Steps that leave the batches in the runner's hands where they are.
LEMMA HandsFrame ==
    ASSUME RouterInv, LoopDataOK, HandsInv, [RouterNext]_vars, readSeq' = readSeq,
           UNCHANGED <<sendPc, sendBatch, prefetched>>, reaped' \in {reaped, "none"}
    PROVE  HandsInv'
<1>0. DataTypeOK /\ tasks \subseteq tasks'
  BY HistoryGrows DEF RouterInv, RouterTypeOK
<1>1. \A s \in Batches : MovesOn(s)
  BY <1>0, NoReadMovesOn
<1>2. ASSUME sendPc = "inline", NEW s \in sendBatch
      PROVE  Called(s)' /\ CommitsInline(outcome'[s]) /\ disps'[s] = DispositionsOf(outcome'[s])
  <2>1. s \in Batches /\ Called(s)
    BY <1>2 DEF HandsInv, LoopDataOK
  <2> QED
    BY <1>2, <2>1, CalledStays DEF HandsInv
<1>3. ASSUME sendPc \in {"ok", "failed", "panicked"}, NEW s \in sendBatch
      PROVE  stage'[s] \in {"done", "gone"} \/ s \in tasks'
  BY <1>0, <1>1, <1>3 DEF HandsInv, MovesOn, LoopDataOK
<1>4. \A s \in Batches :
         stage'[s] \in {"unread", "done", "gone"} \/ s \in sendBatch \cup prefetched \cup tasks'
  BY <1>0, <1>1 DEF HandsInv, MovesOn
<1>5. \A s \in sendBatch \cup prefetched : stage'[s] # "unread"
  BY <1>1 DEF HandsInv, MovesOn, LoopDataOK
<1> QED
  BY <1>2, <1>3, <1>4, <1>5 DEF HandsInv, CommitsInline, DispositionsOf

\* A step of the runner loses sight of no batch that is not finished.
LEMMA HandsStep ==
    ASSUME RouterInv, LoopDataOK, HandsInv, [Next]_allVars
    PROVE  HandsInv'
<1>0. DataTypeOK /\ [RouterNext]_vars /\ tasks \subseteq tasks'
  BY LoopSteps, HistoryGrows DEF RouterInv, RouterTypeOK
<1>a. CASE SelectBatch
  <2>1. /\ readSeq \in Batches /\ stage' = [stage EXCEPT ![readSeq] = "work"]
        /\ prefetched = {} /\ prefetched' = {readSeq}
        /\ UNCHANGED <<sendPc, sendBatch, reaped, tasks, outcome, disps>>
    BY <1>a DEF SelectBatch, ReadBatch, WantReceive
  <2>2. stage[readSeq] = "unread"
    BY <2>1 DEF RouterInv, RouterTypeOK, CallInv, DataTypeOK, Batches
  <2>3. readSeq \notin sendBatch
    BY <2>2 DEF HandsInv
  <2>4. \A s \in Batches : stage'[s] = stage[s] \/ s \in prefetched'
    BY <1>0, <2>1 DEF DataTypeOK
  <2>5. (\A s \in sendBatch : stage'[s] = stage[s]) /\ stage'[readSeq] = "work"
    BY <1>0, <2>1, <2>3, <2>4 DEF DataTypeOK, LoopDataOK
  <2> QED
    BY <2>1, <2>4, <2>5 DEF HandsInv, Called, CommitsInline, DispositionsOf
<1>b. CASE ~SelectBatch
  <2>0. readSeq' = readSeq
    BY <1>b, OnlySelectReads
  <2>a. /\ \A s \in Batches : MovesOn(s)
        /\ \A s \in Batches : stage'[s] \in {"unread", "done", "gone"}
                                \/ s \in sendBatch \cup prefetched \cup tasks'
        /\ \A s \in sendBatch \cup prefetched : stage'[s] # "unread"
    BY <1>0, <2>0, NoReadMovesOn DEF HandsInv, MovesOn, LoopDataOK
  <2>1. CASE StartSend
    <3>1. sendBatch = {}
      BY <2>1 DEF StartSend, HandsInv
    <3> QED
      BY <2>1, <2>a, <3>1 DEF StartSend, HandsInv
  <2>2. CASE NackReturn
    <3>1. PICK s \in prefetched : CommitReturns(s, FALSE)
      BY <2>2 DEF NackReturn
    <3>2. /\ prefetched = {s} /\ s \in Batches /\ stage'[s] = "done"
          /\ prefetched' = {} /\ UNCHANGED <<sendPc, sendBatch, reaped>>
      BY <1>0, <2>2, <3>1 DEF NackReturn, HandsInv, LoopDataOK, CommitReturns, DataTypeOK
    <3>3. ASSUME sendPc = "inline", NEW t \in sendBatch
          PROVE  Called(t)' /\ CommitsInline(outcome'[t]) /\ disps'[t] = DispositionsOf(outcome'[t])
      <4>1. t \in Batches /\ Called(t)
        BY <3>3 DEF HandsInv, LoopDataOK
      <4> QED
        BY <1>0, <2>0, <3>3, <4>1, CalledStays DEF HandsInv
    <3>4. ASSUME sendPc \in {"ok", "failed", "panicked"}, NEW t \in sendBatch
          PROVE  stage'[t] \in {"done", "gone"} \/ t \in tasks'
      BY <1>0, <2>a, <3>4 DEF HandsInv, MovesOn, LoopDataOK
    <3> QED
      BY <2>a, <3>2, <3>3, <3>4 DEF HandsInv, CommitsInline, DispositionsOf
  <2>3. CASE SelectSent
    <3>1. /\ sendPc \in {"ok", "failed", "panicked"} /\ sendPc' = "none" /\ sendBatch' = {}
          /\ prefetched' = prefetched
      BY <2>3 DEF SelectSent
    <3>2. \A s \in sendBatch : stage'[s] \in {"done", "gone"} \/ s \in tasks'
      BY <1>0, <2>a, <3>1 DEF HandsInv, MovesOn, LoopDataOK
    <3> QED
      BY <2>a, <3>1, <3>2 DEF HandsInv
  <2>4. CASE TaskSend \/ TaskSpawn
    <3>1. UNCHANGED <<sendBatch, prefetched, reaped>>
      BY <2>4 DEF TaskSend, TaskSpawn
    <3>2. \/ sendPc = "send" /\ sendPc' = "sent"
          \/ sendPc = "sent" /\ sendPc' = "ok" /\ \A s \in sendBatch : s \in tasks'
      BY <2>4 DEF TaskSend, TaskSpawn, SpawnCommit, HandsInv
    <3> QED
      BY <2>a, <3>1, <3>2 DEF HandsInv
  <2>5. CASE TaskInline
    <3>1. PICK s \in sendBatch : CommitsInline(outcome[s]) /\ CallCommit(s)
      BY <2>5 DEF TaskInline
    <3>2. sendBatch = {s} /\ s \in Batches
      BY <3>1 DEF HandsInv, LoopDataOK
    <3>3. /\ stage'[s] \notin {"unread", "work"} /\ outcome' = outcome
          /\ disps'[s] = DispositionsOf(outcome[s])
      BY <1>0, <3>1, <3>2 DEF CallCommit, HoldCommit, routerVars, DataTypeOK
    <3>4. sendPc' = "inline" /\ UNCHANGED <<sendBatch, prefetched, reaped>> /\ sendPc = "sent"
      BY <2>5 DEF TaskInline
    <3> QED
      BY <2>a, <3>1, <3>2, <3>3, <3>4 DEF HandsInv, Called, CommitsInline, DispositionsOf
  <2>6. CASE TaskReturn \/ TaskPanic
    <3>1. /\ sendPc \in {"send", "inline"} /\ sendPc' \in {"ok", "failed", "panicked"}
          /\ UNCHANGED <<sendBatch, prefetched, reaped>>
      BY <2>6 DEF TaskReturn, TaskPanic
    <3>2. PICK s \in sendBatch : CommitReturns(s, FALSE) \/ DropCommits({s})
      BY <2>6 DEF TaskReturn, TaskPanic
    <3>3. sendBatch = {s} /\ s \in Batches /\ stage[s] # "unread"
      BY <3>2 DEF HandsInv, LoopDataOK
    <3>4. stage'[s] \in {"done", "gone"}
      BY <1>0, <3>2, <3>3 DEF CommitReturns, DropCommits, DataTypeOK
    <3> QED
      BY <2>a, <3>1, <3>3, <3>4 DEF HandsInv
  <2>7. CASE UNCHANGED <<sendPc, sendBatch, prefetched>> /\ reaped' \in {reaped, "none"}
    BY <1>0, <2>0, <2>7, HandsFrame
  <2>8. CASE LoopTop \/ Select
    BY <1>b, <2>1, <2>2, <2>3, <2>7, <2>8
       DEF LoopTop, TakeReaped, NackPrefetched, TopDone, Select, SelectError, SelectStop,
           SelectIdleOver, SelectRead, SelectEmpty, SelectDrained, SelectReadError, EndAs, loopVars
  <2>9. CASE WindsDown \/ RequestStop \/ Ended \/ UNCHANGED allVars
    BY <2>7, <2>9 DEF WindsDown, BeginDown, DrainError, DrainDone, DownRouter, Return, RequestStop,
                      Ended, allVars, loopVars
  <2>10. CASE UNCHANGED loopVars
    BY <2>7, <2>10 DEF loopVars
  <2> QED
    BY <2>4, <2>5, <2>6, <2>8, <2>9, <2>10
       DEF Next, Main, SendTask, CommitTask, CommitCall, CommitEnds, CommitAborts
<1> QED
  BY <1>a, <1>b

\* The runner leaves its loop with nothing in hand and an end in mind.
LEMMA ExitStep ==
    ASSUME RouterInv, LoopDataOK, HandsInv, ExitInv, [Next]_allVars
    PROVE  ExitInv'
<1> USE DEF LoopDataOK, ExitInv
<1>0. DataTypeOK
  BY DEF RouterInv, RouterTypeOK
<1>1. CASE LoopTop
  <2>1. routerUp' = routerUp
    <3>1. ASSUME NEW s \in Batches, NackUnsent(s) \/ CommitReturns(s, FALSE) PROVE Runner(s)
      BY <3>1 DEF Runner
    <3> QED
      BY <1>1, <3>1, RouterStaysUp DEF LoopTop, TakeReaped, StartSend, NackPrefetched, NackReturn, TopDone
  <2>2. tasksLost' = tasksLost
    BY <1>1 DEF LoopTop, TakeReaped, StartSend, NackPrefetched, NackReturn, TopDone
  <2>3. CASE TakeReaped
    BY <2>1, <2>2, <2>3 DEF TakeReaped
  <2>4. CASE StartSend \/ NackPrefetched
    BY <2>1, <2>2, <2>4 DEF StartSend, NackPrefetched
  <2>5. CASE NackReturn \/ TopDone
    BY <2>1, <2>2, <2>5 DEF NackReturn, TopDone
  <2> QED
    BY <1>1, <2>3, <2>4, <2>5 DEF LoopTop
<1>2. CASE Select
  <2>1. routerUp' = routerUp
    BY <1>2, RouterStaysUp
       DEF Select, SelectError, SelectStop, SelectIdleOver, SelectRead, SelectBatch, SelectEmpty,
           SelectDrained, SelectReadError, SelectSent, Reader
  <2>2. mainPc = "select" /\ mainPc' \in {"select", "top"} /\ tasksLost' = tasksLost
    BY <1>2 DEF Select, SelectError, SelectStop, SelectIdleOver, SelectRead, SelectBatch,
                SelectEmpty, SelectDrained, SelectReadError, SelectSent, EndAs, loopVars
  <2>3. tasksLost => (ending = "err" \/ sendPc = "panicked" \/ reaped = "panicked")'
    <3>1. CASE SelectSent
      BY <3>1 DEF SelectSent, HandsInv
    <3>2. CASE ~SelectSent
      BY <1>2, <3>2
         DEF Select, SelectError, SelectStop, SelectIdleOver, SelectRead, SelectBatch, SelectEmpty,
             SelectDrained, SelectReadError, EndAs, loopVars, WantReceive
    <3> QED
      BY <3>1, <3>2
  <2> QED
    BY <2>1, <2>2, <2>3
<1>3. CASE BeginDown \/ DrainError \/ DrainDone \/ DownRouter \/ Return
  <2>1. routerUp' = routerUp \/ mainPc' = "router"
    BY <1>3, RouterStaysUp DEF BeginDown, DrainError, DrainDone, DownRouter, Return
  <2>2. mainPc \in {"down", "drain", "gate", "router"} /\ mainPc' \in {"drain", "gate", "router", "end"}
        /\ (mainPc \in {"router", "end"} => mainPc' \in {"router", "end"})
        /\ UNCHANGED <<sendPc, reaped, prefetched, tasksLost>> /\ ending' \in {ending, "err"}
    BY <1>3 DEF BeginDown, DrainError, DrainDone, DownRouter, Return
  <2> QED
    BY <2>1, <2>2
<1>4. CASE SendTask \/ TaskPanic
  <2>1. routerUp' = routerUp
    <3>1. ASSUME NEW s \in Batches,
                 \/ \E o \in Outcomes : SendReturns(s, o)
                 \/ SpawnCommit(s) \/ CallCommit(s) \/ CommitReturns(s, FALSE)
          PROVE  Runner(s)
      BY <3>1 DEF Runner
    <3>2. ASSUME NEW s \in Batches, DropCommits({s}) PROVE routerUp' = routerUp
      BY <3>2 DEF DropCommits
    <3> QED
      BY <1>4, <3>1, <3>2, RouterStaysUp DEF SendTask, TaskSend, TaskSpawn, TaskInline, TaskReturn, TaskPanic
  <2>2. /\ sendPc \notin {"none", "panicked"} /\ UNCHANGED <<mainPc, prefetched, reaped, ending>>
        /\ tasksLost' = tasksLost \/ sendPc' = "panicked"
    BY <1>4 DEF SendTask, TaskSend, TaskSpawn, TaskInline, TaskReturn, TaskPanic
  <2> QED
    BY <2>1, <2>2
<1>5. ASSUME UNCHANGED <<mainPc, sendPc, reaped, prefetched, ending, tasksLost, routerUp>> PROVE ExitInv'
  BY <1>5
<1>6. ASSUME NEW s \in Batches, CommitTask(s) \/ (Handover(s) /\ UNCHANGED loopVars)
      PROVE  UNCHANGED <<mainPc, sendPc, reaped, prefetched, ending, tasksLost, routerUp>>
  <2>1. UNCHANGED loopVars
    BY <1>6 DEF CommitTask, CommitCall, CommitEnds, CommitAborts
  <2>2. routerUp' = routerUp
    BY <1>6, RouterStaysUp DEF CommitTask, CommitCall, CommitEnds, CommitAborts, Runner, DropCommits
  <2> QED
    BY <2>1, <2>2 DEF loopVars
<1>7. ASSUME \/ (Sequencer \/ Gate \/ Timer) /\ UNCHANGED loopVars
             \/ RequestStop \/ Ended \/ UNCHANGED allVars
      PROVE  UNCHANGED <<mainPc, sendPc, reaped, prefetched, ending, tasksLost, routerUp>>
  <2>1. routerUp' = routerUp
    BY <1>7, RouterStaysUp DEF RequestStop, Ended, allVars
  <2> QED
    BY <1>7, <2>1 DEF loopVars, RequestStop, Ended, allVars
<1> QED
  BY <1>1, <1>2, <1>3, <1>4, <1>5, <1>6, <1>7 DEF Next, Main, WindsDown

\* The flags of the runner stay Boolean.
LEMMA LoopFlagsStep ==
    ASSUME LoopTypeOK, [Next]_allVars
    PROVE  idle' \in BOOLEAN /\ tasksLost' \in BOOLEAN /\ stopReq' \in BOOLEAN
<1> USE DEF LoopTypeOK, loopVars
<1>1. CASE LoopTop
  BY <1>1, Zenon DEF LoopTop, TakeReaped, StartSend, NackPrefetched, NackReturn, TopDone
<1>2. CASE Select
  BY <1>2, Zenon DEF Select, SelectError, SelectStop, SelectIdleOver, SelectRead, SelectBatch,
                     SelectEmpty, SelectDrained, SelectReadError, SelectSent, EndAs
<1>3. CASE WindsDown \/ RequestStop
  BY <1>3, Zenon DEF WindsDown, BeginDown, DrainError, DrainDone, DownRouter, Return, RequestStop
<1>4. CASE SendTask \/ TaskPanic
  BY <1>4, Zenon DEF SendTask, TaskSend, TaskSpawn, TaskInline, TaskReturn, TaskPanic
<1>5. CASE UNCHANGED loopVars
  BY <1>5, Zenon
<1> QED
  BY <1>1, <1>2, <1>3, <1>4, <1>5, Zenon
     DEF Next, Main, CommitTask, CommitCall, CommitEnds, CommitAborts, Ended, allVars

-----------------------------------------------------------------------------
(***************************************************************************)
(* A run that reports a drain has nothing to hide.                         *)
(***************************************************************************)
\* Before the commit tasks are joined: a step after which the runner is not troubled is one
\* before which it was not, and it leaves the commit path fine.
LEMMA MainKeepsFine ==
    ASSUME RouterInv, SettleInv, LoopDataOK, HandsInv, ExitInv, Troubled \/ PathFine,
           LoopTop \/ Select \/ BeginDown \/ DrainError, ~Troubled'
    PROVE  PathFine'
<1> USE DEF Troubled, LoopDataOK
<1>1. CASE TakeReaped
  <2>1. reaped = "ok" /\ UNCHANGED vars /\ UNCHANGED <<ending, sendPc>>
    BY <1>1 DEF TakeReaped
  <2> QED
    BY <2>1, FineUnchanged DEF vars, gateVars
<1>2. CASE StartSend \/ TopDone \/ SelectIdleOver
  <2>1. UNCHANGED vars /\ UNCHANGED <<ending, reaped>> /\ (sendPc' = sendPc \/ sendPc = "none")
    BY <1>2 DEF StartSend, TopDone, SelectIdleOver
  <2> QED
    BY <2>1, FineUnchanged DEF vars, gateVars
<1>3. CASE NackPrefetched \/ NackReturn
  BY <1>3 DEF NackPrefetched, NackReturn, ExitInv
<1>4. CASE SelectError \/ SelectStop \/ SelectReadError
  BY <1>4 DEF SelectError, SelectStop, SelectReadError, EndAs
<1>5. CASE SelectDrained
  <2>1. StopReading(FALSE) /\ ending = "none" /\ UNCHANGED <<sendPc, reaped>>
    BY <1>5 DEF SelectDrained, EndAs, WantReceive
  <2> QED
    BY <2>1, ReaderKeepsFine DEF StopReading
<1>6. CASE SelectRead \/ SelectBatch \/ SelectEmpty
  <2>1. Reader /\ UNCHANGED <<sendPc, reaped, ending>>
    BY <1>6 DEF SelectRead, SelectBatch, SelectEmpty, Reader, loopVars
  <2>2. errQueued' = errQueued
    BY <2>1 DEF Reader, BeginRead, GetPermit, ReadBatch, ReadEmpty, gateVars
  <2> QED
    BY <2>1, <2>2, ReaderKeepsFine
<1>7. CASE SelectSent
  <2>1. /\ sendPc = "ok" /\ reaped = "none" /\ ending' = ending
        /\ StopReading(FALSE) \/ UNCHANGED vars
    BY <1>7 DEF SelectSent, HandsInv
  <2>2. errQueued => errQueued'
    BY <2>1 DEF StopReading, vars, gateVars
  <2> QED
    BY <2>1, <2>2, ReaderKeepsFine, FineUnchanged
<1>8. CASE BeginDown
  <2>1. ending \notin {"err", "stop"} /\ UNCHANGED <<sendPc, reaped, ending>>
    BY <1>8 DEF BeginDown
  <2>2. WindDown("Close", FALSE)
    BY <1>8, <2>1 DEF BeginDown
  <2> QED
    BY <2>1, <2>2, ReaderKeepsFine DEF WindDown
<1>9. CASE DrainError
  BY <1>9 DEF DrainError, ExitInv
<1> QED
  BY <1>1, <1>2, <1>3, <1>4, <1>5, <1>6, <1>7, <1>8, <1>9 DEF LoopTop, Select

\* The same for the send task and the commit tasks.
LEMMA TasksKeepFine ==
    ASSUME RouterInv, SettleInv, LoopDataOK, HandsInv, ExitInv, Troubled \/ PathFine,
           SendTask \/ TaskPanic \/ \E s \in Batches : CommitTask(s), ~Troubled'
    PROVE  PathFine'
<1> USE DEF Troubled, LoopDataOK
<1>0. DataTypeOK /\ FlagTypeOK
  BY DEF RouterInv, RouterTypeOK
<1>1. CASE TaskSend \/ TaskSpawn \/ TaskInline
  <2>1. PICK s \in Batches :
           (\E o \in Outcomes : SendReturns(s, o)) \/ SpawnCommit(s) \/ CallCommit(s)
    BY <1>1 DEF TaskSend, TaskSpawn, TaskInline
  <2>2. UNCHANGED <<reaped, ending>> /\ sendPc \in {"send", "sent"}
    BY <1>1 DEF TaskSend, TaskSpawn, TaskInline
  <2>3. errQueued' = errQueued
    BY <2>1 DEF SendReturns, SpawnCommit, CallCommit, gateVars
  <2> QED
    BY <2>1, <2>2, <2>3, ClosureKeepsFine
<1>2. CASE TaskReturn
  <2>1. PICK s \in sendBatch :
           /\ CommitReturns(s, FALSE)
           /\ sendPc' = IF InlineFails(outcome[s], stage[s]) THEN "failed" ELSE "ok"
    BY <1>2 DEF TaskReturn
  <2>2. /\ s \in Batches /\ CommitsInline(outcome[s]) /\ disps[s] = DispositionsOf(outcome[s])
        /\ UNCHANGED <<reaped, ending>> /\ sendPc = "inline"
    BY <1>2, <2>1 DEF TaskReturn, HandsInv
  <2>3. ~errQueued /\ ~InlineFails(outcome[s], stage[s])
    BY <2>1 DEF CommitReturns, ReportRouteError
  <2>4. PathFine
    BY <2>2, <2>3
  <2>5. ASSUME Ordered, stage[s] = "err" PROVE latch
    <3>1. outcome[s] \in AllOutcomes
      BY <1>0, <2>2, UnsentIsNoOutcome DEF DataTypeOK, CommitsInline, Unsent
    <3>2. "Nack" \in disps[s]
      BY <2>2, <2>3, <2>5, <3>1, QuietFailureNacked
    <3> QED
      BY <2>2, <2>4, <2>5, <3>2 DEF PathFine, SettleInv
  <2> QED
    BY <2>1, <2>2, <2>4, <2>5, ReturnKeepsFine
<1>3. CASE TaskPanic
  BY <1>3 DEF TaskPanic
<1>4. ASSUME NEW s \in Batches, CommitTask(s) PROVE PathFine'
  <2>1. UNCHANGED <<sendPc, reaped, ending, tasksLost>>
    BY <1>4 DEF CommitTask, CommitCall, CommitEnds, CommitAborts, loopVars
  <2>2. CASE CommitCall(s)
    <3>1. CallCommit(s) /\ errQueued' = errQueued
      BY <2>2 DEF CommitCall, CallCommit
    <3> QED
      BY <2>1, <3>1, ClosureKeepsFine
  <2>3. CASE CommitEnds(s)
    <3>1. CommitReturns(s, FALSE) /\ s \in tasks
      BY <2>3 DEF CommitEnds
    <3>2. stage[s] # "err" /\ ~errQueued
      BY <3>1 DEF CommitReturns, ReportRouteError
    <3> QED
      BY <2>1, <3>1, <3>2, ReturnKeepsFine
  <2>4. CASE CommitAborts(s)
    BY <2>1, <2>4 DEF CommitAborts, ExitInv
  <2> QED
    BY <1>4, <2>2, <2>3, <2>4 DEF CommitTask
<1> QED
  BY <1>1, <1>2, <1>3, <1>4 DEF SendTask

\* And for the tasks of the commit path, while the router is up.
LEMMA PathKeepsFine ==
    ASSUME RouterInv, SettleInv, Troubled \/ PathFine, routerUp, UNCHANGED loopVars,
           Sequencer \/ Gate \/ Timer \/ \E s \in Batches : Handover(s), ~Troubled'
    PROVE  PathFine'
<1> USE DEF Troubled, loopVars
<1>1. CASE Sequencer
  <2>1. errQueued' = errQueued
    BY <1>1 DEF Sequencer, gateVars
  <2> QED
    BY <1>1, <2>1, SequencerKeepsFine
<1>2. CASE Gate \/ Timer
  <2>1. errQueued' = errQueued \/ errQueued' = TRUE
    BY <1>2 DEF Gate, Timer, GateRecv, FlushOk, FlushErr, GateTimer, ReportRouteError
  <2> QED
    BY <1>2, <2>1, GateKeepsFine
<1>3. ASSUME NEW s \in Batches, Handover(s) PROVE PathFine'
  <2>1. errQueued' = errQueued
    BY <1>3 DEF Handover, CommitDirect, gateVars
  <2> QED
    BY <1>3, <2>1, ClosureKeepsFine
<1> QED
  BY <1>1, <1>2, <1>3

\* Every step keeps the account of what went wrong.
LEMMA TroubleStep ==
    ASSUME RouterInv, SettleInv, LoopDataOK, HandsInv, ExitInv, TroubleInv, [Next]_allVars
    PROVE  TroubleInv'
<1>0. DataTypeOK /\ [RouterNext]_vars
  BY LoopSteps DEF RouterInv, RouterTypeOK
<1> USE DEF Draining
<1>1. CASE ~Draining /\ ~Draining'
  <2> SUFFICES ASSUME ~Troubled' PROVE PathFine'
    BY <1>1 DEF TroubleInv
  <2>0. (Troubled \/ PathFine) /\ routerUp
    BY <1>1 DEF TroubleInv, ExitInv
  <2>1. CASE LoopTop \/ Select \/ BeginDown \/ DrainError
    BY <2>0, <2>1, MainKeepsFine
  <2>2. CASE DrainDone \/ DownRouter \/ Return
    BY <1>1, <2>2 DEF DrainDone, DownRouter, Return
  <2>3. CASE SendTask \/ TaskPanic \/ \E s \in Batches : CommitTask(s)
    BY <2>0, <2>3, TasksKeepFine
  <2>4. CASE /\ Sequencer \/ Gate \/ Timer \/ \E s \in Batches : Handover(s)
             /\ UNCHANGED loopVars
    BY <2>0, <2>4, PathKeepsFine
  <2>5. CASE RequestStop \/ Ended \/ UNCHANGED allVars
    <3>1. UNCHANGED vars /\ UNCHANGED <<sendPc, reaped, ending, errQueued>>
      BY <2>5 DEF RequestStop, Ended, allVars, loopVars, vars, gateVars
    <3> QED
      BY <2>0, <3>1, FineUnchanged DEF Troubled
  <2> QED
    BY <2>1, <2>2, <2>3, <2>4, <2>5 DEF Next, Main, WindsDown
<1>2. CASE ~Draining /\ Draining'
  <2>1. DrainDone
    <3>1. mainPc # mainPc'
      BY <1>2
    <3>2. ~SendTask /\ ~TaskPanic /\ ~RequestStop /\ ~Ended /\ ~UNCHANGED allVars /\ ~UNCHANGED loopVars
      BY <3>1 DEF SendTask, TaskSend, TaskSpawn, TaskInline, TaskReturn, TaskPanic, RequestStop,
                  Ended, allVars, loopVars
    <3>3. ~\E s \in Batches : CommitTask(s)
      BY <3>2 DEF CommitTask, CommitCall, CommitEnds, CommitAborts
    <3>4. ~LoopTop
      BY <1>2 DEF LoopTop, TakeReaped, StartSend, NackPrefetched, NackReturn, TopDone
    <3>5. ~Select
      BY <1>2 DEF Select, SelectError, SelectStop, SelectIdleOver, SelectRead, SelectBatch,
                  SelectEmpty, SelectDrained, SelectReadError, SelectSent, EndAs, loopVars
    <3>6. ~BeginDown /\ ~DrainError /\ ~DownRouter /\ ~Return
      BY <1>2 DEF BeginDown, DrainError, DownRouter, Return
    <3> QED
      BY <3>2, <3>3, <3>4, <3>5, <3>6 DEF Next, Main, WindsDown
  <2>2. SUFFICES ASSUME ending' = "drain"
                 PROVE  (/\ \A s \in Batches : stage[s] = "unread" \/ (stage[s] = "done" /\ s \in ran)
                         /\ Ordered /\ ~latch => position = readSeq)'
    BY <1>2 DEF TroubleInv
  <2>3. /\ ending = "drain" /\ ~errQueued /\ mainPc = "drain"
        /\ tasksLost \/ LiveTasks = {}
        /\ UNCHANGED <<stage, ran, latch, position, readSeq>>
    BY <2>1, <2>2 DEF DrainDone, ShutdownGate, vars, csVars, seqVars, srcVars, routerVars
  <2>4. sendPc = "none" /\ reaped = "none" /\ prefetched = {} /\ sendBatch = {} /\ ~tasksLost
    BY <2>3 DEF ExitInv, HandsInv
  <2>5. PathFine
    BY <1>2, <2>3, <2>4 DEF TroubleInv, Troubled
  <2>6. \A s \in Batches : stage[s] \in {"unread", "done"}
    BY <2>3, <2>4, <2>5 DEF HandsInv, LiveTasks, PathFine
  <2> QED
    BY <2>3, <2>5, <2>6, AllDoneCovered
<1>3. CASE Draining
  <2>1. /\ Draining' /\ ending' = ending /\ ~SelectBatch
    <3>1. CASE LoopTop \/ Select \/ BeginDown \/ DrainError \/ DrainDone
      BY <1>3, <3>1 DEF LoopTop, TakeReaped, StartSend, NackPrefetched, NackReturn, TopDone,
                        Select, SelectError, SelectStop, SelectIdleOver, SelectRead, SelectBatch,
                        SelectEmpty, SelectDrained, SelectReadError, SelectSent,
                        BeginDown, DrainError, DrainDone
    <3>2. CASE DownRouter \/ Return
      BY <1>3, <3>2 DEF DownRouter, Return, SelectBatch
    <3>3. CASE UNCHANGED <<mainPc, ending>>
      BY <1>3, <3>3 DEF SelectBatch
    <3> QED
      BY <3>1, <3>2, <3>3
         DEF Next, Main, WindsDown, SendTask, TaskSend, TaskSpawn, TaskInline, TaskReturn, TaskPanic,
             CommitTask, CommitCall, CommitEnds, CommitAborts, RequestStop, Ended, allVars, loopVars
  <2>2. readSeq' = readSeq
    BY <2>1, OnlySelectReads
  <2> QED
    BY <1>0, <1>3, <2>1, <2>2, AllDoneStays DEF TroubleInv
<1> QED
  BY <1>1, <1>2, <1>3

\* In every run of run_sequentially the commit path keeps its inductive invariant, and the
\* runner its own.
THEOREM LoopInvariant == Spec => [](RouterInv /\ SettleInv /\ LoopInv)
<1>1. Init => RouterInv /\ SettleInv /\ LoopInv
  <2> SUFFICES ASSUME Init PROVE RouterInv /\ SettleInv /\ LoopInv
    OBVIOUS
  <2> USE DEF Init
  <2>1. RouterInv
    BY RouterInvInit
  <2>2. SettleInv /\ PathFine
    BY SettleInit, FineInit
  <2>3. LoopDataOK /\ HandsInv
    BY DEF LoopDataOK, SendStates, HandsInv, RouterInit, SeqInit
  <2>4. LoopTypeOK
    BY <2>3, Zenon DEF LoopTypeOK
  <2>5. ExitInv /\ TroubleInv
    BY <2>2 DEF ExitInv, TroubleInv, Draining, RouterInit, SeqInit
  <2> QED
    BY <2>1, <2>2, <2>3, <2>4, <2>5 DEF LoopInv
<1>2. RouterInv /\ SettleInv /\ LoopInv /\ [Next]_allVars => (RouterInv /\ SettleInv /\ LoopInv)'
  <2> SUFFICES ASSUME RouterInv, SettleInv, LoopInv, [Next]_allVars
               PROVE  RouterInv' /\ SettleInv' /\ LoopInv'
    OBVIOUS
  <2>1. DataTypeOK /\ LoopTypeOK /\ LoopDataOK /\ HandsInv /\ ExitInv /\ TroubleInv
    BY DEF RouterInv, RouterTypeOK, LoopInv, LoopTypeOK
  <2>2. LoopTypeOK'
    BY <2>1, LoopDataStep, LoopFlagsStep DEF LoopTypeOK
  <2>3. RouterInv' /\ SettleInv'
    BY <2>1, LoopSteps, RouterInvStep, SettleStep
  <2>4. HandsInv' /\ ExitInv' /\ TroubleInv'
    BY <2>1, HandsStep, ExitStep, TroubleStep
  <2> QED
    BY <2>2, <2>3, <2>4 DEF LoopInv
<1> QED
  BY <1>1, <1>2, PTL DEF Spec

\* The runner's state keeps its types.
THEOREM LoopTypes == Spec => []LoopTypeOK
<1>1. LoopInv => LoopTypeOK
  BY DEF LoopInv
<1> QED
  BY <1>1, LoopInvariant, PTL

\* The runner never loses sight of a batch it has read: prefetched, in its send task or with
\* its commit task (next_step, reaped, prefetched).
THEOREM LoopForgetsNothing == Spec => []NoBatchForgotten
<1>1. LoopInv => NoBatchForgotten
  BY DEF LoopInv, HandsInv, NoBatchForgotten
<1> QED
  BY <1>1, LoopInvariant, PTL

\* A run that reports a complete drain has run every commit, whatever failed and was reported
\* on the way: no error of a late commit or flush is lost (the drain loop).
THEOREM LoopDrainCommitsAll == Spec => []DrainCommitsAll
<1>1. LoopInv => DrainCommitsAll
  BY DEF LoopInv, TroubleInv, Draining, DrainCommitsAll
<1> QED
  BY <1>1, LoopInvariant, PTL

\* run_sequentially drives the commit path only in ways RouterSpec allows.
THEOREM LoopImplementsRouter == Spec => ImplementsRouter
<1>1. Init => RouterInit
  BY DEF Init
<1>2. RouterInv /\ LoopInv /\ [Next]_allVars => [RouterNext]_vars
  <2> SUFFICES ASSUME RouterInv, LoopInv, [Next]_allVars PROVE [RouterNext]_vars
    OBVIOUS
  <2>1. DataTypeOK /\ LoopDataOK
    BY DEF RouterInv, RouterTypeOK, LoopInv, LoopTypeOK
  <2> QED
    BY <2>1, LoopSteps
<1> QED
  BY <1>1, <1>2, LoopInvariant, PTL DEF Spec, ImplementsRouter, RouterSpec

\* Hence the sequential runner has the same safety: nothing lost, no commit past a gap or
\* before the flush, nobody stranded, no more in flight than there are permits, and the
\* delivery contract with the source.
THEOREM LoopSafety == Spec => []CommitSafety /\ []InFlightBound /\ DeliveryContract
BY LoopImplementsRouter, RouterCommitSafety, RouterPermits, RouterKeepsContract, PTL
   DEF ImplementsRouter
=============================================================================
