------------------------- MODULE CommitRouter_proofs -------------------------
(***************************************************************************)
(* Safety of the commit path under every runner that RouterSpec allows,    *)
(* for any number of batches, any commit limit, any mix of middlewares and *)
(* with or without a flush gate.                                           *)
(***************************************************************************)
EXTENDS CommitRouter, FiniteSetTheorems, TLAPS

-----------------------------------------------------------------------------
(***************************************************************************)
(* Lemmas about dispositions.                                              *)
(***************************************************************************)
\* DispositionsOf yields dispositions.
LEMMA DispositionsType ==
    ASSUME NEW o \in AllOutcomes
    PROVE  DispositionsOf(o) \subseteq Dispositions
<1>1. o.results \subseteq Results
  BY DEF AllOutcomes, Results
<1>2. \A r \in Results : DispositionOf(r) \in Dispositions
  BY DEF Results, DispositionOf, Dispositions
<1>3. \A d \in Dispositions : ApplyPolicy(d) \in Dispositions
  BY DEF ApplyPolicy, Dispositions
<1> QED
  BY <1>1, <1>2, <1>3 DEF DispositionsOf

\* Where a failure stops the route, an outcome that nacks nothing needs no redelivery.
LEMMA NoNackIsClean ==
    ASSUME NEW o \in AllOutcomes, Policy = "StopRoute", "Nack" \notin DispositionsOf(o)
    PROVE  "transient" \notin o.results /\ (HasDlq => "permanent" \notin o.results)
<1>1. o.results \subseteq Results
  BY DEF AllOutcomes, Results
<1>2. DispositionsOf(o) = {DispositionOf(r) : r \in o.results}
  BY DEF DispositionsOf, ApplyPolicy
<1>3. \A r \in o.results : DispositionOf(r) # "Nack"
  BY <1>2
<1> QED
  BY <1>3 DEF DispositionOf

\* Nothing of an all-nack batch was accepted.
LEMMA AllNackNotAccepted ==
    ASSUME NEW o \in AllOutcomes, DispositionsOf(o) = {"Nack"}
    PROVE  o.results \cap {"ok", "reply"} = {}
<1>1. o.results \subseteq Results
  BY DEF AllOutcomes, Results
<1>2. \A r \in {"ok", "reply"} : r \in o.results =>
         DispositionOf(r) \in DispositionsOf(o) \/ ApplyPolicy(DispositionOf(r)) \in DispositionsOf(o)
  BY DEF DispositionsOf
<1>3. \A r \in {"ok", "reply"} : DispositionOf(r) # "Nack" /\ ApplyPolicy(DispositionOf(r)) # "Nack"
  BY DEF DispositionOf, ApplyPolicy
<1> QED
  BY <1>2, <1>3

(***************************************************************************)
(* Lemmas about the channels, which are sequences.                         *)
(***************************************************************************)
\* Taking the first element of a queue.
LEMMA TakeFirst ==
    ASSUME NEW S, NEW q \in Seq(S), q # <<>>
    PROVE  /\ Head(q) \in S /\ Tail(q) \in Seq(S)
           /\ {q[i] : i \in DOMAIN q} = {Head(q)} \cup {Tail(q)[i] : i \in DOMAIN Tail(q)}
<1>1. Head(q) \in S /\ Tail(q) \in Seq(S) /\ Head(q) = q[1] /\ 1 \in DOMAIN q
  OBVIOUS
<1>2. \A i \in DOMAIN Tail(q) : i + 1 \in DOMAIN q /\ Tail(q)[i] = q[i + 1]
  OBVIOUS
<1>3. \A i \in DOMAIN q : i = 1 \/ (i - 1 \in DOMAIN Tail(q) /\ Tail(q)[i - 1] = q[i])
  OBVIOUS
<1>4. ASSUME NEW x \in {q[i] : i \in DOMAIN q}
      PROVE  x \in {Head(q)} \cup {Tail(q)[i] : i \in DOMAIN Tail(q)}
  BY <1>1, <1>3
<1>5. ASSUME NEW x \in {Head(q)} \cup {Tail(q)[i] : i \in DOMAIN Tail(q)}
      PROVE  x \in {q[i] : i \in DOMAIN q}
  BY <1>1, <1>2
<1> QED
  BY <1>1, <1>4, <1>5

\* Adding an element to a queue.
LEMMA AddLast ==
    ASSUME NEW S, NEW q \in Seq(S), NEW e \in S
    PROVE  /\ Append(q, e) \in Seq(S)
           /\ {Append(q, e)[i] : i \in DOMAIN Append(q, e)} = {q[i] : i \in DOMAIN q} \cup {e}
<1> DEFINE a == Append(q, e)
<1>1. a \in Seq(S) /\ Len(a) = Len(q) + 1 /\ a[Len(a)] = e /\ Len(a) \in DOMAIN a
  OBVIOUS
<1>2. \A i \in DOMAIN q : i \in DOMAIN a /\ a[i] = q[i]
  OBVIOUS
<1>3. \A i \in DOMAIN a : i = Len(a) \/ (i \in DOMAIN q /\ a[i] = q[i])
  OBVIOUS
<1> HIDE DEF a
<1>4. ASSUME NEW x \in {a[i] : i \in DOMAIN a} PROVE x \in {q[i] : i \in DOMAIN q} \cup {e}
  BY <1>1, <1>3
<1>5. ASSUME NEW x \in {q[i] : i \in DOMAIN q} \cup {e} PROVE x \in {a[i] : i \in DOMAIN a}
  BY <1>1, <1>2
<1> QED
  BY <1>1, <1>4, <1>5 DEF a

\* A Hold event names a batch.
LEMMA HoldsBatch ==
    ASSUME DataTypeOK
    PROVE  \A i \in DOMAIN gateQ : gateQ[i].ev = "Hold" => gateQ[i].batch \in Batches
<1>1. \A i \in DOMAIN gateQ : gateQ[i] \in GateEvents
  BY DEF DataTypeOK
<1>2. \A e \in GateEvents : e.ev = "Hold" => e.batch \in Batches
  BY DEF GateEvents
<1> QED
  BY <1>1, <1>2

LEMMA UnsentIsNoOutcome == Unsent \notin AllOutcomes /\ Unsent.results = {}
BY DEF Unsent, AllOutcomes

(***************************************************************************)
(* CallInv survives a step that adds no outcome and no hold, moves only     *)
(* called closures, and moves them past the gate.                          *)
(***************************************************************************)
Known == held \cup flushing \cup buffer \cup Queued \cup ran

LEMMA CallFrame ==
    ASSUME DataTypeOK, CallInv,
           UNCHANGED <<readSeq, accepted, outcome, disps>>,
           \A i \in DOMAIN gateQ' :
              gateQ'[i].ev = "Hold" => \E j \in DOMAIN gateQ : gateQ'[i] = gateQ[j],
           \A s \in Batches :
              stage'[s] = stage[s] \/ (Called(s) /\ stage'[s] \notin {"unread", "work", "hold"}),
           \A s \in Known' : s \in Batches /\ Called(s)
    PROVE  CallInv'
<1>0. \A s \in Batches : Called(s) => Called(s)'
  BY DEF Called
<1>1. \A s \in Batches : stage'[s] = "unread" <=> s >= readSeq'
  BY DEF CallInv, Called
<1>2. \A s \in accepted' : outcome'[s].results \cap {"ok", "reply"} # {}
  BY DEF CallInv
<1>3. \A s \in Known' : Called(s)'
  BY <1>0
<1>4. ASSUME NEW i \in DOMAIN gateQ', gateQ'[i].ev = "Hold"
      PROVE  stage'[gateQ'[i].batch] \notin {"unread", "work"}
  <2>1. PICK j \in DOMAIN gateQ : gateQ'[i] = gateQ[j]
    BY <1>4
  <2>2. gateQ[j].batch \in Batches /\ Called(gateQ[j].batch)
    BY <1>4, <2>1, HoldsBatch DEF CallInv
  <2> QED
    BY <1>0, <2>1, <2>2 DEF Called
<1>5. (\A s \in Batches : stage[s] = "hold" =>
          outcome[s] # Unsent /\ disps[s] = DispositionsOf(outcome[s]))'
  BY DEF CallInv, DispositionsOf, Unsent
<1> QED
  BY <1>1, <1>2, <1>3, <1>4, <1>5 DEF CallInv, Known, Called

-----------------------------------------------------------------------------
\* The invariant holds initially.
LEMMA RouterInvInit == RouterInit => RouterInv
<1> SUFFICES ASSUME RouterInit PROVE RouterInv
  OBVIOUS
<1> USE NumBatchesAssumption DEF RouterInit, SeqInit, GateInit
<1>1. RouterTypeOK
  <2>1. DataTypeOK
    BY DEF DataTypeOK, Stages
  <2>2. FlagTypeOK
    BY Zenon DEF FlagTypeOK
  <2> QED
    BY <2>1, <2>2 DEF RouterTypeOK
<1>2. CallInv
  BY DEF CallInv, Queued, Batches
<1>3. GateInv
  BY DEF GateInv, Passed, Queued
<1>4. SeqInv
  BY DEF SeqInv, Passed, Queued, NoLoss, Batches
<1>5. WaitInv
  BY DEF WaitInv, Queued
<1> QED
  BY <1>1, <1>2, <1>3, <1>4, <1>5 DEF RouterInv

-----------------------------------------------------------------------------
(***************************************************************************)
(* The sequencer and the closures that hand commits to it.                 *)
(***************************************************************************)
LEMMA SequencerPreserves ==
    ASSUME RouterInv, Sequencer
    PROVE  RouterInv'
<1> USE NumBatchesAssumption
<1> USE DEF Sequencer, gateVars, gateTaskVars, routerVars, srcVars, Notify
<1>0. DataTypeOK /\ FlagTypeOK /\ CallInv /\ GateInv /\ SeqInv /\ WaitInv
  BY DEF RouterInv, RouterTypeOK
<1>1. CASE SeqCommit
  <2> USE <1>1 DEF SeqCommit
  <2>1. DataTypeOK'
    BY <1>0 DEF DataTypeOK, SourceCommit, Batches, Stages, Resolved
  <2>2. FlagTypeOK'
    BY <1>0 DEF FlagTypeOK, SourceCommit
  <2>3. CallInv'
    <3>1. \A s \in Known' : s \in Batches /\ Called(s)
      BY <1>0 DEF CallInv, Known, DataTypeOK, SourceCommit, Queued
    <3>2. \A s \in Batches :
             stage'[s] = stage[s] \/ (Called(s) /\ stage'[s] \notin {"unread", "work", "hold"})
      BY <1>0 DEF DataTypeOK, Called
    <3> QED
      BY <1>0, <3>1, <3>2, CallFrame
  <2>4. GateInv'
    <3>1. nextSeq \in Passed /\ ran' = ran \cup {nextSeq} /\ Passed' \subseteq Passed
      BY <1>0 DEF DataTypeOK, SourceCommit, Passed, Queued
    <3>2. \A s \in Passed \cup ran : Flushed(s) /\ Flushed(s)'
      BY <1>0 DEF GateInv, Flushed
    <3>3. \A s \in Batches : stage[s] # "hold" => stage'[s] # "hold"
      BY <1>0 DEF DataTypeOK
    <3> QED
      BY <1>0, <3>1, <3>2, <3>3 DEF GateInv
  <2>5. SeqInv'
    <3>1. /\ Ordered /\ nextSeq \in Batches /\ nextSeq \in Passed
          /\ nextSeq' = nextSeq + 1 /\ ran' = ran \cup {nextSeq}
          /\ Passed' \subseteq Passed
      BY <1>0 DEF SeqInv, DataTypeOK, SourceCommit, Passed, Queued
    <3>2. \A s \in Batches : (Clean(s)' <=> Clean(s)) /\ (Safe(s)' <=> Safe(s))
      BY DEF Clean, Safe, Flushed, Unsent
    <3>3. ran' = {s \in Batches : s < nextSeq'}
      BY <1>0, <3>1 DEF SeqInv, DataTypeOK, Batches
    <3>4. \A s \in Passed' : "Nack" \notin disps'[s] => Clean(s)'
      BY <1>0, <3>1, <3>2 DEF SeqInv, DataTypeOK, Passed, Queued
    <3>5. ~latch' => \A s \in Batches : s < nextSeq' => Safe(s)
      <4>1. ~latch' => ~latch /\ "Nack" \notin disps[nextSeq]
        BY DEF SourceCommit
      <4>2. ~latch' => Safe(nextSeq)
        BY <1>0, <3>1, <4>1 DEF SeqInv, GateInv, Safe
      <4>3. ~latch' => \A s \in Batches : s < nextSeq => Safe(s)
        BY <1>0, <3>1, <4>1 DEF SeqInv
      <4> QED
        BY <1>0, <3>1, <4>2, <4>3 DEF Batches, DataTypeOK
    <3>6. position' = position \/ (position' = nextSeq + 1 /\ ~latch')
      BY DEF SourceCommit
    <3>7. position' <= nextSeq' /\ \A s \in Batches : s < position' => Safe(s)
      BY <1>0, <3>1, <3>5, <3>6 DEF SeqInv, NoLoss, DataTypeOK, Batches
    <3> QED
      BY <3>1, <3>2, <3>3, <3>4, <3>5, <3>7 DEF SeqInv, NoLoss
  <2>6. WaitInv'
    BY <1>0 DEF WaitInv, DataTypeOK, SourceCommit, Queued, Batches
  <2> QED
    BY <2>1, <2>2, <2>3, <2>4, <2>5, <2>6 DEF RouterInv, RouterTypeOK
<1>2. CASE SeqRecv
  <2> USE <1>2 DEF SeqRecv
  <2>0. /\ Head(chan) \in Batches /\ Tail(chan) \in Seq(Batches)
        /\ Queued = {Head(chan)} \cup Queued' /\ Queued \subseteq Batches
    <3>1. chan \in Seq(Batches) /\ chan # <<>> /\ chan' = Tail(chan)
      BY <1>0 DEF DataTypeOK
    <3>2. Queued \subseteq Batches
      BY <3>1 DEF Queued
    <3>3. /\ Head(chan) \in Batches /\ Tail(chan) \in Seq(Batches)
          /\ {chan[i] : i \in DOMAIN chan}
               = {Head(chan)} \cup {Tail(chan)[i] : i \in DOMAIN Tail(chan)}
      BY <3>1, TakeFirst
    <3> QED
      BY <3>1, <3>2, <3>3 DEF Queued
  <2>1. DataTypeOK'
    BY <1>0, <2>0 DEF DataTypeOK, Batches, Stages, Resolved
  <2>2. FlagTypeOK'
    BY <1>0 DEF FlagTypeOK
  <2>3. CallInv'
    <3>1. \A s \in Known' : s \in Batches /\ Called(s)
      BY <1>0, <2>0 DEF CallInv, Known, DataTypeOK
    <3>2. \A s \in Batches :
             stage'[s] = stage[s] \/ (Called(s) /\ stage'[s] \notin {"unread", "work", "hold"})
      BY <1>0 DEF DataTypeOK, Called
    <3> QED
      BY <1>0, <3>1, <3>2, CallFrame
  <2>4. GateInv'
    BY <1>0, <2>0 DEF GateInv, DataTypeOK, Passed, Flushed, Batches
  <2>5. SeqInv'
    BY <1>0, <2>0 DEF SeqInv, DataTypeOK, Passed, Flushed, Clean, Safe, NoLoss, Batches
  <2>6. WaitInv'
    BY <1>0, <2>0 DEF WaitInv, DataTypeOK, Batches
  <2> QED
    BY <2>1, <2>2, <2>3, <2>4, <2>5, <2>6 DEF RouterInv, RouterTypeOK
<1>3. CASE SeqEnd
  <2> USE <1>3 DEF SeqEnd
  <2>1. DataTypeOK'
    BY <1>0 DEF DataTypeOK, Batches, Stages, Resolved
  <2>2. FlagTypeOK'
    BY <1>0 DEF FlagTypeOK
  <2>3. CallInv'
    BY <1>0, CallFrame DEF CallInv, Known, DataTypeOK, Queued, Called
  <2>4. GateInv'
    BY <1>0 DEF GateInv, DataTypeOK, Queued, Passed, Flushed, Batches
  <2>5. SeqInv'
    BY <1>0 DEF SeqInv, DataTypeOK, Queued, Passed, Flushed, Clean, Safe, NoLoss, Batches
  <2>6. WaitInv'
    BY <1>0 DEF WaitInv, DataTypeOK, Queued, Batches
  <2> QED
    BY <2>1, <2>2, <2>3, <2>4, <2>5, <2>6 DEF RouterInv, RouterTypeOK
<1> QED
  BY <1>1, <1>2, <1>3 DEF SequencerStep

LEMMA SubmitPreserves ==
    ASSUME RouterInv, NEW b \in Batches, Ordered,
           SubmitStep(b), UNCHANGED <<gateVars, routerVars>>
    PROVE  RouterInv'
<1> USE NumBatchesAssumption
<1> USE DEF gateVars, gateTaskVars, routerVars, srcVars
<1>0. DataTypeOK /\ FlagTypeOK /\ CallInv /\ GateInv /\ SeqInv /\ WaitInv
  BY DEF RouterInv, RouterTypeOK
<1>1. CASE Submit(b)
  <2> USE <1>1 DEF Submit
  <2>0. /\ chan' \in Seq(Batches) /\ Queued' = Queued \cup {b} /\ Queued \subseteq Batches
    <3>1. chan \in Seq(Batches) /\ chan' = Append(chan, b)
      BY <1>0 DEF DataTypeOK
    <3>2. Queued \subseteq Batches
      BY <3>1 DEF Queued
    <3> QED
      BY <3>1, <3>2, AddLast DEF Queued
  <2>1. DataTypeOK'
    BY <1>0, <2>0 DEF DataTypeOK, Stages, Resolved
  <2>2. FlagTypeOK'
    BY <1>0 DEF FlagTypeOK
  <2>3. CallInv'
    BY <1>0, <2>0, CallFrame DEF CallInv, Known, DataTypeOK, Called
  <2>4. GateInv'
    BY <1>0, <2>0 DEF GateInv, DataTypeOK, Passed, Flushed
  <2>5. SeqInv'
    BY <1>0, <2>0 DEF SeqInv, DataTypeOK, Passed, Flushed, Clean, Safe, NoLoss
  <2>6. WaitInv'
    BY <1>0, <2>0 DEF WaitInv, DataTypeOK
  <2> QED
    BY <2>1, <2>2, <2>3, <2>4, <2>5, <2>6 DEF RouterInv, RouterTypeOK
<1>2. CASE SubmitClosed(b)
  <2> USE <1>2 DEF SubmitClosed
  <2>1. DataTypeOK'
    BY <1>0 DEF DataTypeOK, Stages, Resolved
  <2>2. FlagTypeOK'
    BY <1>0 DEF FlagTypeOK
  <2>3. CallInv'
    BY <1>0, CallFrame DEF CallInv, Known, DataTypeOK, Called, Queued
  <2>4. GateInv'
    BY <1>0 DEF GateInv, DataTypeOK, Passed, Flushed, Queued
  <2>5. SeqInv'
    BY <1>0 DEF SeqInv, DataTypeOK, Passed, Flushed, Clean, Safe, NoLoss, Queued
  <2>6. WaitInv'
    BY <1>0 DEF WaitInv, DataTypeOK, Queued
  <2> QED
    BY <2>1, <2>2, <2>3, <2>4, <2>5, <2>6 DEF RouterInv, RouterTypeOK
<1> QED
  BY <1>1, <1>2 DEF SubmitStep

-----------------------------------------------------------------------------
(***************************************************************************)
(* The gate task.  GateEffect is what its steps have in common: commits it *)
(* holds are refused, or released once they are flushed.                   *)
(***************************************************************************)
GateEffect ==
    /\ UNCHANGED <<disps, chan, buffer, nextSeq, routerUp, seqDone, srcVars, accepted, routerVars>>
    /\ gateQ' \in Seq(GateEvents)
    /\ \A i \in DOMAIN gateQ' : \E j \in DOMAIN gateQ : gateQ'[i] = gateQ[j]
    /\ \A s \in held' \cup flushing' : s \in Batches /\ Called(s)
    /\ snap' \subseteq Batches /\ durable \subseteq durable' /\ durable' \subseteq Batches
    /\ \A s \in flushing' : s \in accepted => s \in snap'
    /\ stage' \in [Batches -> Stages]
    /\ \A s \in Batches :
          \/ stage'[s] = stage[s]
          \/ stage[s] = "hold" /\ stage'[s] = "unflushed"
          \/ stage[s] = "hold" /\ stage'[s] = "ready" /\ Flushed(s)'
    /\ gatePc' \in {"run", "flush", "lastFlush", "end"}
    /\ gatePc' = "end" => \A s \in Batches : stage'[s] # "hold"

LEMMA GateEffectPreserves ==
    ASSUME RouterInv, GateEffect, FlagTypeOK', ~seqOpen => ~seqOpen'
    PROVE  RouterInv'
<1> USE DEF routerVars, srcVars
<1>0. DataTypeOK /\ FlagTypeOK /\ CallInv /\ GateInv /\ SeqInv /\ WaitInv
  BY DEF RouterInv, RouterTypeOK
<1>1. DataTypeOK'
  BY <1>0 DEF DataTypeOK, GateEffect
<1>2. CallInv'
  <2>1. \A s \in Known' : s \in Batches /\ Called(s)
    <3>1. Queued' = Queued /\ Queued \subseteq Batches
      BY <1>0 DEF GateEffect, Queued, DataTypeOK
    <3> QED
      BY <1>0, <3>1 DEF Known, GateEffect, CallInv, DataTypeOK
  <2>2. \A s \in Batches :
           stage'[s] = stage[s] \/ (Called(s) /\ stage'[s] \notin {"unread", "work", "hold"})
    BY DEF GateEffect, Called
  <2> QED
    BY <1>0, <2>1, <2>2, CallFrame DEF GateEffect
<1>3. /\ \A s \in Batches : Flushed(s) => Flushed(s)'
      /\ \A s \in Batches : Clean(s)' <=> Clean(s)
  BY DEF GateEffect, Flushed, Clean, Unsent
<1>4. \A s \in Passed' : s \in Passed \/ (s \in Batches /\ stage[s] = "hold" /\ Flushed(s)')
  BY <1>0 DEF Passed, Queued, GateEffect, DataTypeOK
<1>5. Passed \subseteq Batches /\ ran \subseteq Batches
  BY <1>0 DEF Passed, Queued, DataTypeOK
<1>6. GateInv'
  BY <1>0, <1>3, <1>4, <1>5 DEF GateInv, GateEffect
<1>7. SeqInv'
  <2>1. Ordered => \A s \in Passed' : "Nack" \notin disps'[s] => Clean(s)'
    <3> SUFFICES ASSUME Ordered, NEW s \in Passed', "Nack" \notin disps'[s] PROVE Clean(s)'
      OBVIOUS
    <3>1. CASE s \in Passed
      BY <1>0, <1>3, <1>5, <3>1 DEF SeqInv, GateEffect
    <3>2. CASE s \in Batches /\ stage[s] = "hold"
      <4>1. outcome[s] # Unsent /\ disps[s] = DispositionsOf(outcome[s]) /\ "Nack" \notin disps[s]
        BY <1>0, <3>2 DEF CallInv, GateEffect
      <4>2. outcome[s] \in AllOutcomes /\ Policy = "StopRoute"
        BY <1>0, <3>2, <4>1, PolicyAssumption DEF DataTypeOK
      <4>3. Clean(s)
        BY <4>1, <4>2, NoNackIsClean DEF Clean
      <4> QED
        BY <1>3, <3>2, <4>3
    <3> QED
      BY <1>4, <3>1, <3>2
  <2>2. Ordered /\ ~latch' => \A s \in Batches : s < nextSeq' => Safe(s)'
    BY <1>0, <1>3 DEF SeqInv, Safe, GateEffect
  <2>3. \A s \in Batches : s < position' => Safe(s)'
    BY <1>0, <1>3 DEF SeqInv, NoLoss, Safe, GateEffect
  <2>4. /\ Ordered \/ (chan' = <<>> /\ buffer' = {})
        /\ Ordered => ran' = {s \in Batches : s < nextSeq'}
        /\ position' <= nextSeq'
    BY <1>0 DEF SeqInv, GateEffect
  <2> QED
    BY <2>1, <2>2, <2>3, <2>4 DEF SeqInv, NoLoss
<1>8. WaitInv'
  BY <1>0 DEF WaitInv, GateEffect, Queued
<1> QED
  BY <1>1, <1>2, <1>6, <1>7, <1>8 DEF RouterInv, RouterTypeOK

LEMMA GatePreserves ==
    ASSUME RouterInv, NEW starved, UNCHANGED routerVars,
           GateRecv(starved) \/ GateTimer \/ FlushOk \/ FlushErr
    PROVE  RouterInv'
<1> USE DEF srcVars
<1>0. DataTypeOK /\ FlagTypeOK /\ CallInv /\ GateInv /\ SeqInv /\ WaitInv
  BY DEF RouterInv, RouterTypeOK
<1>a. \A s \in held \cup flushing : s \in Batches /\ Called(s)
  BY <1>0 DEF CallInv, DataTypeOK
<1>b. ~seqOpen => ~seqOpen'
  <2>1. \A gap : CloseForGap(gap) => (~seqOpen => ~seqOpen')
    BY DEF CloseForGap
  <2>2. GateTimer \/ FlushOk => seqOpen' = seqOpen
    BY DEF GateTimer, FlushOk, BeginFlush
  <2>3. FlushErr => CloseForGap(flushing # {})
    BY DEF FlushErr, FailCommits, EndTask
  <2>4. ASSUME GateRecv(starved)
        PROVE  seqOpen' = seqOpen \/ CloseForGap(held # {}) \/ CloseForGap({Head(gateQ).batch} # {})
    <3>1. Head(gateQ) \in GateEvents
      BY <1>0, <2>4 DEF GateRecv, DataTypeOK
    <3>2. Head(gateQ).ev # "Hold" => Head(gateQ).ev \in {"Nudge", "Close", "Abandon", "Shutdown"}
      BY <3>1 DEF GateEvents
    <3> QED
      BY <2>4, <3>2 DEF GateRecv, OnHold, OnPlain, FailCommits, EndTask, BeginFlush, KeepHolding
  <2> QED
    BY <2>1, <2>2, <2>3, <2>4
<1>c. "unflushed" \in Stages /\ "ready" \in Stages /\ "hold" \in Stages
  BY DEF Stages, Resolved
<1>1. CASE GateRecv(starved)
  <2> DEFINE e == Head(gateQ)
  <2> USE <1>1 DEF GateRecv
  <2>1. /\ e \in GateEvents /\ Tail(gateQ) \in Seq(GateEvents)
        /\ \A i \in DOMAIN Tail(gateQ) : i + 1 \in DOMAIN gateQ /\ Tail(gateQ)[i] = gateQ[i + 1]
        /\ e = gateQ[1] /\ 1 \in DOMAIN gateQ
    BY <1>0 DEF DataTypeOK
  <2>2. e.ev = "Hold" => e.batch \in Batches /\ Called(e.batch)
    BY <1>0, <2>1 DEF GateEvents, CallInv
  <2>3. gateQ' = Tail(gateQ) \/ gateQ' = <<>>
    OBVIOUS
  <2>4. /\ gateQ' \in Seq(GateEvents)
        /\ \A i \in DOMAIN gateQ' : \E j \in DOMAIN gateQ : gateQ'[i] = gateQ[j]
    BY <2>1, <2>3
  <2>5. e.ev # "Hold" => e.ev \in {"Nudge", "Close", "Abandon", "Shutdown"}
    BY <2>1 DEF GateEvents
  <2> HIDE DEF e
  <2>6. ASSUME NEW S, \A s \in S : s \in Batches /\ Called(s), NEW pc \in {"flush", "lastFlush"},
               BeginFlush(S, pc)
        PROVE  RouterInv'
    <3>1. GateEffect
      BY <1>0, <1>a, <2>4, <2>6 DEF GateEffect, BeginFlush, DataTypeOK
    <3>2. FlagTypeOK'
      BY <1>0, <2>6 DEF FlagTypeOK, BeginFlush, routerVars
    <3> QED
      BY <1>b, <3>1, <3>2, GateEffectPreserves
  <2>7. ASSUME NEW S, \A s \in S : s \in Batches /\ Called(s), KeepHolding(S)
        PROVE  RouterInv'
    <3>1. GateEffect
      BY <1>0, <1>a, <2>4, <2>7 DEF GateEffect, KeepHolding, DataTypeOK, GateInv
    <3>2. FlagTypeOK'
      BY <1>0, <2>7 DEF FlagTypeOK, KeepHolding, routerVars
    <3> QED
      BY <1>b, <3>1, <3>2, GateEffectPreserves
  <2>8. ASSUME NEW S, FailCommits(S), held' \subseteq held, UNCHANGED <<flushing, snap, gatePc>>
        PROVE  RouterInv'
    <3>1. GateEffect
      BY <1>0, <1>a, <1>c, <2>4, <2>8 DEF GateEffect, FailCommits, Answer, DataTypeOK, GateInv
    <3>2. FlagTypeOK'
      BY <1>0, <2>8 DEF FlagTypeOK, FailCommits, CloseForGap, routerVars
    <3> QED
      BY <1>b, <3>1, <3>2, GateEffectPreserves
  <2>9. ASSUME EndTask(held), held' = {}, UNCHANGED <<flushing, snap>>
        PROVE  RouterInv'
    <3>1. GateEffect
      BY <1>0, <1>a, <1>c, <2>4, <2>9 DEF GateEffect, EndTask, Answer, DataTypeOK, GateInv
    <3>2. FlagTypeOK'
      BY <1>0, <2>9 DEF FlagTypeOK, EndTask, CloseForGap, routerVars
    <3> QED
      BY <1>b, <3>1, <3>2, GateEffectPreserves
  <2>10. CASE e.ev = "Hold"
    <3>1. OnHold(e, starved)
      BY <2>10 DEF e
    <3>2. \A s \in held \cup {e.batch} : s \in Batches /\ Called(s)
      BY <1>a, <2>2, <2>10
    <3>3. \/ FailCommits({e.batch}) /\ UNCHANGED <<held, flushing, snap, gatePc>>
          \/ BeginFlush(held \cup {e.batch}, "flush")
          \/ KeepHolding(held \cup {e.batch})
      BY <3>1 DEF OnHold
    <3> QED
      BY <3>2, <3>3, <2>6, <2>7, <2>8
  <2>11. CASE e.ev # "Hold"
    <3>1. OnPlain(e.ev)
      BY <2>11 DEF e
    <3>2. \/ BeginFlush(held, "flush") \/ BeginFlush(held, "lastFlush") \/ KeepHolding(held)
          \/ FailCommits(held) /\ held' = {} /\ UNCHANGED <<flushing, snap, gatePc>>
          \/ EndTask(held) /\ held' = {} /\ UNCHANGED <<flushing, snap>>
      BY <2>5, <2>11, <3>1 DEF OnPlain
    <3> QED
      BY <1>a, <3>2, <2>6, <2>7, <2>8, <2>9
  <2> QED
    BY <2>10, <2>11
<1>2. CASE GateTimer
  <2>1. GateEffect
    BY <1>0, <1>2, <1>a DEF GateEffect, GateTimer, BeginFlush, DataTypeOK
  <2>2. FlagTypeOK'
    BY <1>0, <1>2 DEF FlagTypeOK, GateTimer, BeginFlush, routerVars
  <2> QED
    BY <1>b, <2>1, <2>2, GateEffectPreserves
<1>3. CASE FlushOk
  <2>1. GateEffect
    <3>1. \A s \in Batches : s \in flushing => Flushed(s)'
      BY <1>0, <1>3 DEF GateInv, FlushOk, Flushed
    <3> QED
      BY <1>0, <1>3, <1>a, <1>c, <3>1 DEF GateEffect, FlushOk, DataTypeOK
  <2>2. FlagTypeOK'
    BY <1>0, <1>3 DEF FlagTypeOK, FlushOk, routerVars
  <2> QED
    BY <1>b, <2>1, <2>2, GateEffectPreserves
<1>4. CASE FlushErr
  <2>1. GateEffect
    <3>1. \/ stage' = Answer(Batches, "unflushed")
          \/ stage' = Answer(flushing, "unflushed") /\ gatePc' = "run"
      BY <1>4 DEF FlushErr, FailCommits, EndTask
    <3>2. /\ gatePc' \in {"run", "end"}
          /\ gateQ' = gateQ \/ gateQ' = <<>>
          /\ flushing' = {} /\ UNCHANGED <<held, snap, durable>>
      BY <1>4 DEF FlushErr, EndTask
    <3>3. /\ stage' \in [Batches -> Stages]
          /\ \A s \in Batches :
                stage'[s] = stage[s] \/ (stage[s] = "hold" /\ stage'[s] = "unflushed")
          /\ gatePc' = "end" => \A s \in Batches : stage'[s] # "hold"
      BY <1>0, <1>c, <3>1 DEF Answer, DataTypeOK
    <3>4. /\ gateQ' \in Seq(GateEvents)
          /\ \A i \in DOMAIN gateQ' : \E j \in DOMAIN gateQ : gateQ'[i] = gateQ[j]
      <4>1. CASE gateQ' = gateQ
        BY <1>0, <4>1 DEF DataTypeOK
      <4>2. CASE gateQ' = <<>>
        BY <4>2
      <4> QED
        BY <3>2, <4>1, <4>2
    <3>5. UNCHANGED <<disps, chan, buffer, nextSeq, routerUp, seqDone, srcVars, accepted, routerVars>>
      BY <1>4 DEF FlushErr
    <3> QED
      BY <1>0, <1>a, <3>2, <3>3, <3>4, <3>5 DEF GateEffect, DataTypeOK
  <2>2. FlagTypeOK'
    BY <1>0, <1>4 DEF FlagTypeOK, FlushErr, FailCommits, EndTask, CloseForGap,
                      ReportRouteError, routerVars
  <2> QED
    BY <1>b, <2>1, <2>2, GateEffectPreserves
<1> QED
  BY <1>1, <1>2, <1>3, <1>4

-----------------------------------------------------------------------------
(***************************************************************************)
(* The runner.  Most of its steps leave the batches, the sequencer and the *)
(* gate task alone: they wait, spawn, report and tell.                     *)
(***************************************************************************)
\* Telling the gate something adds no hold to its queue.
LEMMA TellAddsNoHold ==
    ASSUME DataTypeOK, NEW e \in {"Nudge", "Close", "Abandon", "Shutdown"}, Tell(e)
    PROVE  /\ gateQ' \in Seq(GateEvents)
           /\ \A i \in DOMAIN gateQ' :
                 gateQ'[i].ev = "Hold" => \E j \in DOMAIN gateQ : gateQ'[i] = gateQ[j]
<1>1. PlainEvent(e) \in GateEvents /\ PlainEvent(e).ev # "Hold"
  BY DEF PlainEvent, GateEvents
<1>2. gateQ \in Seq(GateEvents)
  BY DEF DataTypeOK
<1>3. CASE gateQ' = gateQ
  BY <1>2, <1>3
<1>4. CASE gateQ' = Append(gateQ, PlainEvent(e))
  <2> DEFINE p == PlainEvent(e)
  <2>1. p \in GateEvents /\ p.ev # "Hold" /\ gateQ' = Append(gateQ, p)
    BY <1>1, <1>4
  <2> HIDE DEF p
  <2>2. gateQ' \in Seq(GateEvents)
    BY <1>2, <2>1
  <2>3. \A i \in DOMAIN gateQ' : gateQ'[i] = p \/ (i \in DOMAIN gateQ /\ gateQ'[i] = gateQ[i])
    BY <1>2, <2>1
  <2> QED
    BY <2>1, <2>2, <2>3
<1> QED
  BY <1>3, <1>4 DEF Tell

BystanderEffect ==
    /\ UNCHANGED <<stage, disps, chan, buffer, nextSeq, seqDone, srcVars, accepted, gateTaskVars,
                   outcome, readSeq>>
    /\ ~seqOpen => ~seqOpen'
    /\ readPc' \in {"idle", "starved", "recv"}
    /\ tasks' \subseteq Batches
    /\ \/ gateQ' = gateQ
       \/ \E e \in {"Nudge", "Close", "Abandon", "Shutdown"} : Tell(e)

LEMMA BystanderPreserves ==
    ASSUME RouterInv, BystanderEffect, FlagTypeOK'
    PROVE  RouterInv'
<1> USE DEF srcVars, gateTaskVars, BystanderEffect
<1>0. DataTypeOK /\ FlagTypeOK /\ CallInv /\ GateInv /\ SeqInv /\ WaitInv
  BY DEF RouterInv, RouterTypeOK
<1>1. /\ gateQ' \in Seq(GateEvents)
      /\ \A i \in DOMAIN gateQ' :
            gateQ'[i].ev = "Hold" => \E j \in DOMAIN gateQ : gateQ'[i] = gateQ[j]
  <2>1. CASE gateQ' = gateQ
    BY <1>0, <2>1 DEF DataTypeOK
  <2>2. CASE \E e \in {"Nudge", "Close", "Abandon", "Shutdown"} : Tell(e)
    BY <1>0, <2>2, TellAddsNoHold
  <2> QED
    BY <2>1, <2>2
<1>2. DataTypeOK'
  BY <1>0, <1>1 DEF DataTypeOK
<1>3. CallInv'
  <2>1. \A s \in Known' : s \in Batches /\ Called(s)
    BY <1>0 DEF Known, Queued, CallInv, DataTypeOK
  <2> QED
    BY <1>0, <1>1, <2>1, CallFrame
<1>4. GateInv'
  BY <1>0 DEF GateInv, Passed, Queued, Flushed
<1>5. SeqInv'
  BY <1>0 DEF SeqInv, Passed, Queued, Flushed, Clean, Safe, NoLoss
<1>6. WaitInv'
  BY <1>0 DEF WaitInv, Queued
<1> QED
  BY <1>2, <1>3, <1>4, <1>5, <1>6 DEF RouterInv, RouterTypeOK

LEMMA BystandersPreserve ==
    ASSUME RouterInv,
           \/ BeginRead \/ GetPermit \/ ReadEmpty
           \/ \E s \in Batches : SpawnCommit(s)
           \/ \E takeErr \in BOOLEAN : StopReading(takeErr)
           \/ \E e \in {"Close", "Abandon"}, gap \in BOOLEAN : WindDown(e, gap)
           \/ AbandonSequence \/ ShutdownGate \/ ShutdownRouter
    PROVE  RouterInv'
<1> USE DEF csVars, seqVars, srcVars, gateVars, gateTaskVars, routerVars
<1>0. DataTypeOK /\ FlagTypeOK
  BY DEF RouterInv, RouterTypeOK
<1>1. CASE BeginRead
  <2>1. FlagTypeOK'
    BY <1>0, <1>1, OrderedAssumption DEF BeginRead, FlagTypeOK
  <2>2. BystanderEffect
    BY <1>0, <1>1 DEF BeginRead, BystanderEffect, DataTypeOK
  <2> QED
    BY <2>1, <2>2, BystanderPreserves
<1>2. CASE GetPermit
  <2>1. FlagTypeOK'
    BY <1>0, <1>2 DEF GetPermit, FlagTypeOK
  <2>2. BystanderEffect
    BY <1>0, <1>2 DEF GetPermit, BystanderEffect, DataTypeOK
  <2> QED
    BY <2>1, <2>2, BystanderPreserves
<1>3. CASE ReadEmpty
  <2>1. FlagTypeOK'
    BY <1>0, <1>3 DEF ReadEmpty, FlagTypeOK
  <2>2. BystanderEffect
    BY <1>0, <1>3 DEF ReadEmpty, BystanderEffect, DataTypeOK
  <2> QED
    BY <2>1, <2>2, BystanderPreserves
<1>4. ASSUME NEW s \in Batches, SpawnCommit(s) PROVE RouterInv'
  <2>1. FlagTypeOK'
    BY <1>0, <1>4 DEF SpawnCommit, FlagTypeOK
  <2>2. BystanderEffect
    BY <1>0, <1>4 DEF SpawnCommit, BystanderEffect, DataTypeOK
  <2> QED
    BY <2>1, <2>2, BystanderPreserves
<1>5. ASSUME NEW takeErr \in BOOLEAN, StopReading(takeErr) PROVE RouterInv'
  <2>1. FlagTypeOK'
    BY <1>0, <1>5 DEF StopReading, FlagTypeOK
  <2>2. BystanderEffect
    BY <1>0, <1>5 DEF StopReading, BystanderEffect, DataTypeOK
  <2> QED
    BY <2>1, <2>2, BystanderPreserves
<1>6. ASSUME NEW e \in {"Close", "Abandon"}, NEW gap \in BOOLEAN, WindDown(e, gap) PROVE RouterInv'
  <2>1. FlagTypeOK'
    BY <1>0, <1>6 DEF WindDown, CloseForGap, FlagTypeOK
  <2>2. BystanderEffect
    BY <1>0, <1>6 DEF WindDown, CloseForGap, BystanderEffect, DataTypeOK
  <2> QED
    BY <2>1, <2>2, BystanderPreserves
<1>7. CASE ShutdownGate
  <2>1. FlagTypeOK'
    BY <1>0, <1>7 DEF ShutdownGate, FlagTypeOK
  <2>2. BystanderEffect
    BY <1>0, <1>7 DEF ShutdownGate, BystanderEffect, DataTypeOK
  <2> QED
    BY <2>1, <2>2, BystanderPreserves
<1>8. CASE ShutdownRouter
  <2>1. FlagTypeOK'
    BY <1>0, <1>8 DEF ShutdownRouter, FlagTypeOK
  <2>2. BystanderEffect
    BY <1>0, <1>8 DEF ShutdownRouter, BystanderEffect, DataTypeOK
  <2> QED
    BY <2>1, <2>2, BystanderPreserves
<1>9. CASE AbandonSequence
  <2>1. FlagTypeOK'
    BY <1>0, <1>9 DEF AbandonSequence, CloseForGap, FlagTypeOK
  <2>2. BystanderEffect
    BY <1>0, <1>9 DEF AbandonSequence, CloseForGap, BystanderEffect, DataTypeOK
  <2> QED
    BY <2>1, <2>2, BystanderPreserves
<1> QED
  BY <1>1, <1>2, <1>3, <1>4, <1>5, <1>6, <1>7, <1>8, <1>9

-----------------------------------------------------------------------------
(***************************************************************************)
(* The steps of a batch: read, sent, its closure called, resolved, lost.   *)
(***************************************************************************)
LEMMA ReadPreserves ==
    ASSUME RouterInv, ReadBatch
    PROVE  RouterInv'
<1> USE NumBatchesAssumption DEF ReadBatch, srcVars, gateVars, gateTaskVars
<1>0. DataTypeOK /\ FlagTypeOK /\ CallInv /\ GateInv /\ SeqInv /\ WaitInv
  BY DEF RouterInv, RouterTypeOK
<1>a. stage[readSeq] = "unread" /\ readSeq \in Batches
  BY <1>0 DEF CallInv, DataTypeOK, Batches
<1>b. \A s \in Batches : Called(s)' <=> Called(s)
  BY <1>0, <1>a DEF Called, DataTypeOK
<1>c. Passed' = Passed /\ Queued' = Queued
  BY <1>0, <1>a DEF Passed, Queued, DataTypeOK
<1>1. DataTypeOK'
  BY <1>0 DEF DataTypeOK, Stages, Batches
<1>2. FlagTypeOK'
  BY <1>0 DEF FlagTypeOK
<1>3. CallInv'
  <2>1. (\A s \in Batches : stage[s] = "unread" <=> s >= readSeq)'
    BY <1>0, <1>a DEF CallInv, DataTypeOK, Batches
  <2>2. (\A s \in accepted : outcome[s].results \cap {"ok", "reply"} # {})'
    BY <1>0 DEF CallInv
  <2>3. (\A s \in held \cup flushing \cup buffer \cup Queued \cup ran : Called(s))'
    BY <1>0, <1>b DEF CallInv, DataTypeOK, Queued
  <2>4. (\A i \in DOMAIN gateQ : gateQ[i].ev = "Hold" => Called(gateQ[i].batch))'
    BY <1>0, <1>b, HoldsBatch DEF CallInv, Called
  <2>5. (\A s \in Batches : stage[s] = "hold" =>
           outcome[s] # Unsent /\ disps[s] = DispositionsOf(outcome[s]))'
    BY <1>0, <1>a DEF CallInv, DataTypeOK, DispositionsOf, Unsent
  <2> QED
    BY <2>1, <2>2, <2>3, <2>4, <2>5 DEF CallInv
<1>4. GateInv'
  BY <1>0, <1>c DEF GateInv, DataTypeOK, Flushed
<1>5. SeqInv'
  BY <1>0, <1>c DEF SeqInv, Flushed, Clean, Safe, NoLoss
<1>6. WaitInv'
  BY <1>0, <1>c DEF WaitInv, DataTypeOK
<1> QED
  BY <1>1, <1>2, <1>3, <1>4, <1>5, <1>6 DEF RouterInv, RouterTypeOK

LEMMA SendPreserves ==
    ASSUME RouterInv, NEW b \in Batches, NEW o \in Outcomes, SendReturns(b, o)
    PROVE  RouterInv'
<1> USE DEF SendReturns, csVars, seqVars, srcVars, gateTaskVars
<1>0. DataTypeOK /\ FlagTypeOK /\ CallInv /\ GateInv /\ SeqInv /\ WaitInv
  BY DEF RouterInv, RouterTypeOK
<1>a. o \in AllOutcomes /\ o # Unsent
  BY OutcomesAssumption, UnsentIsNoOutcome
<1>b. b \notin held \cup flushing \cup buffer \cup Queued \cup ran \cup Passed
  BY <1>0 DEF CallInv, Called, Passed
<1>c. \A s \in Batches : s # b =>
         /\ outcome'[s] = outcome[s] /\ (s \in accepted' <=> s \in accepted)
         /\ (Flushed(s)' <=> Flushed(s)) /\ (Clean(s)' <=> Clean(s))
  BY <1>0 DEF DataTypeOK, Flushed, Clean, Unsent
<1>d. Passed' = Passed /\ Queued' = Queued /\ Passed \subseteq Batches
  BY <1>0 DEF Passed, Queued, DataTypeOK
<1>1. DataTypeOK'
  BY <1>0, <1>a DEF DataTypeOK
<1>2. FlagTypeOK'
  BY <1>0 DEF FlagTypeOK
<1>3. CallInv'
  <2>1. (\A s \in accepted : outcome[s].results \cap {"ok", "reply"} # {})'
    <3>1. b \notin accepted
      BY <1>0, UnsentIsNoOutcome DEF CallInv
    <3>2. \A s \in accepted : s \in Batches /\ s # b /\ outcome'[s] = outcome[s]
      BY <1>0, <1>c, <3>1 DEF DataTypeOK
    <3>3. outcome'[b] = o
      BY <1>0 DEF DataTypeOK
    <3> QED
      BY <1>0, <3>2, <3>3 DEF CallInv
  <2>2. (\A s \in Batches : stage[s] = "hold" =>
           outcome[s] # Unsent /\ disps[s] = DispositionsOf(outcome[s]))'
    BY <1>0, <1>c DEF CallInv, DataTypeOK, DispositionsOf, Unsent
  <2>3. (\A s \in held \cup flushing \cup buffer \cup Queued \cup ran : Called(s))'
    BY <1>0, <1>d DEF CallInv, Called
  <2>4. (\A i \in DOMAIN gateQ : gateQ[i].ev = "Hold" => Called(gateQ[i].batch))'
    BY <1>0 DEF CallInv, Called
  <2>5. (\A s \in Batches : stage[s] = "unread" <=> s >= readSeq)'
    BY <1>0 DEF CallInv
  <2> QED
    BY <2>1, <2>2, <2>3, <2>4, <2>5 DEF CallInv
<1>4. GateInv'
  BY <1>0, <1>b, <1>c, <1>d DEF GateInv, DataTypeOK
<1>5. SeqInv'
  <2>1. \A s \in Batches : Safe(s) => Safe(s)'
    BY <1>0, <1>c DEF Safe, Clean
  <2> QED
    BY <1>0, <1>b, <1>c, <1>d, <2>1 DEF SeqInv, NoLoss
<1>6. WaitInv'
  BY <1>0 DEF WaitInv, Queued
<1> QED
  BY <1>1, <1>2, <1>3, <1>4, <1>5, <1>6 DEF RouterInv, RouterTypeOK

\* Calling the closure of b with dispositions d that suit what became of its send.
LEMMA HoldPreserves ==
    ASSUME RouterInv, NEW b \in Batches, NEW d \in SUBSET Dispositions,
           stage[b] = "work", HoldCommit(b, d),
           d = {"Nack"} => b \notin accepted,
           d # {"Nack"} => outcome[b] # Unsent /\ d = DispositionsOf(outcome[b]),
           UNCHANGED <<chan, buffer, nextSeq, seqOpen, routerUp, seqDone, srcVars,
                       gateTaskVars, accepted, errQueued, routerVars>>
    PROVE  RouterInv'
<1> USE DEF srcVars, gateTaskVars, routerVars
<1>0. DataTypeOK /\ FlagTypeOK /\ CallInv /\ GateInv /\ SeqInv /\ WaitInv
  BY DEF RouterInv, RouterTypeOK
<1>a. b \notin held \cup flushing \cup buffer \cup Queued \cup ran
  BY <1>0 DEF CallInv, Called
<1>b. /\ stage' = [stage EXCEPT ![b] = stage'[b]] /\ stage'[b] \in {"ready", "hold", "unflushed"}
      /\ disps' = [disps EXCEPT ![b] = d]
      /\ stage'[b] = "hold" => Gated /\ d # {"Nack"} /\ gatePc # "end"
      /\ stage'[b] = "ready" => ~Gated \/ d = {"Nack"}
  BY <1>0 DEF HoldCommit, DataTypeOK
<1>c. /\ gateQ' \in Seq(GateEvents)
      /\ \A i \in DOMAIN gateQ' : gateQ'[i].ev = "Hold" =>
            gateQ'[i].batch = b \/ \E j \in DOMAIN gateQ : gateQ'[i] = gateQ[j]
  <2>1. CASE gateQ' = gateQ
    BY <1>0, <2>1 DEF DataTypeOK
  <2>2. CASE gateQ' = Append(gateQ, HoldEvent(b, d # {"Ack"}))
    <3> DEFINE e == HoldEvent(b, d # {"Ack"})
    <3>1. e \in GateEvents /\ e.batch = b
      BY DEF HoldEvent, GateEvents
    <3>2. gateQ \in Seq(GateEvents) /\ gateQ' = Append(gateQ, e)
      BY <1>0, <2>2 DEF DataTypeOK
    <3> HIDE DEF e
    <3>3. gateQ' \in Seq(GateEvents)
      BY <3>1, <3>2
    <3>4. \A i \in DOMAIN gateQ' : gateQ'[i] = e \/ (i \in DOMAIN gateQ /\ gateQ'[i] = gateQ[i])
      BY <3>1, <3>2
    <3> QED
      BY <3>1, <3>3, <3>4
  <2> QED
    BY <2>1, <2>2 DEF HoldCommit
<1>d. \A s \in Batches : s # b => stage'[s] = stage[s] /\ disps'[s] = disps[s]
  BY <1>0, <1>b DEF DataTypeOK
<1>e. /\ \A s \in Batches : (Flushed(s)' <=> Flushed(s)) /\ (Clean(s)' <=> Clean(s))
      /\ \A s \in Batches : Safe(s)' <=> Safe(s)
  BY DEF Flushed, Clean, Safe, Unsent
<1>f. /\ Queued' = Queued /\ Queued \subseteq Batches
      /\ \A s \in Passed' : s \in Batches /\ (s = b \/ s \in Passed)
      /\ b \in Passed' => stage'[b] = "ready"
  BY <1>0, <1>a, <1>d DEF Passed, Queued, DataTypeOK
<1>1. DataTypeOK'
  BY <1>0, <1>b, <1>c DEF DataTypeOK, Stages, Resolved
<1>2. FlagTypeOK'
  BY <1>0 DEF FlagTypeOK
<1>3. CallInv'
  <2>0. \A s \in Batches : Called(s) => Called(s)'
    BY <1>b, <1>d DEF Called
  <2>00. Called(b)' /\ stage'[b] # "unread"
    BY <1>b DEF Called
  <2>1. (\A s \in Batches : stage[s] = "unread" <=> s >= readSeq)'
    BY <1>0, <1>d, <2>00 DEF CallInv
  <2>2. (\A s \in accepted : outcome[s].results \cap {"ok", "reply"} # {})'
    BY <1>0 DEF CallInv
  <2>3. (\A s \in held \cup flushing \cup buffer \cup Queued \cup ran : Called(s))'
    BY <1>0, <1>f, <2>0 DEF CallInv, DataTypeOK
  <2>4. (\A i \in DOMAIN gateQ : gateQ[i].ev = "Hold" => Called(gateQ[i].batch))'
    <3> SUFFICES ASSUME NEW i \in DOMAIN gateQ', gateQ'[i].ev = "Hold"
                 PROVE  stage'[gateQ'[i].batch] \notin {"unread", "work"}
      BY DEF Called
    <3>1. CASE gateQ'[i].batch = b
      BY <2>00, <3>1 DEF Called
    <3>2. CASE \E j \in DOMAIN gateQ : gateQ'[i] = gateQ[j]
      BY <1>0, <2>0, <3>2, HoldsBatch DEF CallInv, Called
    <3> QED
      BY <1>c, <3>1, <3>2
  <2>5. (\A s \in Batches : stage[s] = "hold" =>
           outcome[s] # Unsent /\ disps[s] = DispositionsOf(outcome[s]))'
    <3>1. stage'[b] = "hold" => outcome[b] # Unsent /\ disps'[b] = DispositionsOf(outcome[b])
      BY <1>0, <1>b DEF DataTypeOK
    <3>2. \A s \in Batches : stage'[s] = "hold" =>
             outcome[s] # Unsent /\ disps'[s] = DispositionsOf(outcome[s])
      BY <1>0, <1>d, <3>1 DEF CallInv
    <3> QED
      BY <3>2 DEF DispositionsOf, Unsent
  <2> QED
    BY <2>1, <2>2, <2>3, <2>4, <2>5 DEF CallInv
<1>4. GateInv'
  <2>1. stage'[b] = "ready" => Flushed(b)
    BY <1>b DEF Flushed
  <2> QED
    BY <1>0, <1>b, <1>d, <1>e, <1>f, <2>1 DEF GateInv, DataTypeOK
<1>5. SeqInv'
  <2>1. Ordered /\ stage'[b] = "ready" /\ "Nack" \notin disps'[b] => Clean(b)
    <3> SUFFICES ASSUME Ordered, "Nack" \notin d PROVE Clean(b)
      BY <1>0, <1>b DEF DataTypeOK
    <3>1. outcome[b] \in AllOutcomes /\ outcome[b] # Unsent
          /\ d = DispositionsOf(outcome[b]) /\ Policy = "StopRoute"
      BY <1>0, PolicyAssumption DEF DataTypeOK
    <3> QED
      BY <3>1, NoNackIsClean DEF Clean
  <2>2. Ordered => \A s \in Passed' : "Nack" \notin disps'[s] => Clean(s)'
    BY <1>0, <1>d, <1>e, <1>f, <2>1 DEF SeqInv
  <2> QED
    BY <1>0, <1>e, <2>2 DEF SeqInv, NoLoss
<1>6. WaitInv'
  BY <1>0, <1>b, <1>d, <1>f DEF WaitInv
<1> QED
  BY <1>1, <1>2, <1>3, <1>4, <1>5, <1>6 DEF RouterInv, RouterTypeOK

LEMMA CallPreserves ==
    ASSUME RouterInv, NEW b \in Batches, CallCommit(b) \/ NackUnsent(b)
    PROVE  RouterInv'
<1>0. DataTypeOK /\ CallInv
  BY DEF RouterInv, RouterTypeOK
<1>1. CASE CallCommit(b)
  <2> DEFINE d == DispositionsOf(outcome[b])
  <2>1. outcome[b] \in AllOutcomes /\ outcome[b] # Unsent
    BY <1>0, <1>1 DEF CallCommit, Settled, DataTypeOK
  <2>2. d \in SUBSET Dispositions
    BY <2>1, DispositionsType
  <2>3. d = {"Nack"} => b \notin accepted
    BY <1>0, <2>1, AllNackNotAccepted DEF CallInv
  <2>4. /\ stage[b] = "work" /\ HoldCommit(b, d)
        /\ UNCHANGED <<chan, buffer, nextSeq, seqOpen, routerUp, seqDone, srcVars,
                       gateTaskVars, accepted, errQueued, routerVars>>
    BY <1>1 DEF CallCommit
  <2> HIDE DEF d
  <2>5. d # {"Nack"} => outcome[b] # Unsent /\ d = DispositionsOf(outcome[b])
    BY <2>1 DEF d
  <2> QED
    BY <2>2, <2>3, <2>4, <2>5, HoldPreserves
<1>2. CASE NackUnsent(b)
  <2>1. b \notin accepted
    BY <1>0, <1>2, UnsentIsNoOutcome DEF CallInv, NackUnsent
  <2>2. {"Nack"} \in SUBSET Dispositions
    BY DEF Dispositions
  <2>3. /\ stage[b] = "work" /\ HoldCommit(b, {"Nack"})
        /\ UNCHANGED <<chan, buffer, nextSeq, seqOpen, routerUp, seqDone, srcVars,
                       gateTaskVars, accepted, errQueued, routerVars>>
    BY <1>2 DEF NackUnsent
  <2> QED
    BY <2>1, <2>2, <2>3, HoldPreserves
<1> QED
  BY <1>1, <1>2

(***************************************************************************)
(* The remaining steps only take closures out of the way: an unordered     *)
(* commit runs, a result is seen, a panicked worker's commits are lost.    *)
(***************************************************************************)
LEMMA LeavePreserves ==
    ASSUME RouterInv,
           \/ \E b \in Batches : CommitDirect(b)
           \/ \E b \in Batches, report \in BOOLEAN : CommitReturns(b, report)
           \/ \E S \in SUBSET Batches : DropCommits(S)
    PROVE  RouterInv'
<1> USE DEF gateVars, gateTaskVars, routerVars, srcVars
<1>0. DataTypeOK /\ FlagTypeOK /\ CallInv /\ GateInv /\ SeqInv /\ WaitInv
  BY DEF RouterInv, RouterTypeOK
<1>a. /\ UNCHANGED <<disps, chan, buffer, nextSeq, seqOpen, routerUp, seqDone, position, latch,
                     gateQ, gateTaskVars, accepted, routerVars>>
      /\ FlagTypeOK'
  <2>1. /\ UNCHANGED <<seqOpen, routerUp, seqDone, latch, closing, failed, readPermit>>
        /\ errQueued' = errQueued \/ errQueued' = TRUE
    BY Zenon DEF CommitDirect, CommitReturns, DropCommits, ReportRouteError
  <2>2. FlagTypeOK'
    BY <1>0, <2>1, Zenon DEF FlagTypeOK
  <2>3. UNCHANGED <<disps, chan, buffer, nextSeq, seqOpen, routerUp, seqDone, position, latch,
                    gateQ, gateTaskVars, accepted, routerVars>>
    BY Zenon DEF CommitDirect, CommitReturns, DropCommits
  <2> QED
    BY <2>2, <2>3
<1>b. /\ stage' \in [Batches -> Stages]
      /\ \A s \in Batches :
            \/ stage'[s] = stage[s]
            \/ stage[s] # "unread" /\ stage'[s] \in {"ok", "err", "done", "gone"}
  BY <1>0 DEF CommitDirect, CommitReturns, DropCommits, DataTypeOK, Stages, Resolved
<1>c. ran' = ran \/ (~Ordered /\ \E b \in Batches : stage[b] = "ready" /\ ran' = ran \cup {b})
  BY DEF CommitDirect, CommitReturns, DropCommits
<1>d. /\ \A s \in Batches : (Flushed(s)' <=> Flushed(s)) /\ (Clean(s)' <=> Clean(s))
      /\ \A s \in Batches : Safe(s)' <=> Safe(s)
  BY <1>a DEF Flushed, Clean, Safe, Unsent
<1>e. /\ Queued' = Queued /\ Queued \subseteq Batches
      /\ Passed' \subseteq Passed /\ Passed \subseteq Batches
  BY <1>0, <1>a, <1>b DEF Queued, Passed, DataTypeOK
<1>1. DataTypeOK'
  BY <1>0, <1>a, <1>b, <1>c DEF DataTypeOK
<1>2. CallInv'
  <2>0. \A s \in Batches : Called(s) => Called(s)'
    BY <1>b DEF Called
  <2>1. (\A s \in Batches : stage[s] = "unread" <=> s >= readSeq)'
    BY <1>0, <1>a, <1>b DEF CallInv
  <2>2. (\A s \in accepted : outcome[s].results \cap {"ok", "reply"} # {})'
    BY <1>0, <1>a DEF CallInv
  <2>3. (\A s \in held \cup flushing \cup buffer \cup Queued \cup ran : Called(s))'
    <3>1. \A s \in ran' : s \in Batches /\ Called(s)
      BY <1>0, <1>c DEF CallInv, DataTypeOK, Called
    <3> QED
      BY <1>0, <1>a, <1>e, <2>0, <3>1 DEF CallInv, DataTypeOK
  <2>4. (\A i \in DOMAIN gateQ : gateQ[i].ev = "Hold" => Called(gateQ[i].batch))'
    BY <1>0, <1>a, <2>0, HoldsBatch DEF CallInv, Called
  <2>5. (\A s \in Batches : stage[s] = "hold" =>
           outcome[s] # Unsent /\ disps[s] = DispositionsOf(outcome[s]))'
    BY <1>0, <1>a, <1>b DEF CallInv, DispositionsOf, Unsent
  <2> QED
    BY <2>1, <2>2, <2>3, <2>4, <2>5 DEF CallInv
<1>3. GateInv'
  <2>1. \A s \in Passed' \cup ran' : s \in Batches /\ Flushed(s)
    BY <1>0, <1>c, <1>e DEF GateInv, Passed, DataTypeOK
  <2> QED
    BY <1>0, <1>a, <1>b, <1>d, <2>1 DEF GateInv
<1>4. SeqInv'
  BY <1>0, <1>a, <1>c, <1>d, <1>e DEF SeqInv, NoLoss
<1>5. WaitInv'
  BY <1>0, <1>a, <1>b, <1>e DEF WaitInv
<1> QED
  BY <1>1, <1>2, <1>3, <1>4, <1>5, <1>a DEF RouterInv, RouterTypeOK

-----------------------------------------------------------------------------
\* Every step of every runner preserves the invariant.
LEMMA RouterInvStep ==
    ASSUME RouterInv, [RouterNext]_vars
    PROVE  RouterInv'
<1>1. CASE Sequencer
  BY <1>1, SequencerPreserves
<1>2. CASE Gate \/ Timer
  BY <1>2, GatePreserves DEF Gate, Timer
<1>3. CASE Reader
  BY <1>3, ReadPreserves, BystandersPreserve DEF Reader
<1>4. ASSUME NEW s \in Batches, Handover(s) PROVE RouterInv'
  BY <1>4, SubmitPreserves, LeavePreserves DEF Handover
<1>5. ASSUME NEW s \in Batches, Runner(s) PROVE RouterInv'
  BY <1>5, SendPreserves, BystandersPreserve, CallPreserves, LeavePreserves DEF Runner
<1>6. CASE WindingDown
  BY <1>6, BystandersPreserve, LeavePreserves DEF WindingDown
<1>7. CASE UNCHANGED vars
  <2>1. BystanderEffect
    BY <1>7 DEF BystanderEffect, vars, csVars, seqVars, srcVars, gateVars, gateTaskVars,
                routerVars, RouterInv, RouterTypeOK, DataTypeOK
  <2>2. FlagTypeOK'
    BY <1>7 DEF vars, csVars, seqVars, srcVars, gateVars, gateTaskVars, routerVars,
                RouterInv, RouterTypeOK, FlagTypeOK
  <2> QED
    BY <2>1, <2>2, BystanderPreserves
<1> QED
  BY <1>1, <1>2, <1>3, <1>4, <1>5, <1>6, <1>7 DEF RouterNext

\* The inductive invariant holds throughout, and with it the types of the commit path
\* (send_batch_and_commit, FlushGate, spawn_sequencer).
THEOREM RouterInvariant == RouterSpec => []RouterInv
BY RouterInvInit, RouterInvStep, PTL DEF RouterSpec

\* Nothing is lost, no commit runs before the sink has flushed what it covers, nor past a
\* gap, and no caller waits on a task that has ended.
THEOREM RouterCommitSafety == RouterSpec => []CommitSafety
<1>1. RouterInv => FlushedBeforeCommit
  BY DEF RouterInv, GateInv, FlushedBeforeCommit
<1>2. RouterInv => NoCommitPastGap
  <2> SUFFICES ASSUME RouterInv, Ordered, NEW s \in ran, NEW t \in Batches, t < s
               PROVE  t \in ran
    BY DEF NoCommitPastGap
  <2>1. ran = {u \in Batches : u < nextSeq}
    BY DEF RouterInv, SeqInv
  <2>2. s \in Nat /\ t \in Nat /\ nextSeq \in Nat /\ s < nextSeq
    BY <2>1, NumBatchesAssumption DEF RouterInv, RouterTypeOK, DataTypeOK, Batches
  <2> QED
    BY <2>1, <2>2
<1>3. RouterInv => NothingStranded
  <2> SUFFICES ASSUME RouterInv PROVE NothingStranded
    OBVIOUS
  <2>1. ASSUME seqDone, NEW s \in Batches PROVE stage[s] # "wait"
    BY <2>1 DEF RouterInv, WaitInv, Queued
  <2>2. gatePc = "end" => \A s \in Batches : stage[s] # "hold"
    BY DEF RouterInv, GateInv
  <2> QED
    BY <2>1, <2>2, Zenon DEF NothingStranded
<1>4. RouterInv => NoLoss
  BY DEF RouterInv, SeqInv
<1>5. RouterInv => CommitSafety
  BY <1>1, <1>2, <1>3, <1>4 DEF CommitSafety
<1> QED
  BY <1>5, RouterInvariant, PTL

-----------------------------------------------------------------------------
(***************************************************************************)
(* The permits.                                                            *)
(***************************************************************************)
\* The batches that hold a permit.
Holding == IF Ordered THEN InFlight ELSE InFlight \cap tasks

\* There are finitely many of them.
LEMMA HoldingFinite ==
    /\ \A S \in SUBSET Batches : IsFiniteSet(S) /\ Cardinality(S) \in Nat
    /\ Holding \subseteq Batches
<1>1. IsFiniteSet(Batches)
  BY NumBatchesAssumption, FS_Interval DEF Batches
<1>2. \A S \in SUBSET Batches : IsFiniteSet(S) /\ Cardinality(S) \in Nat
  BY <1>1, FS_Subset, FS_CardinalityType
<1>3. Holding \subseteq Batches
  BY DEF Holding, InFlight
<1> QED
  BY <1>2, <1>3

LEMMA CapacityType == Capacity \in Nat
BY CommitLimitAssumption, SendingAssumption DEF Capacity

\* A step by which no batch comes in flight and no permit is taken keeps the permits.
LEMMA PermitsKept ==
    ASSUME Holding' \subseteq Holding, readPermit' => readPermit, InFlightBound
    PROVE  InFlightBound'
<1> DEFINE c == Cardinality(Holding)  d == Cardinality(Holding')
<1>1. c \in Nat /\ d \in Nat /\ d <= c
  BY HoldingFinite, FS_Subset
<1>2. Permits = Capacity - c - (IF readPermit THEN 1 ELSE 0)
  BY Zenon DEF Permits, Holding
<1>3. Permits' = Capacity - d - (IF readPermit' THEN 1 ELSE 0)
  BY Zenon DEF Permits, Holding, Capacity
<1> QED
  BY <1>1, <1>2, <1>3, CapacityType DEF InFlightBound

\* A batch is read once, and from then on its commit closure only moves on: it is never
\* unread or back with the runner, past the gate it does not come back to it, and once done
\* or dropped it stays so.
MovesOn(s) ==
    \/ stage'[s] = stage[s]
    \/ /\ stage[s] \notin {"unread", "done", "gone"}
       /\ stage'[s] \notin {"unread", "work"}
       /\ stage'[s] \in {"hold", "ready"} => stage[s] \in {"work", "hold"}

LEMMA StagesMoveOn ==
    ASSUME DataTypeOK, [RouterNext]_vars
    PROVE  ReadBatch \/ \A s \in Batches : MovesOn(s)
<1> USE DEF DataTypeOK, MovesOn, Stages, Resolved
<1>1. CASE Sequencer
  BY <1>1 DEF Sequencer, SequencerStep, SeqCommit, SeqRecv, SeqEnd, Notify
<1>2. CASE Gate \/ Timer
  <2> USE DEF Answer, FailCommits, EndTask, BeginFlush, KeepHolding
  <2>1. CASE GateRecv(ReaderStarved)
    <3>1. CASE Head(gateQ).ev = "Hold"
      BY <2>1, <3>1 DEF GateRecv, OnHold
    <3>2. CASE Head(gateQ).ev # "Hold"
      <4>1. Head(gateQ).ev \in {"Nudge", "Close", "Abandon", "Shutdown"}
        BY <2>1, <3>2, TakeFirst DEF GateRecv, GateEvents
      <4> QED
        BY <2>1, <3>2, <4>1 DEF GateRecv, OnPlain
    <3> QED
      BY <3>1, <3>2
  <2>2. CASE FlushOk \/ FlushErr
    BY <2>2 DEF FlushOk, FlushErr
  <2>3. CASE Timer
    BY <2>3 DEF Timer, GateTimer
  <2> QED
    BY <1>2, <2>1, <2>2, <2>3 DEF Gate
<1>3. CASE BeginRead \/ GetPermit \/ ReadEmpty
  BY <1>3 DEF BeginRead, GetPermit, ReadEmpty, csVars, seqVars
<1>4. ASSUME NEW b \in Batches, Handover(b) PROVE \A s \in Batches : MovesOn(s)
  BY <1>4 DEF Handover, SubmitStep, Submit, SubmitClosed, CommitDirect
<1>5. ASSUME NEW b \in Batches, Runner(b) PROVE \A s \in Batches : MovesOn(s)
  <2>1. CASE CallCommit(b) \/ NackUnsent(b)
    BY <2>1 DEF CallCommit, NackUnsent, HoldCommit
  <2>2. CASE SpawnCommit(b) \/ \E o \in Outcomes : SendReturns(b, o)
    BY <2>2 DEF SpawnCommit, SendReturns, csVars, seqVars
  <2>3. CASE \E report \in BOOLEAN : CommitReturns(b, report)
    BY <2>3 DEF CommitReturns
  <2> QED
    BY <1>5, <2>1, <2>2, <2>3 DEF Runner
<1>6. CASE WindingDown
  BY <1>6 DEF WindingDown, StopReading, WindDown, AbandonSequence, DropCommits, ShutdownGate,
              ShutdownRouter, csVars, seqVars
<1>7. CASE UNCHANGED vars
  BY <1>7 DEF vars, csVars, seqVars
<1> QED
  BY <1>1, <1>2, <1>3, <1>4, <1>5, <1>6, <1>7 DEF RouterNext, Reader

\* Only a call of its closure, a nack or the loss of a batch takes it out of the runner's
\* hands, and only that loss drops it.
LEMMA KeepsItsPlace ==
    ASSUME DataTypeOK, NEW s \in Batches,
           \/ Sequencer \/ Gate \/ Timer \/ Reader
           \/ \E t \in Batches :
                 \/ Handover(t) \/ SpawnCommit(t)
                 \/ \E o \in Outcomes : SendReturns(t, o)
                 \/ \E report \in BOOLEAN : CommitReturns(t, report)
           \/ \E takeErr \in BOOLEAN : StopReading(takeErr)
           \/ \E e \in {"Close", "Abandon"}, gap \in BOOLEAN : WindDown(e, gap)
           \/ AbandonSequence \/ ShutdownGate \/ ShutdownRouter
           \/ UNCHANGED vars
    PROVE  /\ stage'[s] = "gone" => stage[s] = "gone"
           /\ Called(s)' => Called(s)
<1> USE DEF DataTypeOK, Called, Stages, Resolved, vars, csVars, seqVars
<1>1. CASE Sequencer
  BY <1>1 DEF Sequencer, SequencerStep, SeqCommit, SeqRecv, SeqEnd, Notify
<1>2. CASE Gate \/ Timer
  <2> USE DEF Answer, FailCommits, EndTask, BeginFlush, KeepHolding
  <2>1. CASE GateRecv(ReaderStarved)
    <3>1. CASE Head(gateQ).ev = "Hold"
      BY <2>1, <3>1 DEF GateRecv, OnHold
    <3>2. CASE Head(gateQ).ev # "Hold"
      <4>1. Head(gateQ).ev \in {"Nudge", "Close", "Abandon", "Shutdown"}
        BY <2>1, <3>2, TakeFirst DEF GateRecv, GateEvents
      <4> QED
        BY <2>1, <3>2, <4>1 DEF GateRecv, OnPlain
    <3> QED
      BY <3>1, <3>2
  <2>2. CASE FlushOk \/ FlushErr
    BY <2>2 DEF FlushOk, FlushErr
  <2>3. CASE Timer
    BY <2>3 DEF Timer, GateTimer
  <2> QED
    BY <1>2, <2>1, <2>2, <2>3 DEF Gate
<1>3. CASE Reader
  BY <1>3 DEF Reader, BeginRead, GetPermit, ReadEmpty, ReadBatch
<1>4. ASSUME NEW t \in Batches, Handover(t)
      PROVE  (stage'[s] = "gone" => stage[s] = "gone") /\ (Called(s)' => Called(s))
  BY <1>4 DEF Handover, SubmitStep, Submit, SubmitClosed, CommitDirect
<1>5. ASSUME NEW t \in Batches,
             \/ SpawnCommit(t)
             \/ \E o \in Outcomes : SendReturns(t, o)
             \/ \E report \in BOOLEAN : CommitReturns(t, report)
      PROVE  (stage'[s] = "gone" => stage[s] = "gone") /\ (Called(s)' => Called(s))
  BY <1>5 DEF SpawnCommit, SendReturns, CommitReturns
<1>6. CASE \/ \E takeErr \in BOOLEAN : StopReading(takeErr)
           \/ \E e \in {"Close", "Abandon"}, gap \in BOOLEAN : WindDown(e, gap)
           \/ AbandonSequence \/ ShutdownGate \/ ShutdownRouter
           \/ UNCHANGED vars
  BY <1>6 DEF StopReading, WindDown, AbandonSequence, ShutdownGate, ShutdownRouter
<1> QED
  BY <1>1, <1>2, <1>3, <1>4, <1>5, <1>6

\* All steps but the read of a batch.
LEMMA NoReadMovesOn ==
    ASSUME DataTypeOK, [RouterNext]_vars, readSeq' = readSeq
    PROVE  \A s \in Batches : MovesOn(s)
<1>1. ~ReadBatch
  BY DEF ReadBatch, DataTypeOK
<1> QED
  BY <1>1, StagesMoveOn

\* What the reader and a spawned commit take was free.
LEMMA PermitStep ==
    ASSUME RouterInv, PermitInv, [RouterNext]_vars
    PROVE  PermitInv'
<1> USE OrderedAssumption DEF vars, csVars, seqVars, srcVars, gateVars, gateTaskVars, routerVars
<1>0. DataTypeOK /\ FlagTypeOK
  BY DEF RouterInv, RouterTypeOK
<1>1. CASE ReadBatch
  <2>1. readSeq \in Batches /\ stage[readSeq] = "unread" /\ readSeq \notin tasks
    BY <1>0, <1>1 DEF ReadBatch, RouterInv, CallInv, PermitInv, DataTypeOK, Batches
  <2>2. InFlight' = InFlight \cup {readSeq} /\ readSeq \notin InFlight
    BY <1>0, <1>1, <2>1 DEF ReadBatch, InFlight, DataTypeOK
  <2>3. CASE Ordered
    <3>1. readPermit /\ ~readPermit'
      BY <1>1, <2>3 DEF ReadBatch, PermitInv
    <3> DEFINE c == Cardinality(InFlight)
    <3>2. c \in Nat /\ Cardinality(InFlight') = c + 1
      BY <2>2, <2>3, HoldingFinite, FS_AddElement DEF Holding
    <3>3. Permits = Capacity - c - 1 /\ Permits' = Capacity - (c + 1) - 0
      BY <2>3, <3>1, <3>2 DEF Permits, Capacity
    <3>4. InFlightBound'
      BY <3>2, <3>3, CapacityType DEF PermitInv, InFlightBound
    <3> QED
      BY <1>0, <1>1, <2>3, <3>4 DEF PermitInv, ReadBatch, DataTypeOK
  <2>4. CASE ~Ordered
    <3>1. Holding' \subseteq Holding
      BY <1>1, <2>1, <2>2, <2>4 DEF Holding, ReadBatch
    <3>2. InFlightBound'
      BY <1>1, <3>1, PermitsKept DEF ReadBatch, PermitInv
    <3> QED
      BY <1>0, <1>1, <2>4, <3>2 DEF PermitInv, ReadBatch, DataTypeOK
  <2> QED
    BY <2>3, <2>4
<1>2. ASSUME NEW b \in Batches, SpawnCommit(b) PROVE PermitInv'
  <2>1. InFlight' = InFlight /\ UNCHANGED <<stage, readPermit, readPc>> /\ tasks' = tasks \cup {b}
    BY <1>2 DEF SpawnCommit, InFlight
  <2>2. CASE Ordered
    <3>1. InFlightBound'
      BY <2>1, <2>2, PermitsKept DEF Holding, PermitInv
    <3> QED
      BY <1>2, <2>1, <2>2, <3>1 DEF PermitInv, SpawnCommit
  <2>3. CASE ~Ordered
    <3>1. Permits > 0 /\ ~readPermit
      BY <1>2, <2>3 DEF SpawnCommit, PermitInv
    <3> DEFINE c == Cardinality(Holding)  d == Cardinality(Holding')
    <3>2. Holding' = Holding \cup {b} \/ Holding' = Holding
      BY <2>1, <2>3 DEF Holding
    <3>3. c \in Nat /\ d \in Nat /\ d <= c + 1
      BY <3>2, HoldingFinite, FS_AddElement
    <3>4. Permits = Capacity - c - 0 /\ Permits' = Capacity - d - 0
      BY <2>1, <3>1, Zenon DEF Permits, Holding, Capacity
    <3>5. InFlightBound'
      BY <3>1, <3>3, <3>4, CapacityType DEF InFlightBound
    <3> QED
      BY <1>2, <2>1, <2>3, <3>5 DEF PermitInv, SpawnCommit
  <2> QED
    BY <2>2, <2>3
<1>3. CASE BeginRead \/ GetPermit
  <2>1. UNCHANGED <<stage, tasks>> /\ Holding' = Holding
    BY <1>3 DEF BeginRead, GetPermit, Holding, InFlight
  <2>2. CASE readPermit' => readPermit
    <3>1. InFlightBound'
      BY <2>1, <2>2, PermitsKept DEF PermitInv
    <3> QED
      BY <1>0, <1>3, <2>1, <3>1 DEF PermitInv, BeginRead, GetPermit
  <2>3. CASE readPermit' /\ ~readPermit
    <3>1. Permits > 0 /\ Ordered
      BY <1>0, <1>3, <2>3 DEF BeginRead, GetPermit, PermitInv
    <3> DEFINE c == Cardinality(Holding)
    <3>2. c \in Nat
      BY HoldingFinite
    <3>3. Permits = Capacity - c - 0
      BY <2>3, Zenon DEF Permits, Holding
    <3>4. Permits' = Capacity - Cardinality(Holding') - 1
      BY <2>3, Zenon DEF Permits, Holding, Capacity
    <3>5. InFlightBound'
      BY <2>1, <3>1, <3>2, <3>3, <3>4, CapacityType DEF InFlightBound
    <3> QED
      BY <1>0, <1>3, <2>1, <2>3, <3>1, <3>5 DEF PermitInv, BeginRead, GetPermit
  <2> QED
    BY <2>2, <2>3
<1>4. ASSUME ~ReadBatch, UNCHANGED <<tasks, readPermit>>, readPc' = readPc \/ readPc' = "idle"
      PROVE  PermitInv'
  <2>1. \A s \in Batches : MovesOn(s)
    BY <1>0, <1>4, StagesMoveOn
  <2>2. Holding' \subseteq Holding
    BY <1>4, <2>1 DEF Holding, InFlight, MovesOn
  <2>3. InFlightBound'
    BY <1>4, <2>2, PermitsKept DEF PermitInv
  <2>4. \A s \in tasks' : stage'[s] # "unread"
    BY <1>0, <1>4, <2>1 DEF MovesOn, PermitInv, DataTypeOK
  <2> QED
    BY <1>4, <2>3, <2>4 DEF PermitInv
<1>5. CASE ReadEmpty
  <2>1. ~ReadBatch
    BY <1>0, <1>5 DEF ReadEmpty, ReadBatch, DataTypeOK
  <2> QED
    BY <1>4, <1>5, <2>1 DEF ReadEmpty
<1>6. CASE UNCHANGED <<tasks, readPermit>> /\ (readPc' = readPc \/ readPc' = "idle")
  BY <1>1, <1>4, <1>6
<1>7. CASE Sequencer \/ Gate \/ Timer \/ WindingDown \/ UNCHANGED vars
  BY <1>6, <1>7 DEF Sequencer, Gate, Timer, WindingDown, StopReading, WindDown, AbandonSequence,
                    DropCommits, ShutdownGate, ShutdownRouter
<1>8. ASSUME NEW s \in Batches, Handover(s) \/ Runner(s) PROVE PermitInv'
  BY <1>2, <1>6, <1>8 DEF Handover, CommitDirect, Runner, SendReturns, CallCommit, NackUnsent,
                          CommitReturns
<1> QED
  BY <1>1, <1>3, <1>5, <1>7, <1>8 DEF RouterNext, Reader

\* No runner holds more batches than there are permits, and no permit is given out twice
\* (CommitRouter::new, receive_with_permit).
THEOREM RouterPermits == RouterSpec => []InFlightBound
<1>1. RouterInit => PermitInv
  <2> SUFFICES ASSUME RouterInit PROVE PermitInv
    OBVIOUS
  <2>1. Holding = {} /\ ~readPermit /\ readPc = "idle" /\ tasks = {}
    BY DEF RouterInit, SeqInit, Holding, InFlight
  <2>2. Permits = Capacity - Cardinality({}) - 0
    BY <2>1, Zenon DEF Permits, Holding
  <2>3. InFlightBound
    BY <2>2, FS_EmptySet, CapacityType DEF InFlightBound
  <2> QED
    BY <2>1, <2>3 DEF PermitInv
<1>2. RouterInv /\ PermitInv /\ [RouterNext]_vars => PermitInv'
  BY PermitStep
<1>3. PermitInv => InFlightBound
  BY DEF PermitInv
<1> QED
  BY <1>1, <1>2, <1>3, RouterInvariant, PTL DEF RouterSpec

-----------------------------------------------------------------------------
(***************************************************************************)
(* What a runner that is not told of any failure can rely on.              *)
(***************************************************************************)
\* Only a closure in the runner's hands gets its dispositions, and only then.
LEMMA DispsStay ==
    ASSUME DataTypeOK, [RouterNext]_vars, NEW s \in Batches, stage[s] # "work"
    PROVE  disps'[s] = disps[s]
<1> USE DEF vars, csVars, seqVars, DataTypeOK
<1>1. CASE Sequencer \/ Gate \/ Timer
  BY <1>1 DEF Sequencer, SequencerStep, SeqCommit, SeqRecv, SeqEnd, Gate, GateRecv, FlushOk,
              FlushErr, Timer, GateTimer
<1>2. CASE Reader \/ WindingDown \/ UNCHANGED vars
  BY <1>2 DEF Reader, BeginRead, GetPermit, ReadBatch, ReadEmpty, WindingDown, StopReading,
              WindDown, AbandonSequence, DropCommits, ShutdownGate, ShutdownRouter
<1>3. ASSUME NEW b \in Batches, Handover(b) \/ Runner(b) PROVE disps'[s] = disps[s]
  BY <1>3 DEF Handover, SubmitStep, Submit, SubmitClosed, CommitDirect, Runner, SendReturns,
              SpawnCommit, CallCommit, NackUnsent, HoldCommit, CommitReturns
<1> QED
  BY <1>1, <1>2, <1>3 DEF RouterNext

\* Commits run only in the sequencer or, unordered, at once.
LEMMA RanSteps ==
    ASSUME DataTypeOK, [RouterNext]_vars, ~SeqCommit
    PROVE  UNCHANGED <<position, latch, nextSeq>> /\ (ran' = ran \/ ~Ordered)
<1> USE DEF vars, csVars, seqVars, srcVars
<1>1. CASE Sequencer \/ Gate \/ Timer
  BY <1>1 DEF Sequencer, SequencerStep, SeqRecv, SeqEnd, Gate, GateRecv, FlushOk,
              FlushErr, Timer, GateTimer
<1>2. CASE Reader \/ WindingDown \/ UNCHANGED vars
  BY <1>2 DEF Reader, BeginRead, GetPermit, ReadBatch, ReadEmpty, WindingDown, StopReading,
              WindDown, AbandonSequence, DropCommits, ShutdownGate, ShutdownRouter
<1>3. ASSUME NEW b \in Batches, Handover(b) \/ Runner(b)
      PROVE  UNCHANGED <<position, latch, nextSeq>> /\ (ran' = ran \/ ~Ordered)
  BY <1>3 DEF Handover, SubmitStep, Submit, SubmitClosed, CommitDirect, Runner, SendReturns,
              SpawnCommit, CallCommit, NackUnsent, CommitReturns
<1> QED
  BY <1>1, <1>2, <1>3 DEF RouterNext

\* The sequencer is given only commits that pass the gate, by their own closure.
LEMMA HandedSteps ==
    ASSUME DataTypeOK, [RouterNext]_vars
    PROVE  \A s \in (buffer \cup Queued)' :
              s \in buffer \cup Queued \/ (stage[s] = "ready" /\ stage'[s] = "wait")
<1> USE DEF vars, csVars, seqVars, Queued
<1>1. CASE SeqCommit \/ SeqEnd
  BY <1>1 DEF SeqCommit, SeqEnd
<1>2. CASE SeqRecv
  <2>1. chan \in Seq(Batches) /\ chan # <<>>
    BY <1>2 DEF SeqRecv, DataTypeOK
  <2>2. Head(chan) \in Queued /\ Queued' \subseteq Queued
    BY <1>2, <2>1, TakeFirst DEF SeqRecv
  <2> QED
    BY <1>2, <2>2 DEF SeqRecv
<1>3. ASSUME NEW b \in Batches, Submit(b)
      PROVE  \A s \in (buffer \cup Queued)' :
                s \in buffer \cup Queued \/ (stage[s] = "ready" /\ stage'[s] = "wait")
  <2>1. chan \in Seq(Batches) /\ chan' = Append(chan, b)
    BY <1>3 DEF Submit, DataTypeOK
  <2>2. Queued' = Queued \cup {b}
    BY <2>1, AddLast
  <2> QED
    BY <1>3, <2>2 DEF Submit, DataTypeOK
<1>4. CASE UNCHANGED <<chan, buffer>>
  BY <1>4
<1>5. CASE Sequencer \/ Gate \/ Timer \/ Reader \/ WindingDown \/ UNCHANGED vars
  BY <1>1, <1>2, <1>4, <1>5
     DEF Sequencer, SequencerStep, Gate, GateRecv, FlushOk, FlushErr, Timer, GateTimer, Reader,
         BeginRead, GetPermit, ReadBatch, ReadEmpty, WindingDown, StopReading, WindDown,
         AbandonSequence, DropCommits, ShutdownGate, ShutdownRouter
<1>6. ASSUME NEW b \in Batches, Handover(b) \/ Runner(b)
      PROVE  \A s \in (buffer \cup Queued)' :
                s \in buffer \cup Queued \/ (stage[s] = "ready" /\ stage'[s] = "wait")
  BY <1>3, <1>4, <1>6
     DEF Handover, SubmitStep, SubmitClosed, CommitDirect, Runner, SendReturns, SpawnCommit,
         CallCommit, NackUnsent, CommitReturns
<1> QED
  BY <1>5, <1>6 DEF RouterNext

\* The set of commits that ran and the set of spawned tasks only grow.
LEMMA HistoryGrows ==
    ASSUME DataTypeOK, [RouterNext]_vars
    PROVE  ran \subseteq ran' /\ tasks \subseteq tasks'
<1> USE DEF vars, csVars, seqVars, srcVars, routerVars
<1>1. CASE Sequencer \/ Gate \/ Timer
  BY <1>1 DEF Sequencer, SequencerStep, SeqCommit, SourceCommit, SeqRecv, SeqEnd, Gate, GateRecv,
              FlushOk, FlushErr, Timer, GateTimer
<1>2. CASE Reader \/ WindingDown \/ UNCHANGED vars
  BY <1>2 DEF Reader, BeginRead, GetPermit, ReadBatch, ReadEmpty, WindingDown, StopReading,
              WindDown, AbandonSequence, DropCommits, ShutdownGate, ShutdownRouter
<1>3. ASSUME NEW b \in Batches, Handover(b) \/ Runner(b)
      PROVE  ran \subseteq ran' /\ tasks \subseteq tasks'
  BY <1>3 DEF Handover, SubmitStep, Submit, SubmitClosed, CommitDirect, Runner, SendReturns,
              SpawnCommit, CallCommit, NackUnsent, CommitReturns
<1> QED
  BY <1>1, <1>2, <1>3 DEF RouterNext

\* Only the shutdown of the router lets go of its sender.
LEMMA RouterStaysUp ==
    ASSUME \/ Sequencer \/ Gate \/ Timer \/ Reader
           \/ \E s \in Batches : Handover(s) \/ Runner(s)
           \/ \E takeErr \in BOOLEAN : StopReading(takeErr)
           \/ \E e \in {"Close", "Abandon"}, gap \in BOOLEAN : WindDown(e, gap)
           \/ AbandonSequence \/ ShutdownGate
           \/ \E S \in SUBSET Batches : DropCommits(S)
           \/ UNCHANGED vars
    PROVE  routerUp' = routerUp
<1> USE DEF vars, csVars, seqVars
<1>1. CASE Sequencer \/ Gate \/ Timer \/ Reader \/ UNCHANGED vars
  BY <1>1 DEF Sequencer, SequencerStep, SeqCommit, SeqRecv, SeqEnd, Gate, GateRecv,
              FlushOk, FlushErr, Timer, GateTimer, Reader, BeginRead, GetPermit, ReadBatch,
              ReadEmpty
<1>2. ASSUME NEW b \in Batches, Handover(b) \/ Runner(b) PROVE routerUp' = routerUp
  BY <1>2 DEF Handover, SubmitStep, Submit, SubmitClosed, CommitDirect, Runner, SendReturns,
              SpawnCommit, CallCommit, NackUnsent, CommitReturns
<1> QED
  BY <1>1, <1>2 DEF StopReading, WindDown, AbandonSequence, DropCommits, ShutdownGate

\* SettleInv is preserved by every step of every runner.
LEMMA SettleStep ==
    ASSUME RouterInv, SettleInv, [RouterNext]_vars
    PROVE  SettleInv'
<1>0. DataTypeOK /\ CallInv /\ Queued \subseteq Batches
  BY DEF RouterInv, RouterTypeOK, DataTypeOK, Queued
<1>1. ASSUME NEW s \in (buffer \cup Queued)'
      PROVE  stage'[s] \notin {"unread", "work", "hold", "ready"}
  <2>1. CASE stage[s] = "ready" /\ stage'[s] = "wait"
    BY <2>1
  <2>2. CASE s \in buffer \cup Queued
    <3>1. s \in Batches /\ stage[s] \notin {"unread", "work", "hold", "ready"}
      BY <1>0, <2>2 DEF SettleInv, DataTypeOK
    <3>2. ReadBatch => stage[readSeq] = "unread"
      BY <1>0 DEF ReadBatch, CallInv, DataTypeOK, Batches
    <3> QED
      BY <1>0, <3>1, <3>2, StagesMoveOn DEF MovesOn, ReadBatch, DataTypeOK
  <2> QED
    BY <1>0, <1>1, <2>1, <2>2, HandedSteps
<1>2. ASSUME Ordered, NEW s \in ran', "Nack" \in disps'[s] PROVE latch'
  <2>1. ran \subseteq Batches /\ \A t \in ran : stage[t] # "work"
    BY <1>0 DEF CallInv, Called, DataTypeOK
  <2>2. CASE SeqCommit
    <3>1. disps' = disps /\ ran' = ran \cup {nextSeq} /\ latch' = (latch \/ "Nack" \in disps[nextSeq])
      BY <2>2 DEF SeqCommit, SourceCommit
    <3> QED
      BY <1>2, <3>1 DEF SettleInv
  <2>3. CASE ~SeqCommit
    <3>1. ran' = ran /\ latch' = latch
      BY <1>0, <1>2, <2>3, RanSteps
    <3>2. disps'[s] = disps[s]
      BY <1>0, <1>2, <2>1, <3>1, DispsStay
    <3> QED
      BY <1>2, <3>1, <3>2 DEF SettleInv
  <2> QED
    BY <2>2, <2>3
<1> QED
  BY <1>1, <1>2 DEF SettleInv

\* Nothing has gone wrong, or been run, at the start.
LEMMA SettleInit == RouterInit => SettleInv
BY DEF RouterInit, SeqInit, SettleInv, Queued

LEMMA FineInit == RouterInit => PathFine
BY DEF RouterInit, SeqInit, GateInit, PathFine

\* PathFine is about the commit path alone.
LEMMA FineUnchanged ==
    ASSUME PathFine, UNCHANGED vars
    PROVE  PathFine'
<1>1. UNCHANGED <<stage, seqOpen, failed, gatePc, gateQ, ran, position, latch, nextSeq>>
  BY DEF vars, csVars, seqVars, srcVars, gateVars, gateTaskVars
<1> QED
  BY <1>1 DEF PathFine

\* Events other than an abandon or a shutdown leave the queue fine.
LEMMA TellKeepsFine ==
    ASSUME DataTypeOK, NEW e \in {"Nudge", "Close"}, Tell(e),
           \A i \in DOMAIN gateQ : gateQ[i].ev \notin {"Abandon", "Shutdown"}
    PROVE  \A i \in DOMAIN gateQ' : gateQ'[i].ev \notin {"Abandon", "Shutdown"}
<1>1. PlainEvent(e).ev = e /\ gateQ \in Seq(GateEvents)
  BY DEF PlainEvent, DataTypeOK
<1>2. CASE gateQ' = Append(gateQ, PlainEvent(e))
  <2> DEFINE p == PlainEvent(e)
  <2>1. p.ev \notin {"Abandon", "Shutdown"} /\ gateQ' = Append(gateQ, p)
    BY <1>1, <1>2
  <2> HIDE DEF p
  <2>2. \A i \in DOMAIN gateQ' : gateQ'[i] = p \/ (i \in DOMAIN gateQ /\ gateQ'[i] = gateQ[i])
    BY <1>1, <2>1
  <2> QED
    BY <2>1, <2>2
<1> QED
  BY <1>2 DEF Tell

\* While the router is up and nothing has failed, the sequencer runs what it has: a commit
\* that fails at the source leaves its caller to be told.
LEMMA SequencerKeepsFine ==
    ASSUME RouterInv, SettleInv, PathFine, routerUp, Sequencer
    PROVE  PathFine'
<1> USE NumBatchesAssumption DEF Sequencer, gateVars, gateTaskVars, routerVars, srcVars, Notify
<1>0. DataTypeOK /\ CallInv /\ SeqInv
  BY DEF RouterInv, RouterTypeOK
<1>a. SeqCommit \/ SeqRecv => Ordered
  BY <1>0 DEF SeqInv, SeqCommit, SeqRecv
<1>1. CASE SeqCommit
  <2> USE <1>1 DEF SeqCommit
  <2>1. nextSeq \in Batches /\ nextSeq \notin ran
    BY <1>0, <1>a DEF SeqInv, DataTypeOK, Batches
  <2>2. stage[nextSeq] = "wait"
    BY <1>0, <2>1 DEF SettleInv, PathFine, DataTypeOK, Stages, Resolved
  <2>3. PICK res \in {"ok", "err"} :
           SourceCommit(nextSeq, disps[nextSeq], res) /\ stage' = Notify({nextSeq}, res)
    OBVIOUS
  <2>4. stage' = [stage EXCEPT ![nextSeq] = res] /\ ran' = ran \cup {nextSeq}
    BY <1>0, <2>1, <2>2, <2>3 DEF DataTypeOK, SourceCommit
  <2>5. \A s \in Batches :
           /\ stage'[s] \notin {"unflushed", "gone"}
           /\ stage'[s] \in {"ok", "err", "done"} => s \in ran'
    BY <1>0, <2>1, <2>3, <2>4 DEF PathFine, DataTypeOK
  <2>6. ~latch' => position' = nextSeq' \/ stage'[nextSeq] = "err"
    BY <1>0, <2>1, <2>3, <2>4 DEF SourceCommit, DataTypeOK
  <2> QED
    BY <2>1, <2>5, <2>6 DEF PathFine
<1>2. CASE SeqRecv
  <2> USE <1>2 DEF SeqRecv
  <2>1. Head(chan) \in Batches
    BY <1>0, TakeFirst DEF DataTypeOK
  <2>2. \A s \in Batches : stage'[s] = stage[s] \/ (stage'[s] = "err" /\ s \in ran)
    BY <1>0, <1>a, <2>1 DEF SeqInv, DataTypeOK, Batches
  <2>3. \A s \in Batches : stage[s] = "err" => stage'[s] = "err"
    BY <1>0 DEF DataTypeOK
  <2> QED
    BY <2>2, <2>3 DEF PathFine
<1>3. CASE SeqEnd
  BY <1>3 DEF SeqEnd, SendersGone, PathFine
<1> QED
  BY <1>1, <1>2, <1>3 DEF SequencerStep

\* A flush that succeeds fails nobody, and one that does not is reported.
LEMMA GateKeepsFine ==
    ASSUME RouterInv, PathFine, Gate \/ Timer, ~errQueued'
    PROVE  PathFine'
<1> USE DEF srcVars, Answer, BeginFlush, KeepHolding
<1>0. DataTypeOK
  BY DEF RouterInv, RouterTypeOK
<1>1. CASE GateRecv(ReaderStarved)
  <2> USE <1>1 DEF GateRecv
  <2>1. gateQ \in Seq(GateEvents) /\ gateQ # <<>> /\ Gated
    BY <1>0 DEF DataTypeOK, PathFine
  <2>2. /\ Head(gateQ) \in GateEvents /\ Head(gateQ) = gateQ[1] /\ 1 \in DOMAIN gateQ
        /\ \A i \in DOMAIN Tail(gateQ) : i + 1 \in DOMAIN gateQ /\ Tail(gateQ)[i] = gateQ[i + 1]
    BY <2>1
  <2>3. Head(gateQ).ev \in {"Hold", "Nudge", "Close"}
    BY <2>2 DEF GateEvents, PathFine
  <2>4. /\ UNCHANGED <<stage, seqOpen, failed>>
        /\ gatePc' \in {"run", "flush"}
    <3>1. CASE Head(gateQ).ev = "Hold"
      BY <3>1 DEF OnHold, PathFine
    <3>2. CASE Head(gateQ).ev \in {"Nudge", "Close"}
      BY <3>2 DEF OnPlain
    <3> QED
      BY <2>3, <3>1, <3>2
  <2>5. gateQ' = Tail(gateQ)
    BY <2>4
  <2>6. \A i \in DOMAIN gateQ' : gateQ'[i].ev \notin {"Abandon", "Shutdown"}
    BY <2>2, <2>5 DEF PathFine
  <2> QED
    BY <2>1, <2>4, <2>6 DEF PathFine
<1>2. CASE FlushOk
  <2>1. gatePc = "flush" /\ Gated
    BY <1>2 DEF FlushOk, PathFine
  <2>2. /\ ~failed' /\ gatePc' = "run"
        /\ UNCHANGED <<seqOpen, gateQ, ran, latch, position, nextSeq>>
    BY <1>2, <2>1 DEF FlushOk
  <2>3. \A s \in Batches : stage'[s] = stage[s] \/ stage'[s] = "ready"
    BY <1>2, <2>1 DEF FlushOk
  <2>4. \A s \in Batches : stage[s] = "err" => stage'[s] = "err"
    BY <1>2 DEF FlushOk
  <2> QED
    BY <2>1, <2>2, <2>3, <2>4 DEF PathFine
<1>3. CASE FlushErr
  BY <1>3 DEF FlushErr, ReportRouteError
<1>4. CASE Timer
  BY <1>4 DEF Timer, GateTimer, PathFine
<1> QED
  BY <1>1, <1>2, <1>3, <1>4 DEF Gate

\* Neither do the closures fail that are called, handed over or, unordered, run.
LEMMA ClosureKeepsFine ==
    ASSUME RouterInv, PathFine, NEW b \in Batches,
           \/ Handover(b)
           \/ \E o \in Outcomes : SendReturns(b, o)
           \/ SpawnCommit(b) \/ CallCommit(b) \/ NackUnsent(b)
    PROVE  PathFine'
<1> USE DEF csVars, seqVars, srcVars, gateVars, gateTaskVars
<1>0. DataTypeOK
  BY DEF RouterInv, RouterTypeOK
<1>1. CASE Handover(b)
  <2>1. UNCHANGED <<seqOpen, failed, gatePc, gateQ, position, latch, nextSeq>> /\ stage[b] = "ready"
    BY <1>1 DEF Handover, SubmitStep, Submit, SubmitClosed, CommitDirect
  <2>2. \/ stage' = [stage EXCEPT ![b] = "wait"] /\ ran' = ran
        \/ \E res \in {"ok", "err"} : stage' = [stage EXCEPT ![b] = res] /\ ran' = ran \cup {b}
    BY <1>1 DEF Handover, SubmitStep, Submit, SubmitClosed, CommitDirect, PathFine
  <2>3. \A s \in Batches : /\ stage'[s] \notin {"unflushed", "gone"}
                           /\ stage'[s] \in {"ok", "err", "done"} => s \in ran'
                           /\ stage[s] = "err" => stage'[s] = "err"
    BY <1>0, <2>1, <2>2 DEF PathFine, DataTypeOK
  <2> QED
    BY <2>1, <2>3 DEF PathFine
<1>2. CASE SpawnCommit(b) \/ \E o \in Outcomes : SendReturns(b, o)
  <2>1. UNCHANGED <<stage, seqOpen, failed, gatePc, gateQ, ran, position, latch, nextSeq>>
    BY <1>2 DEF SpawnCommit, SendReturns
  <2> QED
    BY <2>1 DEF PathFine
<1>3. CASE CallCommit(b) \/ NackUnsent(b)
  <2>1. PICK d : HoldCommit(b, d) /\ stage[b] = "work"
    BY <1>3 DEF CallCommit, NackUnsent
  <2>2. UNCHANGED <<seqOpen, failed, gatePc, ran, position, latch, nextSeq>>
    BY <1>3 DEF CallCommit, NackUnsent
  <2>3. \E st \in {"ready", "hold"} : stage' = [stage EXCEPT ![b] = st]
    BY <2>1 DEF HoldCommit, PathFine
  <2>4. \A i \in DOMAIN gateQ' : gateQ'[i].ev \notin {"Abandon", "Shutdown"}
    <3> DEFINE h == HoldEvent(b, d # {"Ack"})
    <3>1. gateQ \in Seq(GateEvents) /\ h.ev = "Hold"
      BY <1>0 DEF DataTypeOK, HoldEvent
    <3>2. gateQ' = gateQ \/ gateQ' = Append(gateQ, h)
      BY <2>1 DEF HoldCommit
    <3> HIDE DEF h
    <3>3. \A i \in DOMAIN gateQ' : (i \in DOMAIN gateQ /\ gateQ'[i] = gateQ[i]) \/ gateQ'[i] = h
      BY <3>1, <3>2
    <3> QED
      BY <3>1, <3>3 DEF PathFine
  <2> QED
    BY <1>0, <2>1, <2>2, <2>3, <2>4 DEF PathFine, DataTypeOK
<1> QED
  BY <1>1, <1>2, <1>3

\* A caller that learns of a failed commit passes it on, unless a nack latched the source.
LEMMA ReturnKeepsFine ==
    ASSUME RouterInv, PathFine, NEW b \in Batches, NEW report, CommitReturns(b, report),
           Ordered /\ stage[b] = "err" => latch
    PROVE  PathFine'
<1> USE DEF srcVars, gateVars, gateTaskVars
<1>0. DataTypeOK
  BY DEF RouterInv, RouterTypeOK
<1>1. stage[b] \in {"ok", "err"} /\ stage' = [stage EXCEPT ![b] = "done"]
  BY DEF CommitReturns, Resolved, PathFine
<1>2. UNCHANGED <<seqOpen, failed, gatePc, gateQ, ran, position, latch, nextSeq>>
  BY DEF CommitReturns
<1>3. \A s \in Batches : stage'[s] \notin {"unflushed", "gone"} /\ (stage'[s] \in {"ok", "err", "done"} => s \in ran)
  BY <1>0, <1>1 DEF PathFine, DataTypeOK
<1>4. Ordered /\ ~latch => position = nextSeq \/ \E s \in Batches : stage'[s] = "err"
  BY <1>0, <1>1 DEF PathFine, DataTypeOK
<1> QED
  BY <1>2, <1>3, <1>4 DEF PathFine

\* Reading, an end of reading and the Close event leave the commit path fine.
LEMMA ReaderKeepsFine ==
    ASSUME RouterInv, PathFine,
           \/ Reader
           \/ \E takeErr \in BOOLEAN : StopReading(takeErr)
           \/ WindDown("Close", FALSE)
    PROVE  PathFine'
<1> USE DEF csVars, seqVars, srcVars, gateVars, gateTaskVars
<1>0. DataTypeOK
  BY DEF RouterInv, RouterTypeOK
<1>1. CASE ReadBatch
  <2>1. readSeq \in Batches /\ stage[readSeq] = "unread"
    BY <1>1 DEF ReadBatch, RouterInv, CallInv, RouterTypeOK, DataTypeOK, Batches
  <2> QED
    BY <1>0, <1>1, <2>1 DEF ReadBatch, PathFine, DataTypeOK
<1>2. CASE GetPermit \/ \E takeErr \in BOOLEAN : StopReading(takeErr)
  <2>1. UNCHANGED <<stage, seqOpen, failed, gatePc, gateQ, ran, position, latch, nextSeq>>
    BY <1>2 DEF GetPermit, StopReading
  <2> QED
    BY <2>1 DEF PathFine
<1>3. CASE BeginRead \/ ReadEmpty \/ WindDown("Close", FALSE)
  <2>1. UNCHANGED <<stage, failed, gatePc, ran, position, latch, nextSeq>> /\ seqOpen'
    BY <1>3 DEF BeginRead, ReadEmpty, WindDown, CloseForGap, PathFine
  <2>2. \A i \in DOMAIN gateQ' : gateQ'[i].ev \notin {"Abandon", "Shutdown"}
    BY <1>0, <1>3, TellKeepsFine DEF BeginRead, ReadEmpty, WindDown, PathFine
  <2> QED
    BY <2>1, <2>2 DEF PathFine
<1> QED
  BY <1>1, <1>2, <1>3 DEF Reader


\* An inline commit that fails and does not fail its batch had nacked it.
LEMMA QuietFailureNacked ==
    ASSUME Ordered, NEW o \in AllOutcomes, NEW res, res # "ok",
           CommitsInline(o), ~InlineFails(o, res)
    PROVE  "Nack" \in DispositionsOf(o)
<1>1. Policy = "StopRoute"
  BY PolicyAssumption
<1>2. CASE "transient" \in o.results
  BY <1>1, <1>2 DEF DispositionsOf, DispositionOf, ApplyPolicy
<1>3. CASE "transient" \notin o.results
  <2>1. o.kind = "Err" /\ o.results = {"permanent"}
    BY <1>3 DEF CommitsInline, AllOutcomes
  <2> QED
    BY <2>1 DEF InlineFails
<1> QED
  BY <1>2, <1>3

\* Hence, where nothing else went wrong, the source has latched.
LEMMA QuietFailureLatched ==
    ASSUME RouterInv, SettleInv, PathFine, Ordered, NEW s \in Batches, stage[s] = "err",
           CommitsInline(outcome[s]), disps[s] = DispositionsOf(outcome[s]),
           ~InlineFails(outcome[s], stage[s])
    PROVE  latch
<1>1. outcome[s] \in AllOutcomes
  BY UnsentIsNoOutcome DEF RouterInv, RouterTypeOK, DataTypeOK, CommitsInline, Unsent
<1>2. "Nack" \in disps[s]
  BY <1>1, QuietFailureNacked
<1> QED
  BY <1>2 DEF PathFine, SettleInv

\* The position covers what was read once every commit ended and none of them failed.
LEMMA AllDoneCovered ==
    ASSUME RouterInv, PathFine,
           \A s \in Batches : stage[s] \in {"unread", "done"}
    PROVE  /\ \A s \in Batches : stage[s] = "unread" \/ (stage[s] = "done" /\ s \in ran)
           /\ Ordered /\ ~latch => position = readSeq
<1>0. DataTypeOK /\ CallInv /\ SeqInv
  BY DEF RouterInv, RouterTypeOK
<1>1. \A s \in Batches : stage[s] = "unread" \/ (stage[s] = "done" /\ s \in ran)
  BY DEF PathFine
<1>2. ASSUME Ordered PROVE nextSeq = readSeq
  <2>1. /\ nextSeq \in 0 .. NumBatches /\ readSeq \in 0 .. NumBatches
        /\ \A s \in Batches : s \in ran <=> s < nextSeq
        /\ \A s \in Batches : stage[s] = "unread" <=> s >= readSeq
    BY <1>0, <1>2 DEF DataTypeOK, CallInv, SeqInv
  <2>2. \A s \in Batches : s \in ran => stage[s] # "unread"
    BY <1>0 DEF CallInv, Called
  <2>3. ~(nextSeq < readSeq)
    BY <1>1, <2>1, NumBatchesAssumption DEF Batches
  <2>4. ~(readSeq < nextSeq)
    BY <2>1, <2>2, NumBatchesAssumption DEF Batches
  <2> QED
    BY <2>1, <2>3, <2>4, NumBatchesAssumption
<1>3. \A s \in Batches : stage[s] # "err"
  OBVIOUS
<1> QED
  BY <1>1, <1>2, <1>3 DEF PathFine

\* What is done stays done: the sequencer has nothing left to run.
LEMMA AllDoneStays ==
    ASSUME RouterInv, [RouterNext]_vars, readSeq' = readSeq,
           \A s \in Batches : stage[s] = "unread" \/ (stage[s] = "done" /\ s \in ran),
           Ordered /\ ~latch => position = readSeq
    PROVE  /\ \A s \in Batches : stage'[s] = "unread" \/ (stage'[s] = "done" /\ s \in ran')
           /\ Ordered /\ ~latch' => position' = readSeq'
<1>0. DataTypeOK /\ CallInv /\ SeqInv
  BY DEF RouterInv, RouterTypeOK
<1>1. \A s \in Batches : stage'[s] = stage[s]
  BY <1>0, NoReadMovesOn DEF MovesOn
<1>2. ran \subseteq ran'
  BY <1>0, HistoryGrows
<1>3. ~SeqCommit \/ ~Ordered
  <2> SUFFICES ASSUME SeqCommit, Ordered PROVE FALSE
    OBVIOUS
  <2>1. nextSeq \in Batches /\ nextSeq \in buffer
    BY <1>0 DEF SeqCommit, DataTypeOK
  <2>2. nextSeq \in ran
    BY <1>0, <2>1 DEF CallInv, Called
  <2> QED
    BY <1>0, <2>1, <2>2, NumBatchesAssumption DEF SeqInv, Batches
<1> QED
  BY <1>0, <1>1, <1>2, <1>3, RanSteps

-----------------------------------------------------------------------------
(***************************************************************************)
(* The route implements the delivery contract: the position moves forward  *)
(* only, over settled batches only, and what is settled stays settled.     *)
(***************************************************************************)
\* Only a returning send changes an outcome; the durable batches only grow.
LEMMA OutcomesStay ==
    ASSUME RouterInv, [RouterNext]_vars
    PROVE  /\ durable \subseteq durable'
           /\ \/ outcome' = outcome /\ accepted' = accepted
              \/ \E s \in Batches, o \in Outcomes : SendReturns(s, o)
<1> USE DEF gateVars, gateTaskVars, routerVars
<1>1. CASE Sequencer
  BY <1>1 DEF Sequencer
<1>2. CASE Gate \/ Timer
  BY <1>2 DEF Gate, Timer, GateRecv, FlushOk, FlushErr, GateTimer
<1>3. CASE Reader
  BY <1>3 DEF Reader, BeginRead, GetPermit, ReadBatch, ReadEmpty
<1>4. ASSUME NEW s \in Batches, Handover(s) PROVE UNCHANGED <<durable, outcome, accepted>>
  BY <1>4 DEF Handover, CommitDirect
<1>5. ASSUME NEW s \in Batches, Runner(s),
             \A o \in Outcomes : ~SendReturns(s, o)
      PROVE  UNCHANGED <<durable, outcome, accepted>>
  BY <1>5 DEF Runner, SpawnCommit, CallCommit, NackUnsent, CommitReturns
<1>6. ASSUME NEW s \in Batches, NEW o \in Outcomes, SendReturns(s, o) PROVE durable' = durable
  BY <1>6 DEF SendReturns
<1>7. CASE WindingDown
  BY <1>7 DEF WindingDown, StopReading, WindDown, AbandonSequence, DropCommits,
              ShutdownGate, ShutdownRouter
<1>8. CASE UNCHANGED vars
  BY <1>8 DEF vars
<1> QED
  BY <1>1, <1>2, <1>3, <1>4, <1>5, <1>6, <1>7, <1>8 DEF RouterNext

\* What a step of the commit path leaves of a batch whose closure was called.
LEMMA CalledStays ==
    ASSUME RouterInv, [RouterNext]_vars, NEW s \in Batches, Called(s)
    PROVE  Called(s)' /\ outcome'[s] = outcome[s] /\ disps'[s] = disps[s]
<1>0. DataTypeOK
  BY DEF RouterInv, RouterTypeOK
<1>1. Called(s)'
  <2>1. CASE ReadBatch
    <3>1. readSeq \in Batches /\ stage[readSeq] = "unread" /\ stage' = [stage EXCEPT ![readSeq] = "work"]
      BY <2>1 DEF ReadBatch, RouterInv, CallInv, RouterTypeOK, DataTypeOK, Batches
    <3> QED
      BY <1>0, <3>1 DEF Called, DataTypeOK
  <2>2. CASE \A t \in Batches : MovesOn(t)
    BY <2>2 DEF MovesOn, Called
  <2> QED
    BY <1>0, <2>1, <2>2, StagesMoveOn
<1>2. outcome'[s] = outcome[s]
  BY <1>0, OutcomesStay DEF SendReturns, Called, DataTypeOK
<1>3. disps'[s] = disps[s]
  BY <1>0, DispsStay DEF Called
<1> QED
  BY <1>1, <1>2, <1>3

\* An outcome is never taken back.
LEMMA SentStays ==
    ASSUME RouterInv, [RouterNext]_vars, NEW s \in Batches, outcome[s] # Unsent
    PROVE  outcome'[s] = outcome[s]
BY OutcomesStay DEF SendReturns, RouterInv, RouterTypeOK, DataTypeOK, Unsent

\* A batch that needs no redelivery never needs it again.
LEMMA SafeStays ==
    ASSUME RouterInv, [RouterNext]_vars, NEW s \in Batches, Safe(s)
    PROVE  Safe(s)'
<1>1. durable \subseteq durable' /\ outcome[s] # Unsent
  BY OutcomesStay DEF Safe, Clean
<1>2. CASE outcome' = outcome /\ accepted' = accepted
  BY <1>1, <1>2 DEF Safe, Clean, Flushed, Unsent
<1>3. ASSUME NEW t \in Batches, NEW o \in Outcomes, SendReturns(t, o) PROVE Safe(s)'
  <2>1. t # s
    BY <1>1, <1>3 DEF SendReturns
  <2>2. outcome'[s] = outcome[s]
    BY <1>3, <2>1 DEF SendReturns, RouterInv, RouterTypeOK, DataTypeOK
  <2>3. s \in accepted' => s \in accepted
    BY <1>3, <2>1 DEF SendReturns
  <2> QED
    BY <1>1, <2>2, <2>3 DEF Safe, Clean, Flushed, Unsent
<1> QED
  BY <1>2, <1>3, OutcomesStay

\* Only the sequencer moves the position.
LEMMA PositionSteps ==
    ASSUME RouterInv, [RouterNext]_vars
    PROVE  \/ position' = position
           \/ /\ position' = nextSeq + 1
              /\ UNCHANGED <<outcome, accepted, durable>>
<1> USE DEF srcVars, csVars, gateVars, gateTaskVars, routerVars
<1>1. CASE Sequencer
  BY <1>1 DEF Sequencer, SequencerStep, SeqCommit, SourceCommit, SeqRecv, SeqEnd
<1>2. CASE Gate \/ Timer
  BY <1>2 DEF Gate, Timer, GateRecv, FlushOk, FlushErr, GateTimer
<1>3. CASE Reader
  BY <1>3 DEF Reader, BeginRead, GetPermit, ReadBatch, ReadEmpty
<1>4. ASSUME NEW s \in Batches, Handover(s) PROVE position' = position
  BY <1>4 DEF Handover, CommitDirect, SubmitStep, Submit, SubmitClosed
<1>5. ASSUME NEW s \in Batches, Runner(s) PROVE position' = position
  BY <1>5 DEF Runner, SendReturns, SpawnCommit, CallCommit, NackUnsent, CommitReturns
<1>6. CASE WindingDown
  BY <1>6 DEF WindingDown, StopReading, WindDown, AbandonSequence, DropCommits,
              ShutdownGate, ShutdownRouter
<1>7. CASE UNCHANGED vars
  BY <1>7 DEF vars
<1> QED
  BY <1>1, <1>2, <1>3, <1>4, <1>5, <1>6, <1>7 DEF RouterNext

\* What lies below a position is a batch.
LEMMA BelowPosition ==
    ASSUME NEW n \in Nat, NEW p \in 0 .. n
    PROVE  \A s \in 0 .. (p - 1) : s \in 0 .. (n - 1) /\ s < p
OBVIOUS

\* Every runner that follows RouterSpec keeps the delivery contract of module Delivery.
THEOREM RouterKeepsContract == RouterSpec => DeliveryContract
<1>1. RouterInit => Contract!Init
  BY DEF RouterInit, SeqInit, Contract!Init, Safe, Clean
<1>2. RouterInv /\ RouterInv' /\ [RouterNext]_vars
        => [Contract!Settle \/ Contract!Advance]_<<position, {s \in Batches : Safe(s)}>>
  <2> SUFFICES ASSUME RouterInv, RouterInv', [RouterNext]_vars
               PROVE  Contract!Settle \/ Contract!Advance
    OBVIOUS
  <2>1. {s \in Batches : Safe(s)} \subseteq {s \in Batches : Safe(s)}'
    BY SafeStays
  <2>2. CASE position' = position
    BY <2>1, <2>2 DEF Contract!Settle, Batches
  <2>3. CASE position' = nextSeq + 1 /\ UNCHANGED <<outcome, accepted, durable>>
    <3>1. \A s \in Batches : Safe(s)' <=> Safe(s)
      BY <2>3 DEF Safe, Clean, Flushed, Unsent
    <3>2. /\ position \in Nat /\ position' \in 0 .. NumBatches
          /\ position <= nextSeq /\ nextSeq \in Nat
      BY NumBatchesAssumption DEF RouterInv, RouterTypeOK, DataTypeOK, SeqInv
    <3>3. position' \in (position + 1) .. NumBatches
      BY <2>3, <3>2, NumBatchesAssumption
    <3>4. \A s \in Batches : s < position' => Safe(s)
      BY <3>1 DEF RouterInv, SeqInv, NoLoss
    <3>5. \A s \in 0 .. (position' - 1) : s \in Batches /\ s < position'
      BY <3>2, BelowPosition, NumBatchesAssumption DEF Batches
    <3>6. {s \in Batches : Safe(s)}' = {s \in Batches : Safe(s)}
      BY <3>1
    <3> QED
      BY <3>3, <3>4, <3>5, <3>6 DEF Contract!Advance
  <2> QED
    BY <2>2, <2>3, PositionSteps
<1> QED
  BY <1>1, <1>2, RouterInvariant, PTL DEF RouterSpec, DeliveryContract, Contract!Spec
=============================================================================
