-------------------------- MODULE Middleware_proofs --------------------------
(***************************************************************************)
(* What the middlewares keep true, proved for any messages and ids,        *)
(* consumers, attempts and limits, and any number of faults.               *)
(***************************************************************************)
EXTENDS RetryDlq, Deduplication, DeferredCommits, BufferPublisher, WeakJoin, FiniteSetTheorems,
        SequenceTheorems, WellFoundedInduction, NaturalsInduction, TLAPS

-----------------------------------------------------------------------------
(* The retry and the dead-letter middleware *)

LEMMA NoMessages == DOMAIN <<>> = {}
OBVIOUS

LEMMA Merged ==
    ASSUME NEW f, NEW g
    PROVE  /\ DOMAIN Merge(f, g) = DOMAIN f \cup DOMAIN g
           /\ \A m \in DOMAIN g : Merge(f, g)[m] = g[m]
           /\ \A m \in DOMAIN f \ DOMAIN g : Merge(f, g)[m] = f[m]
BY DEF Merge

\* An answer to a batch: of its failed messages, each has an error of the sink.
LEMMA AnswerShape ==
    ASSUME NEW S, NEW answer \in Answers(S)
    PROVE  \/ answer = Ack
           \/ \E e \in RawErrors : answer = Err(e)
           \/ /\ answer = Partial(answer.failed) /\ DOMAIN answer.failed \subseteq S
              /\ \A m \in DOMAIN answer.failed : answer.failed[m] \in RawErrors
<1>1. CASE answer = Ack \/ \E e \in RawErrors : answer = Err(e)
  BY <1>1
<1>2. ASSUME NEW T \in SUBSET S, NEW f \in [T -> RawErrors], answer = Partial(f)
      PROVE  /\ answer = Partial(answer.failed) /\ DOMAIN answer.failed \subseteq S
             /\ \A m \in DOMAIN answer.failed : answer.failed[m] \in RawErrors
  <2>1. answer.failed = f
    BY <1>2 DEF Partial
  <2>2. QED BY <1>2, <2>1
<1>3. QED BY <1>1, <1>2 DEF Answers

\* What the messages the sink has not taken are after it took those of T.
LEMMA SinkTakes ==
    ASSUME RqInv, NEW T \in SUBSET rqCurrent, rqPhase = "retry",
           rqSent' = [m \in BatchMessages |-> rqSent[m] + (IF m \in T THEN 1 ELSE 0)]
    PROVE  /\ rqSent' \in [BatchMessages -> Nat]
           /\ \A m \in BatchMessages : rqSent'[m] \in {0, 1}
           /\ Undelivered' = (rqCurrent \ T) \cup DOMAIN rqFailed
<1>1. /\ rqSent \in [BatchMessages -> Nat]
      /\ \A m \in BatchMessages : rqSent[m] \in {0, 1}
      /\ Undelivered = rqCurrent \cup DOMAIN rqFailed /\ rqCurrent \cap DOMAIN rqFailed = {}
      /\ rqCurrent \subseteq BatchMessages /\ DOMAIN rqFailed \subseteq BatchMessages
  BY DEF RqInv, RetryDlqInv, RqTypeOK, SinkInv, RetryInv
<1>2. \A m \in T : rqSent[m] = 0
  BY <1>1 DEF Undelivered
<1>3. \A m \in BatchMessages : rqSent'[m] = IF m \in T THEN 1 ELSE rqSent[m]
  BY <1>1, <1>2
<1>4. QED BY <1>1, <1>2, <1>3 DEF Undelivered

LEMMA RetryStarts == RqInit => RqInv
<1>. SUFFICES ASSUME RqInit PROVE RqInv
  OBVIOUS
<1>1. RqTypeOK
  BY NoMessages DEF RqInit, RqTypeOK, Err
<1>2. ReportIsTrue /\ NeverSentTwice /\ UnreachableNotDead
  BY NoMessages DEF RqInit, ReportIsTrue, NeverSentTwice, UnreachableNotDead
<1>3. AttemptsBounded /\ TallyIsRight
  BY RetryBounds, FS_EmptySet DEF RqInit, AttemptsBounded, TallyIsRight
<1>4. SinkInv /\ RetryInv /\ ResultInv
  BY NoMessages, RetryBounds DEF RqInit, SinkInv, RetryInv, ResultInv, Undelivered
<1>5. QED BY <1>1, <1>2, <1>3, <1>4 DEF RqInv, RetryDlqInv

\* One attempt, whatever the sink answers.
LEMMA AttemptKeeps == ASSUME RqInv, Attempt PROVE RqInv'
<1>. USE RetryBounds
<1>1. PICK answer \in Answers(rqCurrent) :
        /\ rqSent' = [m \in BatchMessages |->
                        rqSent[m] + (IF m \in Taken(rqCurrent, answer) THEN 1 ELSE 0)]
        /\ \/ answer.kind = "Ack" /\ RetryAcked
           \/ answer.kind = "Partial" /\ (RetryRemainder(answer) \/ RetryGivesUp(answer))
           \/ answer.kind = "Err" /\ RetryErred(answer.error)
  BY DEF Attempt
<1>2. /\ rqPhase = "retry" /\ rqAttempt' = rqAttempt + 1
      /\ UNCHANGED <<rqDead, rqNoted>> /\ rqDead = {} /\ rqNoted = 0
  BY DEF Attempt, RqInv, SinkInv
<1>3. /\ rqCurrent \subseteq BatchMessages /\ DOMAIN rqFailed \subseteq BatchMessages
      /\ rqCurrent \cap DOMAIN rqFailed = {}
      /\ Undelivered = rqCurrent \cup DOMAIN rqFailed
      /\ \A m \in DOMAIN rqFailed : rqFailed[m] \in {"NonRetryable", "Connection"}
      /\ ~rqProgress => rqCurrent = BatchMessages /\ DOMAIN rqFailed = {}
      /\ rqAttempt \in Nat /\ rqProgress \in BOOLEAN
      /\ rqAttempt = 0 \/ rqAttempt < MaxAttempts
  BY <1>2 DEF RqInv, RetryDlqInv, RqTypeOK, RetryInv
<1>4. Taken(rqCurrent, answer) \in SUBSET rqCurrent
  BY DEF Taken
<1>5. /\ rqSent' \in [BatchMessages -> Nat]
      /\ \A m \in BatchMessages : rqSent'[m] \in {0, 1}
      /\ Undelivered' = (rqCurrent \ Taken(rqCurrent, answer)) \cup DOMAIN rqFailed
  BY <1>1, <1>2, <1>4, SinkTakes
<1>6. /\ NeverSentTwice' /\ UnreachableNotDead' /\ TallyIsRight' /\ SinkInv'
      /\ rqAttempt' \in Nat /\ rqAttempt' <= (IF MaxAttempts = 0 THEN 1 ELSE MaxAttempts)
  BY <1>2, <1>3, <1>5, FS_EmptySet DEF NeverSentTwice, UnreachableNotDead, TallyIsRight, SinkInv
\* The retry middleware makes another attempt.
<1>7. ASSUME /\ rqPhase' = "retry" /\ rqResult' = rqResult
             /\ rqAttempt + 1 < MaxAttempts
             /\ Undelivered' = rqCurrent' \cup DOMAIN rqFailed'
             /\ rqCurrent' \cap DOMAIN rqFailed' = {}
             /\ rqCurrent' \cup DOMAIN rqFailed' \subseteq BatchMessages
             /\ \A m \in DOMAIN rqFailed' : rqFailed'[m] \in {"NonRetryable", "Connection"}
             /\ rqProgress' \in BOOLEAN
             /\ ~rqProgress' => rqCurrent' = BatchMessages /\ DOMAIN rqFailed' = {}
      PROVE  RqInv'
  <2>1. RqTypeOK'
    BY <1>2, <1>5, <1>6, <1>7 DEF RqInv, RetryDlqInv, RqTypeOK
  <2>2. ReportIsTrue' /\ AttemptsBounded' /\ ResultInv' /\ RetryInv'
    BY <1>2, <1>3, <1>6, <1>7 DEF ReportIsTrue, AttemptsBounded, ResultInv, RetryInv
  <2>3. QED BY <1>6, <2>1, <2>2 DEF RqInv, RetryDlqInv
\* It returns.
<1>8. ASSUME /\ rqPhase' = "dlq" /\ rqCurrent' = rqCurrent /\ rqProgress' = rqProgress
             /\ DOMAIN rqFailed' \subseteq BatchMessages
             /\ rqResult'.kind \in {"Ack", "Partial", "Err"}
             /\ \/ rqResult' = Ack /\ Undelivered' = {} /\ DOMAIN rqFailed' = {}
                \/ rqResult' = Partial(rqFailed') /\ Undelivered' = DOMAIN rqFailed'
                \/ /\ \E e \in SinkErrors : rqResult' = Err(e)
                   /\ Undelivered' = BatchMessages /\ DOMAIN rqFailed' = {}
             /\ rqAttempt + 1 >= MaxAttempts \/ "exhausted" # rqResult'.error
             /\ rqAttempt + 1 >= MaxAttempts \/ \A m \in DOMAIN rqFailed' : rqFailed'[m] # "exhausted"
      PROVE  RqInv'
  <2>1. RqTypeOK'
    BY <1>2, <1>3, <1>5, <1>6, <1>8 DEF RqTypeOK
  <2>2. ReportIsTrue' /\ RetryInv'
    BY <1>8 DEF ReportIsTrue, RetryInv
  <2>3. AttemptsBounded'
    BY <1>2, <1>3, <1>6, <1>8 DEF AttemptsBounded
  <2>4. ResultInv'
    BY <1>8 DEF ResultInv, Partial
  <2>5. QED BY <1>6, <2>1, <2>2, <2>3, <2>4 DEF RqInv, RetryDlqInv
<1>9. CASE answer.kind = "Ack"
  <2>1. Undelivered' = DOMAIN rqFailed
    <3>1. answer = Ack
      BY <1>9, AnswerShape DEF Err, Partial
    <3>2. Taken(rqCurrent, answer) = rqCurrent
      BY <3>1, NoMessages DEF Taken, Ack
    <3>3. QED BY <1>5, <3>2
  <2>2. RetryAcked
    BY <1>1, <1>9
  <2>3. /\ rqPhase' = "dlq" /\ rqFailed' = rqFailed /\ rqCurrent' = rqCurrent /\ rqProgress' = rqProgress
        /\ rqResult' = IF rqFailed = <<>> THEN Ack ELSE Partial(rqFailed)
    BY <2>2 DEF RetryAcked, RetryReturns
  <2>4. rqResult'.kind \in {"Ack", "Partial", "Err"} /\ rqResult'.error = "none"
    BY <2>3 DEF Ack, Partial
  <2>5. \A m \in DOMAIN rqFailed : rqFailed[m] # "exhausted"
    BY <1>3
  <2>6. rqFailed = <<>> => DOMAIN rqFailed = {}
    BY NoMessages
  <2>7. QED BY <1>3, <1>8, <2>1, <2>3, <2>4, <2>5, <2>6
<1>10. CASE answer.kind = "Partial"
  <2>. DEFINE failed == answer.failed
              retryable == Having(answer.failed, {"Retryable"})
  <2>1. /\ DOMAIN failed \subseteq rqCurrent
        /\ \A m \in DOMAIN failed : failed[m] \in RawErrors
    BY <1>10, AnswerShape DEF Ack, Err
  <2>2. Undelivered' = DOMAIN failed \cup DOMAIN rqFailed
    <3>1. Taken(rqCurrent, answer) = rqCurrent \ DOMAIN failed
      BY <1>10 DEF Taken
    <3>2. QED BY <1>5, <2>1, <3>1
  <2>3. /\ retryable \subseteq DOMAIN failed
        /\ \A m \in DOMAIN failed : m \notin retryable => failed[m] \in {"NonRetryable", "Connection"}
    BY <2>1 DEF Having, RawErrors
  <2>4. CASE RetryRemainder(answer)
    <3>. DEFINE rest == [m \in DOMAIN failed \ retryable |-> failed[m]]
    <3>1. /\ rqAttempt + 1 < MaxAttempts /\ rqPhase' = "retry" /\ rqResult' = rqResult
          /\ rqCurrent' = retryable /\ rqFailed' = Merge(rqFailed, rest) /\ rqProgress' = TRUE
      BY <2>4, <1>2, <1>3 DEF RetryRemainder, LastAttempt
    <3>2. /\ DOMAIN rqFailed' = DOMAIN rqFailed \cup (DOMAIN failed \ retryable)
          /\ \A m \in DOMAIN rqFailed' : rqFailed'[m] \in {"NonRetryable", "Connection"}
      <4>1. DOMAIN rest = DOMAIN failed \ retryable /\ \A m \in DOMAIN rest : rest[m] = failed[m]
        OBVIOUS
      <4>. HIDE DEF rest, retryable, failed
      <4>2. /\ DOMAIN rqFailed' = DOMAIN rqFailed \cup DOMAIN rest
            /\ \A m \in DOMAIN rest : rqFailed'[m] = rest[m]
            /\ \A m \in DOMAIN rqFailed \ DOMAIN rest : rqFailed'[m] = rqFailed[m]
        <5>. DEFINE merged == Merge(rqFailed, rest)
        <5>1. /\ DOMAIN merged = DOMAIN rqFailed \cup DOMAIN rest
              /\ \A m \in DOMAIN rest : merged[m] = rest[m]
              /\ \A m \in DOMAIN rqFailed \ DOMAIN rest : merged[m] = rqFailed[m]
          BY Merged
        <5>2. rqFailed' = merged
          BY <3>1
        <5>. HIDE DEF merged
        <5>3. QED BY <5>1, <5>2
      <4>3. QED BY <1>3, <2>3, <4>1, <4>2
    <3>. HIDE DEF rest, retryable, failed
    <3>3. QED BY <1>3, <1>7, <2>1, <2>2, <2>3, <3>1, <3>2
  <2>5. CASE RetryGivesUp(answer)
    <3>. DEFINE given == [m \in DOMAIN failed |-> IF m \in retryable THEN "exhausted" ELSE failed[m]]
    <3>1. /\ retryable = {} \/ rqAttempt + 1 >= MaxAttempts
          /\ rqFailed' = Merge(rqFailed, given) /\ rqResult' = Partial(Merge(rqFailed, given))
          /\ rqPhase' = "dlq" /\ rqCurrent' = rqCurrent /\ rqProgress' = rqProgress
      BY <2>5 DEF RetryGivesUp, LastAttempt, RetryReturns
    <3>2. /\ DOMAIN rqFailed' = DOMAIN rqFailed \cup DOMAIN failed
          /\ retryable = {} => \A m \in DOMAIN rqFailed' : rqFailed'[m] # "exhausted"
      <4>1. DOMAIN given = DOMAIN failed /\ (retryable = {} => \A m \in DOMAIN given : given[m] = failed[m])
        OBVIOUS
      <4>. HIDE DEF given, retryable, failed
      <4>2. /\ DOMAIN rqFailed' = DOMAIN rqFailed \cup DOMAIN given
            /\ \A m \in DOMAIN given : rqFailed'[m] = given[m]
            /\ \A m \in DOMAIN rqFailed \ DOMAIN given : rqFailed'[m] = rqFailed[m]
        <5>. DEFINE merged == Merge(rqFailed, given)
        <5>1. /\ DOMAIN merged = DOMAIN rqFailed \cup DOMAIN given
              /\ \A m \in DOMAIN given : merged[m] = given[m]
              /\ \A m \in DOMAIN rqFailed \ DOMAIN given : merged[m] = rqFailed[m]
          BY Merged
        <5>2. rqFailed' = merged
          BY <3>1
        <5>. HIDE DEF merged
        <5>3. QED BY <5>1, <5>2
      <4>3. QED BY <1>3, <2>3, <4>1, <4>2
    <3>3. rqResult'.kind = "Partial" /\ rqResult'.error = "none" /\ rqResult' = Partial(rqFailed')
      BY <3>1 DEF Partial
    <3>. HIDE DEF given, retryable, failed
    <3>4. QED BY <1>3, <1>8, <2>1, <2>2, <3>1, <3>2, <3>3
  <2>6. QED BY <1>1, <1>10, <2>4, <2>5
<1>11. CASE answer.kind = "Err"
  <2>. DEFINE e == answer.error
              given == IF e = "Retryable" THEN "exhausted" ELSE e
              failed == Merge(rqFailed, [m \in rqCurrent |-> given])
  <2>1. e \in RawErrors /\ given \in SinkErrors
    BY <1>11, AnswerShape DEF Ack, Err, Partial, RawErrors, SinkErrors
  <2>2. Undelivered' = rqCurrent \cup DOMAIN rqFailed
    BY <1>5, <1>11 DEF Taken
  <2>3. rqCurrent' = rqCurrent /\ rqProgress' = rqProgress
    BY <1>1, <1>11 DEF RetryErred
  <2>4. CASE rqAttempt + 1 < MaxAttempts /\ e = "Retryable"
    <3>1. UNCHANGED <<rqPhase, rqResult, rqFailed>>
      BY <1>1, <1>3, <1>11, <2>4 DEF RetryErred, LastAttempt
    <3>2. QED BY <1>2, <1>3, <1>7, <2>2, <2>3, <2>4, <3>1
  <2>5. CASE ~(rqAttempt + 1 < MaxAttempts /\ e = "Retryable")
    <3>1. /\ rqPhase' = "dlq"
          /\ rqProgress => rqFailed' = failed /\ rqResult' = Partial(failed)
          /\ ~rqProgress => rqFailed' = rqFailed /\ rqResult' = Err(given)
      BY <1>1, <1>3, <1>11, <2>5 DEF RetryErred, LastAttempt, RetryReturns
    <3>2. rqAttempt + 1 >= MaxAttempts \/ given # "exhausted"
      BY <2>1, <2>5, <1>3 DEF RawErrors
    <3>3. CASE rqProgress
      <4>1. /\ DOMAIN failed = DOMAIN rqFailed \cup rqCurrent
            /\ \A m \in rqCurrent : failed[m] = given
            /\ \A m \in DOMAIN rqFailed : failed[m] \in {"NonRetryable", "Connection"}
        <5>. DEFINE g == [m \in rqCurrent |-> given]
        <5>1. DOMAIN g = rqCurrent /\ \A m \in rqCurrent : g[m] = given
          OBVIOUS
        <5>. HIDE DEF g
        <5>2. failed = Merge(rqFailed, g)
          BY DEF g
        <5>. HIDE DEF failed, given
        <5>3. /\ DOMAIN failed = DOMAIN rqFailed \cup DOMAIN g
              /\ \A m \in DOMAIN g : failed[m] = g[m]
              /\ \A m \in DOMAIN rqFailed \ DOMAIN g : failed[m] = rqFailed[m]
          <6>1. Merge(rqFailed, g) = [m \in DOMAIN rqFailed \cup DOMAIN g |->
                                         IF m \in DOMAIN g THEN g[m] ELSE rqFailed[m]]
            BY DEF Merge
          <6>2. QED BY <5>2, <6>1
        <5>4. /\ rqCurrent \cap DOMAIN rqFailed = {}
              /\ \A m \in DOMAIN rqFailed : rqFailed[m] \in {"NonRetryable", "Connection"}
          BY <1>3
        <5>5. QED BY <5>1, <5>3, <5>4
      <4>2. rqResult'.kind = "Partial" /\ rqResult'.error = "none"
        BY <3>1, <3>3 DEF Partial
      <4>. HIDE DEF failed, given, e
      <4>3. QED BY <1>3, <1>8, <2>2, <2>3, <3>1, <3>2, <3>3, <4>1, <4>2
    <3>4. CASE ~rqProgress
      <4>1. rqResult'.kind = "Err" /\ rqResult'.error = given
        BY <3>1, <3>4 DEF Err
      <4>. HIDE DEF failed, given, e
      <4>2. QED BY <1>3, <1>8, <2>1, <2>2, <2>3, <3>1, <3>2, <3>4, <4>1
    <3>5. QED BY <1>3, <3>3, <3>4
  <2>6. QED BY <2>4, <2>5
<1>12. QED BY <1>1, <1>9, <1>10, <1>11

\* The tally: the queue took what it did not refuse.
LEMMA DeadCounted ==
    ASSUME NEW dead \in SUBSET BatchMessages, NEW answer \in Answers(dead)
    PROVE  DeadCount(dead, answer) = Cardinality(Taken(dead, answer))
<1>1. IsFiniteSet(dead)
  BY RetryBounds, FS_Subset
<1>2. CASE answer.kind = "Err"
  BY <1>2, FS_EmptySet DEF DeadCount, Taken
<1>3. CASE answer.kind # "Err"
  <2>. DEFINE refused == DOMAIN answer.failed
  <2>1. refused \subseteq dead
    BY <1>3, AnswerShape, NoMessages DEF Ack, Err
  <2>2. dead \cap refused = refused
    BY <2>1
  <2>3. Cardinality(dead \ refused) = Cardinality(dead) - Cardinality(refused)
    BY <1>1, <2>2, FS_Difference
  <2>4. QED BY <1>3, <2>3 DEF DeadCount, Taken
<1>4. QED BY <1>2, <1>3

\* What is dead-lettered was given up and never sent.
LEMMA DeadUndelivered ==
    ASSUME RqInv, rqPhase = "dlq"
    PROVE  /\ ToDlq(rqResult) \subseteq Undelivered
           /\ rqResult.kind # "Err" => Undelivered = DOMAIN rqResult.failed
           /\ rqResult.kind = "Partial" => rqResult.failed = rqFailed
           /\ rqResult.kind # "Partial" => DOMAIN rqFailed = {}
           /\ rqResult.kind = "Err" => /\ ToDlq(rqResult) \in {{}, BatchMessages}
                                       /\ DOMAIN rqResult.failed = {}
           /\ rqResult.kind \in {"Ack", "Partial", "Err"}
<1>1. CASE rqResult = Ack /\ Undelivered = {} /\ DOMAIN rqFailed = {}
  BY <1>1, NoMessages DEF Ack, ToDlq
<1>2. CASE rqResult = Partial(rqFailed) /\ Undelivered = DOMAIN rqFailed
  BY <1>2 DEF Partial, ToDlq
<1>3. CASE \E e \in SinkErrors : rqResult = Err(e) /\ Undelivered = BatchMessages /\ DOMAIN rqFailed = {}
  <2>1. PICK e \in SinkErrors : rqResult = Err(e) /\ Undelivered = BatchMessages /\ DOMAIN rqFailed = {}
    BY <1>3
  <2>2. QED BY <2>1, NoMessages DEF Err, ToDlq
<1>4. QED BY <1>1, <1>2, <1>3 DEF RqInv, ResultInv

\* The result the route gets once the dead-letter queue has answered.
LEMMA AfterDlqShape ==
    ASSUME NEW answer \in Answers(ToDlq(rqResult))
    PROVE  /\ AfterDlq(answer).kind \in {"Ack", "Partial", "Err"}
           /\ AfterDlq(answer).kind # "Err" =>
                /\ answer.kind # "Err"
                /\ \/ rqResult.kind = "Err" /\ answer = Ack /\ DOMAIN AfterDlq(answer).failed = {}
                   \/ DOMAIN AfterDlq(answer).failed
                        = (DOMAIN rqResult.failed \ ToDlq(rqResult)) \cup DOMAIN answer.failed
<1>. DEFINE kept == [m \in DOMAIN rqResult.failed \ ToDlq(rqResult) |-> rqResult.failed[m]]
<1>0. DOMAIN kept = DOMAIN rqResult.failed \ ToDlq(rqResult)
  OBVIOUS
<1>1. CASE rqResult.kind = "Err" /\ answer.kind = "Ack"
  <2>1. answer = Ack
    BY <1>1, AnswerShape DEF Err, Partial
  <2>2. AfterDlq(answer) = Ack
    BY <1>1 DEF AfterDlq
  <2>3. QED BY <1>1, <2>1, <2>2, NoMessages DEF Ack
<1>2. CASE answer.kind = "Err"
  <2>1. AfterDlq(answer).kind = "Err"
    BY <1>2 DEF AfterDlq, Err
  <2>2. QED BY <2>1
<1>3. CASE ~(rqResult.kind = "Err" /\ answer.kind = "Ack") /\ answer.kind # "Err"
  <2>1. AfterDlq(answer) = Partial(Merge(kept, answer.failed))
    BY <1>3 DEF AfterDlq
  <2>2. AfterDlq(answer).kind = "Partial" /\ AfterDlq(answer).failed = Merge(kept, answer.failed)
    BY <2>1 DEF Partial
  <2>3. DOMAIN Merge(kept, answer.failed) = DOMAIN kept \cup DOMAIN answer.failed
    BY Merged
  <2>. HIDE DEF kept
  <2>4. QED BY <1>0, <1>3, <2>2, <2>3
<1>4. QED BY <1>1, <1>2, <1>3

\* The dead-letter middleware passes the result on or dead-letters the permanent failures.
LEMMA DlqKeeps == ASSUME RqInv, DlqPasses \/ DeadLetter PROVE RqInv'
<1>. USE RetryBounds
<1>1. /\ rqPhase = "dlq" /\ rqPhase' = "done" /\ rqDead = {} /\ rqNoted = 0
      /\ UNCHANGED <<rqAttempt, rqCurrent, rqProgress, rqFailed, rqSent>>
  BY DEF DlqPasses, DeadLetter, RqInv, SinkInv
<1>2. RetryInv' /\ ResultInv' /\ SinkInv' /\ AttemptsBounded'
  BY <1>1 DEF RqInv, RetryDlqInv, RetryInv, ResultInv, SinkInv, AttemptsBounded
<1>3. /\ Undelivered = {m \in BatchMessages : rqSent[m] = 0}
      /\ \A m \in BatchMessages : rqSent[m] \in {0, 1}
  BY DEF RqInv, SinkInv, Undelivered
<1>4. CASE DlqPasses
  <2>1. UNCHANGED <<rqDead, rqNoted, rqResult>>
    BY <1>4 DEF DlqPasses
  <2>2. RqTypeOK' /\ NeverSentTwice' /\ UnreachableNotDead' /\ TallyIsRight'
    BY <1>1, <2>1
      DEF RqInv, RetryDlqInv, RqTypeOK, NeverSentTwice, UnreachableNotDead, TallyIsRight
  <2>3. ReportIsTrue'
    BY <1>1, <1>3, <2>1, DeadUndelivered DEF ReportIsTrue
  <2>4. QED BY <1>2, <2>2, <2>3 DEF RqInv, RetryDlqInv
<1>5. CASE DeadLetter
  <2>. DEFINE dead == ToDlq(rqResult)
  <2>1. PICK answer \in Answers(dead) :
            /\ rqDead' = rqDead \cup Taken(dead, answer)
            /\ rqNoted' = rqNoted + DeadCount(dead, answer)
            /\ rqResult' = AfterDlq(answer)
    BY <1>5 DEF DeadLetter
  <2>2. dead # {} /\ dead \subseteq Undelivered /\ dead \subseteq BatchMessages
    BY <1>1, <1>3, <1>5, DeadUndelivered DEF DeadLetter
  <2>3. Taken(dead, answer) \subseteq dead /\ rqDead' = Taken(dead, answer)
    BY <1>1, <2>1 DEF Taken
  <2>4. IsFiniteSet(rqDead') /\ rqDead' \subseteq BatchMessages
    BY <2>2, <2>3, FS_Subset
  <2>5. rqNoted' = Cardinality(rqDead') /\ rqNoted' \in Nat
    <3>1. DeadCount(dead, answer) = Cardinality(Taken(dead, answer))
      BY <2>2, DeadCounted
    <3>2. Cardinality(rqDead') \in Nat
      BY <2>4, FS_CardinalityType
    <3>3. QED BY <1>1, <2>1, <2>3, <3>1, <3>2
  <2>6. /\ rqResult'.kind \in {"Ack", "Partial", "Err"}
        /\ rqResult'.kind # "Err" =>
                /\ answer.kind # "Err"
                /\ \/ rqResult.kind = "Err" /\ answer = Ack /\ DOMAIN rqResult'.failed = {}
                   \/ DOMAIN rqResult'.failed
                        = (DOMAIN rqResult.failed \ dead) \cup DOMAIN answer.failed
    BY <2>1, AfterDlqShape
  <2>7. RqTypeOK' /\ TallyIsRight'
    BY <1>1, <2>4, <2>5, <2>6 DEF RqInv, RetryDlqInv, RqTypeOK, TallyIsRight
  <2>8. NeverSentTwice'
    BY <1>1, <1>3, <2>2, <2>3 DEF NeverSentTwice
  <2>9. UnreachableNotDead'
    <3>1. rqResult.kind = "Partial" =>
            \A m \in dead : rqResult.failed[m] # "Connection"
      BY DEF ToDlq, PermanentError
    <3>2. QED BY <1>1, <2>3, <3>1, DeadUndelivered DEF UnreachableNotDead
  <2>10. ReportIsTrue'
    <3>1. SUFFICES ASSUME rqResult'.kind # "Err"
                   PROVE  \A m \in BatchMessages :
                            (m \in DOMAIN rqResult'.failed) <=> (m \in Undelivered /\ m \notin rqDead')
      BY <1>1, <1>3 DEF ReportIsTrue
    <3>2. rqDead' = dead \ DOMAIN answer.failed /\ DOMAIN answer.failed \subseteq dead
      <4>1. answer = Ack \/ DOMAIN answer.failed \subseteq dead
        BY <2>6, <3>1, AnswerShape DEF Err
      <4>2. QED BY <2>3, <2>6, <3>1, <4>1, NoMessages DEF Taken, Ack
    <3>3. rqResult.kind = "Ack" => dead = {}
      BY DEF ToDlq
    <3>4. answer = Ack => DOMAIN answer.failed = {}
      BY NoMessages DEF Ack
    <3>5. Undelivered \subseteq BatchMessages
      BY <1>3
    <3>. HIDE DEF dead
    <3>6. /\ rqResult.kind # "Err" => Undelivered = DOMAIN rqResult.failed
          /\ rqResult.kind = "Err" => dead = BatchMessages /\ DOMAIN rqResult.failed = {}
      BY <1>1, <2>2, DeadUndelivered DEF dead
    <3>7. QED BY <2>2, <2>6, <3>1, <3>2, <3>4, <3>5, <3>6
  <2>11. QED BY <1>2, <2>7, <2>8, <2>9, <2>10 DEF RqInv, RetryDlqInv
<1>6. QED BY <1>4, <1>5

\* RetryPublisher and DlqPublisher: for batches of any size, any number of attempts and

\* any answers, what the route is told of each message is true, the sink takes none twice,
\* one it could not be reached for is not dead-lettered, and the tally is what the queue took.
THEOREM RetryReportsTruth == RqSpec => []RetryDlqInv
<1>1. ASSUME RqInv, [RqNext]_rqVars PROVE RqInv'
  <2>1. CASE RqNext
    BY <1>1, <2>1, AttemptKeeps, DlqKeeps DEF RqNext
  <2>2. CASE UNCHANGED rqVars
    BY <1>1, <2>2
      DEF rqVars, RqInv, RetryDlqInv, RqTypeOK, ReportIsTrue, NeverSentTwice, UnreachableNotDead,
          AttemptsBounded, TallyIsRight, SinkInv, RetryInv, ResultInv, Undelivered
  <2>3. QED BY <1>1, <2>1, <2>2
<1>2. RqInv => RetryDlqInv
  BY DEF RqInv
<1>3. QED BY <1>1, <1>2, RetryStarts, PTL DEF RqSpec

-----------------------------------------------------------------------------
(* The deduplication middleware *)

\* A delivery moves on through its commit.
LEMMA DeliveryMoves ==
    ASSUME NEW d \in DeliverySet, NEW ok \in SUBSET Copies, NEW stage \in {"sent", "marked", "synced"}
    PROVE  /\ [d EXCEPT !.stage = stage]
                = [kept |-> d.kept, dropped |-> d.dropped, ok |-> d.ok, stage |-> stage]
           /\ [d EXCEPT !.ok = ok, !.stage = stage]
                = [kept |-> d.kept, dropped |-> d.dropped, ok |-> ok, stage |-> stage]
           /\ [kept |-> d.kept, dropped |-> d.dropped, ok |-> ok, stage |-> stage] \in DeliverySet
           /\ [kept |-> d.kept, dropped |-> d.dropped, ok |-> d.ok, stage |-> stage] \in DeliverySet
<1>1. [d EXCEPT !.ok = ok, !.stage = stage]
        = [kept |-> d.kept, dropped |-> d.dropped, ok |-> ok, stage |-> stage]
  <2>. DEFINE mid == [kept |-> d.kept, dropped |-> d.dropped, ok |-> ok, stage |-> d.stage]
  <2>1. [d EXCEPT !.ok = ok] = mid
    BY DEF DeliverySet
  <2>2. [mid EXCEPT !.stage = stage]
          = [kept |-> d.kept, dropped |-> d.dropped, ok |-> ok, stage |-> stage]
    OBVIOUS
  <2>. HIDE DEF mid
  <2>3. QED BY <2>1, <2>2
<1>2. QED BY <1>1 DEF DeliverySet

LEMMA DedupStarts == DdInit => DdInv
<1>. USE KeyOfAssumption, DdBounds
<1>. SUFFICES ASSUME DdInit PROVE DdInv
  OBVIOUS
<1>0. \A c \in Consumers : DOMAIN ddState[c] = {}
  BY NoMessages DEF DdInit
<1>1. DdTypeOK
  BY <1>0 DEF DdInit, DdTypeOK
<1>2. NoKeyLost
  BY DEF DdInit, NoKeyLost
<1>3. OneDeliveryPerKey /\ AckedNotRedone /\ DropInv /\ StateInv /\ MarkerInv
  BY <1>0 DEF DdInit, OneDeliveryPerKey, AckedNotRedone, DropInv, StateInv, MarkerInv
<1>4. ClaimInv
  BY DEF DdInit, ClaimInv, Claims
<1>5. QED BY <1>1, <1>2, <1>3, <1>4 DEF DdInv, DeduplicationInv

\* A settled key has its marker, a held one has none.
LEMMA SettledNotHeld == MarkerInv /\ ClaimInv /\ DdTypeOK => AckedNotRedone
BY DEF MarkerInv, ClaimInv, AckedNotRedone, Holding, Free

\* Nobody new holds a key, and held keys stay claimed.
LEMMA FewerHolders ==
    ASSUME ClaimInv, OneDeliveryPerKey, ddCapped => ddCapped',
           \A d \in ddOut' : Holding(d)' => d \in ddOut,
           \A b \in Consumers : Claims(b)' \subseteq Claims(b),
           ~ddCapped => \A k : /\ Free(k)
                               /\ \/ \E d \in ddOut' : Holding(d)' /\ k \in KeysOf(d.kept)
                                  \/ \E b \in Consumers : k \in Claims(b)'
                            => Free(k)'
    PROVE  ClaimInv' /\ OneDeliveryPerKey'
<1>1. \A d \in ddOut' : Holding(d)' => Holding(d)
  BY DEF Holding
<1>2. OneDeliveryPerKey'
  BY <1>1 DEF OneDeliveryPerKey, Holding
<1>3. ClaimInv'
  <2>1. SUFFICES ASSUME ~ddCapped'
        PROVE  /\ \A d \in ddOut' : Holding(d)' => \A k \in KeysOf(d.kept) : Free(k)'
               /\ \A c \in Consumers : \A k \in Claims(c)' : Free(k)'
               /\ \A d \in ddOut', c \in Consumers : Holding(d)' => KeysOf(d.kept) \cap Claims(c)' = {}
               /\ \A c, b \in Consumers : c # b => Claims(c)' \cap Claims(b)' = {}
    BY DEF ClaimInv
  <2>2. /\ ~ddCapped
        /\ \A d \in ddOut : Holding(d) => \A k \in KeysOf(d.kept) : Free(k)
        /\ \A c \in Consumers : \A k \in Claims(c) : Free(k)
        /\ \A d \in ddOut, c \in Consumers : Holding(d) => KeysOf(d.kept) \cap Claims(c) = {}
        /\ \A c, b \in Consumers : c # b => Claims(c) \cap Claims(b) = {}
    BY <2>1 DEF ClaimInv
  <2>3. QED BY <1>1, <2>2
<1>4. QED BY <1>2, <1>3

\* A message is lost only when its copies are acknowledged: none is here.
LEMMA NothingAcked ==
    ASSUME NoKeyLost, ddWritten \subseteq ddWritten',
           \A m \in Copies : ddSource'[m] = "acked" => ddSource[m] = "acked"
    PROVE  NoKeyLost'
BY DEF NoKeyLost

\* A consumer receives, waits, polls again, is late or hands its batch back.
LEMMA DedupWaits ==
    ASSUME DdInv, NEW c \in Consumers,
           DdReceive(c) \/ SettleWait(c) \/ SettlePoll(c) \/ WaitCap(c) \/ ReserveFails(c)
    PROVE  DdInv'
<1>. USE KeyOfAssumption, DdBounds
<1>0. ddHas \in [Consumers -> SUBSET Copies] /\ DOMAIN ddState = Consumers
      /\ ddPhase \in [Consumers -> {"idle", "reserving", "waiting"}]
      /\ ddLate \in [Consumers -> {"off", "running", "passed"}]
      /\ ddSource \in [Copies -> {"queued", "out", "acked"}]
      /\ DOMAIN ddPhase = Consumers
  BY DEF DdInv, DeduplicationInv, DdTypeOK, StateInv
<1>1. /\ UNCHANGED <<ddMarker, ddOut, ddWritten, ddSettled, ddMissed, ddCapped, ddFaulty, ddCrashes>>
      /\ ddSource' \in [Copies -> {"queued", "out", "acked"}]
      /\ \A m \in Copies : ddSource'[m] = "acked" => ddSource[m] = "acked"
      /\ ddPhase' \in [Consumers -> {"idle", "reserving", "waiting"}]
      /\ ddHas' \in [Consumers -> SUBSET Copies]
      /\ ddLate' \in [Consumers -> {"off", "running", "passed"}]
      /\ ddClaimed' \subseteq ddClaimed
      /\ \A b \in Consumers \ {c} : ddHas'[b] = ddHas[b] /\ ddPhase'[b] = ddPhase[b]
  <2>1. CASE DdReceive(c)
    BY <1>0, <2>1 DEF DdReceive, SetSource
  <2>2. CASE SettleWait(c) \/ SettlePoll(c) \/ WaitCap(c)
    BY <1>0, <2>2 DEF SettleWait, SettlePoll, WaitCap
  <2>3. CASE ReserveFails(c)
    BY <1>0, <2>3 DEF ReserveFails, SetSource
  <2>4. QED BY <2>1, <2>2, <2>3
<1>2. /\ DOMAIN ddState' = Consumers
      /\ \A b \in Consumers \ {c} : ddState'[b] = ddState[b]
      /\ DOMAIN ddState'[c] = {} \/ (ddState'[c] = ddState[c] /\ ddHas'[c] = ddHas[c])
  <2>1. CASE DdReceive(c) \/ SettlePoll(c) \/ ReserveFails(c)
    <3>1. ddState' = [ddState EXCEPT ![c] = <<>>]
      BY <2>1 DEF DdReceive, SettlePoll, ReserveFails
    <3>2. QED BY <1>0, <3>1, NoMessages
  <2>2. CASE SettleWait(c) \/ WaitCap(c)
    BY <1>0, <2>2 DEF SettleWait, WaitCap
  <2>3. QED BY <2>1, <2>2
<1>3. \A b \in Consumers \ {c} : Claims(b)' = Claims(b)
  BY <1>1, <1>2 DEF Claims, KeysIn
<1>4. Claims(c)' \subseteq Claims(c) /\ (SettleWait(c) => Claims(c)' = {})
  <2>1. CASE DdReceive(c) \/ SettlePoll(c) \/ ReserveFails(c)
    <3>1. ddState' = [ddState EXCEPT ![c] = <<>>]
      BY <2>1 DEF DdReceive, SettlePoll, ReserveFails
    <3>2. DOMAIN ddState'[c] = {}
      BY <1>0, <3>1, NoMessages
    <3>3. ~SettleWait(c) \/ Claims(c)' = {}
      BY <3>2 DEF Claims, KeysIn
    <3>4. QED BY <3>2, <3>3 DEF Claims, KeysIn
  <2>2. CASE SettleWait(c)
    BY <1>0, <2>2 DEF SettleWait, Claims
  <2>3. CASE WaitCap(c)
    <3>1. Claims(c)' = Claims(c)
      BY <2>3 DEF WaitCap, Claims, KeysIn
    <3>2. ~SettleWait(c)
      BY <2>3, <1>0 DEF WaitCap, SettleWait
    <3>3. QED BY <3>1, <3>2
  <2>4. QED BY <2>1, <2>2, <2>3
<1>5. ddClaimed \ ddClaimed' = {} \/ (SettleWait(c) /\ ddClaimed' = ddClaimed \ Claims(c))
  <2>1. CASE SettleWait(c)
    BY <2>1 DEF SettleWait, Reserved, Claims
  <2>2. CASE ~SettleWait(c)
    BY <2>2 DEF DdReceive, SettlePoll, WaitCap, ReserveFails
  <2>3. QED BY <2>1, <2>2
<1>6. DdTypeOK'
  BY <1>1, <1>2 DEF DdInv, DeduplicationInv, DdTypeOK
<1>7. NoKeyLost'
  BY <1>1, NothingAcked DEF DdInv, DeduplicationInv
<1>8. ClaimInv' /\ OneDeliveryPerKey'
  <2>1. \A d : Holding(d)' <=> Holding(d)
    BY <1>1 DEF Holding
  <2>2. ~ddCapped => \A k : /\ Free(k)
                            /\ \/ \E d \in ddOut' : Holding(d)' /\ k \in KeysOf(d.kept)
                               \/ \E b \in Consumers : k \in Claims(b)'
                         => Free(k)'
    <3>1. SUFFICES ASSUME ~ddCapped, NEW k, Free(k),
                          \/ \E d \in ddOut : Holding(d) /\ k \in KeysOf(d.kept)
                          \/ \E b \in Consumers : k \in Claims(b)'
                   PROVE  k \in ddClaimed'
      BY <1>1, <2>1 DEF Free
    <3>2. k \in ddClaimed
      BY <3>1 DEF Free
    <3>3. CASE SettleWait(c) /\ ddClaimed' = ddClaimed \ Claims(c)
      <4>1. k \notin Claims(c)
        BY <1>3, <1>4, <3>1, <3>3 DEF DdInv, ClaimInv
      <4>2. QED BY <3>2, <3>3, <4>1
    <3>4. QED BY <1>5, <3>2, <3>3
  <2>3. QED BY <1>1, <1>3, <1>4, <2>1, <2>2, FewerHolders DEF DdInv, DeduplicationInv
<1>9. DropInv'
  BY <1>1 DEF DdInv, DropInv
<1>10. StateInv'
  BY <1>1, <1>2 DEF DdInv, StateInv
<1>11. MarkerInv'
  BY <1>1 DEF DdInv, MarkerInv
<1>12. AckedNotRedone'
  BY <1>6, <1>8, <1>11, SettledNotHeld, PTL
<1>13. QED BY <1>6, <1>7, <1>8, <1>9, <1>10, <1>11, <1>12 DEF DdInv, DeduplicationInv

\* A claim nobody renews lapses, or the process dies.
LEMMA DedupForgets ==
    ASSUME DdInv, (\E k \in Keys : Lapse(k)) \/ Crash
    PROVE  DdInv'
<1>. USE KeyOfAssumption, DdBounds
<1>1. CASE \E k \in Keys : Lapse(k)
  <2>1. PICK key \in Keys : Lapse(key)
    BY <1>1
  <2>2. UNCHANGED <<ddSource, ddPhase, ddHas, ddState, ddLate, ddMarker, ddOut, ddWritten, ddSettled, ddMissed, ddCapped, ddFaulty, ddCrashes>>
        /\ ddClaimed' = ddClaimed \ {key} /\ key \notin Renewed
    BY <2>1 DEF Lapse
  <2>3. /\ \A d : Holding(d)' <=> Holding(d)
        /\ \A b \in Consumers : Claims(b)' = Claims(b)
    BY <2>2 DEF Holding, Claims, KeysIn
  <2>4. /\ \A d \in ddOut : Holding(d) => key \notin KeysOf(d.kept)
        /\ \A b \in Consumers : key \notin Claims(b)
    BY <2>2 DEF Renewed, Holding, Claims
  <2>5. ClaimInv' /\ OneDeliveryPerKey'
    <3>1. \A k : /\ Free(k)
                 /\ \/ \E d \in ddOut' : Holding(d)' /\ k \in KeysOf(d.kept)
                    \/ \E b \in Consumers : k \in Claims(b)'
              => Free(k)'
      BY <2>2, <2>3, <2>4 DEF Free
    <3>2. QED BY <2>2, <2>3, <3>1, FewerHolders DEF DdInv, DeduplicationInv
  <2>6. DdTypeOK' /\ NoKeyLost' /\ DropInv' /\ StateInv' /\ MarkerInv'
    BY <2>2 DEF DdInv, DeduplicationInv, DdTypeOK, NoKeyLost, DropInv, StateInv, MarkerInv
  <2>7. AckedNotRedone'
    BY <2>5, <2>6, SettledNotHeld, PTL
  <2>8. QED BY <2>5, <2>6, <2>7 DEF DdInv, DeduplicationInv
<1>2. CASE Crash
  <2>1. /\ UNCHANGED <<ddWritten, ddSettled, ddMissed, ddCapped, ddFaulty>>
        /\ ddOut' = {} /\ ddClaimed' = {} /\ ddCrashes' \in 0..MaxCrashes
        /\ ddPhase' = [c \in Consumers |-> "idle"]
        /\ ddHas' = [c \in Consumers |-> {}]
        /\ ddState' = [c \in Consumers |-> <<>>]
        /\ ddLate' = [c \in Consumers |-> "off"]
        /\ ddMarker' = [k \in Keys |-> IF ddMarker[k] = "written" THEN "none" ELSE ddMarker[k]]
    BY <1>2 DEF Crash, DdInv, DeduplicationInv, DdTypeOK
  <2>2. /\ ddSource' \in [Copies -> {"queued", "out", "acked"}]
        /\ \A m \in Copies : ddSource'[m] = "acked" => ddSource[m] = "acked"
    BY <1>2 DEF Crash, SetSource, DdInv, DeduplicationInv, DdTypeOK
  <2>3. \A c \in Consumers : DOMAIN ddState'[c] = {}
    BY <2>1, NoMessages
  <2>4. DdTypeOK'
    BY <2>1, <2>2, <2>3 DEF DdInv, DeduplicationInv, DdTypeOK
  <2>5. NoKeyLost'
    BY <2>1, <2>2, NothingAcked DEF DdInv, DeduplicationInv
  <2>6. OneDeliveryPerKey' /\ AckedNotRedone' /\ DropInv' /\ StateInv' /\ MarkerInv'
    BY <2>1, <2>3
       DEF DdInv, DeduplicationInv, DdTypeOK, OneDeliveryPerKey, AckedNotRedone, DropInv, StateInv, MarkerInv
  <2>7. ClaimInv'
    BY <2>1 DEF ClaimInv, Claims
  <2>8. QED BY <2>4, <2>5, <2>6, <2>7 DEF DdInv, DeduplicationInv
<1>3. QED BY <1>1, <1>2

\* A delivery's commit is lost, or reaches the source.  A copy is acknowledged without

\* having been written only when the kept copy of its key was, or another one before it.
LEMMA DedupLeaves ==
    ASSUME DdInv, NEW d \in ddOut, SourceAck(d) \/ CommitLost(d)
    PROVE  DdInv'
<1>. USE KeyOfAssumption, DdBounds
<1>0. /\ d \in DeliverySet /\ d.ok \subseteq d.kept /\ d.kept \cap d.dropped = {}
      /\ KeysOf(d.dropped) \subseteq KeysOf(d.kept) \cup ddWritten
      /\ KeysOf(d.ok) \subseteq ddWritten
  BY DEF DdInv, DeduplicationInv, DdTypeOK, DropInv, MarkerInv
<1>1. /\ UNCHANGED <<ddPhase, ddHas, ddState, ddLate, ddClaimed, ddMarker, ddWritten, ddMissed, ddCapped, ddFaulty, ddCrashes>>
      /\ ddOut' = ddOut \ {d}
      /\ ddSource' \in [Copies -> {"queued", "out", "acked"}]
      /\ ddSettled' \subseteq ddSettled \cup KeysOf(d.ok)
      /\ d.stage = "synced" \/ ddSettled' = ddSettled
  BY DEF SourceAck, CommitLost, SetSource, DdInv, DeduplicationInv, DdTypeOK
<1>2. DdTypeOK'
  BY <1>0, <1>1 DEF DdInv, DeduplicationInv, DdTypeOK
<1>3. NoKeyLost'
  <2>1. CASE CommitLost(d)
    <3>1. \A m \in Copies : ddSource'[m] = "acked" => ddSource[m] = "acked"
      BY <2>1 DEF CommitLost, SetSource
    <3>2. QED BY <1>1, <3>1, NothingAcked DEF DdInv, DeduplicationInv
  <2>2. CASE SourceAck(d)
    <3>1. ddSource' = [m \in Copies |-> IF m \in d.ok \cup d.dropped THEN "acked"
                                        ELSE IF m \in d.kept THEN "queued" ELSE ddSource[m]]
      BY <2>2 DEF SourceAck
    <3>2. SUFFICES ASSUME NEW k \in Keys, \A m \in Copies : KeyOf[m] = k => ddSource'[m] = "acked"
                   PROVE  k \in ddWritten
      BY <1>1 DEF NoKeyLost
    <3>3. d.kept \subseteq Copies /\ d.dropped \subseteq Copies
      BY <1>0 DEF DeliverySet
    <3>4. k \in KeysOf(d.kept) => k \in KeysOf(d.ok)
      BY <1>0, <3>1, <3>2, <3>3 DEF KeysOf
    <3>5. CASE k \in KeysOf(d.kept) \cup KeysOf(d.dropped)
      BY <1>0, <3>4, <3>5
    <3>6. CASE k \notin KeysOf(d.kept) \cup KeysOf(d.dropped)
      <4>1. \A m \in Copies : KeyOf[m] = k => ddSource[m] = "acked"
        BY <1>0, <3>1, <3>2, <3>6 DEF KeysOf
      <4>2. QED BY <4>1 DEF DdInv, DeduplicationInv, NoKeyLost
    <3>7. QED BY <3>5, <3>6
  <2>3. QED BY <2>1, <2>2
<1>4. ClaimInv' /\ OneDeliveryPerKey'
  <2>1. \A b \in Consumers : Claims(b)' = Claims(b)
    BY <1>1 DEF Claims, KeysIn
  <2>2. \A k : Free(k)' <=> Free(k)
    BY <1>1 DEF Free
  <2>3. QED BY <1>1, <2>1, <2>2, FewerHolders DEF DdInv, DeduplicationInv
<1>5. DropInv' /\ StateInv'
  BY <1>1 DEF DdInv, DropInv, StateInv
<1>6. MarkerInv'
  BY <1>1 DEF DdInv, MarkerInv
<1>7. AckedNotRedone'
  BY <1>2, <1>4, <1>6, SettledNotHeld, PTL
<1>8. QED BY <1>2, <1>3, <1>4, <1>5, <1>6, <1>7 DEF DdInv, DeduplicationInv

\* What a delivery that moves on through its commit leaves as it was.
LEMMA DedupMovesOn ==
    ASSUME DdInv, NEW d \in ddOut, NEW e \in DeliverySet, Becomes(d, e),
           e.kept = d.kept, e.dropped = d.dropped, e.ok \subseteq d.kept,
           UNCHANGED <<ddSource, ddPhase, ddHas, ddState, ddLate, ddSettled, ddCapped, ddFaulty, ddCrashes>>,
           ddMissed' \subseteq Keys,
           ddClaimed' \subseteq ddClaimed, ddMarker' \in [Keys -> {"none", "written", "durable"}],
           ddWritten \subseteq ddWritten', ddWritten' \subseteq Keys
    PROVE  DdTypeOK' /\ NoKeyLost' /\ DropInv' /\ StateInv' /\ \A b \in Consumers : Claims(b)' = Claims(b)
<1>1. /\ \A x \in ddOut' : x = e \/ x \in ddOut
      /\ e.stage \in {"writing", "sent", "marked", "synced"}
  BY DEF Becomes, DeliverySet
<1>2. DdTypeOK'
  BY <1>1 DEF DdInv, DeduplicationInv, DdTypeOK
<1>3. NoKeyLost'
  BY NothingAcked DEF DdInv, DeduplicationInv
<1>4. DropInv'
  BY <1>1 DEF DdInv, DropInv
<1>5. StateInv' /\ \A b \in Consumers : Claims(b)' = Claims(b)
  BY DEF DdInv, StateInv, Claims, KeysIn
<1>6. QED BY <1>2, <1>3, <1>4, <1>5

\* The route sends a delivery: the keys it holds are held on.
LEMMA DedupSends ==
    ASSUME DdInv, NEW d \in ddOut, Sent(d)
    PROVE  DdInv'
<1>. USE KeyOfAssumption, DdBounds
<1>0. /\ d \in DeliverySet /\ d.stage = "writing" /\ d.kept \subseteq Copies
  BY DEF DdInv, DropInv, Sent, DeliverySet
<1>1. PICK ok \in SUBSET d.kept : Becomes(d, [d EXCEPT !.ok = ok, !.stage = "sent"])
                                  /\ ddWritten' = ddWritten \cup KeysOf(ok)
  BY DEF Sent
<1>. DEFINE e == [d EXCEPT !.ok = ok, !.stage = "sent"]
<1>2. e \in DeliverySet /\ e.kept = d.kept /\ e.dropped = d.dropped /\ e.stage = "sent" /\ e.ok = ok
  <2>1. ok \in SUBSET Copies
    BY <1>0
  <2>2. /\ e = [kept |-> d.kept, dropped |-> d.dropped, ok |-> ok, stage |-> "sent"]
        /\ [kept |-> d.kept, dropped |-> d.dropped, ok |-> ok, stage |-> "sent"] \in DeliverySet
    BY <1>0, <2>1, DeliveryMoves
  <2>. HIDE DEF e
  <2>3. QED BY <2>2
<1>3. ddOut' = (ddOut \ {d}) \cup {e}
  BY <1>1 DEF Becomes
<1>4. UNCHANGED <<ddSource, ddPhase, ddHas, ddState, ddLate, ddClaimed, ddMarker, ddSettled, ddMissed, ddCapped, ddFaulty, ddCrashes>>
  BY DEF Sent
<1>5. ddWritten' \subseteq Keys
  BY <1>0, <1>1 DEF DdInv, DeduplicationInv, DdTypeOK, KeysOf
<1>6. Becomes(d, e)
  BY <1>3 DEF Becomes
<1>. HIDE DEF e
<1>7. DdTypeOK' /\ NoKeyLost' /\ DropInv' /\ StateInv' /\ \A b \in Consumers : Claims(b)' = Claims(b)
  BY <1>1, <1>2, <1>4, <1>5, <1>6, DedupMovesOn DEF DdInv, DeduplicationInv, DdTypeOK
<1>8. MarkerInv'
  BY <1>1, <1>2, <1>3, <1>4 DEF DdInv, MarkerInv
<1>9. ~ddCapped => \A x, y \in ddOut' : Holding(x)' /\ Holding(y)' /\ x # y => KeysOf(x.kept) \cap KeysOf(y.kept) = {}
  <2>1. ~ddCapped => \A x, y \in ddOut : Holding(x) /\ Holding(y) /\ x # y => KeysOf(x.kept) \cap KeysOf(y.kept) = {}
    BY DEF DdInv, DeduplicationInv, OneDeliveryPerKey, Holding
  <2>2. Holding(d) /\ \A x \in ddOut' : Holding(x)' => x = e \/ (x # d /\ x \in ddOut /\ Holding(x))
    BY <1>0, <1>3 DEF Holding
  <2>3. QED BY <1>2, <2>1, <2>2
<1>10. OneDeliveryPerKey'
  BY <1>4, <1>9 DEF OneDeliveryPerKey, Holding
<1>11. ClaimInv'
  <2>1. \A k : Free(k)' <=> Free(k)
    BY <1>4 DEF Free
  <2>2. \A x \in ddOut' : Holding(x)' => \E y \in ddOut : Holding(y) /\ y.kept = x.kept
    BY <1>0, <1>2, <1>3 DEF Holding
  <2>3. QED BY <1>4, <1>7, <2>1, <2>2 DEF DdInv, ClaimInv
<1>12. AckedNotRedone'
  BY <1>7, <1>8, <1>11, SettledNotHeld, PTL
<1>13. QED BY <1>7, <1>8, <1>10, <1>11, <1>12 DEF DdInv, DeduplicationInv

\* The markers are written, and then made durable.
LEMMA DedupMarks ==
    ASSUME DdInv, NEW d \in ddOut, Mark(d) \/ Sync(d)
    PROVE  DdInv'
<1>. USE KeyOfAssumption, DdBounds
<1>. DEFINE stage == IF Mark(d) THEN "marked" ELSE "synced"
            e == [d EXCEPT !.stage = stage]
<1>0. /\ d \in DeliverySet /\ d.ok \subseteq d.kept /\ d.kept \subseteq Copies
      /\ ddMarker \in [Keys -> {"none", "written", "durable"}]
      /\ KeysOf(d.ok) \subseteq KeysOf(d.kept) /\ KeysOf(d.ok) \subseteq ddWritten
  BY DEF DdInv, DropInv, DeduplicationInv, DdTypeOK, DeliverySet, KeysOf, MarkerInv
<1>1. /\ UNCHANGED <<ddSource, ddPhase, ddHas, ddState, ddLate, ddWritten, ddSettled, ddCapped, ddFaulty, ddCrashes>>
      /\ ddOut' = (ddOut \ {d}) \cup {e}
      /\ Mark(d) => d.stage = "sent"
      /\ Sync(d) => d.stage = "marked"
  BY DEF Mark, Sync, Becomes
<1>2. e \in DeliverySet /\ e.kept = d.kept /\ e.dropped = d.dropped /\ e.stage = stage /\ e.ok = d.ok
  <2>1. stage \in {"sent", "marked", "synced"} /\ d.ok \in SUBSET Copies
    BY <1>0
  <2>. HIDE DEF stage
  <2>2. /\ e = [kept |-> d.kept, dropped |-> d.dropped, ok |-> d.ok, stage |-> stage]
        /\ [kept |-> d.kept, dropped |-> d.dropped, ok |-> d.ok, stage |-> stage] \in DeliverySet
    BY <1>0, <2>1, DeliveryMoves
  <2>. HIDE DEF e
  <2>3. QED BY <2>2
<1>3. /\ ddMarker' \in [Keys -> {"none", "written", "durable"}] /\ ddMissed' \subseteq Keys
      /\ \A k \in Keys :
            /\ ddMarker[k] # "none" \/ k \in ddMissed => ddMarker'[k] # "none" \/ k \in ddMissed'
            /\ Durable /\ (ddMarker[k] = "durable" \/ k \in ddMissed) => ddMarker'[k] = "durable" \/ k \in ddMissed'
            /\ ddMarker'[k] # "none" => k \in ddWritten
            /\ Mark(d) /\ k \in KeysOf(d.ok) => ddMarker'[k] # "none" \/ k \in ddMissed'
            /\ k \notin KeysOf(d.ok) /\ ddMarker[k] = "none" => ddMarker'[k] = "none"
            /\ Sync(d) /\ Durable /\ k \in KeysOf(d.ok) /\ (ddMarker[k] # "none" \/ k \in ddMissed)
                => ddMarker'[k] = "durable" \/ k \in ddMissed'
            /\ Sync(d) /\ ddMarker[k] = "none" => ddMarker'[k] = "none"
  <2>0. /\ ddMissed \subseteq Keys /\ KeysOf(d.ok) \subseteq Keys
        /\ \A k \in Keys : ddMarker[k] # "none" => k \in ddWritten
    BY <1>0 DEF DdInv, DeduplicationInv, DdTypeOK, MarkerInv, KeysOf
  <2>1. CASE Mark(d)
    <3>0. ~Sync(d)
      BY <1>1, <2>1
    <3>1. PICK unwritten \in SUBSET KeysOf(d.ok) :
            /\ ddMarker' = [k \in Keys |-> IF k \in KeysOf(d.ok) \ unwritten /\ ddMarker[k] = "none"
                                             THEN "written" ELSE ddMarker[k]]
            /\ ddMissed' = ddMissed \cup {k \in unwritten : ddMarker[k] # "durable"}
      BY <2>1 DEF Mark
    <3>2. QED BY <1>0, <2>0, <3>0, <3>1
  <2>2. CASE Sync(d)
    <3>0. ~Mark(d)
      BY <1>1, <2>2
    <3>1. CASE Durable /\ FlushStore
      BY <1>0, <2>0, <3>0, <3>1 DEF FlushStore
    <3>2. CASE Durable /\ FlushFails(d)
      BY <1>0, <2>0, <3>0, <3>2 DEF FlushFails
    <3>3. CASE ~Durable /\ UNCHANGED <<ddMarker, ddMissed>>
      BY <1>0, <2>0, <3>0, <3>3
    <3>4. QED BY <2>2, <3>1, <3>2, <3>3 DEF Sync
  <2>3. QED BY <2>1, <2>2
<1>4. /\ ddClaimed' \subseteq ddClaimed
      /\ ddClaimed \subseteq ddClaimed' \cup KeysOf(d.kept)
      /\ Sync(d) => ddClaimed' = ddClaimed
  BY DEF Mark, Sync
<1>5. Becomes(d, e)
  BY <1>1 DEF Becomes
<1>6. stage # "writing" /\ stage # "sent" /\ (~Mark(d) => Sync(d)) /\ (stage = "synced" => Sync(d)) /\ (Sync(d) => ~Mark(d))
  <2>1. Sync(d) => ~Mark(d)
    BY <1>1
  <2>2. QED BY <2>1
<1>. HIDE DEF stage, e
<1>7. DdTypeOK' /\ NoKeyLost' /\ DropInv' /\ StateInv' /\ \A b \in Consumers : Claims(b)' = Claims(b)
  BY <1>0, <1>1, <1>2, <1>3, <1>4, <1>5, DedupMovesOn DEF DdInv, DeduplicationInv, DdTypeOK
<1>8. MarkerInv'
  <2>0. KeysOf(d.ok) \subseteq Keys /\ ddSettled \subseteq Keys /\ \A x \in ddOut : KeysOf(x.ok) \subseteq Keys
    BY <1>0 DEF KeysOf, DdInv, DeduplicationInv, DdTypeOK, DropInv, DeliverySet
  <2>1. \A x \in ddOut : \A k \in KeysOf(x.ok) :
            /\ k \in ddWritten
            /\ x.stage \in {"marked", "synced"} => ddMarker'[k] # "none" \/ k \in ddMissed'
            /\ x.stage = "synced" /\ Durable => ddMarker'[k] = "durable" \/ k \in ddMissed'
    BY <1>3, <2>0 DEF DdInv, MarkerInv
  <2>2. \A k \in KeysOf(e.ok) :
            /\ k \in ddWritten
            /\ ddMarker'[k] # "none" \/ k \in ddMissed'
            /\ e.stage = "synced" /\ Durable => ddMarker'[k] = "durable" \/ k \in ddMissed'
    <3>1. CASE Mark(d)
      BY <1>0, <1>2, <1>3, <1>6, <2>0, <3>1
    <3>2. CASE Sync(d)
      <4>1. \A k \in KeysOf(d.ok) : ddMarker[k] # "none" \/ k \in ddMissed
        BY <1>1, <3>2 DEF DdInv, MarkerInv
      <4>2. QED BY <1>0, <1>2, <1>3, <2>0, <3>2, <4>1
    <3>3. QED BY <3>1, <3>2
  <2>3. \A x \in ddOut : x.stage = "writing" => x.ok = {}
    BY DEF DdInv, MarkerInv
  <2>4. Durable => \A k \in ddSettled : ddMarker'[k] = "durable" \/ k \in ddMissed'
    BY <1>3, <2>0 DEF DdInv, MarkerInv
  <2>5. QED BY <1>1, <1>2, <1>3, <1>6, <2>1, <2>2, <2>3, <2>4 DEF MarkerInv
<1>9. \A x \in ddOut' : Holding(x)' => x \in ddOut /\ x # d /\ Holding(x)
  BY <1>1, <1>2, <1>6 DEF Holding
<1>10. ClaimInv' /\ OneDeliveryPerKey'
  <2>1. ~ddCapped => \A k : /\ Free(k)
                            /\ \/ \E x \in ddOut' : Holding(x)' /\ k \in KeysOf(x.kept)
                               \/ \E b \in Consumers : k \in Claims(b)'
                         => Free(k)'
    <3>1. SUFFICES ASSUME ~ddCapped, NEW k, Free(k),
                          \/ \E x \in ddOut' : Holding(x)' /\ k \in KeysOf(x.kept)
                          \/ \E b \in Consumers : k \in Claims(b)'
                   PROVE  Free(k)'
      OBVIOUS
    <3>2. k \in ddClaimed /\ ddMarker[k] = "none" /\ k \in Keys
      BY <3>1 DEF Free, DdInv, DeduplicationInv, DdTypeOK
    <3>3. CASE Sync(d)
      BY <1>3, <1>4, <3>2, <3>3 DEF Free
    <3>4. CASE Mark(d)
      <4>1. Holding(d)
        BY <1>1, <3>4 DEF Holding
      <4>2. k \notin KeysOf(d.kept)
        <5>1. ASSUME NEW x \in ddOut', Holding(x)', k \in KeysOf(x.kept) PROVE k \notin KeysOf(d.kept)
          BY <1>9, <3>1, <4>1, <5>1 DEF DdInv, DeduplicationInv, OneDeliveryPerKey, Holding
        <5>2. ASSUME NEW b \in Consumers, k \in Claims(b)' PROVE k \notin KeysOf(d.kept)
          BY <1>7, <3>1, <4>1, <5>2 DEF DdInv, ClaimInv
        <5>3. QED BY <3>1, <5>1, <5>2
      <4>3. k \notin KeysOf(d.ok)
        BY <1>0, <4>2
      <4>4. QED BY <1>3, <1>4, <3>2, <4>2, <4>3 DEF Free
    <3>5. QED BY <3>3, <3>4
  <2>2. QED BY <1>1, <1>7, <1>9, <2>1, FewerHolders DEF DdInv, DeduplicationInv
<1>11. AckedNotRedone'
  BY <1>7, <1>8, <1>10, SettledNotHeld, PTL
<1>12. QED BY <1>7, <1>8, <1>10, <1>11 DEF DdInv, DeduplicationInv

\* A key is reserved: one that is claimed was free before, so nobody holds it.
LEMMA DedupReserves ==
    ASSUME DdInv, NEW c \in Consumers, Reserve(c)
    PROVE  DdInv'
<1>. USE KeyOfAssumption, DdBounds
<1>0. /\ DOMAIN ddState = Consumers /\ ddPhase[c] = "reserving"
      /\ ddHas \in [Consumers -> SUBSET Copies]
      /\ UNCHANGED <<ddSource, ddPhase, ddHas, ddLate, ddMarker, ddOut, ddWritten, ddSettled, ddMissed, ddCapped, ddFaulty, ddCrashes>>
  BY DEF DdInv, StateInv, Reserve, DeduplicationInv, DdTypeOK
<1>1. PICK k \in KeysOf(ddHas[c]) \ DOMAIN ddState[c] :
            /\ ddState' = [ddState EXCEPT ![c] = Answered(@, k, StoredState(k))]
            /\ ddClaimed' = IF StoredState(k) = "Claimed" THEN ddClaimed \cup {k} ELSE ddClaimed
  BY DEF Reserve
<1>. DEFINE s == StoredState(k)
<1>2. /\ k \in Keys /\ s \in {"Claimed", "InFlight", "Processed"}
      /\ s = "Processed" => k \in ddWritten
      /\ s = "Claimed" => k \notin ddClaimed /\ ddMarker[k] = "none"
  BY <1>0, <1>1 DEF StoredState, KeysOf, DdInv, MarkerInv
<1>3. /\ DOMAIN ddState' = Consumers
      /\ \A b \in Consumers \ {c} : ddState'[b] = ddState[b]
      /\ ddState'[c] = Answered(ddState[c], k, s)
  BY <1>0, <1>1
<1>. HIDE DEF s
<1>4. /\ DOMAIN ddState'[c] = DOMAIN ddState[c] \cup {k}
      /\ ddState'[c][k] = s
      /\ \A j \in DOMAIN ddState[c] : ddState'[c][j] = ddState[c][j]
  <2>. DEFINE before == ddState[c]
  <2>1. /\ DOMAIN Answered(before, k, s) = DOMAIN before \cup {k}
        /\ Answered(before, k, s)[k] = s
        /\ \A j \in DOMAIN before \ {k} : Answered(before, k, s)[j] = before[j]
    <3>. HIDE DEF before
    <3>1. QED BY DEF Answered
  <2>2. QED BY <1>1, <1>3, <2>1
<1>5. /\ \A b \in Consumers \ {c} : Claims(b)' = Claims(b)
      /\ Claims(c)' = IF s = "Claimed" THEN Claims(c) \cup {k} ELSE Claims(c)
  <2>1. \A b \in Consumers \ {c} : Claims(b)' = Claims(b)
    BY <1>0, <1>3 DEF Claims, KeysIn
  <2>2. KeysIn(c, {"Claimed"})' = IF s = "Claimed" THEN KeysIn(c, {"Claimed"}) \cup {k} ELSE KeysIn(c, {"Claimed"})
    BY <1>1, <1>4 DEF KeysIn
  <2>3. QED BY <1>0, <2>1, <2>2 DEF Claims
<1>6. ddClaimed' = IF s = "Claimed" THEN ddClaimed \cup {k} ELSE ddClaimed
  BY <1>1 DEF s
<1>7. DdTypeOK'
  BY <1>0, <1>1, <1>2, <1>3, <1>4, <1>6 DEF DdInv, DeduplicationInv, DdTypeOK
<1>8. NoKeyLost' /\ OneDeliveryPerKey' /\ DropInv' /\ MarkerInv'
  BY <1>0 DEF DdInv, DeduplicationInv, NoKeyLost, OneDeliveryPerKey, DropInv, MarkerInv
<1>9. StateInv'
  BY <1>0, <1>2, <1>3, <1>4 DEF DdInv, StateInv
<1>10. ClaimInv'
  <2>1. /\ \A d : Holding(d)' <=> Holding(d)
        /\ \A j : Free(j) => Free(j)'
        /\ s = "Claimed" => Free(k)' /\ ~Free(k)
    BY <1>0, <1>2, <1>6 DEF Holding, Free
  <2>2. SUFFICES ASSUME ~ddCapped
                 PROVE  /\ \A d \in ddOut : Holding(d) => \A j \in KeysOf(d.kept) : Free(j)'
                        /\ \A b \in Consumers : \A j \in Claims(b)' : Free(j)'
                        /\ \A d \in ddOut, b \in Consumers : Holding(d) => KeysOf(d.kept) \cap Claims(b)' = {}
                        /\ \A a, b \in Consumers : a # b => Claims(a)' \cap Claims(b)' = {}
    BY <1>0, <2>1 DEF ClaimInv
  <2>3. /\ \A d \in ddOut : Holding(d) => \A j \in KeysOf(d.kept) : Free(j)
        /\ \A b \in Consumers : \A j \in Claims(b) : Free(j)
        /\ \A d \in ddOut, b \in Consumers : Holding(d) => KeysOf(d.kept) \cap Claims(b) = {}
        /\ \A a, b \in Consumers : a # b => Claims(a) \cap Claims(b) = {}
    BY <2>2 DEF DdInv, ClaimInv
  <2>4. QED BY <1>5, <2>1, <2>3
<1>11. AckedNotRedone'
  BY <1>7, <1>8, <1>10, SettledNotHeld, PTL
<1>12. QED BY <1>7, <1>8, <1>9, <1>10, <1>11 DEF DdInv, DeduplicationInv

\* A settled batch is handed on.  What it claimed it holds now as a delivery; what it drops

\* rides on a kept copy or has been written.
LEMMA DedupDelivers ==
    ASSUME DdInv, NEW c \in Consumers, DdDeliver(c)
    PROVE  DdInv'
<1>. USE KeyOfAssumption, DdBounds
<1>. DEFINE keys == KeysIn(c, {"Claimed", "InFlight"})
<1>0. /\ DOMAIN ddState = Consumers /\ ddPhase[c] = "reserving"
      /\ KeysOf(ddHas[c]) = DOMAIN ddState[c]
      /\ ddPhase \in [Consumers -> {"idle", "reserving", "waiting"}]
      /\ ddLate \in [Consumers -> {"off", "running", "passed"}]
      /\ ddHas \in [Consumers -> SUBSET Copies]
      /\ ddSource \in [Copies -> {"queued", "out", "acked"}]
      /\ UNCHANGED <<ddClaimed, ddMarker, ddWritten, ddSettled, ddMissed, ddFaulty, ddCrashes>>
      /\ ddCapped \in BOOLEAN
  BY DEF DdInv, StateInv, DdDeliver, DeduplicationInv, DdTypeOK, Reserved
<1>1. /\ ddPhase' = [ddPhase EXCEPT ![c] = "idle"]
      /\ ddHas' = [ddHas EXCEPT ![c] = {}]
      /\ ddState' = [ddState EXCEPT ![c] = <<>>]
      /\ ddLate' = [ddLate EXCEPT ![c] = "off"]
      /\ ddCapped' = (ddCapped \/ KeysIn(c, {"InFlight"}) # {})
  BY DEF DdDeliver
<1>2. /\ DOMAIN ddState' = Consumers /\ DOMAIN ddState'[c] = {}
      /\ \A b \in Consumers \ {c} : ddState'[b] = ddState[b] /\ ddHas'[b] = ddHas[b] /\ ddPhase'[b] = ddPhase[b]
      /\ ddHas'[c] = {} /\ ddPhase'[c] = "idle"
  BY <1>0, <1>1, NoMessages
<1>3. /\ \A b \in Consumers \ {c} : Claims(b)' = Claims(b)
      /\ Claims(c)' = {}
      /\ Claims(c) = KeysIn(c, {"Claimed"})
  BY <1>0, <1>2 DEF Claims, KeysIn
<1>4. \A k \in KeysOf(ddHas[c]) \ keys : k \in ddWritten
  BY <1>0 DEF KeysIn, DdInv, StateInv
<1>5. ~ddCapped' => ~ddCapped /\ keys = Claims(c)
  BY <1>1, <1>3 DEF KeysIn
<1>6. \/ keys = {} /\ ddSource' = SetSource(ddHas[c], "acked") /\ ddOut' = ddOut
      \/ /\ ddSource' = ddSource
         /\ \E kept \in SUBSET ddHas[c] :
                /\ KeysOf(kept) = keys
                /\ ddOut' = ddOut \cup {[kept |-> kept, dropped |-> ddHas[c] \ kept, ok |-> {}, stage |-> "writing"]}
  BY DEF DdDeliver
<1>. HIDE DEF keys
<1>7. \A k : Free(k)' <=> Free(k)
  BY <1>0 DEF Free
<1>8. StateInv'
  BY <1>0, <1>2 DEF DdInv, StateInv
<1>9. CASE keys = {} /\ ddSource' = SetSource(ddHas[c], "acked") /\ ddOut' = ddOut
  <2>1. DdTypeOK'
    BY <1>0, <1>1, <1>2, <1>9 DEF DdInv, DeduplicationInv, DdTypeOK, SetSource
  <2>2. NoKeyLost'
    BY <1>0, <1>4, <1>9 DEF DdInv, DeduplicationInv, NoKeyLost, SetSource, KeysOf
  <2>3. ClaimInv' /\ OneDeliveryPerKey'
    BY <1>1, <1>3, <1>7, <1>9, FewerHolders DEF DdInv, DeduplicationInv
  <2>4. DropInv' /\ MarkerInv'
    BY <1>0, <1>9 DEF DdInv, DropInv, MarkerInv
  <2>5. AckedNotRedone'
    BY <2>1, <2>3, <2>4, SettledNotHeld, PTL
  <2>6. QED BY <1>8, <2>1, <2>2, <2>3, <2>4, <2>5 DEF DdInv, DeduplicationInv
<1>10. ASSUME ddSource' = ddSource, NEW kept \in SUBSET ddHas[c], KeysOf(kept) = keys, NEW d,
              d = [kept |-> kept, dropped |-> ddHas[c] \ kept, ok |-> {}, stage |-> "writing"],
              ddOut' = ddOut \cup {d}
       PROVE  DdInv'
  <2>1. /\ d \in DeliverySet /\ KeysOf(d.kept) = keys /\ d.kept \cap d.dropped = {}
        /\ d.dropped = ddHas[c] \ d.kept /\ d.ok = {} /\ d.stage = "writing"
    BY <1>0, <1>10 DEF DeliverySet
  <2>2. DdTypeOK'
    <3>1. \A x \in ddOut' : x.ok \subseteq x.kept /\ x.stage \in {"writing", "sent", "marked", "synced"}
      BY <1>10, <2>1 DEF DdInv, DeduplicationInv, DdTypeOK
    <3>2. \A b \in Consumers : DOMAIN ddState'[b] \subseteq KeysOf(ddHas'[b])
      BY <1>2 DEF DdInv, DeduplicationInv, DdTypeOK
    <3>3. QED BY <1>0, <1>1, <1>10, <3>1, <3>2 DEF DdInv, DeduplicationInv, DdTypeOK
  <2>3. NoKeyLost'
    BY <1>0, <1>10, NothingAcked DEF DdInv, DeduplicationInv
  <2>4. DropInv'
    <3>1. KeysOf(d.dropped) \subseteq KeysOf(d.kept) \cup ddWritten
      BY <1>4, <2>1 DEF KeysOf
    <3>2. QED BY <1>0, <1>10, <2>1, <3>1 DEF DdInv, DropInv
  <2>5. MarkerInv'
    <3>1. KeysOf(d.ok) = {}
      BY <2>1 DEF KeysOf
    <3>2. \A x \in ddOut :
            /\ x.stage = "writing" => x.ok = {}
            /\ \A k \in KeysOf(x.ok) :
                /\ k \in ddWritten
                /\ x.stage \in {"marked", "synced"} => ddMarker[k] # "none" \/ k \in ddMissed
                /\ x.stage = "synced" /\ Durable => ddMarker[k] = "durable" \/ k \in ddMissed
      BY DEF DdInv, MarkerInv
    <3>3. /\ \A k \in Keys : ddMarker[k] # "none" => k \in ddWritten
          /\ Durable => \A k \in ddSettled : ddMarker[k] = "durable" \/ k \in ddMissed
      BY DEF DdInv, MarkerInv
    <3>4. \A x \in ddOut' :
            /\ x.stage = "writing" => x.ok = {}
            /\ \A k \in KeysOf(x.ok) :
                /\ k \in ddWritten
                /\ x.stage \in {"marked", "synced"} => ddMarker[k] # "none" \/ k \in ddMissed
                /\ x.stage = "synced" /\ Durable => ddMarker[k] = "durable" \/ k \in ddMissed
      BY <1>10, <2>1, <3>1, <3>2
    <3>5. QED BY <1>0, <3>3, <3>4 DEF MarkerInv
  <2>6. ~ddCapped' => \A x \in ddOut' : Holding(x)' => x = d \/ (x \in ddOut /\ Holding(x))
    BY <1>10 DEF Holding
  <2>7. ~ddCapped' =>
          /\ \A x \in ddOut : Holding(x) => \A k \in KeysOf(x.kept) : Free(k)
          /\ \A b \in Consumers : \A k \in Claims(b) : Free(k)
          /\ \A x \in ddOut, b \in Consumers : Holding(x) => KeysOf(x.kept) \cap Claims(b) = {}
          /\ \A a, b \in Consumers : a # b => Claims(a) \cap Claims(b) = {}
    BY <1>5 DEF DdInv, ClaimInv
  <2>8. ClaimInv'
    <3>1. SUFFICES ASSUME ~ddCapped'
          PROVE  /\ \A x \in ddOut' : Holding(x)' => \A k \in KeysOf(x.kept) : Free(k)'
                 /\ \A b \in Consumers : \A k \in Claims(b)' : Free(k)'
                 /\ \A x \in ddOut', b \in Consumers : Holding(x)' => KeysOf(x.kept) \cap Claims(b)' = {}
                 /\ \A a, b \in Consumers : a # b => Claims(a)' \cap Claims(b)' = {}
      BY DEF ClaimInv
    <3>2. QED BY <1>3, <1>5, <1>7, <2>1, <2>6, <2>7, <3>1
  <2>9. OneDeliveryPerKey'
    <3>1. SUFFICES ASSUME ~ddCapped', NEW x \in ddOut', NEW y \in ddOut', Holding(x)', Holding(y)', x # y
                   PROVE  KeysOf(x.kept) \cap KeysOf(y.kept) = {}
      BY DEF OneDeliveryPerKey, Holding
    <3>2. CASE x # d /\ y # d
      BY <1>5, <2>6, <3>1, <3>2 DEF DdInv, DeduplicationInv, OneDeliveryPerKey, Holding
    <3>3. CASE x = d \/ y = d
      BY <1>5, <2>1, <2>6, <2>7, <3>1, <3>3
    <3>4. QED BY <3>2, <3>3
  <2>10. AckedNotRedone'
    BY <2>2, <2>5, <2>8, SettledNotHeld, PTL
  <2>11. QED BY <1>8, <2>2, <2>3, <2>4, <2>5, <2>8, <2>9, <2>10 DEF DdInv, DeduplicationInv
<1>11. QED BY <1>6, <1>9, <1>10

\* Deduplication, for every set of consumers and copies and any number of crashes: no
\* message is lost although its copies are acknowledged on the strength of one another
\* (NoKeyLost), and unless a wait was cut short one delivery of a key is with the sink at a
\* time and an acknowledged one is not written again, but for keys whose marker the store
\* itself failed to write or flush.
THEOREM DedupLosesNothing == DdSpec => []DeduplicationInv
<1>1. DdInv /\ [DdNext]_ddVars => DdInv'
  <2>1. SUFFICES ASSUME DdInv, [DdNext]_ddVars PROVE DdInv'
    OBVIOUS
  <2>2. CASE \E c \in Consumers : DdReceive(c) \/ DdConsume(c) \/ WaitCap(c) \/ ReserveFails(c)
    BY <2>1, <2>2, DedupWaits, DedupReserves, DedupDelivers DEF DdConsume
  <2>3. CASE \E d \in ddOut : Sent(d) \/ Mark(d) \/ Sync(d) \/ SourceAck(d) \/ CommitLost(d)
    BY <2>1, <2>3, DedupSends, DedupMarks, DedupLeaves
  <2>4. CASE (\E k \in Keys : Lapse(k)) \/ Crash
    BY <2>1, <2>4, DedupForgets
  <2>5. CASE UNCHANGED ddVars
    <3>1. /\ \A d : Holding(d)' <=> Holding(d)
          /\ \A c \in Consumers : Claims(c)' = Claims(c)
          /\ \A k : Free(k)' <=> Free(k)
      BY <2>5 DEF ddVars, Holding, Claims, KeysIn, Free
    <3>2. ClaimInv'
      BY <2>1, <2>5, <3>1 DEF ddVars, DdInv, ClaimInv
    <3>3. DdTypeOK' /\ NoKeyLost' /\ OneDeliveryPerKey' /\ AckedNotRedone'
      BY <2>1, <2>5
         DEF ddVars, DdInv, DeduplicationInv, DdTypeOK, NoKeyLost, OneDeliveryPerKey, AckedNotRedone
    <3>4. DropInv' /\ StateInv' /\ MarkerInv'
      BY <2>1, <2>5 DEF ddVars, DdInv, DropInv, StateInv, MarkerInv
    <3>5. QED BY <3>2, <3>3, <3>4 DEF DdInv, DeduplicationInv
  <2>6. QED BY <2>1, <2>2, <2>3, <2>4, <2>5 DEF DdNext
<1>2. DdInv => DeduplicationInv
  BY DEF DdInv
<1>3. QED BY <1>1, <1>2, DedupStarts, PTL DEF DdSpec

-----------------------------------------------------------------------------
(* The deferred commits of the filter and the deduplication middleware *)

LEMMA Appended ==
    ASSUME NEW S, NEW q \in Seq(S), NEW x \in S
    PROVE  /\ Append(q, x) \in Seq(S) /\ Append(q, x) # <<>>
           /\ Len(Append(q, x)) = Len(q) + 1
           /\ DOMAIN Append(q, x) = 1..(Len(q) + 1)
           /\ \A i \in 1..Len(q) : Append(q, x)[i] = q[i]
           /\ Append(q, x)[Len(q) + 1] = x
           /\ Range(Append(q, x)) = Range(q) \cup {x}
<1>1. /\ Append(q, x) \in Seq(S) /\ Append(q, x) # <<>>
      /\ Len(Append(q, x)) = Len(q) + 1
      /\ DOMAIN Append(q, x) = 1..(Len(q) + 1)
      /\ \A i \in 1..Len(q) : Append(q, x)[i] = q[i]
      /\ Append(q, x)[Len(q) + 1] = x
      /\ DOMAIN q = 1..Len(q) /\ Len(q) \in Nat
  OBVIOUS
<1>2. \A i \in 1..(Len(q) + 1) : i = Len(q) + 1 \/ i \in 1..Len(q)
  BY <1>1
<1>3. Range(Append(q, x)) = Range(q) \cup {x}
  <2>. DEFINE r == Append(q, x)
  <2>. HIDE DEF r
  <2>1. /\ DOMAIN r = 1..(Len(q) + 1)
        /\ \A i \in 1..Len(q) : r[i] = q[i]
        /\ r[Len(q) + 1] = x
    BY <1>1 DEF r
  <2>2. Range(r) = Range(q) \cup {x}
    BY <1>1, <1>2, <2>1 DEF Range
  <2>3. QED BY <2>2 DEF r
<1>4. QED BY <1>1, <1>3

LEMMA AppendedAscends ==
    ASSUME NEW S \in SUBSET Nat, NEW q \in Seq(S), NEW x \in S, Ascending(q), \A y \in Range(q) : y < x
    PROVE  Ascending(Append(q, x))
<1>1. /\ DOMAIN Append(q, x) = 1..(Len(q) + 1)
      /\ \A i \in 1..Len(q) : Append(q, x)[i] = q[i]
      /\ Append(q, x)[Len(q) + 1] = x
      /\ DOMAIN q = 1..Len(q) /\ Len(q) \in Nat
  OBVIOUS
<1>2. \A i \in 1..Len(q) : q[i] < x
  BY <1>1 DEF Range
<1>. DEFINE r == Append(q, x)
<1>. HIDE DEF r
<1>3. SUFFICES ASSUME NEW i \in DOMAIN r, NEW j \in DOMAIN r, i < j PROVE r[i] < r[j]
  BY DEF Ascending, r
<1>4. i \in 1..Len(q) /\ (j \in 1..Len(q) \/ j = Len(q) + 1)
  BY <1>1, <1>3 DEF r
<1>5. QED BY <1>1, <1>2, <1>3, <1>4 DEF Ascending, r

LEMMA Concatenated ==
    ASSUME NEW S, NEW p \in Seq(S), NEW q \in Seq(S)
    PROVE  /\ p \o q \in Seq(S)
           /\ Range(p \o q) = Range(p) \cup Range(q)
           /\ p # <<>> => p \o q # <<>>
           /\ S \subseteq Nat /\ Ascending(p) /\ Ascending(q) /\ Precedes(p, q) => Ascending(p \o q)
<1>. DEFINE r == p \o q
<1>1. /\ r \in Seq(S) /\ Len(r) = Len(p) + Len(q)
      /\ DOMAIN r = 1..(Len(p) + Len(q))
      /\ \A i \in 1..Len(p) : r[i] = p[i]
      /\ \A i \in 1..Len(q) : r[Len(p) + i] = q[i]
      /\ DOMAIN q = 1..Len(q) /\ Len(q) \in Nat
      /\ DOMAIN p = 1..Len(p) /\ Len(p) \in Nat
      /\ p # <<>> => Len(p) > 0
  OBVIOUS
<1>. HIDE DEF r
<1>2. \A i \in DOMAIN r : \/ i \in 1..Len(p) /\ r[i] = p[i]
                          \/ i - Len(p) \in 1..Len(q) /\ r[i] = q[i - Len(p)]
  <2>1. SUFFICES ASSUME NEW i \in DOMAIN r, i \notin 1..Len(p)
                 PROVE  i - Len(p) \in 1..Len(q) /\ r[i] = q[i - Len(p)]
    BY <1>1
  <2>2. i - Len(p) \in 1..Len(q) /\ Len(p) + (i - Len(p)) = i
    BY <1>1, <2>1
  <2>3. QED BY <1>1, <2>2
<1>3. Range(r) = Range(p) \cup Range(q)
  <2>1. Range(p) \subseteq Range(r)
    BY <1>1 DEF Range
  <2>2. Range(q) \subseteq Range(r)
    <3>1. \A i \in 1..Len(q) : Len(p) + i \in DOMAIN r
      BY <1>1
    <3>2. QED BY <1>1, <3>1 DEF Range
  <2>3. Range(r) \subseteq Range(p) \cup Range(q)
    BY <1>1, <1>2 DEF Range
  <2>4. QED BY <2>1, <2>2, <2>3
<1>4. ASSUME S \subseteq Nat, Ascending(p), Ascending(q), Precedes(p, q) PROVE Ascending(r)
  <2>1. SUFFICES ASSUME NEW i \in DOMAIN r, NEW j \in DOMAIN r, i < j PROVE r[i] < r[j]
    BY DEF Ascending
  <2>2. CASE j \in 1..Len(p)
    <3>1. i \in 1..Len(p)
      BY <1>1, <2>1, <2>2
    <3>2. QED BY <1>1, <1>4, <2>1, <2>2, <3>1 DEF Ascending
  <2>3. CASE i \in 1..Len(p) /\ j - Len(p) \in 1..Len(q) /\ r[j] = q[j - Len(p)]
    <3>1. r[i] \in Range(p) /\ r[j] \in Range(q)
      BY <1>1, <2>3 DEF Range
    <3>2. QED BY <1>4, <3>1 DEF Precedes
  <2>4. CASE /\ i - Len(p) \in 1..Len(q) /\ r[i] = q[i - Len(p)]
             /\ j - Len(p) \in 1..Len(q) /\ r[j] = q[j - Len(p)]
    <3>1. i - Len(p) < j - Len(p)
      BY <1>1, <2>1
    <3>2. QED BY <1>1, <1>4, <2>4, <3>1 DEF Ascending
  <2>5. QED BY <1>2, <2>2, <2>3, <2>4
<1>5. p # <<>> => r # <<>>
  BY <1>1
<1>6. QED BY <1>1, <1>3, <1>4, <1>5 DEF r

LEMMA HeadTaken ==
    ASSUME NEW S \in SUBSET Nat, NEW q \in Seq(S), q # <<>>
    PROVE  /\ Head(q) \in S /\ Tail(q) \in Seq(S)
           /\ Range(q) = {Head(q)} \cup Range(Tail(q))
           /\ Len(q) = 1 <=> Tail(q) = <<>>
           /\ Ascending(q) => Ascending(Tail(q)) /\ \A y \in Range(Tail(q)) : Head(q) < y
<1>. DEFINE r == Tail(q)
<1>1. /\ Head(q) = q[1] /\ r \in Seq(S) /\ Len(r) = Len(q) - 1
      /\ DOMAIN r = 1..(Len(q) - 1)
      /\ \A i \in 1..(Len(q) - 1) : r[i] = q[i + 1]
      /\ DOMAIN q = 1..Len(q) /\ Len(q) \in Nat \ {0}
      /\ \A i \in 1..Len(q) : q[i] \in S
      /\ r = <<>> <=> Len(r) = 0
  <2>1. Len(q) \in Nat \ {0} /\ DOMAIN q = 1..Len(q) /\ \A i \in 1..Len(q) : q[i] \in S
    OBVIOUS
  <2>2. Head(q) = q[1] /\ r \in Seq(S) /\ Len(r) = Len(q) - 1
    BY <2>1
  <2>3. DOMAIN r = 1..(Len(q) - 1) /\ \A i \in 1..(Len(q) - 1) : r[i] = q[i + 1]
    BY <2>1
  <2>. HIDE DEF r
  <2>4. r = <<>> <=> Len(r) = 0
    BY <2>2, EmptySeq
  <2>5. QED BY <2>1, <2>2, <2>3, <2>4
<1>. HIDE DEF r
<1>2. \A i \in 1..Len(q) : i = 1 \/ (i - 1 \in 1..(Len(q) - 1) /\ q[i] = r[i - 1])
  <2>1. SUFFICES ASSUME NEW i \in 1..Len(q), i # 1 PROVE i - 1 \in 1..(Len(q) - 1) /\ q[i] = r[i - 1]
    OBVIOUS
  <2>2. i - 1 \in 1..(Len(q) - 1) /\ (i - 1) + 1 = i
    BY <1>1, <2>1
  <2>3. QED BY <1>1, <2>2
<1>3. \A i \in 1..(Len(q) - 1) : i + 1 \in 1..Len(q)
  BY <1>1
<1>4. Range(q) = {q[1]} \cup Range(r)
  <2>1. 1 \in 1..Len(q)
    BY <1>1
  <2>2. Range(r) \subseteq Range(q)
    BY <1>1, <1>3 DEF Range
  <2>3. Range(q) \subseteq {q[1]} \cup Range(r)
    BY <1>1, <1>2 DEF Range
  <2>4. QED BY <1>1, <2>1, <2>2, <2>3 DEF Range
<1>5. ASSUME Ascending(q) PROVE Ascending(r) /\ \A y \in Range(r) : q[1] < y
  <2>1. Ascending(r)
    <3>1. SUFFICES ASSUME NEW i \in DOMAIN r, NEW j \in DOMAIN r, i < j PROVE r[i] < r[j]
      BY DEF Ascending
    <3>2. i + 1 \in DOMAIN q /\ j + 1 \in DOMAIN q /\ i + 1 < j + 1 /\ r[i] = q[i + 1] /\ r[j] = q[j + 1]
      BY <1>1, <3>1
    <3>3. QED BY <1>5, <3>2 DEF Ascending
  <2>2. \A i \in 1..(Len(q) - 1) : q[1] < r[i]
    <3>1. SUFFICES ASSUME NEW i \in 1..(Len(q) - 1) PROVE q[1] < q[i + 1]
      BY <1>1
    <3>2. 1 \in 1..Len(q) /\ i + 1 \in 1..Len(q) /\ 1 < i + 1
      BY <1>1
    <3>3. QED BY <1>1, <1>5, <3>2 DEF Ascending
  <2>3. QED BY <1>1, <2>1, <2>2 DEF Range
<1>6. QED BY <1>1, <1>4, <1>5 DEF r

LEMMA OneRemoved ==
    ASSUME NEW S \in SUBSET Nat, NEW q \in Seq(S), NEW k \in DOMAIN q
    PROVE  /\ RemoveAt(q, k) \in Seq(S)
           /\ Range(RemoveAt(q, k)) \subseteq Range(q)
           /\ Range(q) \subseteq Range(RemoveAt(q, k)) \cup {q[k]}
           /\ Ascending(q) => Ascending(RemoveAt(q, k))
<1>. DEFINE r == RemoveAt(q, k)
<1>1. /\ DOMAIN q = 1..Len(q) /\ Len(q) \in Nat /\ k \in 1..Len(q)
      /\ \A i \in 1..Len(q) : q[i] \in S
  OBVIOUS
<1>2. /\ r \in Seq(S) /\ DOMAIN r = 1..(Len(q) - 1)
      /\ \A i \in 1..(k - 1) : r[i] = q[i]
      /\ \A i \in k..(Len(q) - 1) : r[i] = q[i + 1]
  <2>. DEFINE a == SubSeq(q, 1, k - 1)
              b == SubSeq(q, k + 1, Len(q))
  <2>1. /\ a \in Seq(S) /\ Len(a) = k - 1 /\ \A i \in 1..(k - 1) : a[i] = q[i]
    BY <1>1
  <2>2. /\ b \in Seq(S) /\ Len(b) = Len(q) - k /\ \A i \in 1..(Len(q) - k) : b[i] = q[k + i]
    BY <1>1
  <2>3. r = a \o b
    BY DEF RemoveAt
  <2>. HIDE DEF a, b, r
  <2>4. /\ r \in Seq(S) /\ Len(r) = Len(q) - 1
        /\ \A i \in 1..(k - 1) : r[i] = a[i]
        /\ \A i \in k..(Len(q) - 1) : r[i] = b[i - (k - 1)]
    <3>0. a \in Seq(S) /\ b \in Seq(S)
      BY <2>1, <2>2
    <3>1. r \in Seq(S) /\ Len(r) = Len(a) + Len(b)
      BY <2>3, <3>0
    <3>2. \A i \in 1..Len(a) : r[i] = a[i]
      BY <2>3, <3>0
    <3>3. \A i \in 1..Len(b) : r[Len(a) + i] = b[i]
      BY <2>3, <3>0
    <3>4. ASSUME NEW i \in k..(Len(q) - 1) PROVE r[i] = b[i - (k - 1)]
      <4>1. i - (k - 1) \in 1..Len(b) /\ Len(a) + (i - (k - 1)) = i
        BY <1>1, <2>1, <2>2
      <4>2. QED BY <3>3, <4>1
    <3>5. Len(r) = Len(q) - 1
      BY <1>1, <2>1, <2>2, <3>1
    <3>6. QED BY <2>1, <3>1, <3>2, <3>4, <3>5
  <2>5. ASSUME NEW i \in k..(Len(q) - 1) PROVE r[i] = q[i + 1]
    <3>1. i - (k - 1) \in 1..(Len(q) - k) /\ k + (i - (k - 1)) = i + 1
      BY <1>1
    <3>2. QED BY <2>2, <2>4, <3>1
  <2>6. QED BY <1>1, <2>1, <2>4, <2>5
<1>. HIDE DEF r
<1>3. \A i \in DOMAIN r : \/ i \in 1..(k - 1) /\ i \in DOMAIN q /\ r[i] = q[i]
                          \/ i \in k..(Len(q) - 1) /\ i + 1 \in DOMAIN q /\ r[i] = q[i + 1]
  BY <1>1, <1>2
<1>4. Range(r) \subseteq Range(q)
  BY <1>3 DEF Range
<1>5. Range(q) \subseteq Range(r) \cup {q[k]}
  <2>1. SUFFICES ASSUME NEW i \in DOMAIN q, i # k PROVE q[i] \in Range(r)
    BY DEF Range
  <2>2. CASE i < k
    <3>1. i \in 1..(k - 1) /\ i \in DOMAIN r
      BY <1>1, <1>2, <2>2
    <3>2. QED BY <1>2, <3>1 DEF Range
  <2>3. CASE i > k
    <3>1. i - 1 \in k..(Len(q) - 1) /\ i - 1 \in DOMAIN r /\ (i - 1) + 1 = i
      BY <1>1, <1>2, <2>3
    <3>2. r[i - 1] = q[i]
      BY <1>2, <3>1
    <3>3. QED BY <3>1, <3>2 DEF Range
  <2>4. QED BY <1>1, <2>1, <2>2, <2>3
<1>6. ASSUME Ascending(q) PROVE Ascending(r)
  <2>1. SUFFICES ASSUME NEW i \in DOMAIN r, NEW j \in DOMAIN r, i < j PROVE r[i] < r[j]
    BY DEF Ascending
  <2>2. PICK x \in DOMAIN q : r[i] = q[x] /\ (x = i \/ (x = i + 1 /\ i >= k)) /\ (i >= k => x = i + 1)
    BY <1>1, <1>2, <1>3
  <2>3. PICK y \in DOMAIN q : r[j] = q[y] /\ (y = j \/ (y = j + 1 /\ j >= k)) /\ (j >= k => y = j + 1)
    BY <1>1, <1>2, <1>3
  <2>4. x < y
    BY <1>1, <1>2, <2>1, <2>2, <2>3
  <2>5. QED BY <1>6, <2>2, <2>3, <2>4 DEF Ascending
<1>7. QED BY <1>2, <1>4, <1>5, <1>6 DEF r

\* A set of numbers has a least one.
LEMMA LeastNumber ==
    ASSUME NEW S \in SUBSET Nat, S # {}
    PROVE  \E n \in S : \A m \in S : n <= m
<1>1. \E x \in S : \A y \in S : ~(<<y, x>> \in OpToRel(<, Nat))
  BY NatLessThanWellFounded, WFMin
<1>2. PICK x \in S : \A y \in S : ~(<<y, x>> \in OpToRel(<, Nat))
  BY <1>1
<1>3. ASSUME NEW y \in S PROVE x <= y
  <2>1. <<y, x>> \in Nat \X Nat /\ <<y, x>>[1] = y /\ <<y, x>>[2] = x
    OBVIOUS
  <2>2. ~(y < x)
    BY <1>2, <2>1 DEF OpToRel
  <2>3. QED BY <2>2
<1>4. QED BY <1>2, <1>3

\* Room is made by dropping a plain ack, never a reply, and the order is kept.
LEMMA OldestAckDropped ==
    ASSUME NEW q \in Seq(DcBatches), Ascending(q)
    PROVE  /\ DropOldestAck(q) \in Seq(DcBatches)
           /\ Ascending(DropOldestAck(q))
           /\ Range(DropOldestAck(q)) \subseteq Range(q)
           /\ \A b \in Range(q) : dcFate[b] # "ack" => b \in Range(DropOldestAck(q))
<1>. DEFINE acks == {i \in DOMAIN q : dcFate[q[i]] = "ack"}
            k == CHOOSE i \in acks : \A j \in acks : i <= j
<1>1. DcBatches \in SUBSET Nat
  BY DeferredBounds DEF DcBatches
<1>2. CASE Len(q) < MaxDeferred \/ acks = {}
  <2>1. DropOldestAck(q) = q
    BY <1>2 DEF DropOldestAck
  <2>2. QED BY <2>1
<1>3. CASE ~(Len(q) < MaxDeferred \/ acks = {})
  <2>1. DropOldestAck(q) = RemoveAt(q, k)
    BY <1>3 DEF DropOldestAck
  <2>2. acks \in SUBSET Nat /\ acks # {}
    BY <1>3
  <2>3. k \in acks
    <3>. HIDE DEF acks
    <3>1. \E n \in acks : \A m \in acks : n <= m
      BY <2>2, LeastNumber
    <3>2. QED BY <3>1
  <2>4. k \in DOMAIN q /\ dcFate[q[k]] = "ack"
    BY <2>3
  <2>. HIDE DEF k
  <2>5. /\ RemoveAt(q, k) \in Seq(DcBatches)
        /\ Range(RemoveAt(q, k)) \subseteq Range(q)
        /\ Range(q) \subseteq Range(RemoveAt(q, k)) \cup {q[k]}
        /\ Ascending(RemoveAt(q, k))
    BY <1>1, <2>4, OneRemoved
  <2>6. QED BY <2>1, <2>4, <2>5
<1>4. QED BY <1>2, <1>3

\* What follows from the rest: carried commits are in order, and while nothing is left
\* to do the newest batch read is acknowledged.
LEMMA IdleAndOrdered ==
    DcTypeOK /\ OrderInv /\ InFlightInv /\ ModeInv /\ FateInv => CommitsInSourceOrder /\ IdleAcksAll
<1>1. SUFFICES ASSUME DcTypeOK, OrderInv, InFlightInv, ModeInv, FateInv
               PROVE  CommitsInSourceOrder /\ IdleAcksAll
  OBVIOUS
<1>2. CommitsInSourceOrder
  BY <1>1 DEF CommitsInSourceOrder, OrderInv, Ascending
<1>3. IdleAcksAll
  <2>1. SUFFICES ASSUME dcMode \in {"reading", "drained"}, dcHeld = <<>>, dcCall = <<>>,
                        \A d \in DOMAIN dcOut : dcOut[d].state = "settled", NEW b \in 1..dcRead
                 PROVE  \E c \in dcAcked : b <= c
    BY DEF IdleAcksAll
  <2>2. dcRead \in Nat /\ b \in Nat /\ b <= dcRead /\ dcRead > 0
    BY <1>1, <2>1, DeferredBounds DEF DcTypeOK
  <2>3. dcHeld = <<>> /\ dcCall = <<>> /\ dcRunning = <<>>
    BY <1>1, <2>1 DEF ModeInv
  <2>4. \A d \in DOMAIN dcOut : dcOut[d].todo = <<>>
    BY <1>1, <2>1 DEF InFlightInv
  <2>5. Range(<<>>) = {}
    BY NoMessages DEF Range
  <2>6. Carried = {}
    BY <2>4, <2>5 DEF Carried
  <2>7. dcRead \in dcAcked
    BY <1>1, <2>1, <2>2, <2>3, <2>5, <2>6 DEF FateInv
  <2>8. QED BY <2>2, <2>7
<1>4. QED BY <1>2, <1>3

\* in_flight never exceeds the batches read.
LEMMA FewInFlight ==
    dcOut \in Seq(DcDeliveries) /\ dcRead \in Nat /\ InFlightInv => dcInFlight \in 0..dcRead
<1>1. SUFFICES ASSUME dcOut \in Seq(DcDeliveries), dcRead \in Nat, InFlightInv
               PROVE  dcInFlight \in 0..dcRead
  OBVIOUS
<1>. DEFINE open == {d \in DOMAIN dcOut : dcOut[d].state # "settled"}
<1>2. DOMAIN dcOut = 1..Len(dcOut) /\ Len(dcOut) \in Nat /\ Len(dcOut) <= dcRead /\ dcInFlight = Cardinality(open)
  BY <1>1 DEF InFlightInv
<1>3. IsFiniteSet(1..Len(dcOut)) /\ Cardinality(1..Len(dcOut)) = Len(dcOut)
  <2>1. Cardinality(1..Len(dcOut)) = IF 1 > Len(dcOut) THEN 0 ELSE Len(dcOut) - 1 + 1
    BY <1>2, FS_Interval
  <2>2. IsFiniteSet(1..Len(dcOut))
    BY <1>2, FS_Interval
  <2>3. QED BY <1>2, <2>1, <2>2
<1>4. open \subseteq 1..Len(dcOut)
  BY <1>2
<1>5. Cardinality(open) \in Nat /\ Cardinality(open) <= Len(dcOut)
  BY <1>3, <1>4, FS_Subset, FS_CardinalityType
<1>6. QED BY <1>1, <1>2, <1>5

\* A step that hands nothing on.
LEMMA OutStays ==
    ASSUME OrderInv, InFlightInv, DcTypeOK, UNCHANGED <<dcOut, dcInFlight>>,
           dcRead' \in Nat, dcRead <= dcRead',
           Ascending(dcCall'), Ascending(dcHeld'), Ascending(dcRunning'), Precedes(dcCall', dcHeld'),
           Range(dcCall') \cup Range(dcHeld') \cup Range(dcRunning') \cup dcAcked' \subseteq 1..dcRead',
           \A d \in DOMAIN dcOut : Precedes(dcOut[d].todo, dcCall') /\ Precedes(dcOut[d].todo, dcHeld'),
           dcCall' = <<>> \/ Len(dcOut) + 1 <= dcRead'
    PROVE  OrderInv' /\ InFlightInv' /\ Carried' = Carried
<1>1. Carried' = Carried
  BY DEF Carried
<1>2. dcRead \in Nat /\ Len(dcOut) \in Nat /\ Len(dcOut) <= dcRead
  BY DeferredBounds DEF DcTypeOK, InFlightInv
<1>3. 1..dcRead \subseteq 1..dcRead'
  BY <1>2
<1>4. OrderInv'
  BY <1>3 DEF OrderInv
<1>5. InFlightInv'
  BY <1>2 DEF InFlightInv
<1>6. QED BY <1>1, <1>4, <1>5

\* A delivery is handed on, behind the ones before it.
LEMMA HandedOn ==
    ASSUME OrderInv, InFlightInv, DcTypeOK, NEW commits \in Seq(DcBatches), commits # <<>>,
           Deliver(commits), dcRead' \in Nat, dcRead <= dcRead', Len(dcOut) + 1 <= dcRead',
           Ascending(commits), Range(commits) \subseteq 1..dcRead',
           \A d \in DOMAIN dcOut : Precedes(dcOut[d].todo, commits),
           dcHeld' = <<>>, Ascending(dcRunning'), Range(dcRunning') \cup dcAcked' \subseteq 1..dcRead'
    PROVE  /\ OrderInv' /\ InFlightInv' /\ Carried' = Carried \cup Range(commits)
           /\ dcOut' \in Seq(DcDeliveries) /\ dcCall' = <<>> /\ dcGot' = 0
<1>. DEFINE new == [todo |-> commits, state |-> "writing"]
            last == Len(dcOut) + 1
<1>1. new \in DcDeliveries /\ new.todo = commits /\ new.state = "writing"
  BY DEF DcDeliveries
<1>2. /\ dcOut' = Append(dcOut, new) /\ dcInFlight' = dcInFlight + 1
      /\ dcCall' = <<>> /\ dcGot' = 0
      /\ dcOut \in Seq(DcDeliveries) /\ dcRead \in Nat
      /\ DOMAIN dcOut = 1..Len(dcOut) /\ Len(dcOut) \in Nat
  BY DeferredBounds DEF Deliver, DcTypeOK
<1>. HIDE DEF new
<1>3. /\ dcOut' \in Seq(DcDeliveries) /\ Len(dcOut') = last
      /\ DOMAIN dcOut' = 1..last
      /\ \A i \in 1..Len(dcOut) : dcOut'[i] = dcOut[i]
      /\ dcOut'[last] = new
  BY <1>1, <1>2, Appended
<1>4. DOMAIN dcOut' = DOMAIN dcOut \cup {last} /\ last \notin DOMAIN dcOut /\ \A d \in DOMAIN dcOut : d < last
  BY <1>2, <1>3
<1>5. Range(<<>>) = {} /\ Ascending(<<>>)
  BY NoMessages DEF Range, Ascending
<1>6. Carried' = Carried \cup Range(commits)
  BY <1>1, <1>2, <1>3, <1>4 DEF Carried
<1>7. OrderInv'
  <2>0. 1..dcRead \subseteq 1..dcRead'
    BY <1>2
  <2>1. /\ Ascending(dcCall') /\ Ascending(dcHeld') /\ Ascending(dcRunning')
        /\ Precedes(dcCall', dcHeld')
        /\ Range(dcCall') \cup Range(dcHeld') \cup Range(dcRunning') \cup dcAcked' \subseteq 1..dcRead'
        /\ \A q : Precedes(q, dcCall') /\ Precedes(q, dcHeld')
    BY <1>2, <1>5 DEF Precedes
  <2>2. \A d \in DOMAIN dcOut' : /\ Ascending(dcOut'[d].todo)
                                 /\ Range(dcOut'[d].todo) \subseteq 1..dcRead'
    BY <1>1, <1>2, <1>3, <1>4, <2>0 DEF OrderInv
  <2>3. ASSUME NEW d \in DOMAIN dcOut', NEW e \in DOMAIN dcOut', d < e
        PROVE  Precedes(dcOut'[d].todo, dcOut'[e].todo)
    <3>1. d \in DOMAIN dcOut /\ dcOut'[d] = dcOut[d]
      BY <1>2, <1>3, <2>3
    <3>2. CASE e = last
      BY <1>1, <1>3, <3>1, <3>2
    <3>3. CASE e \in DOMAIN dcOut
      BY <1>2, <1>3, <2>3, <3>1, <3>3 DEF OrderInv
    <3>4. QED BY <1>4, <3>2, <3>3
  <2>4. QED BY <2>1, <2>2, <2>3 DEF OrderInv
<1>8. InFlightInv'
  <2>. DEFINE open == {d \in DOMAIN dcOut : dcOut[d].state # "settled"}
  <2>1. {d \in DOMAIN dcOut' : dcOut'[d].state # "settled"} = open \cup {last}
    BY <1>1, <1>2, <1>3, <1>4
  <2>2. IsFiniteSet(1..Len(dcOut)) /\ open \subseteq 1..Len(dcOut)
    BY <1>2, FS_Interval
  <2>3. IsFiniteSet(open) /\ last \notin open
    BY <1>4, <2>2, FS_Subset
  <2>4. Cardinality(open \cup {last}) = Cardinality(open) + 1
    BY <2>3, FS_AddElement
  <2>5. dcInFlight' = Cardinality({d \in DOMAIN dcOut' : dcOut'[d].state # "settled"})
    BY <1>2, <2>1, <2>4 DEF InFlightInv
  <2>6. \A d \in DOMAIN dcOut' : dcOut'[d].state = "settled" <=> dcOut'[d].todo = <<>>
    BY <1>1, <1>2, <1>3, <1>4 DEF InFlightInv
  <2>7. Len(dcOut') + (IF dcCall' = <<>> THEN 0 ELSE 1) <= dcRead'
    BY <1>2, <1>3
  <2>8. QED BY <2>5, <2>6, <2>7 DEF InFlightInv
<1>9. QED BY <1>2, <1>3, <1>6, <1>7, <1>8
\* The parts of the invariant that have to be shown of a step.
DcParts == DcTypeOK /\ OrderInv /\ InFlightInv /\ ModeInv /\ FateInv /\ OnlyEmptyOvertakes /\ RepliesKept

LEMMA PartsSuffice == DcParts <=> DcInv
BY IdleAndOrdered DEF DcParts, DcInv, DeferredCommitsInv

LEMMA NothingHeld == Range(<<>>) = {} /\ Ascending(<<>>) /\ \A q : Precedes(q, <<>>) /\ Precedes(<<>>, q)
<1>1. Range(<<>>) = {}
  BY NoMessages DEF Range
<1>2. QED BY <1>1, NoMessages DEF Ascending, Precedes

\* The shape of what is collected, held, running and handed on.
LEMMA DeferredShapes ==
    ASSUME DcParts
    PROVE  /\ dcRead \in Nat /\ dcRead <= SourceBatches /\ DcBatches \in SUBSET Nat
           /\ 1..dcRead \subseteq DcBatches
           /\ dcCall \in Seq(DcBatches) /\ dcHeld \in Seq(DcBatches) /\ dcRunning \in Seq(DcBatches)
           /\ dcOut \in Seq(DcDeliveries) /\ Len(dcOut) \in Nat /\ DOMAIN dcOut = 1..Len(dcOut)
           /\ \A d \in DOMAIN dcOut : dcOut[d] \in DcDeliveries
           /\ dcFate \in [DcBatches -> {"unread", "kept", "ack", "reply"}]
           /\ dcAcked \subseteq 1..dcRead
           /\ dcCall \o dcHeld \in Seq(DcBatches) /\ Ascending(dcCall \o dcHeld)
           /\ Range(dcCall \o dcHeld) = Range(dcCall) \cup Range(dcHeld)
           /\ Range(dcCall \o dcHeld) \subseteq 1..dcRead
           /\ \A d \in DOMAIN dcOut : Precedes(dcOut[d].todo, dcCall \o dcHeld)
           /\ \A d \in DOMAIN dcOut : \A b \in Range(dcOut[d].todo) : b \in 1..dcRead
           /\ dcCall # <<>> => dcCall \o dcHeld # <<>> /\ Len(dcOut) + 1 <= dcRead
<1>1. /\ dcRead \in Nat /\ dcRead <= SourceBatches /\ DcBatches \in SUBSET Nat
      /\ 1..dcRead \subseteq DcBatches
  BY DeferredBounds DEF DcParts, DcTypeOK, DcBatches
<1>2. /\ dcCall \in Seq(DcBatches) /\ dcHeld \in Seq(DcBatches) /\ dcRunning \in Seq(DcBatches)
      /\ dcOut \in Seq(DcDeliveries)
      /\ dcFate \in [DcBatches -> {"unread", "kept", "ack", "reply"}]
  BY DEF DcParts, DcTypeOK
<1>3. Len(dcOut) \in Nat /\ DOMAIN dcOut = 1..Len(dcOut) /\ \A d \in DOMAIN dcOut : dcOut[d] \in DcDeliveries
  BY <1>2
<1>4. /\ Ascending(dcCall) /\ Ascending(dcHeld) /\ Precedes(dcCall, dcHeld)
      /\ dcAcked \cup Range(dcCall) \cup Range(dcHeld) \subseteq 1..dcRead
      /\ \A d \in DOMAIN dcOut : /\ Precedes(dcOut[d].todo, dcCall) /\ Precedes(dcOut[d].todo, dcHeld)
                                 /\ \A b \in Range(dcOut[d].todo) : b \in 1..dcRead
  BY DEF DcParts, OrderInv
<1>. DEFINE all == dcCall \o dcHeld
<1>5. /\ all \in Seq(DcBatches) /\ Ascending(all) /\ Range(all) = Range(dcCall) \cup Range(dcHeld)
      /\ dcCall # <<>> => all # <<>>
  <2>1. /\ dcCall \o dcHeld \in Seq(DcBatches)
        /\ Range(dcCall \o dcHeld) = Range(dcCall) \cup Range(dcHeld)
        /\ dcCall # <<>> => dcCall \o dcHeld # <<>>
    BY <1>2, Concatenated
  <2>2. Ascending(dcCall \o dcHeld)
    BY <1>1, <1>2, <1>4, Concatenated
  <2>3. QED BY <2>1, <2>2
<1>. HIDE DEF all
<1>6. \A d \in DOMAIN dcOut : Precedes(dcOut[d].todo, all)
  BY <1>4, <1>5 DEF Precedes
<1>7. dcCall # <<>> => Len(dcOut) + 1 <= dcRead
  BY DEF DcParts, InFlightInv
<1>8. QED BY <1>1, <1>2, <1>3, <1>4, <1>5, <1>6, <1>7 DEF all

\* A primed use of FewInFlight.
OutShaped == dcOut \in Seq(DcDeliveries) /\ dcRead \in Nat

LEMMA FewInFlightShaped == OutShaped /\ InFlightInv => dcInFlight \in 0..dcRead
BY FewInFlight DEF OutShaped

LEMMA FewInFlightAfter ==
    ASSUME dcOut' \in Seq(DcDeliveries), dcRead' \in Nat, InFlightInv'
    PROVE  dcInFlight' \in 0..dcRead'
<1>1. OutShaped'
  BY DEF OutShaped
<1>2. (dcInFlight \in 0..dcRead)'
  BY <1>1, FewInFlightShaped, PTL
<1>3. QED BY <1>2

LEMMA DeferredStarts == DcInit => DcParts
<1>. USE DeferredBounds
<1>1. SUFFICES ASSUME DcInit PROVE DcParts
  OBVIOUS
<1>2. dcOut = <<>> /\ DOMAIN dcOut = {} /\ Len(dcOut) = 0 /\ Carried = {}
  BY <1>1, NoMessages DEF DcInit, Carried
<1>3. DcTypeOK
  BY <1>1, <1>2 DEF DcInit, DcTypeOK
<1>4. OrderInv /\ ModeInv
  BY <1>1, <1>2, NothingHeld DEF DcInit, OrderInv, ModeInv
<1>5. InFlightInv
  BY <1>1, <1>2, FS_EmptySet DEF DcInit, InFlightInv
<1>6. FateInv /\ OnlyEmptyOvertakes /\ RepliesKept
  BY <1>1 DEF DcInit, FateInv, OnlyEmptyOvertakes, RepliesKept, DcBatches
<1>7. QED BY <1>3, <1>4, <1>5, <1>6 DEF DcParts

\* A batch of which something passes: collected with what was held before it, or handed on.
LEMMA KeptKeeps ==
    ASSUME DcParts, ReceiveKept
    PROVE  DcParts'
<1>. USE DeferredBounds
<1>. DEFINE b == dcRead + 1
            prefix == dcCall \o dcHeld
            commits == Append(prefix, b)
<1>0. /\ dcRead \in Nat /\ dcRead < SourceBatches /\ b \in DcBatches /\ DcBatches \in SUBSET Nat
      /\ dcCall \in Seq(DcBatches) /\ dcHeld \in Seq(DcBatches)
      /\ dcFate \in [DcBatches -> {"unread", "kept", "ack", "reply"}]
      /\ dcGot \in Nat /\ dcMode = "reading" /\ dcRunning = <<>>
      /\ dcOut \in Seq(DcDeliveries) /\ Len(dcOut) \in Nat
  <2>1. dcRead < SourceBatches /\ dcMode = "reading" /\ dcGot \in Nat
    BY DEF ReceiveKept, DcParts, DcTypeOK
  <2>2. dcRunning = <<>>
    BY <2>1 DEF DcParts, ModeInv
  <2>3. dcRead \in Nat
    BY DeferredShapes
  <2>4. b \in DcBatches
    BY <2>1, <2>3 DEF DcBatches
  <2>5. QED BY <2>1, <2>2, <2>4, DeferredShapes
<1>1. /\ UNCHANGED <<dcFills, dcExits, dcMode, dcRunning, dcAcked, dcEarly>>
      /\ dcRead' = b /\ dcHeld' = <<>>
      /\ dcFate' = [dcFate EXCEPT ![b] = "kept"]
      /\ \/ dcFills /\ dcCall' = commits /\ dcGot' \in 0..DcTarget /\ UNCHANGED <<dcOut, dcInFlight>>
         \/ Deliver(commits)
  <2>1. UNCHANGED <<dcFills, dcExits>>
    BY DEF ReceiveKept, dcConf
  <2>2. UNCHANGED <<dcMode, dcRunning, dcAcked, dcEarly>> /\ dcRead' = b /\ dcHeld' = <<>>
    BY DEF ReceiveKept
  <2>3. dcFate' = [dcFate EXCEPT ![b] = "kept"]
    BY DEF ReceiveKept
  <2>4. \/ dcFills /\ dcCall' = commits /\ dcGot' \in 0..DcTarget /\ UNCHANGED <<dcOut, dcInFlight>>
        \/ Deliver(commits)
    BY <1>0 DEF ReceiveKept
  <2>5. QED BY <2>1, <2>2, <2>3, <2>4
<1>2. /\ prefix \in Seq(DcBatches) /\ Ascending(prefix)
      /\ Range(prefix) = Range(dcCall) \cup Range(dcHeld)
      /\ \A d \in DOMAIN dcOut : Precedes(dcOut[d].todo, prefix)
  BY DeferredShapes
<1>3. Range(prefix) \subseteq 1..dcRead /\ dcAcked \subseteq 1..dcRead
  BY DeferredShapes
<1>. HIDE DEF prefix
<1>4. /\ commits \in Seq(DcBatches) /\ commits # <<>>
      /\ Range(commits) = Range(prefix) \cup {b}
  BY <1>0, <1>2, Appended
<1>5. Ascending(commits)
  <2>1. \A y \in Range(prefix) : y < b
    BY <1>0, <1>3
  <2>. HIDE DEF b
  <2>2. QED BY <1>0, <1>2, <2>1, AppendedAscends
<1>6. 1..b = 1..dcRead \cup {b} /\ b \notin 1..dcRead
  BY <1>0
<1>7. \A d \in DOMAIN dcOut : Precedes(dcOut[d].todo, commits)
  <2>1. \A d \in DOMAIN dcOut : \A x \in Range(dcOut[d].todo) : x \in 1..dcRead
    BY DeferredShapes
  <2>2. \A x \in 1..dcRead : x < b
    BY <1>0
  <2>. HIDE DEF b, commits
  <2>3. QED BY <1>2, <1>4, <2>1, <2>2 DEF Precedes
<1>8. Len(dcOut) + 1 <= b
  BY <1>0 DEF DcParts, InFlightInv
<1>. HIDE DEF b, commits
<1>9. /\ OrderInv' /\ InFlightInv' /\ dcOut' \in Seq(DcDeliveries)
      /\ dcGot' \in 0..DcTarget /\ dcCall' \in Seq(DcBatches)
      /\ \/ dcFills /\ Carried' = Carried /\ dcCall' = commits
         \/ Carried' = Carried \cup Range(commits) /\ dcCall' = <<>>
  <2>0. b \in Nat /\ dcRead <= b
    BY <1>0 DEF b
  <2>1. CASE dcFills /\ dcCall' = commits /\ dcGot' \in 0..DcTarget /\ UNCHANGED <<dcOut, dcInFlight>>
    <3>1. OrderInv' /\ InFlightInv' /\ Carried' = Carried
      BY <1>0, <1>1, <1>3, <1>4, <1>5, <1>6, <1>7, <1>8, <2>0, <2>1, NothingHeld, OutStays DEF DcParts
    <3>2. QED BY <1>0, <1>4, <2>1, <3>1
  <2>2. CASE Deliver(commits)
    <3>1. /\ OrderInv' /\ InFlightInv' /\ Carried' = Carried \cup Range(commits)
          /\ dcOut' \in Seq(DcDeliveries) /\ dcCall' = <<>> /\ dcGot' = 0
      BY <1>0, <1>1, <1>3, <1>4, <1>5, <1>6, <1>7, <1>8, <2>0, <2>2, NothingHeld, HandedOn DEF DcParts
    <3>2. QED BY <1>0, <3>1
  <2>3. QED BY <1>1, <2>1, <2>2
<1>10. dcInFlight' \in 0..SourceBatches /\ dcRead' \in 0..SourceBatches
  <2>1. dcRead' \in Nat /\ dcRead' <= SourceBatches
    BY <1>0, <1>1 DEF b
  <2>2. dcInFlight' \in 0..dcRead'
    BY <1>9, <2>1, FewInFlightAfter
  <2>3. QED BY <2>1, <2>2
<1>11. DcTypeOK'
  BY <1>0, <1>1, <1>9, <1>10, EmptySeq DEF DcParts, DcTypeOK
<1>12. ModeInv'
  BY <1>0, <1>1, <1>9 DEF DcParts, ModeInv
<1>13. FateInv'
  <2>1. \A x \in DcBatches : /\ dcFate'[x] = IF x = b THEN "kept" ELSE dcFate[x]
                             /\ x > dcRead' <=> (x > dcRead /\ x # b)
    BY <1>0, <1>1 DEF b
  <2>2. b \in Range(commits) /\ b > dcRead
    BY <1>0, <1>4 DEF b
  <2>3. ~dcFills => b \in Carried'
    BY <1>0, <1>1, <1>9, <2>2 DEF DcParts, ModeInv
  <2>4. Carried \subseteq Carried'
    BY <1>9
  <2>5. \A x \in DcBatches : /\ dcFate'[x] = "unread" <=> x > dcRead'
                             /\ dcFate'[x] = "reply" => ~dcFills
                             /\ dcFate'[x] = "kept" /\ ~dcFills => x \in dcAcked \cup Carried'
    BY <2>1, <2>2, <2>3, <2>4 DEF DcParts, FateInv
  <2>6. dcRead' \in Carried' \cup Range(dcCall')
    BY <1>1, <1>9, <2>2
  <2>7. QED BY <1>1, <2>5, <2>6 DEF FateInv
<1>14. OnlyEmptyOvertakes'
  <2>1. SUFFICES ASSUME ~dcFills, NEW c \in dcAcked \ dcEarly, NEW x \in 1..(c - 1), dcFate'[x] = "kept"
                 PROVE  x \in dcAcked
    BY <1>1 DEF OnlyEmptyOvertakes
  <2>2. x # b /\ x \in DcBatches
    BY <1>0, <1>3, <2>1 DEF b, DcBatches
  <2>3. dcFate[x] = "kept"
    BY <1>0, <1>1, <2>1, <2>2
  <2>4. QED BY <1>0, <2>1, <2>3 DEF DcParts, OnlyEmptyOvertakes
<1>15. RepliesKept'
  <2>1. SUFFICES ASSUME NEW x \in DcBatches, dcFate'[x] = "reply"
                 PROVE  x \in dcAcked \cup Carried'
    BY <1>1 DEF RepliesKept
  <2>2. dcFate[x] = "reply"
    BY <1>0, <1>1, <2>1
  <2>3. ~dcFills /\ x \in dcAcked \cup Range(dcHeld) \cup Carried
    BY <1>0, <2>2, NothingHeld DEF DcParts, RepliesKept, FateInv
  <2>4. QED BY <1>2, <1>4, <1>9, <2>3
<1>16. QED BY <1>9, <1>11, <1>12, <1>13, <1>14, <1>15 DEF DcParts

\* Without deliveries in flight nothing is carried.
LEMMA NoneInFlight ==
    ASSUME DcParts, dcInFlight = 0
    PROVE  Carried = {} /\ \A d \in DOMAIN dcOut : dcOut[d].todo = <<>>
<1>. DEFINE open == {d \in DOMAIN dcOut : dcOut[d].state # "settled"}
<1>1. dcInFlight = Cardinality(open) /\ \A d \in DOMAIN dcOut : dcOut[d].state = "settled" <=> dcOut[d].todo = <<>>
  BY DEF DcParts, InFlightInv
<1>2. DOMAIN dcOut = 1..Len(dcOut) /\ Len(dcOut) \in Nat
  BY DeferredShapes
<1>3. IsFiniteSet(open)
  <2>1. IsFiniteSet(1..Len(dcOut))
    BY <1>2, FS_Interval
  <2>2. QED BY <1>2, <2>1, FS_Subset
<1>4. open = {}
  BY <1>1, <1>3, FS_EmptySet
<1>5. QED BY <1>1, <1>4, NothingHeld DEF Carried

\* A batch the middleware emptied is held behind what is in flight, or runs now.
LEMMA EmptiedKeeps ==
    ASSUME DcParts, ReceiveEmptied
    PROVE  DcParts'
<1>. USE DeferredBounds
<1>. DEFINE b == dcRead + 1
            held == DropOldestAck(dcHeld)
<1>0. /\ dcRead \in Nat /\ dcRead < SourceBatches /\ b \in DcBatches /\ DcBatches \in SUBSET Nat
      /\ dcCall \in Seq(DcBatches) /\ dcHeld \in Seq(DcBatches)
      /\ dcFate \in [DcBatches -> {"unread", "kept", "ack", "reply"}]
      /\ dcMode = "reading" /\ dcRunning = <<>>
  <2>1. dcRead < SourceBatches /\ dcMode = "reading"
    BY DEF ReceiveEmptied
  <2>2. dcRunning = <<>>
    BY <2>1 DEF DcParts, ModeInv
  <2>3. dcRead \in Nat
    BY DeferredShapes
  <2>4. b \in DcBatches
    BY <2>1, <2>3 DEF DcBatches
  <2>5. QED BY <2>1, <2>2, <2>4, DeferredShapes
<1>1. PICK fate \in {"ack", "reply"} : dcFate' = [dcFate EXCEPT ![b] = fate] /\ (fate = "reply" => ~dcFills)
  BY DEF ReceiveEmptied
<1>2. /\ UNCHANGED <<dcFills, dcExits, dcCall, dcGot, dcOut, dcInFlight, dcAcked, dcEarly>>
      /\ dcRead' = b
      /\ \/ /\ dcInFlight = 0 /\ dcRunning' = Append(dcHeld, b)
            /\ dcHeld' = <<>> /\ dcMode' = "flushing"
         \/ dcHeld' = Append(held, b) /\ UNCHANGED <<dcRunning, dcMode>>
  BY DEF ReceiveEmptied, Hold, dcConf
<1>3. /\ held \in Seq(DcBatches) /\ Ascending(held) /\ Range(held) \subseteq Range(dcHeld)
      /\ \A x \in Range(dcHeld) : dcFate[x] # "ack" => x \in Range(held)
  BY <1>0, OldestAckDropped DEF DcParts, OrderInv
<1>4. /\ Ascending(dcHeld) /\ Ascending(dcCall) /\ Precedes(dcCall, dcHeld)
      /\ Range(dcHeld) \subseteq 1..dcRead /\ Range(dcCall) \subseteq 1..dcRead /\ dcAcked \subseteq 1..dcRead
      /\ \A d \in DOMAIN dcOut : /\ Precedes(dcOut[d].todo, dcCall) /\ Precedes(dcOut[d].todo, dcHeld)
                                 /\ Range(dcOut[d].todo) \subseteq 1..dcRead
  BY DEF DcParts, OrderInv
<1>5. 1..b = 1..dcRead \cup {b} /\ b \notin 1..dcRead /\ \A x \in 1..dcRead : x < b
  BY <1>0
<1>6. b \in Nat /\ dcRead <= b /\ b <= SourceBatches
  BY <1>0
<1>7. dcCall = <<>> \/ Len(dcOut) + 1 <= b
  <2>1. dcCall = <<>> \/ Len(dcOut) + 1 <= dcRead
    BY DeferredShapes
  <2>2. Len(dcOut) \in Nat
    BY DeferredShapes
  <2>3. QED BY <1>0, <2>1, <2>2
<1>. HIDE DEF b, held
<1>8. ASSUME NEW q \in {held, dcHeld}
      PROVE  /\ Append(q, b) \in Seq(DcBatches) /\ Append(q, b) # <<>> /\ Ascending(Append(q, b))
             /\ Range(Append(q, b)) = Range(q) \cup {b} /\ Range(Append(q, b)) \subseteq 1..b
             /\ Precedes(dcCall, Append(q, b))
             /\ \A d \in DOMAIN dcOut : Precedes(dcOut[d].todo, Append(q, b))
  <2>1. q \in Seq(DcBatches) /\ Ascending(q) /\ Range(q) \subseteq Range(dcHeld)
    BY <1>0, <1>3, <1>4
  <2>2. \A y \in Range(q) : y < b
    BY <1>4, <1>5, <2>1
  <2>3. /\ Append(q, b) \in Seq(DcBatches) /\ Append(q, b) # <<>> /\ Range(Append(q, b)) = Range(q) \cup {b}
    BY <1>0, <2>1, Appended
  <2>4. Ascending(Append(q, b))
    BY <1>0, <2>1, <2>2, AppendedAscends
  <2>5. Range(Append(q, b)) \subseteq 1..b
    BY <1>4, <1>5, <2>1, <2>3
  <2>6. /\ Precedes(dcCall, Append(q, b))
        /\ \A d \in DOMAIN dcOut : Precedes(dcOut[d].todo, Append(q, b))
    BY <1>4, <1>5, <2>1, <2>3 DEF Precedes
  <2>7. QED BY <2>3, <2>4, <2>5, <2>6
<1>9. /\ dcHeld' \in Seq(DcBatches) /\ dcRunning' \in Seq(DcBatches)
      /\ Ascending(dcHeld') /\ Ascending(dcRunning') /\ Precedes(dcCall, dcHeld')
      /\ Range(dcHeld') \cup Range(dcRunning') \subseteq 1..b
      /\ \A d \in DOMAIN dcOut : Precedes(dcOut[d].todo, dcHeld')
      /\ b \in Range(dcHeld') \cup Range(dcRunning')
      /\ \A x \in Range(dcHeld) : dcFate[x] # "ack" => x \in Range(dcHeld') \cup Range(dcRunning')
  BY <1>0, <1>2, <1>3, <1>8, NothingHeld, EmptySeq
<1>10. OrderInv' /\ InFlightInv' /\ Carried' = Carried
  <2>1. Range(dcCall) \subseteq 1..b /\ dcAcked \subseteq 1..b
    BY <1>4, <1>5
  <2>2. QED BY <1>2, <1>4, <1>6, <1>7, <1>9, <2>1, OutStays DEF DcParts
<1>11. DcTypeOK'
  BY <1>0, <1>1, <1>2, <1>6, <1>9 DEF DcParts, DcTypeOK
<1>12. ModeInv'
  BY <1>0, <1>2 DEF DcParts, ModeInv
<1>13. \A x \in DcBatches : /\ dcFate'[x] = IF x = b THEN fate ELSE dcFate[x]
                            /\ x > dcRead' <=> (x > dcRead /\ x # b)
  BY <1>0, <1>1, <1>2 DEF b
<1>14. b > dcRead
  BY <1>0 DEF b
<1>15. FateInv'
  <2>1. \A x \in DcBatches : /\ dcFate'[x] = "unread" <=> x > dcRead'
                             /\ dcFate'[x] = "reply" => ~dcFills
                             /\ dcFate'[x] = "kept" /\ ~dcFills => x \in dcAcked \cup Carried
    BY <1>1, <1>13, <1>14 DEF DcParts, FateInv
  <2>2. QED BY <1>2, <1>9, <1>10, <2>1 DEF FateInv
<1>16. OnlyEmptyOvertakes'
  <2>1. SUFFICES ASSUME ~dcFills, NEW c \in dcAcked \ dcEarly, NEW x \in 1..(c - 1), dcFate'[x] = "kept"
                 PROVE  x \in dcAcked
    BY <1>2 DEF OnlyEmptyOvertakes
  <2>2. x \in DcBatches
    BY <1>0, <1>4, <2>1 DEF DcBatches
  <2>3. dcFate[x] = "kept"
    BY <1>1, <1>13, <2>1, <2>2
  <2>4. QED BY <1>0, <2>1, <2>3 DEF DcParts, OnlyEmptyOvertakes
<1>17. RepliesKept'
  <2>1. SUFFICES ASSUME NEW x \in DcBatches, dcFate'[x] = "reply"
                 PROVE  x \in dcAcked \cup Range(dcHeld') \cup Range(dcRunning') \cup Carried
    BY <1>2, <1>10 DEF RepliesKept
  <2>2. CASE x = b
    BY <1>9, <2>2
  <2>3. CASE x # b
    <3>1. dcFate[x] = "reply"
      BY <1>13, <2>1, <2>3
    <3>2. x \in dcAcked \cup Range(dcHeld) \cup Carried
      BY <1>0, <3>1, NothingHeld DEF DcParts, RepliesKept
    <3>3. QED BY <1>9, <3>1, <3>2
  <2>4. QED BY <2>2, <2>3
<1>18. QED BY <1>10, <1>11, <1>12, <1>15, <1>16, <1>17 DEF DcParts

\* A step that reads nothing, hands nothing on and acknowledges nothing.
LEMMA QuietStep ==
    ASSUME DcParts, UNCHANGED <<dcFills, dcExits, dcRead, dcFate, dcGot, dcOut, dcInFlight, dcAcked, dcEarly>>,
           dcMode' \in {"reading", "flushing", "draining", "drained", "failed", "leaving", "gone"},
           dcCall' \in {dcCall, <<>>},
           dcHeld' \in Seq(DcBatches), Ascending(dcHeld'), Precedes(dcCall', dcHeld'),
           dcRunning' \in Seq(DcBatches), Ascending(dcRunning'),
           Range(dcHeld') \cup Range(dcRunning') \subseteq 1..dcRead,
           \A d \in DOMAIN dcOut : Precedes(dcOut[d].todo, dcHeld')
    PROVE  /\ DcTypeOK' /\ OrderInv' /\ InFlightInv' /\ Carried' = Carried
           /\ \A b \in DcBatches : /\ dcFate'[b] = "unread" <=> b > dcRead'
                                   /\ dcFate'[b] = "reply" => ~dcFills'
                                   /\ dcFate'[b] = "kept" /\ ~dcFills' => b \in dcAcked' \cup Carried'
<1>1. dcRead \in Nat /\ dcRead <= dcRead /\ dcAcked \subseteq 1..dcRead /\ dcCall \in Seq(DcBatches)
  BY DeferredShapes
<1>2. /\ Ascending(dcCall') /\ Range(dcCall') \subseteq 1..dcRead
      /\ \A d \in DOMAIN dcOut : Precedes(dcOut[d].todo, dcCall')
  BY NothingHeld DEF DcParts, OrderInv
<1>3. dcCall' = <<>> \/ Len(dcOut) + 1 <= dcRead'
  BY DeferredShapes
<1>4. OrderInv' /\ InFlightInv' /\ Carried' = Carried
  BY <1>1, <1>2, <1>3, OutStays DEF DcParts
<1>5. DcTypeOK'
  BY <1>1, EmptySeq DEF DcParts, DcTypeOK
<1>6. QED BY <1>4, <1>5 DEF DcParts, FateInv

\* An empty batch.
LEMMA NoneKeeps ==
    ASSUME DcParts, ReceiveNone
    PROVE  DcParts'
<1>0. /\ dcMode = "reading" /\ dcRunning = <<>> /\ dcHeld' = <<>>
      /\ UNCHANGED <<dcFills, dcExits, dcRead, dcFate, dcAcked, dcEarly>>
  BY DEF ReceiveNone, DcParts, ModeInv, dcConf
<1>1. CASE dcCall = <<>>
  <2>1. dcRunning' = dcHeld /\ dcMode' = "draining" /\ UNCHANGED <<dcOut, dcInFlight, dcCall, dcGot>>
    BY <1>1 DEF ReceiveNone
  <2>2. /\ Ascending(dcHeld) /\ Range(dcHeld) \subseteq 1..dcRead /\ dcHeld \in Seq(DcBatches)
    BY DEF DcParts, OrderInv, DcTypeOK
  <2>3. /\ DcTypeOK' /\ OrderInv' /\ InFlightInv' /\ Carried' = Carried
        /\ \A b \in DcBatches : /\ dcFate'[b] = "unread" <=> b > dcRead'
                                /\ dcFate'[b] = "reply" => ~dcFills'
                                /\ dcFate'[b] = "kept" /\ ~dcFills' => b \in dcAcked' \cup Carried'
    BY <1>0, <2>1, <2>2, NothingHeld, EmptySeq, QuietStep
  <2>4. ModeInv' /\ OnlyEmptyOvertakes'
    BY <1>0, <1>1, <2>1 DEF DcParts, ModeInv, OnlyEmptyOvertakes
  <2>5. RepliesKept'
    BY <1>0, <2>1, <2>3, NothingHeld DEF DcParts, RepliesKept
  <2>6. FateInv'
    BY <1>0, <2>1, <2>3, NothingHeld DEF DcParts, FateInv
  <2>7. QED BY <2>3, <2>4, <2>5, <2>6 DEF DcParts
<1>2. CASE dcCall # <<>>
  <2>. DEFINE commits == dcCall \o dcHeld
  <2>1. Deliver(commits) /\ UNCHANGED <<dcMode, dcRunning>> /\ dcFills
    BY <1>2 DEF ReceiveNone, DcParts, ModeInv
  <2>2. /\ commits \in Seq(DcBatches) /\ commits # <<>> /\ Ascending(commits)
        /\ Range(commits) = Range(dcCall) \cup Range(dcHeld) /\ Range(commits) \subseteq 1..dcRead
        /\ \A d \in DOMAIN dcOut : Precedes(dcOut[d].todo, commits)
        /\ dcRead \in Nat /\ Len(dcOut) + 1 <= dcRead /\ dcAcked \subseteq 1..dcRead
        /\ dcRead <= SourceBatches
    BY <1>2, DeferredShapes
  <2>. HIDE DEF commits
  <2>3. /\ OrderInv' /\ InFlightInv' /\ Carried' = Carried \cup Range(commits)
        /\ dcOut' \in Seq(DcDeliveries) /\ dcCall' = <<>> /\ dcGot' = 0
    <3>1. OrderInv /\ InFlightInv /\ DcTypeOK
      BY DEF DcParts
    <3>2. /\ dcRead' \in Nat /\ dcRead <= dcRead' /\ Len(dcOut) + 1 <= dcRead'
          /\ Range(commits) \subseteq 1..dcRead' /\ Ascending(dcRunning')
          /\ Range(dcRunning') \cup dcAcked' \subseteq 1..dcRead'
      <4>1. dcRead' = dcRead /\ dcAcked' = dcAcked /\ dcRunning' = <<>>
        BY <1>0, <2>1
      <4>2. Ascending(dcRunning') /\ Range(dcRunning') = {}
        BY <4>1, NothingHeld
      <4>3. dcRead' \in Nat /\ dcRead <= dcRead' /\ Len(dcOut) + 1 <= dcRead'
        BY <2>2, <4>1
      <4>4. Range(commits) \subseteq 1..dcRead' /\ dcAcked' \subseteq 1..dcRead'
        BY <2>2, <4>1, Zenon
      <4>5. Range(dcRunning') \cup dcAcked' \subseteq 1..dcRead'
        BY <4>2, <4>4, Zenon
      <4>6. QED BY <4>2, <4>3, <4>4, <4>5, Zenon
    <3>3. QED BY <1>0, <2>1, <2>2, <3>1, <3>2, HandedOn
  <2>4. dcInFlight' \in 0..SourceBatches
    <3>1. dcInFlight' \in 0..dcRead'
      BY <1>0, <2>2, <2>3, FewInFlightAfter
    <3>2. QED BY <1>0, <2>2, <3>1, DeferredBounds
  <2>5. DcTypeOK'
    BY <1>0, <2>1, <2>3, <2>4, EmptySeq, DeferredBounds DEF DcParts, DcTypeOK
  <2>6. ModeInv' /\ OnlyEmptyOvertakes'
    BY <1>0, <2>1, <2>3 DEF DcParts, ModeInv, OnlyEmptyOvertakes
  <2>7. RepliesKept'
    BY <1>0, <2>1, <2>2, <2>3, NothingHeld DEF DcParts, RepliesKept
  <2>8. FateInv'
    BY <1>0, <2>1, <2>2, <2>3, NothingHeld DEF DcParts, FateInv
  <2>9. QED BY <2>3, <2>5, <2>6, <2>7, <2>8 DEF DcParts
<1>3. QED BY <1>1, <1>2

\* The call ends with an error, the last held commit has run, or the consumer disconnects.
LEMMA EndingKeeps ==
    ASSUME DcParts, ReceiveFails \/ RunHeldFails \/ HeldDone \/ Disconnect
    PROVE  DcParts'
<1>1. UNCHANGED <<dcFills, dcExits, dcRead, dcFate, dcGot, dcOut, dcInFlight, dcAcked, dcEarly>>
  BY DEF ReceiveFails, RunHeldFails, HeldDone, Disconnect, dcConf
<1>2. /\ dcRunning \in Seq(DcBatches) /\ dcHeld \in Seq(DcBatches) /\ DcBatches \in SUBSET Nat
  BY DeferredShapes
<1>3. /\ Ascending(dcHeld) /\ Ascending(dcRunning) /\ Precedes(dcCall, dcHeld)
      /\ Range(dcHeld) \cup Range(dcRunning) \subseteq 1..dcRead
      /\ \A d \in DOMAIN dcOut : Precedes(dcOut[d].todo, dcHeld)
  BY DEF DcParts, OrderInv
<1>4. dcRunning # <<>> => /\ Tail(dcRunning) \in Seq(DcBatches) /\ Ascending(Tail(dcRunning))
                          /\ Range(Tail(dcRunning)) \subseteq Range(dcRunning)
  BY <1>2, <1>3, HeadTaken
<1>5. dcMode = "flushing" => \A d \in DOMAIN dcOut : \A q : Precedes(dcOut[d].todo, q)
  <2>1. dcMode = "flushing" => dcInFlight = 0
    BY DEF DcParts, ModeInv
  <2>2. dcMode = "flushing" => \A d \in DOMAIN dcOut : dcOut[d].todo = <<>>
    BY <2>1, NoneInFlight
  <2>3. QED BY <2>2, NothingHeld
<1>6. /\ dcMode' \in {"reading", "flushing", "draining", "drained", "failed", "leaving", "gone"}
      /\ dcCall' \in {dcCall, <<>>}
      /\ dcHeld' \in Seq(DcBatches) /\ Ascending(dcHeld') /\ Precedes(dcCall', dcHeld')
      /\ dcRunning' \in Seq(DcBatches) /\ Ascending(dcRunning')
      /\ Range(dcHeld') \cup Range(dcRunning') \subseteq 1..dcRead
      /\ \A d \in DOMAIN dcOut : Precedes(dcOut[d].todo, dcHeld')
  <2>1. CASE ReceiveFails
    BY <1>2, <1>3, <2>1, NothingHeld DEF ReceiveFails
  <2>2. CASE RunHeldFails
    BY <1>2, <1>3, <1>4, <1>5, <2>2, NothingHeld, EmptySeq DEF RunHeldFails
  <2>3. CASE HeldDone
    BY <1>2, <1>3, <2>3 DEF HeldDone
  <2>4. CASE Disconnect
    BY <1>2, <1>3, <1>4, <2>4, NothingHeld, EmptySeq DEF Disconnect
  <2>5. QED BY <2>1, <2>2, <2>3, <2>4
<1>7. /\ DcTypeOK' /\ OrderInv' /\ InFlightInv' /\ Carried' = Carried
      /\ \A b \in DcBatches : /\ dcFate'[b] = "unread" <=> b > dcRead'
                              /\ dcFate'[b] = "reply" => ~dcFills'
                              /\ dcFate'[b] = "kept" /\ ~dcFills' => b \in dcAcked' \cup Carried'
  BY <1>1, <1>6, QuietStep
<1>8. \/ dcMode' \in {"failed", "leaving", "gone"}
      \/ /\ HeldDone /\ UNCHANGED <<dcHeld, dcRunning, dcCall>> /\ dcRunning = <<>>
         /\ \/ dcMode = "flushing" /\ dcMode' = "reading"
            \/ dcMode = "draining" /\ dcMode' \in {"reading", "drained"}
  BY DEF ReceiveFails, RunHeldFails, HeldDone, Disconnect, dcConf
<1>9. ModeInv'
  <2>1. ~dcFills => dcCall' = <<>>
    BY <1>6 DEF DcParts, ModeInv
  <2>2. CASE HeldDone
    BY <1>1, <1>8, <2>1, <2>2 DEF DcParts, ModeInv, HeldDone
  <2>3. CASE ReceiveFails \/ RunHeldFails \/ Disconnect
    <3>1. dcMode' \in {"failed", "leaving", "gone"} /\ (dcRunning' # <<>> => dcMode' = "leaving")
      BY <2>3 DEF ReceiveFails, RunHeldFails, Disconnect, DcParts, ModeInv
    <3>2. QED BY <1>1, <2>1, <3>1 DEF ModeInv
  <2>4. QED BY <2>2, <2>3
<1>10. OnlyEmptyOvertakes'
  BY <1>1, <1>8 DEF DcParts, OnlyEmptyOvertakes
<1>11. RepliesKept'
  BY <1>1, <1>7, <1>8 DEF DcParts, RepliesKept
<1>12. FateInv'
  BY <1>1, <1>7, <1>8 DEF DcParts, FateInv
<1>13. QED BY <1>7, <1>9, <1>10, <1>11, <1>12 DEF DcParts

\* A held commit runs: while the consumer reads, nothing retained is uncommitted then.
LEMMA RunHeldKeeps ==
    ASSUME DcParts, RunHeld
    PROVE  DcParts'
<1>. DEFINE h == Head(dcRunning)
<1>1. /\ dcRunning # <<>> /\ dcAcked' = dcAcked \cup {h} /\ dcRunning' = Tail(dcRunning)
      /\ dcEarly' = IF dcMode = "flushing" THEN dcEarly ELSE dcEarly \cup {h}
      /\ UNCHANGED <<dcFills, dcExits, dcMode, dcRead, dcFate, dcHeld, dcCall, dcGot, dcOut, dcInFlight>>
  BY DEF RunHeld, dcConf
<1>2. dcRunning \in Seq(DcBatches) /\ DcBatches \in SUBSET Nat /\ dcRead \in Nat /\ dcAcked \subseteq 1..dcRead
      /\ 1..dcRead \subseteq DcBatches
  BY DeferredShapes
<1>3. Ascending(dcRunning) /\ Range(dcRunning) \subseteq 1..dcRead
  BY DEF DcParts, OrderInv
<1>4. /\ h \in DcBatches /\ dcRunning' \in Seq(DcBatches)
      /\ Range(dcRunning) = {h} \cup Range(dcRunning')
      /\ Ascending(dcRunning')
  BY <1>1, <1>2, <1>3, HeadTaken
<1>. HIDE DEF h
<1>5. OrderInv' /\ InFlightInv' /\ Carried' = Carried
  <2>1. h \in 1..dcRead /\ Range(dcRunning') \subseteq 1..dcRead
    BY <1>3, <1>4
  <2>2. OrderInv'
    BY <1>1, <1>2, <1>4, <2>1 DEF DcParts, OrderInv
  <2>3. InFlightInv' /\ Carried' = Carried
    BY <1>1 DEF DcParts, InFlightInv, Carried
  <2>4. QED BY <2>2, <2>3
<1>6. DcTypeOK'
  BY <1>1, <1>4 DEF DcParts, DcTypeOK
<1>7. ModeInv'
  BY <1>1 DEF DcParts, ModeInv
<1>8. FateInv' /\ RepliesKept'
  BY <1>1, <1>4, <1>5 DEF DcParts, FateInv, RepliesKept
<1>9. OnlyEmptyOvertakes'
  <2>1. SUFFICES ASSUME ~dcFills, NEW c \in (dcAcked \cup {h}) \ dcEarly', c = h \/ c \in dcAcked \ dcEarly,
                        NEW x \in 1..(c - 1), dcFate[x] = "kept", x \notin dcAcked
                 PROVE  FALSE
    BY <1>1 DEF OnlyEmptyOvertakes
  <2>0. c = h /\ h \notin dcEarly'
    BY <2>1 DEF DcParts, OnlyEmptyOvertakes
  <2>2. dcInFlight = 0
    BY <1>1, <2>0 DEF DcParts, ModeInv
  <2>3. Carried = {}
    BY <2>2, NoneInFlight
  <2>4. x \in DcBatches
    <3>1. c \in 1..dcRead
      BY <1>2, <1>3, <1>4, <2>1
    <3>2. x \in 1..dcRead
      BY <1>2, <3>1
    <3>3. QED BY <1>2, <3>2
  <2>5. QED BY <2>1, <2>3, <2>4 DEF DcParts, FateInv
<1>10. QED BY <1>5, <1>6, <1>7, <1>8, <1>9 DEF DcParts

\* The next commit of the delivery whose turn it is runs.  Every earlier delivery has
\* settled, so nothing retained before it is uncommitted.
LEMMA CommitKeeps ==
    ASSUME DcParts, NEW d \in DOMAIN dcOut, CommitDelivery(d)
    PROVE  DcParts'
<1>. DEFINE todo == dcOut[d].todo
            h == Head(todo)
            rest == Tail(todo)
            state == IF Len(todo) = 1 THEN "settled" ELSE "writing"
            open == {e \in DOMAIN dcOut : dcOut[e].state # "settled"}
<1>1. /\ dcRead \in Nat /\ dcRead <= SourceBatches /\ DcBatches \in SUBSET Nat
      /\ 1..dcRead \subseteq DcBatches /\ dcAcked \subseteq 1..dcRead
      /\ dcOut \in Seq(DcDeliveries) /\ Len(dcOut) \in Nat /\ DOMAIN dcOut = 1..Len(dcOut)
      /\ dcOut[d] \in DcDeliveries
  BY DeferredShapes
<1>2. todo \in Seq(DcBatches) /\ todo # <<>> /\ dcOut[d].state = "writing"
      /\ \A e \in 1..(d - 1) : dcOut[e].state = "settled"
  BY <1>1 DEF CommitDelivery, Turn, DcDeliveries
<1>3. /\ h \in DcBatches /\ rest \in Seq(DcBatches)
      /\ Range(todo) = {h} \cup Range(rest)
      /\ Len(todo) = 1 <=> rest = <<>>
      /\ Ascending(rest) /\ \A y \in Range(rest) : h < y
  <2>1. Ascending(todo)
    BY DEF DcParts, OrderInv
  <2>. HIDE DEF todo
  <2>2. QED BY <1>1, <1>2, <2>1, HeadTaken
<1>4. /\ dcAcked' = dcAcked \cup {h}
      /\ dcInFlight' = IF Len(todo) = 1 THEN dcInFlight - 1 ELSE dcInFlight
      /\ UNCHANGED <<dcFills, dcExits, dcMode, dcRead, dcFate, dcHeld, dcRunning, dcCall, dcGot, dcEarly>>
  BY DEF CommitDelivery, dcConf
<1>5. /\ DOMAIN dcOut' = DOMAIN dcOut /\ dcOut' \in Seq(DcDeliveries) /\ Len(dcOut') = Len(dcOut)
      /\ \A e \in DOMAIN dcOut \ {d} : dcOut'[e] = dcOut[e]
      /\ dcOut'[d].todo = rest /\ dcOut'[d].state = state
  <2>. DEFINE new == [todo |-> rest, state |-> state]
              mid == [dcOut EXCEPT ![d] = [dcOut[d] EXCEPT !.todo = rest]]
  <2>1. dcOut' = [mid EXCEPT ![d].state = state]
    BY DEF CommitDelivery
  <2>2. mid[d] = [dcOut[d] EXCEPT !.todo = rest] /\ DOMAIN mid = DOMAIN dcOut
    BY <1>1
  <2>3. [[dcOut[d] EXCEPT !.todo = rest] EXCEPT !.state = state] = new
    <3>. HIDE DEF rest, state
    <3>1. [dcOut[d] EXCEPT !.todo = rest] = [todo |-> rest, state |-> dcOut[d].state]
      BY <1>1 DEF DcDeliveries
    <3>. DEFINE mark == dcOut[d].state
                r == [todo |-> rest, state |-> mark]
    <3>. HIDE DEF mark
    <3>2. [r EXCEPT !.state = state] = new
      OBVIOUS
    <3>. HIDE DEF r, new
    <3>3. r = [dcOut[d] EXCEPT !.todo = rest]
      BY <3>1 DEF r, mark
    <3>4. QED BY <3>2, <3>3
  <2>4. new \in DcDeliveries /\ new.todo = rest /\ new.state = state
    BY <1>3 DEF DcDeliveries
  <2>. HIDE DEF new, rest, state
  <2>5. dcOut' = [dcOut EXCEPT ![d] = new]
    BY <2>1, <2>2, <2>3
  <2>6. QED BY <1>1, <2>4, <2>5
<1>. HIDE DEF todo, h, rest, state
<1>6. Carried = Carried' \cup {h} /\ Range(rest) \subseteq Range(todo)
  <2>1. Range(rest) \subseteq Range(todo) /\ Range(todo) \subseteq Range(rest) \cup {h} /\ h \in Range(todo)
    BY <1>3
  <2>2. \A e \in DOMAIN dcOut : Range(dcOut'[e].todo) \subseteq Range(dcOut[e].todo)
                                /\ Range(dcOut[e].todo) \subseteq Range(dcOut'[e].todo) \cup {h}
    BY <1>5, <2>1 DEF todo
  <2>3. h \in Carried
    BY <2>1 DEF Carried, todo
  <2>4. QED BY <1>5, <2>1, <2>2, <2>3 DEF Carried
<1>7. OrderInv'
  <2>0. h \in 1..dcRead
    BY <1>3 DEF DcParts, OrderInv, todo
  <2>1. \A e \in DOMAIN dcOut : /\ Ascending(dcOut[e].todo) /\ Ascending(dcOut'[e].todo)
                                /\ Range(dcOut'[e].todo) \subseteq Range(dcOut[e].todo)
    BY <1>3, <1>5, <1>6 DEF DcParts, OrderInv, todo
  <2>2. \A e \in DOMAIN dcOut : /\ Range(dcOut'[e].todo) \subseteq 1..dcRead
                                /\ Precedes(dcOut'[e].todo, dcCall) /\ Precedes(dcOut'[e].todo, dcHeld)
                                /\ \A f \in DOMAIN dcOut : e < f => Precedes(dcOut'[e].todo, dcOut'[f].todo)
    BY <2>1 DEF DcParts, OrderInv, Precedes
  <2>3. /\ Ascending(dcCall) /\ Ascending(dcHeld) /\ Ascending(dcRunning) /\ Precedes(dcCall, dcHeld)
        /\ Range(dcCall) \cup Range(dcHeld) \cup Range(dcRunning) \cup dcAcked \subseteq 1..dcRead
    BY DEF DcParts, OrderInv
  <2>4. QED BY <1>4, <1>5, <2>0, <2>1, <2>2, <2>3 DEF OrderInv
<1>8. InFlightInv' /\ dcMode # "flushing"
  <2>1. IsFiniteSet(open) /\ d \in open
    <3>1. IsFiniteSet(1..Len(dcOut))
      BY <1>1, FS_Interval
    <3>2. QED BY <1>1, <1>2, <3>1, FS_Subset
  <2>2. Cardinality(open) = dcInFlight /\ Cardinality(open) \in Nat /\ Cardinality(open) # 0
    BY <2>1, FS_CardinalityType, FS_EmptySet DEF DcParts, InFlightInv
  <2>3. Cardinality(open \ {d}) = Cardinality(open) - 1
    BY <2>1, FS_RemoveElement
  <2>4. {e \in DOMAIN dcOut' : dcOut'[e].state # "settled"} = IF Len(todo) = 1 THEN open \ {d} ELSE open
    BY <1>2, <1>5 DEF state
  <2>5. dcInFlight' = Cardinality({e \in DOMAIN dcOut' : dcOut'[e].state # "settled"})
    BY <1>4, <2>2, <2>3, <2>4
  <2>6. \A e \in DOMAIN dcOut' : dcOut'[e].state = "settled" <=> dcOut'[e].todo = <<>>
    BY <1>3, <1>5 DEF DcParts, InFlightInv, state
  <2>7. QED BY <1>4, <1>5, <2>2, <2>5, <2>6 DEF DcParts, InFlightInv, ModeInv
<1>9. DcTypeOK'
  <2>1. dcInFlight' \in 0..dcRead'
    BY <1>1, <1>4, <1>5, <1>8, FewInFlightAfter
  <2>2. dcInFlight' \in 0..SourceBatches
    BY <1>1, <1>4, <2>1, DeferredBounds
  <2>3. QED BY <1>3, <1>4, <1>5, <2>2 DEF DcParts, DcTypeOK
<1>10. ModeInv'
  BY <1>4, <1>8 DEF DcParts, ModeInv
<1>11. FateInv' /\ RepliesKept'
  BY <1>4, <1>6 DEF DcParts, FateInv, RepliesKept
<1>12. OnlyEmptyOvertakes'
  <2>1. SUFFICES ASSUME ~dcFills, NEW c \in (dcAcked \cup {h}) \ dcEarly,
                        NEW x \in 1..(c - 1), dcFate[x] = "kept"
                 PROVE  x \in dcAcked \cup {h}
    BY <1>4 DEF OnlyEmptyOvertakes
  <2>2. CASE c \in dcAcked
    BY <2>1, <2>2 DEF DcParts, OnlyEmptyOvertakes
  <2>3. CASE c = h
    <3>1. h \in 1..dcRead /\ x \in 1..dcRead /\ x < h
      <4>1. h \in 1..dcRead
        BY <1>3 DEF DcParts, OrderInv, todo
      <4>2. QED BY <1>1, <2>3, <4>1
    <3>2. x \in dcAcked \cup Carried
      BY <1>1, <2>1, <3>1 DEF DcParts, FateInv
    <3>3. ASSUME NEW e \in DOMAIN dcOut, x \in Range(dcOut[e].todo) PROVE FALSE
      <4>1. CASE e < d
        <5>1. dcOut[e].state = "settled"
          BY <1>1, <1>2, <4>1
        <5>2. dcOut[e].todo = <<>>
          BY <5>1 DEF DcParts, InFlightInv
        <5>3. QED BY <3>3, <5>2, NothingHeld
      <4>2. CASE e = d
        BY <1>1, <1>3, <3>1, <3>3, <4>2 DEF todo
      <4>3. CASE d < e
        <5>1. Precedes(todo, dcOut[e].todo) /\ h \in Range(todo)
          BY <1>3, <4>3 DEF DcParts, OrderInv, todo
        <5>2. h < x
          BY <3>3, <5>1 DEF Precedes
        <5>3. QED BY <1>1, <3>1, <5>2
      <4>4. QED BY <1>1, <4>1, <4>2, <4>3
    <3>4. QED BY <3>2, <3>3 DEF Carried
  <2>4. QED BY <2>1, <2>2, <2>3
<1>13. QED BY <1>7, <1>8, <1>9, <1>10, <1>11, <1>12 DEF DcParts

\* The sink refuses a delivery, or one of its commits fails: it keeps what it carries.
LEMMA FailureKeeps ==
    ASSUME DcParts, NEW d \in DOMAIN dcOut, DeliveryFails(d)
    PROVE  DcParts'
<1>1. /\ dcOut \in Seq(DcDeliveries) /\ DOMAIN dcOut = 1..Len(dcOut) /\ dcOut[d] \in DcDeliveries
  BY DeferredShapes
<1>2. /\ dcOut[d].state = "writing" /\ dcOut' = [dcOut EXCEPT ![d].state = "failed"]
      /\ UNCHANGED <<dcFills, dcExits, dcMode, dcRead, dcFate, dcHeld, dcRunning, dcCall, dcGot, dcInFlight, dcAcked, dcEarly>>
  BY DEF DeliveryFails, dcConf
<1>3. /\ DOMAIN dcOut' = DOMAIN dcOut /\ dcOut' \in Seq(DcDeliveries) /\ Len(dcOut') = Len(dcOut)
      /\ \A e \in DOMAIN dcOut : dcOut'[e].todo = dcOut[e].todo
      /\ \A e \in DOMAIN dcOut : dcOut'[e].state = "settled" <=> dcOut[e].state = "settled"
  <2>. DEFINE new == [todo |-> dcOut[d].todo, state |-> "failed"]
  <2>1. [dcOut[d] EXCEPT !.state = "failed"] = new /\ new \in DcDeliveries
        /\ new.todo = dcOut[d].todo /\ new.state = "failed"
    BY <1>1 DEF DcDeliveries
  <2>. HIDE DEF new
  <2>2. dcOut' = [dcOut EXCEPT ![d] = new]
    BY <1>2, <2>1
  <2>3. QED BY <1>1, <1>2, <2>1, <2>2
<1>4. Carried' = Carried
  BY <1>3 DEF Carried
<1>5. InFlightInv'
  <2>1. {e \in DOMAIN dcOut' : dcOut'[e].state # "settled"} = {e \in DOMAIN dcOut : dcOut[e].state # "settled"}
    BY <1>3
  <2>2. QED BY <1>2, <1>3, <2>1 DEF DcParts, InFlightInv
<1>6. OrderInv'
  BY <1>2, <1>3 DEF DcParts, OrderInv
<1>7. DcTypeOK'
  BY <1>2, <1>3 DEF DcParts, DcTypeOK
<1>8. ModeInv' /\ FateInv' /\ OnlyEmptyOvertakes' /\ RepliesKept'
  BY <1>2, <1>4 DEF DcParts, ModeInv, FateInv, OnlyEmptyOvertakes, RepliesKept
<1>9. QED BY <1>5, <1>6, <1>7, <1>8 DEF DcParts

\* Deferring commits, for any number of source batches and any MAX_DEFERRED_COMMITS, over any
\* number of empty batches in mid-stream: only an empty batch or the end of the run lets a
\* dropped duplicate's ack overtake a retained batch, deliveries run their commits in the
\* order of the source, no reply owed is given up, and an idle consumer has acked everything.
THEOREM DeferredCommitsHold == DcSpec => []DeferredCommitsInv
<1>1. DcParts /\ [DcNext]_dcVars => DcParts'
  <2>1. SUFFICES ASSUME DcParts, [DcNext]_dcVars PROVE DcParts'
    OBVIOUS
  <2>2. CASE ReceiveKept \/ ReceiveEmptied \/ ReceiveNone
    BY <2>1, <2>2, KeptKeeps, EmptiedKeeps, NoneKeeps
  <2>3. CASE ReceiveFails \/ RunHeldFails \/ HeldDone \/ Disconnect \/ RunHeld
    BY <2>1, <2>3, EndingKeeps, RunHeldKeeps
  <2>4. CASE DcRoute
    BY <2>1, <2>4, CommitKeeps, FailureKeeps DEF DcRoute
  <2>5. CASE UNCHANGED dcVars
    BY <2>1, <2>5
       DEF dcVars, dcConf, DcParts, DcTypeOK, OrderInv, InFlightInv, ModeInv, FateInv, Carried, OnlyEmptyOvertakes, RepliesKept
  <2>6. QED BY <2>1, <2>2, <2>3, <2>4, <2>5 DEF DcNext
<1>2. DcParts => DeferredCommitsInv
  BY PartsSuffice DEF DcInv
<1>3. QED BY <1>1, <1>2, DeferredStarts, PTL DEF DcSpec

-----------------------------------------------------------------------------
(* The buffer *)

LEMMA BufferStarts == BfInit => BfInv
<1>. SUFFICES ASSUME BfInit PROVE BfInv
  OBVIOUS
<1>. USE BufferBounds
<1>1. BfTaken = {} /\ bfTook \in Seq(SUBSET Sends)
  BY DEF BfInit, BfTaken
<1>2. BfTypeOK
  BY <1>1 DEF BfInit, BfTypeOK, Sends
<1>3. BufferKeepsOrder /\ ResultsMatch /\ FlushCovers /\ StagesInv /\ CallersInv
  BY <1>1 DEF BfInit, BufferKeepsOrder, ResultsMatch, FlushCovers, StagesInv, CallersInv
<1>4. QED BY <1>2, <1>3 DEF BfInv, BufferInv

\* What take_batch consumes: it stops at a send where the batch has no message id twice.
LEMMA BatchTaken ==
    ASSUME BfInv
    PROVE  /\ TakeUpto \in 1..bfNext
           /\ \A s, t \in Wanted(TakeUpto) : s # t => MessageId[s] # MessageId[t]
<1>. DEFINE fits(e) == /\ Cardinality(Wanted(e)) <= BufMax
                       /\ \A s, t \in Wanted(e) : s # t => MessageId[s] # MessageId[t]
            full(e) == Cardinality(Wanted(e)) = BufMax
            ends == {e \in 1..bfNext : fits(e) /\ \A f \in Earlier(e) : ~full(f)}
            left == {bfNext - e : e \in ends}
<1>1. bfNext \in Nat \ {0} /\ bfPending \subseteq 1..NumSends /\ BufMax \in Nat
  BY BufferBounds DEF BfInv, BufferInv, BfTypeOK, Sends
<1>2. Earlier(1) = {} /\ Wanted(1) = {}
  <2>1. \A s \in bfPending : ~(s < 1)
    BY <1>1, BufferBounds
  <2>2. QED BY <2>1 DEF Earlier, Wanted
<1>3. 1 \in ends
  BY <1>1, <1>2, FS_EmptySet
<1>4. left \in SUBSET Nat /\ left # {}
  <2>1. \A e \in ends : bfNext - e \in Nat
    BY <1>1
  <2>2. QED BY <1>3, <2>1
<1>5. PICK k \in left : \A m \in left : k <= m
  BY <1>4, LeastNumber
<1>6. PICK e \in ends : k = bfNext - e
  BY <1>5
<1>7. \A f \in ends : e >= f
  <2>1. TAKE f \in ends
  <2>2. bfNext - e <= bfNext - f
    BY <1>5, <1>6
  <2>3. e \in Nat /\ f \in Nat
    OBVIOUS
  <2>4. QED BY <1>1, <2>2, <2>3
<1>8. Max(ends) \in ends
  BY <1>6, <1>7 DEF Max
<1>9. TakeUpto = Max(ends)
  BY DEF TakeUpto
<1>10. QED BY <1>8, <1>9

\* A timer is armed for a new generation, or none is.
LEMMA TimersArmed ==
    ASSUME BfTypeOK, bfTasks' \in {bfTasks, bfTasks + 1},
           \/ bfGeneration' = bfGeneration /\ bfTimers' = bfTimers
           \/ bfGeneration' = bfGeneration + 1 /\ bfTimers' = bfTimers \cup {bfGeneration + 1}
    PROVE  bfTimers' \subseteq 1..bfGeneration' /\ bfGeneration' \in Nat /\ bfTasks' \in Nat
<1>1. bfGeneration \in Nat /\ bfTasks \in Nat /\ bfTimers \subseteq 1..bfGeneration
  BY DEF BfTypeOK
<1>2. bfGeneration + 1 \in 1..(bfGeneration + 1) /\ 1..bfGeneration \subseteq 1..(bfGeneration + 1)
  BY <1>1
<1>3. bfTimers' \subseteq 1..bfGeneration'
  <2>1. CASE bfGeneration' = bfGeneration /\ bfTimers' = bfTimers
    BY <1>1, <2>1
  <2>2. CASE bfGeneration' = bfGeneration + 1 /\ bfTimers' = bfTimers \cup {bfGeneration + 1}
    <3>1. bfTimers \cup {bfGeneration + 1} \subseteq 1..(bfGeneration + 1)
      BY <1>1, <1>2
    <3>2. QED BY <2>2, <3>1
  <2>3. QED BY <2>1, <2>2
<1>4. bfGeneration' \in Nat /\ bfTasks' \in Nat
  BY <1>1
<1>5. QED BY <1>3, <1>4

\* Calls are made, given up, and waited for.
LEMMA SendKeeps ==
    ASSUME BfInv, BfSend PROVE BfInv'
<1>. USE BufferBounds
<1>1. PICK count \in 1..(NumSends + 1 - bfNext) :
            /\ EnqueueMessages(count)
            /\ bfNext' = bfNext + count
            /\ bfCaller' = [s \in Sends |-> IF s \in bfNext..(bfNext + count - 1) THEN "waiting" ELSE bfCaller[s]]
  BY DEF BfSend
<1>. DEFINE new == bfNext..(bfNext + count - 1)
<1>2. /\ bfPending' = bfPending \cup new /\ UNCHANGED <<bfInFlight, bfTook, bfFlush, bfCovers>>
      /\ bfTasks' \in {bfTasks, bfTasks + 1}
      /\ \/ bfGeneration' = bfGeneration /\ bfTimers' = bfTimers
         \/ bfGeneration' = bfGeneration + 1 /\ bfTimers' = bfTimers \cup {bfGeneration + 1}
  BY <1>1 DEF BfSend, EnqueueMessages
<1>3. BfTypeOK
  BY DEF BfInv, BufferInv
<1>4. /\ bfNext \in 1..(NumSends + 1) /\ bfNext' \in 1..(NumSends + 1) /\ bfNext < bfNext'
      /\ new \subseteq Sends /\ \A s \in new : bfNext <= s /\ s < bfNext' /\ s \in Nat
  BY <1>1, <1>3 DEF BfTypeOK, Sends
<1>. HIDE DEF new
<1>5. BfTypeOK'
  <2>1. bfCaller' \in [Sends -> {"new", "waiting", "closed", "ok", "failed"}]
    BY <1>1, <1>3 DEF BfTypeOK
  <2>2. bfTimers' \subseteq 1..bfGeneration' /\ bfGeneration' \in Nat /\ bfTasks' \in Nat
    BY <1>2, <1>3, TimersArmed
  <2>3. QED BY <1>2, <1>3, <1>4, <2>1, <2>2 DEF BfTypeOK
<1>6. BfTaken' = BfTaken /\ BfTaken \subseteq Sends /\ BufferKeepsOrder'
  BY <1>2, <1>3 DEF BfTaken, BfTypeOK, BufferKeepsOrder, BfInv, BufferInv
<1>7. \A s \in Sends : s \in Nat
  BY DEF Sends
<1>8. StagesInv'
  BY <1>2, <1>3, <1>4, <1>6, <1>7 DEF StagesInv, BfInv, BfTypeOK
<1>9. \A s \in Sends : bfCaller'[s] = IF s \in new THEN "waiting" ELSE bfCaller[s]
  BY <1>1 DEF new
<1>10. /\ \A s \in bfPending \cup bfInFlight \cup bfCovers : s \notin new
       /\ \A s \in Sends : bfCaller[s] \in {"ok", "failed"} => s \notin new
  BY <1>3, <1>4, <1>7 DEF BfInv, StagesInv, CallersInv, BfTypeOK
<1>11. CallersInv'
  BY <1>2, <1>3, <1>4, <1>7, <1>9, <1>10 DEF BfInv, CallersInv, BfTypeOK
<1>12. ResultsMatch'
  BY <1>6, <1>9 DEF BfInv, BufferInv, ResultsMatch
<1>13. FlushCovers'
  BY <1>2, <1>3, <1>9, <1>10 DEF BfInv, BufferInv, FlushCovers, BfTypeOK
<1>14. QED BY <1>5, <1>6, <1>8, <1>11, <1>12, <1>13 DEF BfInv, BufferInv

\* Steps that leave the batches and the results alone.
LEMMA GiveUpKeeps ==
    ASSUME BfInv, NEW s \in Sends, BfGiveUp(s) PROVE BfInv'
<1>1. /\ bfCaller[s] = "waiting" /\ bfCaller' = [bfCaller EXCEPT ![s] = "closed"]
      /\ UNCHANGED <<bfPending, bfInFlight, bfGeneration, bfTimers, bfTasks, bfNext, bfTook, bfFlush, bfCovers>>
  BY DEF BfGiveUp
<1>2. bfCaller \in [Sends -> {"new", "waiting", "closed", "ok", "failed"}]
      /\ bfPending \subseteq Sends /\ bfInFlight \subseteq Sends /\ bfCovers \subseteq Sends
  BY DEF BfInv, BufferInv, BfTypeOK
<1>3. /\ bfCaller' \in [Sends -> {"new", "waiting", "closed", "ok", "failed"}]
      /\ \A t \in Sends : bfCaller'[t] = IF t = s THEN "closed" ELSE bfCaller[t]
  BY <1>1, <1>2
<1>4. BfTypeOK'
  BY <1>1, <1>3 DEF BfInv, BufferInv, BfTypeOK
<1>5. BfTaken' = BfTaken /\ BufferKeepsOrder' /\ StagesInv'
  BY <1>1 DEF BfTaken, BfInv, BufferInv, BufferKeepsOrder, StagesInv
<1>6. ResultsMatch' /\ FlushCovers' /\ CallersInv'
  BY <1>1, <1>2, <1>3, <1>5 DEF BfInv, BufferInv, ResultsMatch, FlushCovers, CallersInv
<1>7. QED BY <1>4, <1>5, <1>6 DEF BfInv, BufferInv

LEMMA FlushKeeps ==
    ASSUME BfInv, FlushCall \/ FlushCheck \/ (\E g \in bfTimers : OnTimer(g)) PROVE BfInv'
<1>1. UNCHANGED <<bfPending, bfInFlight, bfGeneration, bfCaller, bfNext, bfTook>>
  BY DEF FlushCall, FlushCheck, OnTimer
<1>2. BfTypeOK
  BY DEF BfInv, BufferInv
<1>3. /\ bfTimers' \subseteq bfTimers /\ bfTasks' \in {bfTasks, bfTasks + 1}
      /\ bfFlush' \in {"idle", "checking", "waiting", "returned"}
      /\ bfCovers' \subseteq Sends /\ \A s \in bfCovers' : s < bfNext
      /\ bfFlush' = "returned" => (bfPending = {} /\ bfInFlight = {}) \/ UNCHANGED <<bfFlush, bfCovers>>
  <2>1. CASE FlushCall
    BY <1>2, <2>1, BufferBounds DEF FlushCall, BfTypeOK, Sends
  <2>2. CASE FlushCheck
    BY <1>2, <2>2 DEF FlushCheck, FlushDone, BfTypeOK, BfInv, StagesInv
  <2>3. CASE \E g \in bfTimers : OnTimer(g)
    BY <1>2, <2>3 DEF OnTimer, BfTypeOK, BfInv, StagesInv
  <2>4. QED BY <2>1, <2>2, <2>3
<1>4. BfTypeOK'
  BY <1>1, <1>2, <1>3 DEF BfTypeOK
<1>5. BfTaken' = BfTaken /\ BufferKeepsOrder' /\ StagesInv' /\ ResultsMatch' /\ CallersInv'
  BY <1>1, <1>3 DEF BfTaken, BfInv, BufferInv, BufferKeepsOrder, StagesInv, ResultsMatch, CallersInv
<1>6. FlushCovers'
  BY <1>1, <1>3 DEF BfInv, BufferInv, FlushCovers, CallersInv
<1>7. QED BY <1>4, <1>5, <1>6 DEF BfInv, BufferInv

\* A batch is taken from the front of what is pending.
LEMMA MaybeFlushKeeps ==
    ASSUME BfInv, MaybeFlush PROVE BfInv'
<1>1. /\ bfTasks > 0 /\ bfTasks' = bfTasks - 1
      /\ UNCHANGED <<bfTimers, bfCaller, bfNext, bfTook, bfCovers>>
  BY DEF MaybeFlush
<1>2. BfTypeOK /\ bfTasks' \in Nat
  BY <1>1 DEF BfInv, BufferInv, BfTypeOK
<1>3. BfTaken' = BfTaken /\ BufferKeepsOrder' /\ ResultsMatch'
  BY <1>1 DEF BfTaken, BfInv, BufferInv, BufferKeepsOrder, ResultsMatch
<1>4. CASE ~FlushIdle
  <2>1. UNCHANGED <<bfPending, bfInFlight, bfGeneration, bfFlush>>
    BY <1>4 DEF MaybeFlush
  <2>2. BfTypeOK' /\ StagesInv' /\ CallersInv' /\ FlushCovers'
    BY <1>1, <1>2, <1>3, <2>1 DEF BfTypeOK, BfInv, BufferInv, StagesInv, CallersInv, FlushCovers
  <2>3. QED BY <1>3, <2>2 DEF BfInv, BufferInv
<1>5. CASE FlushIdle
  <2>. DEFINE e == TakeUpto
              front == Earlier(e)
              batch == Wanted(e)
  <2>1. /\ bfInFlight = {} /\ bfPending' = bfPending \ front /\ bfInFlight' = batch
        /\ bfGeneration' \in {bfGeneration, bfGeneration + 1}
        /\ bfFlush' \in {bfFlush, "checking"}
    BY <1>5 DEF MaybeFlush, FlushIdle
  <2>2. e \in 1..bfNext /\ \A s, t \in batch : s # t => MessageId[s] # MessageId[t]
    BY BatchTaken
  <2>3. /\ front = {s \in bfPending : s < e} /\ batch = {s \in front : bfCaller[s] # "closed"}
    BY DEF Earlier, Wanted
  <2>. HIDE DEF e, front, batch
  <2>4. batch \subseteq front /\ front \subseteq bfPending /\ bfPending \subseteq Sends
    BY <1>2, <2>3 DEF BfTypeOK
  <2>5. BfTypeOK'
    <3>1. bfTimers' \subseteq 1..bfGeneration' /\ bfGeneration' \in Nat
      BY <1>1, <1>2, <2>1 DEF BfTypeOK
    <3>2. QED BY <1>1, <1>2, <2>1, <2>4, <3>1 DEF BfTypeOK
  <2>6. \A s \in Sends : s \in Nat
    BY BufferBounds DEF Sends
  <2>7. \A s \in batch, t \in bfPending \ front : s < t
    <3>1. TAKE s \in batch, t \in bfPending \ front
    <3>2. s \in Nat /\ t \in Nat /\ e \in Nat /\ s < e /\ ~(t < e)
      BY <1>2, <2>2, <2>3, <2>4, <2>6 DEF BfTypeOK
    <3>3. QED BY <3>2
  <2>8. StagesInv'
    BY <1>1, <1>3, <2>1, <2>4, <2>7 DEF BfInv, StagesInv
  <2>9. \A s \in front : bfCaller[s] \in {"waiting", "closed"} /\ (bfCaller[s] = "waiting" => s \in batch)
    BY <2>3, <2>4 DEF BfInv, CallersInv
  <2>10. CallersInv'
    BY <1>1, <2>1, <2>2, <2>4, <2>9 DEF BfInv, CallersInv
  <2>11. FlushCovers'
    BY <1>1, <2>1 DEF BfInv, BufferInv, FlushCovers
  <2>12. QED BY <1>3, <2>5, <2>8, <2>10, <2>11 DEF BfInv, BufferInv
<1>6. QED BY <1>4, <1>5

\* The inner publisher answers, and each caller of the batch is told what became of its

\* message: no other message of the batch has its id.
LEMMA ProcessKeeps ==
    ASSUME BfInv, ProcessBatch PROVE BfInv'
<1>1. PICK took \in SUBSET bfInFlight :
            /\ bfTook' = Append(bfTook, took)
            /\ Distribute({MessageId[s] : s \in bfInFlight \ took})
  BY DEF ProcessBatch
<1>2. /\ bfInFlight' = {} /\ UNCHANGED <<bfPending, bfNext, bfCovers>>
      /\ bfFlush' \in {bfFlush, "checking"} /\ bfTasks' \in {bfTasks, bfTasks + 1}
      /\ \/ bfGeneration' = bfGeneration /\ bfTimers' = bfTimers
         \/ bfGeneration' = bfGeneration + 1 /\ bfTimers' = bfTimers \cup {bfGeneration + 1}
  BY DEF ProcessBatch, AfterBatch
<1>3. BfTypeOK
  BY DEF BfInv, BufferInv
<1>4. ASSUME NEW s \in Sends
      PROVE  bfCaller'[s] = IF s \in bfInFlight /\ bfCaller[s] = "waiting"
                              THEN IF s \in took THEN "ok" ELSE "failed" ELSE bfCaller[s]
  <2>. DEFINE failed == {MessageId[t] : t \in bfInFlight \ took}
  <2>1. s \in bfInFlight => (MessageId[s] \in failed <=> s \notin took)
    BY <1>1 DEF BfInv, CallersInv
  <2>2. bfCaller'[s] = IF s \in bfInFlight /\ bfCaller[s] = "waiting"
                         THEN IF MessageId[s] \in failed THEN "failed" ELSE "ok" ELSE bfCaller[s]
    BY <1>1 DEF Distribute
  <2>. HIDE DEF failed
  <2>3. QED BY <2>1, <2>2
<1>5. bfCaller' \in [Sends -> {"new", "waiting", "closed", "ok", "failed"}]
  <2>. DEFINE failed == {MessageId[t] : t \in bfInFlight \ took}
  <2>1. bfCaller' = [s \in Sends |-> IF s \in bfInFlight /\ bfCaller[s] = "waiting"
                         THEN IF MessageId[s] \in failed THEN "failed" ELSE "ok" ELSE bfCaller[s]]
    BY <1>1 DEF Distribute
  <2>. HIDE DEF failed
  <2>2. QED BY <1>3, <2>1 DEF BfTypeOK
<1>. DEFINE n == Len(bfTook)
<1>6. /\ bfTook \in Seq(SUBSET Sends) /\ took \in SUBSET Sends /\ bfTook' \in Seq(SUBSET Sends)
      /\ n \in Nat /\ DOMAIN bfTook = 1..n /\ DOMAIN bfTook' = 1..(n + 1)
      /\ bfTook'[n + 1] = took /\ \A i \in 1..n : bfTook'[i] = bfTook[i]
  BY <1>1, <1>3 DEF BfTypeOK
<1>. HIDE DEF n
<1>7. BfTaken' = BfTaken \cup took
  <2>1. ASSUME NEW s \in BfTaken PROVE s \in BfTaken'
    <3>1. PICK i \in 1..n : s \in bfTook[i]
      BY <1>6 DEF BfTaken
    <3>2. i \in DOMAIN bfTook' /\ s \in bfTook'[i]
      BY <1>6, <3>1
    <3>3. QED BY <3>2 DEF BfTaken
  <2>2. took \subseteq BfTaken'
    <3>1. n + 1 \in DOMAIN bfTook'
      BY <1>6
    <3>2. QED BY <1>6, <3>1 DEF BfTaken
  <2>3. ASSUME NEW s \in BfTaken' PROVE s \in BfTaken \cup took
    <3>1. PICK i \in 1..(n + 1) : s \in bfTook'[i]
      BY <1>6 DEF BfTaken
    <3>2. CASE i = n + 1 BY <1>6, <3>1, <3>2
    <3>3. CASE i \in 1..n BY <1>6, <3>1, <3>3 DEF BfTaken
    <3>4. QED BY <1>6, <3>2, <3>3
  <2>4. QED BY <2>1, <2>2, <2>3
<1>8. BfTypeOK'
  <2>1. bfTimers' \subseteq 1..bfGeneration' /\ bfGeneration' \in Nat /\ bfTasks' \in Nat
    BY <1>2, <1>3, TimersArmed
  <2>2. QED BY <1>2, <1>3, <1>5, <1>6, <2>1 DEF BfTypeOK
<1>9. BufferKeepsOrder'
  <2>1. SUFFICES ASSUME NEW i \in 1..(n + 1), NEW j \in 1..(n + 1), i < j,
                        NEW s \in bfTook'[i], NEW t \in bfTook'[j]
                 PROVE  s < t
    BY <1>6 DEF BufferKeepsOrder
  <2>2. i \in 1..n
    BY <1>6, <2>1
  <2>3. s \in BfTaken /\ bfTook'[i] = bfTook[i]
    BY <1>6, <2>2 DEF BfTaken
  <2>4. CASE j = n + 1
    BY <1>6, <2>3, <2>4 DEF BfInv, StagesInv
  <2>5. CASE j \in 1..n
    BY <1>6, <2>1, <2>2, <2>5 DEF BfInv, BufferInv, BufferKeepsOrder
  <2>6. QED BY <1>6, <2>4, <2>5
<1>10. StagesInv'
  BY <1>2, <1>7 DEF BfInv, StagesInv
<1>11. CallersInv'
  <2>1. \A s \in bfPending : s \in Sends /\ s \in Nat
    BY <1>3, BufferBounds DEF BfTypeOK, Sends
  <2>2. \A s \in bfPending : s \notin bfInFlight
    BY <2>1 DEF BfInv, StagesInv
  <2>3. \A s \in bfPending : bfCaller'[s] \in {"waiting", "closed"}
    BY <1>4, <2>1, <2>2 DEF BfInv, CallersInv
  <2>4. ASSUME NEW s \in Sends
        PROVE  /\ bfCaller'[s] = "waiting" => s \in bfPending
               /\ bfCaller'[s] \in {"ok", "failed"} => s < bfNext
    BY <1>4 DEF BfInv, CallersInv, StagesInv
  <2>5. QED BY <1>2, <2>3, <2>4 DEF CallersInv
<1>12. ResultsMatch'
  <2>1. SUFFICES ASSUME NEW s \in Sends
                 PROVE  /\ bfCaller'[s] = "ok" => s \in BfTaken \cup took
                        /\ bfCaller'[s] = "failed" => s \notin BfTaken \cup took
    BY <1>7 DEF ResultsMatch
  <2>2. CASE s \in bfInFlight
    <3>1. s \notin BfTaken
      <4>1. s \in Nat
        BY BufferBounds DEF Sends
      <4>2. QED BY <2>2, <4>1 DEF BfInv, StagesInv
    <3>2. QED BY <1>4, <2>2, <3>1 DEF BfInv, CallersInv
  <2>3. CASE s \notin bfInFlight
    BY <1>4, <2>3 DEF BfInv, BufferInv, ResultsMatch
  <2>4. QED BY <2>2, <2>3
<1>13. FlushCovers'
  BY <1>2, <1>3, <1>4 DEF BfInv, BufferInv, FlushCovers, BfTypeOK
<1>14. QED BY <1>8, <1>9, <1>10, <1>11, <1>12, <1>13 DEF BfInv, BufferInv

\* For any number of sends, of any size of the buffer and whatever ids the messages carry:

\* the inner publisher takes them in order and each once, every caller is told the truth
\* about its own message, and flush returns when nothing enqueued before it waits.
THEOREM BufferTellsTruth == BfSpec => []BufferInv
<1>1. ASSUME BfInv, [BfNext]_bfVars PROVE BfInv'
  <2>1. CASE BfSend BY <1>1, <2>1, SendKeeps
  <2>2. CASE \E s \in Sends : BfGiveUp(s) BY <1>1, <2>2, GiveUpKeeps
  <2>3. CASE FlushCall \/ FlushCheck \/ (\E g \in bfTimers : OnTimer(g))
    BY <1>1, <2>3, FlushKeeps
  <2>4. CASE MaybeFlush BY <1>1, <2>4, MaybeFlushKeeps
  <2>5. CASE ProcessBatch BY <1>1, <2>5, ProcessKeeps
  <2>6. CASE UNCHANGED bfVars
    BY <1>1, <2>6 DEF bfVars, BfInv, BufferInv, BfTypeOK, BufferKeepsOrder, BfTaken, ResultsMatch,
                      FlushCovers, StagesInv, CallersInv
  <2>7. QED BY <1>1, <2>1, <2>2, <2>3, <2>4, <2>5, <2>6 DEF BfNext, BfWork
<1>2. BfInv => BufferInv
  BY DEF BfInv
<1>3. QED BY <1>1, <1>2, BufferStarts, PTL DEF BfSpec
-----------------------------------------------------------------------------
(* The weak join *)

LEMMA SlotShape ==
    /\ JoinBatches \subseteq Nat \ {0}
    /\ \A b \in JoinBatches : /\ Members(b) \subseteq Slots /\ Members(b) # {}
                              /\ \A s \in Members(b) : s[1] = b
    /\ \A s \in Slots : s[1] \in JoinBatches /\ s \in Members(s[1]) /\ Member(s).group \in WjGroups
<1>1. \A b \in JoinBatches : WjSource[b] \in Seq([group : WjGroups, branch : WjBranches]) /\ WjSource[b] # <<>>
  <2>. DEFINE R == [group : WjGroups, branch : WjBranches]
              S == Seq(R) \ {<<>>}
  <2>1. WjSource \in Seq(S)
    BY JoinBounds
  <2>2. ASSUME NEW b \in JoinBatches PROVE WjSource[b] \in S
    <3>. HIDE DEF S
    <3>1. QED BY <2>1, ElementOfSeq DEF JoinBatches
  <2>3. QED BY <2>2
<1>2. \A b \in JoinBatches : Len(WjSource[b]) \in Nat \ {0}
  BY <1>1
<1>3. JoinBatches \subseteq Nat \ {0}
  BY JoinBounds DEF JoinBatches
<1>4. ASSUME NEW b \in JoinBatches
      PROVE  /\ Members(b) \subseteq Slots /\ Members(b) # {} /\ \A s \in Members(b) : s[1] = b
             /\ \A s \in Members(b) : Member(s).group \in WjGroups
  <2>1. Members(b) \subseteq Slots
    BY DEF Slots
  <2>2. <<b, 1>> \in Members(b)
    BY <1>2 DEF Members
  <2>3. ASSUME NEW s \in Members(b) PROVE s[1] = b /\ Member(s).group \in WjGroups
    <3>1. PICK i \in 1..Len(WjSource[b]) : s = <<b, i>>
      BY DEF Members
    <3>2. s[1] = b /\ s[2] = i
      BY <3>1
    <3>. DEFINE R == [group : WjGroups, branch : WjBranches]
    <3>3. WjSource[b][i] \in R
      <4>1. WjSource[b] \in Seq(R)
        BY <1>1
      <4>. HIDE DEF R
      <4>2. QED BY <4>1, ElementOfSeq
    <3>4. QED BY <3>2, <3>3 DEF Member
  <2>4. QED BY <2>1, <2>2, <2>3
<1>5. ASSUME NEW s \in Slots PROVE \E b \in JoinBatches : s \in Members(b)
  BY DEF Slots
<1>6. QED BY <1>3, <1>4, <1>5

LEMMA MembersFinite ==
    ASSUME NEW b \in JoinBatches PROVE IsFiniteSet(Members(b)) /\ Cardinality(Members(b)) \in Nat
<1>1. Len(WjSource[b]) \in Nat
  BY JoinBounds DEF JoinBatches
<1>2. IsFiniteSet(1..Len(WjSource[b]))
  BY <1>1, FS_Interval
<1>3. IsFiniteSet({<<b, i>> : i \in 1..Len(WjSource[b])})
  <2>. DEFINE f == [i \in 1..Len(WjSource[b]) |-> <<b, i>>]
  <2>1. f \in Surjection(1..Len(WjSource[b]), {<<b, i>> : i \in 1..Len(WjSource[b])})
    BY DEF Surjection
  <2>2. QED BY <1>2, <2>1, FS_Surjection
<1>4. QED BY <1>3, FS_CardinalityType DEF Members

LEMMA JoinStarts == WjInit => WjInv
<1>. SUFFICES ASSUME WjInit PROVE WjInv
  OBVIOUS
<1>1. JoinTypes /\ TrackerTypes
  BY DEF WjInit, JoinTypes, TrackerTypes
<1>2. ReceiveInv
  BY JoinBounds DEF WjInit, ReceiveInv
<1>3. \A s \in Slots : ~InLoose(s) /\ ~InReady(s) /\ ~InOut(s)
  BY DEF WjInit, InLoose, InReady, InOut, InPending
<1>4. OpenInv
  BY <1>3 DEF OpenInv, WjInit
<1>5. OnePlaceInv
  BY <1>3 DEF OnePlaceInv, WjInit
<1>0. \A s \in Slots : s[1] \in Nat \ {0}
  BY SlotShape
<1>6. TrackInv
  <2>1. Tracked = {}
    BY DEF Tracked, WjInit
  <2>2. \A s \in Slots : ~(s[1] < wjBase) /\ wjFate[s] = "open" /\ wjAcks[s] = "none"
    BY <1>0 DEF WjInit
  <2>3. QED BY <2>1, <2>2 DEF TrackInv
<1>7. RanInv
  BY DEF RanInv, WjInit, Tracked
<1>8. EveryMemberKept /\ GroupsCloseWhenComplete
  <2>1. \A s \in Slots : ~(s[1] <= wjRead)
    BY <1>0 DEF WjInit
  <2>2. OpenGroups = {}
    BY DEF OpenGroups, WjInit
  <2>3. QED BY <2>1, <2>2 DEF EveryMemberKept, GroupsCloseWhenComplete
<1>9. QED BY <1>1, <1>2, <1>4, <1>5, <1>6, <1>7, <1>8 DEF WjInv

LEMMA JoinInvSuffices == WjInv => WeakJoinInv
<1>. SUFFICES ASSUME WjInv PROVE WeakJoinInv
  OBVIOUS
<1>1. WjTypeOK
  BY DEF WjInv, WjTypeOK, JoinTypes, TrackerTypes, ReceiveInv
<1>2. MembersAckedByJoin
  BY DEF WjInv, MembersAckedByJoin, TrackInv, Told
<1>3. JoinCommitsInOrder
  <2>1. CASE wjConf.onJoin
    <3>. SUFFICES ASSUME wjConf.ordered PROVE \A b \in wjRan : 1..b \subseteq wjRan
      BY DEF JoinCommitsInOrder
    <3>1. wjRan = 1..(wjBase - 1) /\ wjBase \in Nat
      BY <2>1 DEF WjInv, RanInv, TrackerTypes
    <3>2. QED BY <3>1
  <2>2. CASE ~wjConf.onJoin
    BY <2>2 DEF WjInv, RanInv, JoinCommitsInOrder
  <2>3. QED BY <2>1, <2>2
<1>4. SettledCommitRuns
  <2>. SUFFICES ASSUME wjConf.onJoin, wjEnd # "failed", NEW b \in 1..wjRead,
                       \A s \in Members(b) : wjFate[s] # "open", b \notin wjRan
                PROVE  wjConf.ordered /\ \E a \in 1..(b - 1) : a \notin wjRan
    BY DEF SettledCommitRuns
  <2>1. wjRead \in 0..Len(WjSource) /\ wjTaken \in {0, wjRead} /\ wjBase \in Nat \ {0} /\ wjNext \in Nat
        /\ wjBase <= wjNext
    BY DEF WjInv, ReceiveInv, TrackerTypes
  <2>2. b \in JoinBatches
    BY <2>1 DEF JoinBatches
  <2>3. PICK s \in Members(b) : s \in Slots /\ s[1] = b
    BY <2>2, SlotShape
  <2>4. b # wjTaken
    BY <2>3 DEF WjInv, OpenInv
  <2>5. b < wjNext
    BY <2>1, <2>4 DEF WjInv, ReceiveInv
  <2>6. b \in Tracked => wjLeft[b] = 0
    <3>1. OpenOf(b) = {}
      BY DEF OpenOf
    <3>2. QED BY <3>1, FS_EmptySet DEF WjInv, TrackInv
  <2>7. CASE wjConf.ordered
    <3>1. wjRan = 1..(wjBase - 1) /\ (wjBase < wjNext => wjLeft[wjBase] # 0)
      BY <2>7 DEF WjInv, RanInv
    <3>2. b >= wjBase
      BY <3>1, <2>1
    <3>3. b # wjBase
      BY <3>1, <2>5, <2>6, <2>1 DEF Tracked
    <3>4. wjBase \in 1..(b - 1) /\ wjBase \notin wjRan
      BY <3>1, <3>2, <3>3, <2>1
    <3>5. QED BY <3>4, <2>7
  <2>8. CASE ~wjConf.ordered
    <3>1. wjRan = {a \in 1..(wjNext - 1) : a \notin wjHeld} /\ wjHeld \subseteq {a \in Tracked : wjLeft[a] # 0}
      BY <2>8 DEF WjInv, RanInv
    <3>2. b \in wjHeld
      BY <3>1, <2>5, <2>1
    <3>3. QED BY <3>1, <3>2, <2>6
  <2>9. QED BY <2>7, <2>8
<1>5. QED BY <1>1, <1>2, <1>3, <1>4 DEF WjInv, WeakJoinInv
\* What was settled is no longer counted.
LEMMA OpenCounted ==
    ASSUME NEW b \in JoinBatches, NEW D \in SUBSET Slots,
           \A s \in D : wjFate[s] = "open" /\ wjFate'[s] # "open",
           \A s \in Slots \ D : wjFate'[s] = wjFate[s]
    PROVE  /\ Cardinality(OpenOf(b)) \in Nat /\ Cardinality(OpenOf(b)') \in Nat
           /\ Cardinality(OpenOf(b)') = Cardinality(OpenOf(b)) - Cardinality({s \in D : s[1] = b})
           /\ Cardinality(OpenOf(b)') = 0 => \A s \in Members(b) : wjFate'[s] # "open"
<1>. DEFINE T == {s \in D : s[1] = b}
<1>1. Members(b) \subseteq Slots /\ \A s \in Slots : s \in Members(b) <=> s[1] = b
  BY SlotShape
<1>2. OpenOf(b)' = {s \in Members(b) : wjFate'[s] = "open"}
  BY DEF OpenOf
<1>3. T \subseteq OpenOf(b) /\ OpenOf(b)' = OpenOf(b) \ T
  BY <1>1, <1>2 DEF OpenOf
<1>4. IsFiniteSet(OpenOf(b))
  BY MembersFinite, FS_Subset DEF OpenOf
<1>5. Cardinality(OpenOf(b) \ T) = Cardinality(OpenOf(b)) - Cardinality(OpenOf(b) \cap T)
      /\ IsFiniteSet(OpenOf(b) \ T)
  BY <1>4, FS_Difference
<1>6. OpenOf(b) \cap T = T
  BY <1>3
<1>7. Cardinality(OpenOf(b)') = Cardinality(OpenOf(b)) - Cardinality(T)
  BY <1>3, <1>5, <1>6
<1>8. IsFiniteSet(OpenOf(b)')
  BY <1>3, <1>5
<1>9. Cardinality(OpenOf(b)') = 0 => OpenOf(b)' = {}
  BY <1>8, FS_EmptySet
<1>10. QED BY <1>2, <1>4, <1>7, <1>8, <1>9, FS_CardinalityType

LEMMA SettleAndCommitKeeps ==
    ASSUME wjConf.onJoin, wjConf.ordered \in BOOLEAN, wjConf' = wjConf,
           TrackerTypes, TrackInv, RanInv, wjNext <= Len(WjSource) + 1,
           NEW fates, DOMAIN fates \subseteq Slots,
           \A s \in DOMAIN fates :
               fates[s] \in {"ack", "nack"} /\ wjFate[s] = "open" /\ s[1] < wjNext,
           wjFate' \in [Slots -> {"open", "ack", "nack", "dropped"}],
           \A s \in DOMAIN fates : wjFate'[s] # "open" /\ Told(wjFate'[s]) = fates[s],
           \A s \in Slots \ DOMAIN fates : wjFate'[s] = wjFate[s],
           SettleAndCommit(fates)
    PROVE  /\ TrackerTypes' /\ TrackInv' /\ RanInv' /\ wjNext' = wjNext
           /\ wjEnd = "failed" => wjEnd' = "failed"
<1>. DEFINE D == DOMAIN fates
<1>1. /\ wjBase \in Nat \ {0} /\ wjNext \in Nat /\ wjBase <= wjNext
      /\ wjDisp \in [Slots -> {"ack", "nack"}] /\ wjLeft \in [JoinBatches -> Nat]
      /\ wjAcks \in [Slots -> {"none", "ack", "nack"}] /\ wjEnd \in {"running", "drained", "failed"}
  BY DEF TrackerTypes
<1>2. Tracked \subseteq JoinBatches /\ \A b \in Tracked : b \in Nat /\ wjBase <= b /\ b < wjNext
  BY <1>1, JoinBounds DEF Tracked, JoinBatches
<1>3. \A b \in JoinBatches :
        /\ Cardinality(OpenOf(b)') \in Nat
        /\ Cardinality(OpenOf(b)') = Cardinality(OpenOf(b)) - Cardinality({s \in D : s[1] = b})
        /\ Cardinality(OpenOf(b)') = 0 => \A s \in Members(b) : wjFate'[s] # "open"
  BY OpenCounted
<1>4. wjLeft' = [b \in JoinBatches |->
            IF b \in Tracked THEN wjLeft[b] - Cardinality({s \in D : s[1] = b}) ELSE wjLeft[b]]
  BY DEF SettleAndCommit, LeftAfter, Settling
<1>5. \A b \in Tracked : wjLeft'[b] = Cardinality(OpenOf(b)')
  BY <1>2, <1>3, <1>4 DEF TrackInv
<1>6. wjLeft' \in [JoinBatches -> Nat]
  <2>1. \A b \in JoinBatches : wjLeft'[b] \in Nat
    <3>1. ASSUME NEW b \in JoinBatches, b \in Tracked PROVE wjLeft'[b] \in Nat
      BY <1>3, <1>5, <3>1
    <3>2. ASSUME NEW b \in JoinBatches, b \notin Tracked PROVE wjLeft'[b] \in Nat
      BY <1>1, <1>4, <3>2
    <3>3. QED BY <3>1, <3>2
  <2>2. DOMAIN wjLeft' = JoinBatches /\ wjLeft' = [b \in JoinBatches |-> wjLeft'[b]]
    BY <1>4
  <2>3. QED BY <2>1, <2>2
<1>7. wjDisp' \in [Slots -> {"ack", "nack"}]
      /\ \A s \in Slots : s[1] \in Tracked /\ wjFate'[s] # "open" => wjDisp'[s] = Told(wjFate'[s])
  <2>1. wjDisp' = [s \in Slots |-> IF s \in D /\ s[1] \in Tracked THEN fates[s] ELSE wjDisp[s]]
    BY DEF SettleAndCommit, DispAfter
  <2>2. QED BY <1>1, <2>1 DEF TrackInv
<1>8. ASSUME NEW b \in Tracked, wjLeft'[b] = 0, NEW s \in Slots, s[1] = b
      PROVE  wjFate'[s] # "open"
  <2>1. b \in JoinBatches /\ Cardinality(OpenOf(b)') = 0
    BY <1>2, <1>5, <1>8
  <2>2. s \in Members(b)
    BY <1>8, SlotShape
  <2>3. QED BY <1>3, <2>1, <2>2
<1>9. wjNext' = wjNext
  BY DEF SettleAndCommit
<1>. DEFINE RunsUpTo(due, failing, c) ==
        /\ RunCommits(wjDisp', due, failing) /\ wjBase' = c + 1 /\ failing \subseteq due
        /\ \A b \in due : wjLeft'[b] = 0
        /\ \A b \in wjBase..c : wjLeft'[b] = 0
        /\ wjConf.ordered =>
            due = wjBase..c /\ (failing = {} /\ c + 1 < wjNext => wjLeft'[c + 1] # 0)
        /\ ~wjConf.ordered => due = {b \in Tracked : wjLeft'[b] = 0} \cap wjHeld
<1>10. \E due \in SUBSET Tracked, failing \in SUBSET Tracked, c \in (wjBase - 1)..(wjNext - 1) :
        RunsUpTo(due, failing, c)
  <2>1. PICK last \in (wjBase - 1)..(wjNext - 1) :
            /\ SettledUpTo(wjLeft', last)
            /\ IF wjConf.ordered THEN CommitInOrder(wjDisp', last)
                                 ELSE CommitAsSettled(wjLeft', wjDisp', last)
    BY DEF SettleAndCommit
  <2>2. (\A b \in wjBase..last : wjLeft'[b] = 0) /\ (last + 1 < wjNext => wjLeft'[last + 1] # 0)
    BY <2>1 DEF SettledUpTo
  <2>3. wjBase..last \subseteq Tracked
    BY <1>1, <2>1 DEF Tracked
  <2>4. ASSUME wjConf.ordered, RunCommits(wjDisp', wjBase..last, {}), wjBase' = last + 1
        PROVE  <1>10
    <3>1. RunsUpTo(wjBase..last, {}, last)
      BY <2>2, <2>4
    <3>. HIDE DEF RunsUpTo
    <3>2. QED BY <3>1, <2>3
  <2>5. ASSUME wjConf.ordered, NEW b \in wjBase..last, RunCommits(wjDisp', wjBase..b, {b}), wjBase' = b + 1
        PROVE  <1>10
    <3>1. b \in (wjBase - 1)..(wjNext - 1) /\ wjBase..b \subseteq wjBase..last /\ b \in wjBase..b
      BY <1>1, <2>1
    <3>2. RunsUpTo(wjBase..b, {b}, b)
      BY <2>2, <2>5, <3>1
    <3>3. wjBase..b \in SUBSET Tracked /\ {b} \in SUBSET Tracked
      BY <2>3, <3>1
    <3>. HIDE DEF RunsUpTo
    <3>4. QED BY <3>1, <3>2, <3>3
  <2>6. ASSUME ~wjConf.ordered, CommitAsSettled(wjLeft', wjDisp', last) PROVE <1>10
    <3>. DEFINE due == {b \in Tracked : wjLeft'[b] = 0} \cap wjHeld
    <3>1. PICK failing \in SUBSET due : RunCommits(wjDisp', due, failing) /\ wjBase' = last + 1
      BY <2>6 DEF CommitAsSettled
    <3>2. due \in SUBSET Tracked /\ failing \in SUBSET Tracked
      OBVIOUS
    <3>3. RunsUpTo(due, failing, last)
      BY <2>2, <2>6, <3>1
    <3>. HIDE DEF RunsUpTo, due
    <3>4. QED BY <3>2, <3>3
  <2>7. QED BY <2>1, <2>4, <2>5, <2>6 DEF CommitInOrder
<1>11. PICK due \in SUBSET Tracked, failing \in SUBSET Tracked, c \in (wjBase - 1)..(wjNext - 1) :
        RunsUpTo(due, failing, c)
  <2>. HIDE DEF RunsUpTo
  <2>1. QED BY <1>10
<1>12. /\ wjAcks' = [s \in Slots |-> IF s[1] \in due \ failing THEN wjDisp'[s] ELSE wjAcks[s]]
       /\ wjRan' = wjRan \cup due /\ wjHeld' = wjHeld \ due
       /\ wjEnd' = IF failing # {} THEN "failed" ELSE wjEnd
  BY <1>11 DEF RunCommits
<1>13. c \in Int /\ wjBase - 1 <= c /\ c <= wjNext - 1 /\ wjBase' = c + 1
  BY <1>1, <1>11
<1>14. TrackerTypes'
  <2>1. wjBase' \in Nat \ {0} /\ wjNext' \in Nat /\ wjBase' <= wjNext'
    BY <1>1, <1>9, <1>13
  <2>2. wjAcks' \in [Slots -> {"none", "ack", "nack"}] /\ wjEnd' \in {"running", "drained", "failed"}
    BY <1>1, <1>7, <1>12
  <2>3. QED BY <1>6, <1>7, <2>1, <2>2 DEF TrackerTypes
<1>15. Tracked' = (c + 1)..(wjNext - 1) /\ Tracked' \subseteq Tracked
  BY <1>1, <1>9, <1>13 DEF Tracked
<1>16. TrackInv'
  <2>1. \A b \in Tracked' : wjLeft'[b] = Cardinality(OpenOf(b)')
    BY <1>5, <1>15
  <2>2. ASSUME NEW s \in Slots, s[1] < wjBase' PROVE wjFate'[s] # "open"
    <3>1. s[1] \in Nat
      BY SlotShape
    <3>2. CASE s[1] < wjBase
      BY <3>2 DEF TrackInv
    <3>3. CASE s[1] \in wjBase..c
      BY <1>1, <1>8, <1>11, <1>13, <3>3 DEF Tracked
    <3>4. QED BY <1>1, <1>13, <2>2, <3>1, <3>2, <3>3
  <2>3. ASSUME NEW s \in Slots, wjAcks'[s] # "none"
        PROVE  wjFate'[s] # "open" /\ wjAcks'[s] = Told(wjFate'[s])
    <3>1. CASE s[1] \in due \ failing
      <4>1. wjFate'[s] # "open"
        BY <1>8, <1>11, <3>1
      <4>2. wjAcks'[s] = wjDisp'[s]
        BY <1>12, <3>1
      <4>3. QED BY <1>7, <1>11, <3>1, <4>1, <4>2
    <3>2. CASE s[1] \notin due \ failing
      <4>1. wjAcks'[s] = wjAcks[s]
        BY <1>12, <3>2
      <4>2. wjFate[s] # "open" /\ wjAcks[s] = Told(wjFate[s])
        BY <2>3, <4>1 DEF TrackInv
      <4>3. wjFate'[s] = wjFate[s]
        BY <4>2
      <4>4. QED BY <4>1, <4>2, <4>3
    <3>3. QED BY <3>1, <3>2
  <2>4. \A s \in Slots : s[1] \in Tracked' /\ wjFate'[s] # "open" => wjDisp'[s] = Told(wjFate'[s])
    BY <1>7, <1>15
  <2>5. QED BY <2>1, <2>2, <2>3, <2>4 DEF TrackInv
<1>17. RanInv'
  <2>1. CASE wjConf.ordered
    <3>1. wjRan = 1..(wjBase - 1) /\ due = wjBase..c
      BY <1>11, <2>1 DEF RanInv
    <3>2. wjRan' = 1..(wjBase' - 1)
      BY <1>1, <1>12, <1>13, <3>1
    <3>3. wjEnd' # "failed" /\ wjBase' < wjNext' => wjLeft'[wjBase'] # 0
      BY <1>9, <1>11, <1>12, <1>13, <2>1
    <3>4. QED BY <2>1, <3>2, <3>3 DEF RanInv
  <2>2. CASE ~wjConf.ordered
    <3>1. wjRan = {b \in 1..(wjNext - 1) : b \notin wjHeld} /\ wjHeld \subseteq {b \in Tracked : wjLeft[b] # 0}
      BY <2>2 DEF RanInv
    <3>2. due = {b \in Tracked : wjLeft'[b] = 0} \cap wjHeld
      BY <1>11, <2>2
    <3>3. due \subseteq 1..(wjNext - 1)
      BY <1>1, <1>2
    <3>4. wjRan' = {b \in 1..(wjNext' - 1) : b \notin wjHeld'}
      BY <1>9, <1>12, <3>1, <3>3
    <3>5. ASSUME NEW b \in wjHeld' PROVE b \in Tracked' /\ wjLeft'[b] # 0
      <4>1. b \in Tracked /\ wjLeft'[b] # 0
        BY <1>12, <3>1, <3>2
      <4>2. b \notin wjBase..c
        BY <1>11, <4>1
      <4>3. QED BY <1>1, <1>2, <1>13, <1>15, <4>1, <4>2
    <3>6. wjHeld' \subseteq {b \in Tracked : wjLeft[b] # 0}'
      BY <3>5
    <3>7. QED BY <2>2, <3>4, <3>6 DEF RanInv
  <2>3. QED BY <2>1, <2>2
<1>18. QED BY <1>9, <1>12, <1>14, <1>16, <1>17

\* A step that leaves the tracker and the fates alone.
LEMMA TrackerRests ==
    ASSUME WjInv, UNCHANGED <<wjConf, wjRead, wjTaken, wjTracker, wjFate, wjTold>>,
           wjEnd' \in {"running", "drained", "failed"}, wjEnd = "failed" => wjEnd' = "failed"
    PROVE  TrackerTypes' /\ ReceiveInv' /\ TrackInv' /\ RanInv'
<1>1. TrackerTypes /\ ReceiveInv /\ TrackInv /\ RanInv
  BY DEF WjInv
<1>2. TrackerTypes'
  BY <1>1 DEF TrackerTypes, wjTracker, wjTold
<1>3. ReceiveInv'
  BY <1>1 DEF ReceiveInv, wjTracker
<1>4. Tracked' = Tracked /\ \A b : OpenOf(b)' = OpenOf(b)
  BY DEF Tracked, OpenOf, wjTracker
<1>5. TrackInv'
  <2>1. wjLeft' = wjLeft /\ wjBase' = wjBase /\ wjDisp' = wjDisp /\ wjAcks' = wjAcks
    BY DEF wjTracker, wjTold
  <2>2. QED BY <1>1, <1>4, <2>1 DEF TrackInv
<1>6. RanInv'
  <2>1. UNCHANGED <<wjLeft, wjBase, wjNext, wjHeld, wjRan>>
    BY DEF wjTracker, wjTold
  <2>2. QED BY <1>1, <1>4, <2>1 DEF RanInv
<1>7. QED BY <1>2, <1>3, <1>5, <1>6

\* The places of a step that leaves the groups, what is collected and what is out alone.
LEMMA PlacesRest ==
    ASSUME UNCHANGED <<wjGroup, wjCollect, wjOut>>
    PROVE  \A s : (InLoose(s)' <=> InLoose(s)) /\ (InReady(s)' <=> InReady(s)) /\ (InOut(s)' <=> InOut(s))
                  /\ (InPending(s)' <=> InPending(s))
BY DEF InLoose, InReady, InOut, InPending, wjGroup, wjCollect

LEMMA GroupsRest ==
    ASSUME WjInv, UNCHANGED <<wjConf, wjGroup, wjCollect, wjOut>>
    PROVE  JoinTypes' /\ OnePlaceInv' /\ GroupsCloseWhenComplete'
<1>0. JoinTypes /\ OnePlaceInv /\ GroupsCloseWhenComplete
  BY DEF WjInv
<1>1. UNCHANGED <<wjConf, wjPending, wjStarted, wjReady, wjCall, wjClosing, wjNew, wjDiscarding, wjOut>>
  BY DEF wjGroup, wjCollect
<1>2. JoinTypes'
  BY <1>0, <1>1 DEF JoinTypes
<1>3. OnePlaceInv'
  BY <1>0, <1>1, PlacesRest DEF OnePlaceInv
<1>4. GroupsCloseWhenComplete'
  BY <1>0, <1>1 DEF GroupsCloseWhenComplete, OpenGroups, Complete
<1>5. QED BY <1>2, <1>3, <1>4

LEMMA InnerReadsKeeps == ASSUME WjInv, InnerReads PROVE WjInv'
<1>1. /\ wjEnd = "running" /\ wjTaken = 0 /\ wjRead < Len(WjSource)
      /\ wjRead' = wjRead + 1 /\ wjTaken' = wjRead + 1
      /\ UNCHANGED <<wjConf, wjGroup, wjCollect, wjTracker, wjRoute, wjTold, wjEnd>>
  BY DEF InnerReads
<1>2. JoinTypes /\ TrackerTypes /\ ReceiveInv /\ OpenInv /\ TrackInv /\ RanInv /\ EveryMemberKept
  BY DEF WjInv
<1>3. wjRead \in Nat /\ Len(WjSource) \in Nat
  BY <1>2, JoinBounds DEF ReceiveInv
<1>4. UNCHANGED <<wjBase, wjNext, wjDisp, wjLeft, wjHeld, wjAcks, wjRan, wjFate, wjEnd, wjConf, wjOut>>
  BY <1>1 DEF wjTracker, wjRoute, wjTold
<1>5. JoinTypes' /\ OnePlaceInv' /\ GroupsCloseWhenComplete'
  BY <1>1, <1>4, GroupsRest
<1>6. TrackerTypes'
  BY <1>2, <1>4 DEF TrackerTypes
<1>7. ReceiveInv'
  BY <1>1, <1>2, <1>3, <1>4 DEF ReceiveInv, TrackerTypes
<1>8. \A s : (InLoose(s)' <=> InLoose(s)) /\ (InReady(s)' <=> InReady(s)) /\ (InOut(s)' <=> InOut(s))
             /\ (InPending(s)' <=> InPending(s))
  BY <1>1, <1>4, PlacesRest
<1>9. OpenInv'
  <2>. SUFFICES ASSUME NEW s \in Slots
       PROVE  /\ InLoose(s) \/ InReady(s) \/ InOut(s) =>
                    /\ wjFate[s] = "open" /\ s[1] <= wjRead' /\ s[1] # wjTaken'
                    /\ wjConf.onJoin => s[1] < wjNext
              /\ s[1] > wjRead' \/ s[1] = wjTaken' => wjFate[s] = "open"
    BY <1>4, <1>8 DEF OpenInv
  <2>1. s[1] \in Nat
    BY SlotShape
  <2>2. QED BY <1>1, <1>2, <1>3, <2>1 DEF OpenInv
<1>10. Tracked' = Tracked /\ \A b : OpenOf(b)' = OpenOf(b)
  BY <1>4 DEF Tracked, OpenOf
<1>11. TrackInv'
  BY <1>2, <1>4, <1>10 DEF TrackInv
<1>12. RanInv'
  <2>1. ~wjConf.onJoin => wjRan = 1..wjRead
    BY <1>1, <1>2 DEF RanInv
  <2>2. ~wjConf.onJoin => wjRan = 1..(wjRead' - 1) /\ wjTaken' # 0
    BY <1>1, <1>3, <2>1
  <2>3. QED BY <1>2, <1>4, <1>10, <2>2 DEF RanInv
<1>13. EveryMemberKept'
  <2>. SUFFICES ASSUME NEW s \in Slots, s[1] <= wjRead', wjTaken' # s[1]
       PROVE  s \in wjNew \/ InPending(s) \/ s \in wjDiscarding \/ InReady(s) \/ InOut(s) \/ wjFate[s] # "open"
    BY <1>1, <1>4, <1>8 DEF EveryMemberKept, wjCollect
  <2>1. s[1] \in Nat \ {0}
    BY SlotShape
  <2>2. s[1] <= wjRead /\ wjTaken # s[1]
    BY <1>1, <1>3, <2>1
  <2>3. QED BY <1>1, <1>2, <2>2 DEF EveryMemberKept
<1>14. QED BY <1>5, <1>6, <1>7, <1>9, <1>11, <1>12, <1>13 DEF WjInv
\* What the source has nothing new for: only the groups to close are set.
LEMMA CollectingKeeps ==
    ASSUME WjInv, NEW groups \in SUBSET WjGroups, Collect(groups, {}), Joining,
           UNCHANGED <<wjConf, wjRead, wjTaken, wjGroup, wjTracker, wjRoute, wjTold, wjEnd>>
    PROVE  WjInv'
<1>1. JoinTypes /\ TrackerTypes /\ OpenInv /\ OnePlaceInv /\ EveryMemberKept /\ GroupsCloseWhenComplete
  BY DEF WjInv
<1>2. wjClosing' = groups /\ wjNew' = {} /\ wjCall' = "collecting" /\ wjDiscarding' = wjDiscarding /\ wjNew = {}
      /\ wjCall = "idle"
  BY <1>1 DEF Collect, Joining, JoinTypes
<1>3. UNCHANGED <<wjConf, wjRead, wjTaken, wjPending, wjReady, wjOut, wjNew, wjDiscarding, wjNext, wjFate, wjEnd>>
  BY <1>2 DEF wjGroup, wjTracker, wjRoute
<1>4. TrackerTypes' /\ ReceiveInv' /\ TrackInv' /\ RanInv'
  BY <1>1, <1>3, TrackerRests DEF TrackerTypes
<1>5. \A s : (InLoose(s)' <=> InLoose(s)) /\ (InReady(s)' <=> InReady(s)) /\ (InOut(s)' <=> InOut(s))
             /\ (InPending(s)' <=> InPending(s))
  BY <1>3 DEF InLoose, InReady, InOut, InPending
<1>6. JoinTypes'
  BY <1>1, <1>2, <1>3 DEF JoinTypes
<1>7. OpenInv'
  BY <1>1, <1>3, <1>5 DEF OpenInv
<1>8. OnePlaceInv'
  BY <1>1, <1>3, <1>5 DEF OnePlaceInv
<1>9. EveryMemberKept'
  BY <1>1, <1>3, <1>5 DEF EveryMemberKept
<1>10. GroupsCloseWhenComplete'
  BY <1>1, <1>3 DEF GroupsCloseWhenComplete, OpenGroups, Complete
<1>11. QED BY <1>4, <1>6, <1>7, <1>8, <1>9, <1>10 DEF WjInv

LEMMA ReceiveNothingKeeps == ASSUME WjInv, ReceiveEmpty \/ ReceiveTimeout PROVE WjInv'
<1>1. PICK groups \in SUBSET WjGroups : Collect(groups, {})
  BY DEF ReceiveEmpty, ReceiveTimeout
<1>2. Joining /\ UNCHANGED <<wjConf, wjRead, wjTaken, wjGroup, wjTracker, wjRoute, wjTold, wjEnd>>
  BY DEF ReceiveEmpty, ReceiveTimeout
<1>3. QED BY <1>1, <1>2, CollectingKeeps

\* A receive that fails, with or without having run the batch's commit.
LEMMA ReceiveFailsKeeps ==
    ASSUME WjInv, wjTaken' = 0, wjEnd' = "failed",
           UNCHANGED <<wjConf, wjRead, wjGroup, wjCollect, wjTracker, wjRoute, wjAcks>>,
           \/ wjRan' = wjRan
           \/ ~wjConf.onJoin /\ wjTaken # 0 /\ wjEnd # "failed" /\ wjRan' = wjRan \cup {wjTaken}
    PROVE  WjInv'
<1>1. TrackerTypes /\ ReceiveInv /\ OpenInv /\ TrackInv /\ RanInv
  BY DEF WjInv
<1>2. UNCHANGED <<wjConf, wjRead, wjBase, wjNext, wjDisp, wjLeft, wjHeld, wjAcks, wjFate, wjOut>>
  BY DEF wjTracker, wjRoute
<1>3. JoinTypes' /\ OnePlaceInv' /\ GroupsCloseWhenComplete'
  BY <1>2, GroupsRest
<1>4. TrackerTypes' /\ ReceiveInv'
  BY <1>1, <1>2 DEF TrackerTypes, ReceiveInv
<1>5. \A s : (InLoose(s)' <=> InLoose(s)) /\ (InReady(s)' <=> InReady(s)) /\ (InOut(s)' <=> InOut(s))
  BY <1>2, PlacesRest
<1>6. \A s \in Slots : s[1] # 0
  BY SlotShape
<1>7. OpenInv'
  BY <1>1, <1>2, <1>5, <1>6 DEF OpenInv
<1>8. Tracked' = Tracked /\ \A b : OpenOf(b)' = OpenOf(b)
  BY <1>2 DEF Tracked, OpenOf
<1>9. TrackInv'
  BY <1>1, <1>2, <1>8 DEF TrackInv
<1>10. RanInv'
  <2>1. CASE wjRan' = wjRan
    BY <1>1, <1>2, <1>8, <2>1 DEF RanInv
  <2>2. CASE ~wjConf.onJoin /\ wjTaken # 0 /\ wjEnd # "failed" /\ wjRan' = wjRan \cup {wjTaken}
    <3>1. wjTaken = wjRead /\ wjRead \in Nat /\ wjRan = 1..(wjRead - 1)
      BY <1>1, <2>2 DEF ReceiveInv, RanInv
    <3>2. wjRan' = 1..wjRead
      BY <2>2, <3>1
    <3>3. \A b \in wjRan' : 1..b \subseteq wjRan'
      BY <3>1, <3>2
    <3>4. QED BY <1>2, <2>2, <3>3 DEF RanInv
  <2>3. QED BY <2>1, <2>2
<1>11. EveryMemberKept'
  BY DEF EveryMemberKept
<1>12. QED BY <1>3, <1>4, <1>7, <1>9, <1>10, <1>11 DEF WjInv

LEMMA SourceFailsKeeps == ASSUME WjInv, JoinSourceFails PROVE WjInv'
BY ReceiveFailsKeeps DEF JoinSourceFails, wjTold

\* A batch is received: its members are new, and its commit is tracked or has run.
LEMMA BatchComesKeeps ==
    ASSUME WjInv, Joining, wjTaken # 0, wjTaken' = 0, NEW groups \in SUBSET WjGroups,
           Collect(groups, Members(wjTaken)),
           UNCHANGED <<wjConf, wjRead, wjGroup, wjRoute, wjEnd>>,
           IF wjConf.onJoin
             THEN RegisterBatch(wjTaken) /\ UNCHANGED wjTold
             ELSE /\ wjAcks' = [s \in Slots |-> IF s[1] = wjTaken THEN "ack" ELSE wjAcks[s]]
                  /\ wjRan' = wjRan \cup {wjTaken}
                  /\ UNCHANGED wjTracker
    PROVE  WjInv'
<1>1. JoinTypes /\ TrackerTypes /\ ReceiveInv /\ OpenInv /\ OnePlaceInv /\ TrackInv /\ RanInv
      /\ EveryMemberKept /\ GroupsCloseWhenComplete
  BY DEF WjInv
<1>2. wjClosing' = groups /\ wjNew' = Members(wjTaken) /\ wjCall' = "collecting" /\ wjDiscarding' = {}
      /\ wjNew = {} /\ wjDiscarding = {} /\ wjEnd = "running"
  BY <1>1 DEF Collect, Joining, JoinTypes
<1>3. wjRead \in Nat \ {0} /\ wjTaken = wjRead /\ wjTaken \in JoinBatches
  BY <1>1 DEF ReceiveInv, JoinBatches
<1>4. /\ Members(wjTaken) \subseteq Slots
      /\ \A s \in Slots : s[1] \in Nat \ {0} /\ (s \in Members(wjTaken) <=> s[1] = wjTaken)
  BY <1>3, SlotShape
<1>5. UNCHANGED <<wjConf, wjRead, wjPending, wjReady, wjOut, wjFate, wjEnd, wjDiscarding>>
  BY <1>2 DEF wjGroup, wjRoute
<1>6. \A s : /\ InReady(s)' <=> InReady(s)
             /\ InOut(s)' <=> InOut(s)
             /\ InPending(s)' <=> InPending(s)
             /\ InLoose(s)' <=> (InLoose(s) \/ s \in Members(wjTaken))
  BY <1>2, <1>5 DEF InLoose, InReady, InOut, InPending
<1>7. \A s \in Members(wjTaken) : ~InLoose(s) /\ ~InReady(s) /\ ~InOut(s) /\ ~InPending(s) /\ wjFate[s] = "open"
  BY <1>1, <1>4 DEF OpenInv, InLoose
<1>8. wjConf.onJoin \in BOOLEAN
  BY <1>1 DEF JoinTypes
<1>9. wjConf.onJoin => wjNext = wjTaken /\ wjNext' = wjNext + 1
  BY <1>1 DEF ReceiveInv, RegisterBatch
<1>10. JoinTypes'
  BY <1>1, <1>2, <1>4, <1>5 DEF JoinTypes
<1>11. OpenInv'
  BY <1>1, <1>3, <1>4, <1>5, <1>6, <1>7, <1>9 DEF OpenInv
<1>12. OnePlaceInv'
  <2>1. ASSUME NEW k \in WjGroups, NEW s \in wjPending[k]
        PROVE  Member(s).group = k /\ s \notin wjNew' /\ s \notin wjDiscarding'
    <3>1. InPending(s)
      BY DEF InPending
    <3>2. QED BY <1>1, <1>2, <1>7, <3>1 DEF OnePlaceInv
  <2>2. \A s \in Slots : (InLoose(s)' => ~InReady(s)' /\ ~InOut(s)') /\ ~(InReady(s)' /\ InOut(s)')
    BY <1>1, <1>6, <1>7 DEF OnePlaceInv
  <2>3. QED BY <1>1, <1>2, <1>5, <2>1, <2>2 DEF OnePlaceInv
<1>13. EveryMemberKept'
  <2>. SUFFICES ASSUME NEW s \in Slots, s[1] <= wjRead
       PROVE  s \in wjNew' \/ InPending(s) \/ InReady(s) \/ InOut(s) \/ wjFate[s] # "open"
    BY <1>2, <1>5, <1>6 DEF EveryMemberKept
  <2>1. CASE s[1] = wjTaken
    BY <1>2, <1>4, <2>1
  <2>2. CASE s[1] # wjTaken
    BY <1>1, <1>2, <2>2 DEF EveryMemberKept
  <2>3. QED BY <2>1, <2>2
<1>14. GroupsCloseWhenComplete'
  BY <1>1, <1>5 DEF GroupsCloseWhenComplete, OpenGroups, Complete
<1>15. CASE wjConf.onJoin
  <2>1. /\ wjNext' = wjNext + 1 /\ wjLeft' = [wjLeft EXCEPT ![wjTaken] = Cardinality(Members(wjTaken))]
        /\ wjHeld' = wjHeld \cup {wjTaken} /\ UNCHANGED <<wjBase, wjDisp, wjAcks, wjRan>>
    BY <1>15 DEF RegisterBatch, wjTold
  <2>2. Cardinality(Members(wjTaken)) \in Nat /\ Cardinality(Members(wjTaken)) # 0
    BY <1>3, MembersFinite, FS_EmptySet, SlotShape
  <2>3. wjBase \in Nat \ {0} /\ wjNext \in Nat /\ wjBase <= wjNext /\ wjLeft \in [JoinBatches -> Nat]
    BY <1>1 DEF TrackerTypes
  <2>11. /\ wjLeft' \in [JoinBatches -> Nat] /\ wjLeft'[wjTaken] = Cardinality(Members(wjTaken))
         /\ \A b \in JoinBatches : b # wjTaken => wjLeft'[b] = wjLeft[b]
    BY <1>3, <2>1, <2>2, <2>3
  <2>4. TrackerTypes'
    BY <1>1, <1>5, <2>1, <2>3, <2>11 DEF TrackerTypes
  <2>5. ReceiveInv'
    BY <1>1, <1>3, <1>5, <1>9 DEF ReceiveInv
  <2>6. Tracked' = Tracked \cup {wjTaken} /\ wjTaken \notin Tracked /\ Tracked \subseteq JoinBatches
    BY <1>3, <1>9, <1>15, <2>1, <2>3 DEF Tracked, JoinBatches
  <2>7. /\ \A b : OpenOf(b)' = OpenOf(b)
        /\ OpenOf(wjTaken) = Members(wjTaken)
    BY <1>5, <1>7 DEF OpenOf
  <2>8. TrackInv'
    <3>1. \A b \in Tracked' : wjLeft'[b] = Cardinality(OpenOf(b))
      <4>1. ASSUME NEW b \in Tracked PROVE wjLeft'[b] = Cardinality(OpenOf(b))
        BY <1>1, <1>15, <2>6, <2>11 DEF TrackInv
      <4>2. QED BY <2>6, <2>7, <2>11, <4>1
    <3>2. \A s \in Slots : s[1] \in Tracked' /\ wjFate[s] # "open" => s[1] \in Tracked
      BY <1>4, <1>7, <2>6
    <3>3. QED BY <1>1, <1>5, <1>15, <2>1, <2>7, <3>1, <3>2 DEF TrackInv
  <2>9. RanInv'
    <3>1. CASE wjConf.ordered
      <4>1. wjRan = 1..(wjBase - 1) /\ (wjBase < wjNext => wjLeft[wjBase] # 0)
        BY <1>1, <1>2, <1>15, <3>1 DEF RanInv
      <4>2. wjLeft'[wjBase] # 0
        BY <1>3, <1>9, <1>15, <2>1, <2>2, <2>3, <4>1
      <4>3. QED BY <1>5, <1>15, <2>1, <3>1, <4>1, <4>2 DEF RanInv
    <3>2. CASE ~wjConf.ordered
      <4>1. wjRan = {b \in 1..(wjNext - 1) : b \notin wjHeld} /\ wjHeld \subseteq {b \in Tracked : wjLeft[b] # 0}
        BY <1>1, <1>15, <3>2 DEF RanInv
      <4>2. wjRan = {b \in 1..(wjNext' - 1) : b \notin wjHeld'}
        BY <1>3, <1>9, <1>15, <2>1, <2>3, <4>1
      <4>3. \A b \in wjHeld' : b \in Tracked' /\ wjLeft'[b] # 0
        BY <1>3, <2>1, <2>2, <2>3, <2>6, <4>1
      <4>4. wjHeld' \subseteq {b \in Tracked : wjLeft[b] # 0}'
        BY <4>3
      <4>5. QED BY <1>5, <1>15, <2>1, <3>2, <4>2, <4>4 DEF RanInv
    <3>3. QED BY <3>1, <3>2
  <2>10. QED BY <1>10, <1>11, <1>12, <1>13, <1>14, <2>4, <2>5, <2>8, <2>9 DEF WjInv
<1>16. CASE ~wjConf.onJoin
  <2>1. /\ wjAcks' = [s \in Slots |-> IF s[1] = wjTaken THEN "ack" ELSE wjAcks[s]]
        /\ wjRan' = wjRan \cup {wjTaken} /\ UNCHANGED <<wjBase, wjNext, wjDisp, wjLeft, wjHeld>>
    BY <1>16 DEF wjTracker
  <2>2. TrackerTypes' /\ TrackInv' /\ ReceiveInv'
    BY <1>1, <1>5, <1>16, <2>1 DEF TrackerTypes, TrackInv, ReceiveInv
  <2>3. wjRan = 1..(wjRead - 1)
    BY <1>1, <1>2, <1>3, <1>16 DEF RanInv
  <2>4. wjRan' = 1..wjRead
    BY <1>3, <2>1, <2>3
  <2>5. \A b \in wjRan' : 1..b \subseteq wjRan'
    BY <1>3, <2>4
  <2>6. RanInv'
    BY <1>5, <1>16, <2>4, <2>5 DEF RanInv
  <2>7. QED BY <1>10, <1>11, <1>12, <1>13, <1>14, <2>2, <2>6 DEF WjInv
<1>17. QED BY <1>15, <1>16

LEMMA ReceiveBatchKeeps == ASSUME WjInv, ReceiveBatch PROVE WjInv'
<1>1. /\ Joining /\ wjTaken # 0 /\ wjTaken' = 0 /\ UNCHANGED <<wjConf, wjRead, wjGroup, wjRoute>>
  BY DEF ReceiveBatch
<1>2. ASSUME NEW groups \in SUBSET WjGroups, Collect(groups, Members(wjTaken)), wjEnd' = wjEnd,
             IF wjConf.onJoin
               THEN RegisterBatch(wjTaken) /\ UNCHANGED wjTold
               ELSE /\ wjAcks' = [s \in Slots |-> IF s[1] = wjTaken THEN "ack" ELSE wjAcks[s]]
                    /\ wjRan' = wjRan \cup {wjTaken}
                    /\ UNCHANGED wjTracker
      PROVE  WjInv'
  BY <1>1, <1>2, BatchComesKeeps
<1>3. CASE /\ ~wjConf.onJoin /\ wjRan' = wjRan \cup {wjTaken} /\ wjEnd' = "failed"
           /\ UNCHANGED <<wjCollect, wjTracker, wjAcks>>
  BY <1>1, <1>3, ReceiveFailsKeeps DEF Joining
<1>4. QED BY <1>2, <1>3 DEF ReceiveBatch
\* The shape of the joined messages that wait.
LEMMA ReadyAppended ==
    ASSUME wjReady \in Seq(SUBSET Slots), NEW slots \in SUBSET Slots, wjReady' = Append(wjReady, slots)
    PROVE  /\ wjReady' \in Seq(SUBSET Slots)
           /\ DOMAIN wjReady' = DOMAIN wjReady \cup {Len(wjReady) + 1} /\ Len(wjReady) + 1 \notin DOMAIN wjReady
           /\ \A m \in DOMAIN wjReady : wjReady'[m] = wjReady[m]
           /\ wjReady'[Len(wjReady) + 1] = slots
           /\ \A s : InReady(s)' <=> (InReady(s) \/ s \in slots)
<1>. DEFINE S == SUBSET Slots
<1>1. wjReady \in Seq(S) /\ slots \in S
  OBVIOUS
<1>. HIDE DEF S
<1>2. /\ wjReady' \in Seq(S) /\ Len(wjReady') = Len(wjReady) + 1 /\ Len(wjReady) \in Nat
      /\ \A m \in 1..Len(wjReady) : wjReady'[m] = wjReady[m]
      /\ wjReady'[Len(wjReady) + 1] = slots
      /\ DOMAIN wjReady = 1..Len(wjReady) /\ DOMAIN wjReady' = 1..Len(wjReady')
  BY <1>1, AppendProperties, LenProperties
<1>3. DOMAIN wjReady' = DOMAIN wjReady \cup {Len(wjReady) + 1} /\ Len(wjReady) + 1 \notin DOMAIN wjReady
  BY <1>2
<1>4. \A s : InReady(s)' <=> (InReady(s) \/ s \in slots)
  BY <1>2, <1>3 DEF InReady
<1>5. QED BY <1>2, <1>3, <1>4 DEF S

\* Slots that wait in a group go into a joined message, and nowhere else.
LEMMA JoinedOnce ==
    ASSUME WjInv, NEW slots \in SUBSET Slots, wjReady' = Append(wjReady, slots), wjOut' = wjOut,
           \A s \in slots : InLoose(s)
    PROVE  /\ \A m, n \in DOMAIN wjReady' : m # n => wjReady'[m] \cap wjReady'[n] = {}
           /\ \A s \in Slots : ~(InReady(s)' /\ InOut(s)')
<1>1. JoinTypes /\ OnePlaceInv
  BY DEF WjInv
<1>2. /\ DOMAIN wjReady' = DOMAIN wjReady \cup {Len(wjReady) + 1}
      /\ \A m \in DOMAIN wjReady : wjReady'[m] = wjReady[m]
      /\ wjReady'[Len(wjReady) + 1] = slots
      /\ \A s : InReady(s)' <=> (InReady(s) \/ s \in slots)
  BY <1>1, ReadyAppended DEF JoinTypes
<1>3. \A m \in DOMAIN wjReady : wjReady[m] \cap slots = {}
  BY <1>1 DEF OnePlaceInv, InReady
<1>4. \A s : InOut(s)' <=> InOut(s)
  BY DEF InOut
<1>5. \A s \in Slots : ~(InReady(s)' /\ InOut(s)')
  BY <1>1, <1>2, <1>4 DEF OnePlaceInv
<1>6. \A m, n \in DOMAIN wjReady : m # n => wjReady[m] \cap wjReady[n] = {}
  BY <1>1 DEF OnePlaceInv
<1>7. QED BY <1>2, <1>3, <1>5, <1>6

LEMMA CloseGroupKeeps == ASSUME WjInv, NEW k \in WjGroups, CloseGroup(k) PROVE WjInv'
<1>1. JoinTypes /\ TrackerTypes /\ ReceiveInv /\ OpenInv /\ OnePlaceInv /\ EveryMemberKept /\ GroupsCloseWhenComplete
  BY DEF WjInv
<1>2. /\ wjCall = "collecting" /\ wjClosing' = wjClosing \ {k}
      /\ wjPending' = [wjPending EXCEPT ![k] = {}]
      /\ UNCHANGED <<wjConf, wjRead, wjTaken, wjCall, wjNew, wjOut, wjFate, wjEnd, wjNext>>
      /\ UNCHANGED <<wjTracker, wjTold>>
  BY DEF CloseGroup, wjRoute, wjTracker
<1>3. wjPending' \in [WjGroups -> SUBSET Slots] /\ wjPending[k] \in SUBSET Slots
      /\ wjPending'[k] = {} /\ \A j \in WjGroups : j # k => wjPending'[j] = wjPending[j]
  BY <1>1, <1>2 DEF JoinTypes
<1>4. TrackerTypes' /\ ReceiveInv' /\ TrackInv' /\ RanInv'
  BY <1>1, <1>2, TrackerRests DEF TrackerTypes
<1>5. \A s \in wjPending[k] : InPending(s) /\ InLoose(s) /\ s \notin wjNew /\ s \notin wjDiscarding /\ s \in Slots
  BY <1>1, <1>3 DEF OnePlaceInv, InPending, InLoose
<1>6. \A s \in Slots : InPending(s) <=> (InPending(s)' \/ s \in wjPending[k])
  BY <1>3 DEF InPending
<1>7. \A s \in Slots : InPending(s)' => s \notin wjPending[k]
  BY <1>1, <1>3 DEF InPending, OnePlaceInv
<1>8. \A s : InOut(s)' <=> InOut(s)
  BY <1>2 DEF InOut
<1>9. GroupsCloseWhenComplete'
  BY <1>1, <1>2, <1>3 DEF GroupsCloseWhenComplete, OpenGroups, Complete
<1>10. CASE wjConf.discard
  <2>1. wjDiscarding' = wjDiscarding \cup wjPending[k] /\ wjReady' = wjReady
    BY <1>10 DEF CloseGroup
  <2>2. \A s : InReady(s)' <=> InReady(s)
    BY <2>1 DEF InReady
  <2>3. \A s \in Slots : InLoose(s)' <=> InLoose(s)
    BY <1>2, <1>6, <2>1 DEF InLoose
  <2>4. JoinTypes'
    BY <1>1, <1>2, <1>3, <2>1 DEF JoinTypes
  <2>5. OpenInv'
    BY <1>1, <1>2, <1>8, <2>2, <2>3 DEF OpenInv
  <2>6. OnePlaceInv'
    <3>1. ASSUME NEW j \in WjGroups, NEW s \in wjPending'[j]
          PROVE  Member(s).group = j /\ s \notin wjNew' /\ s \notin wjDiscarding'
      <4>1. j # k /\ s \in wjPending[j] /\ s \in Slots
        BY <1>1, <1>3 DEF JoinTypes
      <4>2. Member(s).group = j /\ s \notin wjNew /\ s \notin wjDiscarding
        BY <1>1, <4>1 DEF OnePlaceInv
      <4>3. s \notin wjPending[k]
        BY <1>1, <4>1, <4>2 DEF OnePlaceInv
      <4>4. QED BY <1>2, <2>1, <4>2, <4>3
    <3>2. wjNew' \cap wjDiscarding' = {}
      BY <1>1, <1>2, <1>5, <2>1 DEF OnePlaceInv
    <3>3. QED BY <1>1, <1>2, <1>8, <2>1, <2>2, <2>3, <3>1, <3>2 DEF OnePlaceInv
  <2>7. EveryMemberKept'
    BY <1>1, <1>2, <1>6, <1>8, <2>1, <2>2 DEF EveryMemberKept
  <2>8. QED BY <1>4, <1>9, <2>4, <2>5, <2>6, <2>7 DEF WjInv
<1>11. CASE ~wjConf.discard
  <2>1. wjDiscarding' = wjDiscarding /\ wjReady' = Append(wjReady, wjPending[k])
    BY <1>11 DEF CloseGroup
  <2>2. wjReady' \in Seq(SUBSET Slots) /\ \A s : InReady(s)' <=> (InReady(s) \/ s \in wjPending[k])
    BY <1>1, <1>3, <2>1, ReadyAppended DEF JoinTypes
  <2>3. \A s \in Slots : InLoose(s) <=> (InLoose(s)' \/ s \in wjPending[k])
    BY <1>2, <1>6, <2>1 DEF InLoose
  <2>4. JoinTypes'
    BY <1>1, <1>2, <1>3, <2>1, <2>2 DEF JoinTypes
  <2>5. OpenInv'
    BY <1>1, <1>2, <1>8, <2>2, <2>3 DEF OpenInv
  <2>6. OnePlaceInv'
    <3>1. ASSUME NEW j \in WjGroups, NEW s \in wjPending'[j]
          PROVE  Member(s).group = j /\ s \notin wjNew' /\ s \notin wjDiscarding'
      BY <1>1, <1>2, <1>3, <2>1 DEF OnePlaceInv
    <3>2. \A s \in Slots : InLoose(s)' => s \notin wjPending[k]
      BY <1>2, <1>5, <1>7, <2>1 DEF InLoose
    <3>3. \A s \in Slots : InLoose(s)' => ~InReady(s)' /\ ~InOut(s)'
      BY <1>1, <1>8, <2>2, <2>3, <3>2 DEF OnePlaceInv
    <3>4. /\ \A m, n \in DOMAIN wjReady' : m # n => wjReady'[m] \cap wjReady'[n] = {}
          /\ \A s \in Slots : ~(InReady(s)' /\ InOut(s)')
      BY <1>2, <1>3, <1>5, <2>1, JoinedOnce
    <3>5. wjNew' \cap wjDiscarding' = {} /\ wjOut' = wjOut
      BY <1>1, <1>2, <2>1 DEF OnePlaceInv
    <3>6. QED BY <1>1, <3>1, <3>3, <3>4, <3>5 DEF OnePlaceInv
  <2>7. EveryMemberKept'
    BY <1>1, <1>2, <1>6, <1>8, <2>1, <2>2 DEF EveryMemberKept
  <2>8. QED BY <1>4, <1>9, <2>4, <2>5, <2>6, <2>7 DEF WjInv
<1>12. QED BY <1>10, <1>11
LEMMA AdmitKeeps == ASSUME WjInv, NEW s \in wjNew, Admit(s) PROVE WjInv'
<1>. DEFINE k == Member(s).group
            slots == wjPending[k] \cup {s}
<1>1. JoinTypes /\ TrackerTypes /\ ReceiveInv /\ OpenInv /\ OnePlaceInv /\ EveryMemberKept /\ GroupsCloseWhenComplete
  BY DEF WjInv
<1>2. /\ wjCall = "collecting" /\ wjNew' = wjNew \ {s}
      /\ UNCHANGED <<wjConf, wjRead, wjTaken, wjCall, wjClosing, wjDiscarding, wjOut, wjFate, wjEnd, wjNext>>
      /\ UNCHANGED <<wjTracker, wjTold>>
  BY DEF Admit, wjRoute, wjTracker
<1>3. s \in Slots /\ k \in WjGroups /\ slots \in SUBSET Slots /\ wjPending[k] \subseteq Slots
  BY <1>1, SlotShape DEF JoinTypes
<1>4. TrackerTypes' /\ ReceiveInv' /\ TrackInv' /\ RanInv'
  BY <1>1, <1>2, TrackerRests DEF TrackerTypes
<1>5. \A r \in slots : InLoose(r) /\ r \in Slots /\ r \notin wjDiscarding
  BY <1>1, <1>3 DEF InLoose, InPending, OnePlaceInv
<1>6. \A r : InOut(r)' <=> InOut(r)
  BY <1>2 DEF InOut
<1>7. \A r \in Slots : InPending(r) => r # s
  BY <1>1 DEF InPending, OnePlaceInv
<1>8. CASE Complete(slots)
  <2>1. wjPending' = [wjPending EXCEPT ![k] = {}] /\ wjReady' = Append(wjReady, slots)
    BY <1>8 DEF Admit
  <2>2. wjPending' \in [WjGroups -> SUBSET Slots]
        /\ wjPending'[k] = {} /\ \A j \in WjGroups : j # k => wjPending'[j] = wjPending[j]
    BY <1>1, <1>3, <2>1 DEF JoinTypes
  <2>3. wjReady' \in Seq(SUBSET Slots) /\ \A r : InReady(r)' <=> (InReady(r) \/ r \in slots)
    BY <1>1, <1>3, <2>1, ReadyAppended DEF JoinTypes
  <2>4. \A r \in Slots : InPending(r) <=> (InPending(r)' \/ r \in wjPending[k])
    BY <1>3, <2>2 DEF InPending
  <2>5. \A r \in Slots : InPending(r)' => r \notin slots
    <3>1. ASSUME NEW r \in Slots, NEW j \in WjGroups, r \in wjPending'[j] PROVE r \notin slots
      <4>1. j # k /\ r \in wjPending[j]
        BY <2>2, <3>1
      <4>2. Member(r).group = j /\ r \notin wjNew
        BY <1>1, <4>1 DEF OnePlaceInv
      <4>3. QED BY <1>1, <1>3, <4>1, <4>2 DEF OnePlaceInv
    <3>2. QED BY <3>1 DEF InPending
  <2>6. \A r \in Slots : InLoose(r) <=> (InLoose(r)' \/ r \in slots)
    BY <1>2, <1>5, <2>4 DEF InLoose
  <2>7. \A r \in Slots : InLoose(r)' => r \notin slots
    <3>1. \A r \in wjNew' : r \notin slots
      BY <1>1, <1>2, <1>3 DEF OnePlaceInv
    <3>2. \A r \in wjDiscarding' : r \notin slots
      BY <1>2, <1>5
    <3>3. QED BY <2>5, <3>1, <3>2 DEF InLoose
  <2>8. JoinTypes'
    BY <1>1, <1>2, <2>2, <2>3 DEF JoinTypes
  <2>9. OpenInv'
    BY <1>1, <1>2, <1>5, <1>6, <2>3, <2>6 DEF OpenInv
  <2>10. OnePlaceInv'
    <3>1. ASSUME NEW j \in WjGroups, NEW r \in wjPending'[j]
          PROVE  Member(r).group = j /\ r \notin wjNew' /\ r \notin wjDiscarding'
      BY <1>1, <1>2, <2>2 DEF OnePlaceInv
    <3>2. \A r \in Slots : InLoose(r)' => ~InReady(r)' /\ ~InOut(r)'
      BY <1>1, <1>6, <2>3, <2>6, <2>7 DEF OnePlaceInv
    <3>3. /\ \A m, n \in DOMAIN wjReady' : m # n => wjReady'[m] \cap wjReady'[n] = {}
          /\ \A r \in Slots : ~(InReady(r)' /\ InOut(r)')
      BY <1>2, <1>3, <1>5, <2>1, JoinedOnce
    <3>4. wjNew' \cap wjDiscarding' = {} /\ wjOut' = wjOut
      BY <1>1, <1>2 DEF OnePlaceInv
    <3>5. QED BY <1>1, <3>1, <3>2, <3>3, <3>4 DEF OnePlaceInv
  <2>11. EveryMemberKept'
    BY <1>1, <1>2, <1>6, <2>3, <2>4 DEF EveryMemberKept
  <2>12. GroupsCloseWhenComplete'
    BY <1>1, <1>2, <2>2 DEF GroupsCloseWhenComplete, OpenGroups, Complete
  <2>13. QED BY <1>4, <2>8, <2>9, <2>10, <2>11, <2>12 DEF WjInv
<1>9. CASE ~Complete(slots)
  <2>1. wjPending' = [wjPending EXCEPT ![k] = slots] /\ wjReady' = wjReady
    BY <1>9 DEF Admit
  <2>2. wjPending' \in [WjGroups -> SUBSET Slots]
        /\ wjPending'[k] = slots /\ \A j \in WjGroups : j # k => wjPending'[j] = wjPending[j]
    BY <1>1, <1>3, <2>1 DEF JoinTypes
  <2>3. \A r : InReady(r)' <=> InReady(r)
    BY <2>1 DEF InReady
  <2>4. \A r \in Slots : InPending(r)' <=> (InPending(r) \/ r = s)
    BY <1>3, <2>2 DEF InPending
  <2>5. \A r \in Slots : InLoose(r)' <=> InLoose(r)
    BY <1>2, <2>4 DEF InLoose
  <2>6. JoinTypes'
    BY <1>1, <1>2, <2>1, <2>2 DEF JoinTypes
  <2>7. OpenInv'
    BY <1>1, <1>2, <1>6, <2>3, <2>5 DEF OpenInv
  <2>8. OnePlaceInv'
    <3>1. ASSUME NEW j \in WjGroups, NEW r \in wjPending'[j]
          PROVE  Member(r).group = j /\ r \notin wjNew' /\ r \notin wjDiscarding'
      <4>1. CASE r = s
        <5>1. j = k
          BY <1>1, <2>2, <4>1 DEF OnePlaceInv
        <5>2. QED BY <1>2, <1>5, <4>1, <5>1
      <4>2. CASE r # s
        <5>1. r \in wjPending[j]
          BY <2>2, <4>2
        <5>2. QED BY <1>1, <1>2, <5>1 DEF OnePlaceInv
      <4>3. QED BY <4>1, <4>2
    <3>2. wjNew' \cap wjDiscarding' = {}
      BY <1>1, <1>2 DEF OnePlaceInv
    <3>3. QED BY <1>1, <1>2, <1>6, <2>1, <2>3, <2>5, <3>1, <3>2 DEF OnePlaceInv
  <2>9. EveryMemberKept'
    BY <1>1, <1>2, <1>6, <2>3, <2>4 DEF EveryMemberKept
  <2>10. GroupsCloseWhenComplete'
    <3>2. \A j \in WjGroups : j # k => (Complete(wjPending[j])' <=> Complete(wjPending[j]))
      BY <1>2, <2>2 DEF Complete
    <3>3. Complete(wjPending[k])' <=> Complete(slots)
      BY <1>2, <1>3, <2>2 DEF Complete
    <3>4. QED BY <1>1, <1>9, <2>2, <3>2, <3>3 DEF GroupsCloseWhenComplete, OpenGroups
  <2>11. QED BY <1>4, <2>6, <2>7, <2>8, <2>9, <2>10 DEF WjInv
<1>10. QED BY <1>8, <1>9

\* take_ready's slices of the buffer.
LEMMA ReadyTaken ==
    ASSUME wjReady \in Seq(SUBSET Slots), wjReady' = SubSeq(wjReady, Count + 1, Len(wjReady))
    PROVE  /\ wjReady' \in Seq(SUBSET Slots) /\ Count \in 0..Len(wjReady)
           /\ DOMAIN wjReady' = 1..(Len(wjReady) - Count) /\ DOMAIN wjReady = 1..Len(wjReady)
           /\ Len(wjReady) \in Nat
           /\ \A m \in DOMAIN wjReady' : m + Count \in DOMAIN wjReady /\ wjReady'[m] = wjReady[m + Count]
           /\ \A s : InReady(s) <=> (InReady(s)' \/ \E m \in 1..Count : s \in wjReady[m])
<1>. DEFINE S == SUBSET Slots
<1>1. wjReady \in Seq(S)
  OBVIOUS
<1>. HIDE DEF S
<1>2. Len(wjReady) \in Nat /\ DOMAIN wjReady = 1..Len(wjReady)
  BY <1>1, LenProperties
<1>3. Count \in 0..Len(wjReady)
  BY <1>2, JoinBounds DEF Count
<1>4. Count + 1 \in 1..(Len(wjReady) + 1) /\ Len(wjReady) \in Count..Len(wjReady) /\ Count \in Int
  BY <1>2, <1>3
<1>. HIDE DEF Count
<1>5. /\ wjReady' \in Seq(S) /\ Len(wjReady') = Len(wjReady) - Count
      /\ \A m \in 1..(Len(wjReady) - Count) : wjReady'[m] = wjReady[Count + m]
      /\ DOMAIN wjReady' = 1..Len(wjReady')
  <2>. DEFINE a == Count + 1
              z == Len(wjReady)
  <2>1. a \in 1..(Len(wjReady) + 1) /\ z \in (a - 1)..Len(wjReady)
    BY <1>2, <1>4
  <2>2. /\ SubSeq(wjReady, a, z) \in Seq(S) /\ Len(SubSeq(wjReady, a, z)) = z - a + 1
        /\ \A i \in 1..(z - a + 1) : SubSeq(wjReady, a, z)[i] = wjReady[a + i - 1]
    <3>. HIDE DEF a, z
    <3>1. QED BY <1>1, <2>1, SubSeqProperties
  <2>6. z - a + 1 = Len(wjReady) - Count
    BY <1>2, <1>4
  <2>7. wjReady' = SubSeq(wjReady, a, z)
    OBVIOUS
  <2>3. wjReady' \in Seq(S) /\ Len(wjReady') = Len(wjReady) - Count
    <3>. HIDE DEF a, z
    <3>1. QED BY <2>2, <2>6, <2>7
  <2>4. \A i \in 1..(Len(wjReady) - Count) : a + i - 1 = Count + i /\ i \in 1..(z - a + 1)
    BY <1>2, <1>4
  <2>5. QED BY <2>2, <2>3, <2>4, <2>7, LenProperties
<1>6. \A m \in 1..(Len(wjReady) - Count) : m + Count \in 1..Len(wjReady) /\ Count + m = m + Count
  BY <1>2, <1>3, <1>4
<1>7. ASSUME NEW s PROVE InReady(s) <=> (InReady(s)' \/ \E m \in 1..Count : s \in wjReady[m])
  <2>1. ASSUME InReady(s)' PROVE InReady(s)
    BY <1>2, <1>5, <1>6, <2>1 DEF InReady
  <2>2. ASSUME NEW m \in 1..Count, s \in wjReady[m] PROVE InReady(s)
    BY <1>2, <1>3, <2>2 DEF InReady
  <2>3. ASSUME NEW m \in DOMAIN wjReady, s \in wjReady[m], ~(m \in 1..Count) PROVE InReady(s)'
    <3>1. m - Count \in 1..(Len(wjReady) - Count) /\ Count + (m - Count) = m
      BY <1>2, <1>3, <2>3
    <3>2. wjReady'[m - Count] = wjReady[m] /\ m - Count \in DOMAIN wjReady'
      BY <1>5, <3>1
    <3>3. QED BY <2>3, <3>2 DEF InReady
  <2>4. QED BY <2>1, <2>2, <2>3 DEF InReady
<1>8. QED BY <1>2, <1>3, <1>5, <1>6, <1>7 DEF S

LEMMA TakeReadyKeeps == ASSUME WjInv, TakeReady PROVE WjInv'
<1>. DEFINE new == [no |-> wjGiven, joins |-> {wjReady[m] : m \in 1..Count}]
<1>1. JoinTypes /\ TrackerTypes /\ ReceiveInv /\ OpenInv /\ OnePlaceInv /\ EveryMemberKept /\ GroupsCloseWhenComplete
  BY DEF WjInv
<1>2. /\ wjCall' = "idle" /\ wjReady' = SubSeq(wjReady, Count + 1, Len(wjReady))
      /\ UNCHANGED <<wjConf, wjRead, wjTaken, wjPending, wjClosing, wjNew, wjDiscarding, wjFate, wjNext>>
      /\ UNCHANGED <<wjTracker, wjTold>>
      /\ wjCall # "collecting"
  BY DEF TakeReady, wjTracker, Joining
<1>3. /\ wjReady' \in Seq(SUBSET Slots) /\ Count \in 0..Len(wjReady)
      /\ DOMAIN wjReady' = 1..(Len(wjReady) - Count) /\ DOMAIN wjReady = 1..Len(wjReady)
      /\ Len(wjReady) \in Nat
      /\ \A m \in DOMAIN wjReady' : m + Count \in DOMAIN wjReady /\ wjReady'[m] = wjReady[m + Count]
      /\ \A s : InReady(s) <=> (InReady(s)' \/ \E m \in 1..Count : s \in wjReady[m])
  BY <1>1, <1>2, ReadyTaken DEF JoinTypes
<1>4. wjEnd' \in {"running", "drained", "failed"} /\ (wjEnd = "failed" => wjEnd' = "failed")
  BY <1>1 DEF TakeReady, TrackerTypes
<1>5. TrackerTypes' /\ ReceiveInv' /\ TrackInv' /\ RanInv'
  BY <1>2, <1>4, TrackerRests
<1>6. \/ Count = 0 /\ wjOut' = wjOut
      \/ wjOut' = wjOut \cup {new}
  BY DEF TakeReady
<1>7. new.joins = {wjReady[m] : m \in 1..Count} /\ new.joins \subseteq SUBSET Slots
  <2>1. \A m \in 1..Count : wjReady[m] \in SUBSET Slots
    BY <1>1, <1>3 DEF JoinTypes
  <2>2. QED BY <2>1
<1>8. \A s : s \in UNION new.joins <=> \E m \in 1..Count : s \in wjReady[m]
  BY <1>7
<1>. HIDE DEF new, Count
<1>9. \A s : InOut(s)' <=> (InOut(s) \/ s \in UNION new.joins)
  <2>1. CASE Count = 0 /\ wjOut' = wjOut
    BY <1>8, <2>1 DEF InOut
  <2>2. CASE wjOut' = wjOut \cup {new}
    BY <2>2 DEF InOut
  <2>3. QED BY <1>6, <2>1, <2>2
<1>10. \A s : InReady(s) <=> (InReady(s)' \/ s \in UNION new.joins)
  BY <1>3, <1>8
<1>11. \A s : InLoose(s)' <=> InLoose(s)
  BY <1>2 DEF InLoose, InPending
<1>12. JoinTypes'
  BY <1>1, <1>2, <1>3, <1>6, <1>7 DEF JoinTypes
<1>13. OpenInv'
  BY <1>1, <1>2, <1>9, <1>10, <1>11 DEF OpenInv
<1>14. OnePlaceInv'
  <2>1. ASSUME NEW s \in Slots, s \in UNION new.joins PROVE ~InReady(s)'
    <3>1. PICK m \in 1..Count : s \in wjReady[m]
      BY <1>8, <2>1
    <3>2. ASSUME NEW n \in DOMAIN wjReady', s \in wjReady'[n] PROVE FALSE
      <4>1. n + Count \in DOMAIN wjReady /\ s \in wjReady[n + Count]
        BY <1>3, <3>2
      <4>2. m \in DOMAIN wjReady /\ n + Count # m
        BY <1>3, <3>1
      <4>3. QED BY <1>1, <3>1, <4>1, <4>2 DEF OnePlaceInv
    <3>3. QED BY <3>2 DEF InReady
  <2>2. \A s \in Slots : (InLoose(s)' => ~InReady(s)' /\ ~InOut(s)') /\ ~(InReady(s)' /\ InOut(s)')
    BY <1>1, <1>9, <1>10, <1>11, <2>1 DEF OnePlaceInv
  <2>3. ASSUME NEW m \in DOMAIN wjReady', NEW n \in DOMAIN wjReady', m # n
        PROVE  wjReady'[m] \cap wjReady'[n] = {}
    <3>1. m + Count # n + Count
      BY <1>3, <2>3
    <3>2. QED BY <1>1, <1>3, <3>1 DEF OnePlaceInv
  <2>4. ASSUME NEW d \in wjOut', NEW e \in wjOut', d # e
        PROVE  (UNION d.joins) \cap (UNION e.joins) = {}
    <3>1. \A x \in wjOut : (UNION x.joins) \cap (UNION new.joins) = {}
      <4>1. ASSUME NEW x \in wjOut, NEW s \in UNION x.joins, s \in UNION new.joins PROVE FALSE
        <5>1. InOut(s) /\ InReady(s) /\ s \in Slots
          BY <1>7, <1>10, <4>1 DEF InOut
        <5>2. QED BY <1>1, <5>1 DEF OnePlaceInv
      <4>2. QED BY <4>1
    <3>2. \A x, y \in wjOut : x # y => (UNION x.joins) \cap (UNION y.joins) = {}
      BY <1>1 DEF OnePlaceInv
    <3>3. QED BY <1>6, <2>4, <3>1, <3>2
  <2>5. \A k \in WjGroups : \A s \in wjPending'[k] :
            Member(s).group = k /\ s \notin wjNew' /\ s \notin wjDiscarding'
    BY <1>1, <1>2 DEF OnePlaceInv
  <2>6. wjNew' \cap wjDiscarding' = {}
    BY <1>1, <1>2 DEF OnePlaceInv
  <2>7. QED BY <2>2, <2>3, <2>4, <2>5, <2>6 DEF OnePlaceInv
<1>15. EveryMemberKept'
  <2>1. \A s : InPending(s)' <=> InPending(s)
    BY <1>2 DEF InPending
  <2>2. QED BY <1>1, <1>2, <1>4, <1>9, <1>10, <2>1 DEF EveryMemberKept
<1>16. GroupsCloseWhenComplete'
  BY <1>1, <1>2 DEF GroupsCloseWhenComplete, OpenGroups, Complete
<1>17. QED BY <1>5, <1>12, <1>13, <1>14, <1>15, <1>16 DEF WjInv
\* The slots of D are settled, having waited in one place: what is elsewhere stays open.
LEMMA SettledElsewhere ==
    ASSUME WjInv, NEW D \in SUBSET Slots, UNCHANGED <<wjConf, wjRead, wjTaken, wjNext>>,
           \A s \in Slots \ D : wjFate'[s] = wjFate[s],
           \A s \in D : InLoose(s) \/ InReady(s) \/ InOut(s),
           \A s \in Slots :
               InLoose(s)' \/ InReady(s)' \/ InOut(s)' => s \notin D /\ (InLoose(s) \/ InReady(s) \/ InOut(s))
    PROVE  OpenInv'
<1>1. OpenInv
  BY DEF WjInv
<1>2. \A s \in D : s[1] # wjTaken /\ ~(s[1] > wjRead)
  <2>1. \A s \in D : s[1] <= wjRead /\ s[1] # wjTaken /\ s[1] \in Nat
    BY <1>1, SlotShape DEF OpenInv
  <2>2. wjRead \in Nat
    BY DEF WjInv, ReceiveInv
  <2>3. QED BY <2>1, <2>2
<1>3. \A s \in Slots : s[1] > wjRead \/ s[1] = wjTaken => wjFate'[s] = "open"
  BY <1>1, <1>2 DEF OpenInv
<1>4. \A s \in Slots : InLoose(s)' \/ InReady(s)' \/ InOut(s)' =>
            /\ wjFate'[s] = "open" /\ s[1] <= wjRead /\ s[1] # wjTaken
            /\ wjConf.onJoin => s[1] < wjNext
  BY <1>1 DEF OpenInv
<1>5. QED BY <1>3, <1>4 DEF OpenInv

\* Settling what waited, with the tracker if the source's acknowledgements wait for it.
LEMMA SettledTracked ==
    ASSUME WjInv, UNCHANGED <<wjConf, wjRead, wjTaken>>,
           NEW fates, DOMAIN fates \subseteq Slots,
           \A s \in DOMAIN fates :
               fates[s] \in {"ack", "nack"} /\ (InLoose(s) \/ InReady(s) \/ InOut(s)),
           wjFate' \in [Slots -> {"open", "ack", "nack", "dropped"}],
           \A s \in DOMAIN fates : wjFate'[s] # "open" /\ Told(wjFate'[s]) = fates[s],
           \A s \in Slots \ DOMAIN fates : wjFate'[s] = wjFate[s],
           \/ wjConf.onJoin /\ SettleAndCommit(fates)
           \/ (wjConf.onJoin => DOMAIN fates = {}) /\ UNCHANGED <<wjTracker, wjTold, wjEnd>>
    PROVE  /\ TrackerTypes' /\ ReceiveInv' /\ TrackInv' /\ RanInv' /\ wjNext' = wjNext
           /\ wjEnd = "failed" => wjEnd' = "failed"
<1>1. JoinTypes /\ TrackerTypes /\ ReceiveInv /\ OpenInv /\ TrackInv /\ RanInv
  BY DEF WjInv
<1>2. CASE wjConf.onJoin /\ SettleAndCommit(fates)
  <2>1. \A s \in DOMAIN fates : wjFate[s] = "open" /\ s[1] < wjNext
    BY <1>1, <1>2 DEF OpenInv
  <2>2. wjNext <= Len(WjSource) + 1
    BY <1>1, <1>2, JoinBounds DEF ReceiveInv, TrackerTypes
  <2>3. wjConf.ordered \in BOOLEAN
    BY <1>1 DEF JoinTypes
  <2>4. /\ TrackerTypes' /\ TrackInv' /\ RanInv' /\ wjNext' = wjNext
        /\ wjEnd = "failed" => wjEnd' = "failed"
    BY <1>1, <1>2, <2>1, <2>2, <2>3, SettleAndCommitKeeps
  <2>5. ReceiveInv'
    BY <1>1, <2>4 DEF ReceiveInv
  <2>6. QED BY <2>4, <2>5
<1>3. CASE (wjConf.onJoin => DOMAIN fates = {}) /\ UNCHANGED <<wjTracker, wjTold, wjEnd>>
  <2>1. UNCHANGED <<wjBase, wjNext, wjDisp, wjLeft, wjHeld, wjAcks, wjRan, wjEnd>>
    BY <1>3 DEF wjTracker, wjTold
  <2>2. TrackerTypes' /\ ReceiveInv'
    BY <1>1, <2>1 DEF TrackerTypes, ReceiveInv
  <2>3. CASE wjConf.onJoin
    <3>1. wjFate' = wjFate
      BY <1>1, <1>3, <2>3 DEF TrackerTypes
    <3>2. TrackInv' /\ RanInv'
      BY <1>1, <1>3, <3>1, TrackerRests DEF TrackerTypes
    <3>3. QED BY <2>1, <2>2, <3>2
  <2>4. CASE ~wjConf.onJoin
    <3>1. TrackInv' /\ RanInv'
      BY <1>1, <2>1, <2>4 DEF TrackInv, RanInv
    <3>2. QED BY <2>1, <2>2, <3>1
  <2>5. QED BY <2>3, <2>4
<1>4. QED BY <1>2, <1>3

LEMMA AckDiscardedKeeps == ASSUME WjInv, AckDiscarded PROVE WjInv'
<1>. DEFINE fates == [s \in wjDiscarding |-> "ack"]
<1>1. JoinTypes /\ TrackerTypes /\ ReceiveInv /\ OpenInv /\ OnePlaceInv /\ EveryMemberKept /\ GroupsCloseWhenComplete
  BY DEF WjInv
<1>2. /\ wjClosing = {} /\ wjNew = {} /\ wjDiscarding' = {}
      /\ wjFate' = [s \in Slots |-> IF s \in wjDiscarding THEN "dropped" ELSE wjFate[s]]
      /\ wjCall' \in {"idle", "taking"}
      /\ UNCHANGED <<wjConf, wjRead, wjTaken, wjPending, wjReady, wjClosing, wjNew, wjOut>>
  BY DEF AckDiscarded, wjGroup
<1>3. wjDiscarding \subseteq Slots /\ \A s \in wjDiscarding : InLoose(s)
  BY <1>1 DEF JoinTypes, InLoose
<1>4. wjFate' \in [Slots -> {"open", "ack", "nack", "dropped"}]
  BY <1>1, <1>2 DEF TrackerTypes
<1>5. \/ wjConf.onJoin /\ SettleAndCommit(fates)
      \/ (wjConf.onJoin => DOMAIN fates = {}) /\ UNCHANGED <<wjTracker, wjTold, wjEnd>>
  BY DEF AckDiscarded
<1>6. DOMAIN fates = wjDiscarding /\ \A s \in DOMAIN fates : fates[s] = "ack"
  OBVIOUS
<1>. HIDE DEF fates
<1>7. \A s \in DOMAIN fates : wjFate'[s] # "open" /\ Told(wjFate'[s]) = fates[s]
  BY <1>2, <1>3, <1>6 DEF Told
<1>8. \A s \in Slots \ DOMAIN fates : wjFate'[s] = wjFate[s]
  BY <1>2, <1>6
<1>9. /\ TrackerTypes' /\ ReceiveInv' /\ TrackInv' /\ RanInv' /\ wjNext' = wjNext
      /\ wjEnd = "failed" => wjEnd' = "failed"
  BY <1>2, <1>3, <1>4, <1>5, <1>6, <1>7, <1>8, SettledTracked
<1>10. \A s : (InReady(s)' <=> InReady(s)) /\ (InOut(s)' <=> InOut(s)) /\ (InPending(s)' <=> InPending(s))
  BY <1>2 DEF InReady, InOut, InPending
<1>11. \A s : (InLoose(s)' <=> InPending(s))
  BY <1>2, <1>10 DEF InLoose
<1>12. \A s \in Slots : InPending(s) \/ InReady(s) \/ InOut(s) => s \notin wjDiscarding
  BY <1>1, <1>3 DEF OnePlaceInv, InPending
<1>13. OpenInv'
  BY <1>2, <1>3, <1>6, <1>8, <1>9, <1>10, <1>11, <1>12, SettledElsewhere DEF InLoose
<1>14. JoinTypes'
  BY <1>1, <1>2 DEF JoinTypes
<1>15. OnePlaceInv'
  <2>1. \A s \in Slots : InLoose(s)' => ~InReady(s)' /\ ~InOut(s)'
    BY <1>1, <1>10, <1>11 DEF OnePlaceInv, InLoose
  <2>2. QED BY <1>1, <1>2, <1>10, <2>1 DEF OnePlaceInv
<1>16. EveryMemberKept'
  BY <1>1, <1>2, <1>9, <1>10 DEF EveryMemberKept
<1>17. GroupsCloseWhenComplete'
  BY <1>1, <1>2 DEF GroupsCloseWhenComplete, OpenGroups, Complete
<1>18. QED BY <1>9, <1>13, <1>14, <1>15, <1>16, <1>17 DEF WjInv

LEMMA JoinCommitKeeps == ASSUME WjInv, NEW d \in wjOut, JoinCommit(d) PROVE WjInv'
<1>. DEFINE D == UNION d.joins
<1>1. JoinTypes /\ TrackerTypes /\ ReceiveInv /\ OpenInv /\ OnePlaceInv /\ EveryMemberKept /\ GroupsCloseWhenComplete
  BY DEF WjInv
<1>2. /\ wjOut' = wjOut \ {d}
      /\ UNCHANGED <<wjConf, wjRead, wjTaken, wjGroup, wjCollect>>
  BY DEF JoinCommit
<1>3. PICK told \in [d.joins -> {"ack", "nack"}] :
            /\ wjFate' = [s \in Slots |-> IF s \in D THEN Fates(d.joins, told)[s] ELSE wjFate[s]]
            /\ IF wjConf.onJoin THEN SettleAndCommit(Fates(d.joins, told))
                                ELSE UNCHANGED <<wjTracker, wjTold, wjEnd>>
  BY DEF JoinCommit
<1>. DEFINE fates == Fates(d.joins, told)
<1>4. DOMAIN fates = D /\ \A s \in D : fates[s] \in {"ack", "nack"}
  <2>1. fates = [s \in D |-> told[CHOOSE j \in d.joins : s \in j]]
    BY DEF Fates
  <2>2. ASSUME NEW s \in D PROVE told[CHOOSE j \in d.joins : s \in j] \in {"ack", "nack"}
    <3>1. \E j \in d.joins : s \in j
      OBVIOUS
    <3>2. (CHOOSE j \in d.joins : s \in j) \in d.joins
      BY <3>1
    <3>3. QED BY <3>2
  <2>3. QED BY <2>1, <2>2
<1>5. wjFate' = [s \in Slots |-> IF s \in D THEN fates[s] ELSE wjFate[s]]
      /\ (\/ wjConf.onJoin /\ SettleAndCommit(fates)
          \/ (wjConf.onJoin => DOMAIN fates = {}) /\ UNCHANGED <<wjTracker, wjTold, wjEnd>>)
  BY <1>3
<1>. HIDE DEF fates
<1>6. D \subseteq Slots /\ \A s \in D : InOut(s)
  BY <1>1 DEF JoinTypes, InOut
<1>7. wjFate' \in [Slots -> {"open", "ack", "nack", "dropped"}]
  BY <1>1, <1>4, <1>5 DEF TrackerTypes
<1>8. /\ \A s \in D : wjFate'[s] # "open" /\ Told(wjFate'[s]) = fates[s]
      /\ \A s \in Slots \ D : wjFate'[s] = wjFate[s]
  BY <1>4, <1>5, <1>6 DEF Told
<1>9. /\ TrackerTypes' /\ ReceiveInv' /\ TrackInv' /\ RanInv' /\ wjNext' = wjNext
      /\ wjEnd = "failed" => wjEnd' = "failed"
  BY <1>2, <1>4, <1>5, <1>6, <1>7, <1>8, SettledTracked
<1>10. UNCHANGED <<wjPending, wjReady, wjCall, wjClosing, wjNew, wjDiscarding>>
  BY <1>2 DEF wjGroup, wjCollect
<1>11. \A s : (InReady(s)' <=> InReady(s)) /\ (InLoose(s)' <=> InLoose(s)) /\ (InPending(s)' <=> InPending(s))
  BY <1>10 DEF InReady, InLoose, InPending
<1>12. \A s : InOut(s) <=> (InOut(s)' \/ s \in D)
  BY <1>2 DEF InOut
<1>13. \A s : InOut(s)' => s \notin D
  <2>1. ASSUME NEW s, NEW e \in wjOut', NEW j \in e.joins, s \in j PROVE s \notin D
    <3>1. e \in wjOut /\ e # d /\ s \in UNION e.joins
      BY <1>2, <2>1
    <3>2. QED BY <1>1, <3>1 DEF OnePlaceInv
  <2>2. QED BY <2>1 DEF InOut
<1>. HIDE DEF D
<1>14. OpenInv'
  <2>1. \A s \in Slots : InLoose(s)' \/ InReady(s)' \/ InOut(s)' =>
            s \notin D /\ (InLoose(s) \/ InReady(s) \/ InOut(s))
    BY <1>1, <1>6, <1>11, <1>12, <1>13 DEF OnePlaceInv
  <2>2. QED BY <1>2, <1>6, <1>8, <1>9, <2>1, SettledElsewhere
<1>15. JoinTypes'
  BY <1>1, <1>2, <1>10 DEF JoinTypes
<1>16. OnePlaceInv'
  <2>1. \A s \in Slots : (InLoose(s)' => ~InReady(s)' /\ ~InOut(s)') /\ ~(InReady(s)' /\ InOut(s)')
    BY <1>1, <1>11, <1>12 DEF OnePlaceInv
  <2>2. \A x, y \in wjOut' : x # y => (UNION x.joins) \cap (UNION y.joins) = {}
    BY <1>1, <1>2 DEF OnePlaceInv
  <2>3. QED BY <1>1, <1>10, <2>1, <2>2 DEF OnePlaceInv
<1>17. EveryMemberKept'
  BY <1>1, <1>2, <1>8, <1>9, <1>10, <1>11, <1>12 DEF EveryMemberKept
<1>18. GroupsCloseWhenComplete'
  BY <1>1, <1>2, <1>10 DEF GroupsCloseWhenComplete, OpenGroups, Complete
<1>19. QED BY <1>9, <1>14, <1>15, <1>16, <1>17, <1>18 DEF WjInv

\* WeakJoinConsumer: a member is acknowledged as the message it was joined into was settled
\* and not before its batch is settled, none goes missing before the run fails, an ordered
\* source's commits run in order, a settled batch's commit runs, and complete groups close.
THEOREM JoinKeepsMembers == WjSpec => []WeakJoinInv
<1>1. WjInv /\ [WjNext]_wjVars => WjInv'
  <2>. SUFFICES ASSUME WjInv, [WjNext]_wjVars PROVE WjInv'
    OBVIOUS
  <2>1. CASE InnerReads
    BY <2>1, InnerReadsKeeps
  <2>2. CASE ReceiveBatch
    BY <2>2, ReceiveBatchKeeps
  <2>3. CASE ReceiveEmpty \/ ReceiveTimeout
    BY <2>3, ReceiveNothingKeeps
  <2>4. CASE JoinSourceFails
    BY <2>4, SourceFailsKeeps
  <2>5. ASSUME NEW k \in WjGroups, CloseGroup(k) PROVE WjInv'
    BY <2>5, CloseGroupKeeps
  <2>6. ASSUME NEW s \in wjNew, Admit(s) PROVE WjInv'
    BY <2>6, AdmitKeeps
  <2>7. CASE AckDiscarded
    BY <2>7, AckDiscardedKeeps
  <2>8. CASE TakeReady
    BY <2>8, TakeReadyKeeps
  <2>9. ASSUME NEW d \in wjOut, JoinCommit(d) PROVE WjInv'
    BY <2>9, JoinCommitKeeps
  <2>10. CASE UNCHANGED wjVars
    <3>1. UNCHANGED <<wjConf, wjRead, wjTaken, wjGroup, wjCollect, wjTracker, wjOut, wjFate, wjTold, wjEnd>>
      BY <2>10 DEF wjVars, wjRoute
    <3>2. TrackerTypes' /\ ReceiveInv' /\ TrackInv' /\ RanInv'
      BY <3>1, TrackerRests DEF WjInv, TrackerTypes
    <3>3. JoinTypes' /\ OnePlaceInv' /\ GroupsCloseWhenComplete'
      BY <3>1, GroupsRest
    <3>4. OpenInv' /\ EveryMemberKept'
      <4>1. UNCHANGED <<wjNext, wjNew, wjDiscarding>>
        BY <3>1 DEF wjTracker, wjCollect
      <4>2. OpenInv /\ EveryMemberKept
        BY DEF WjInv
      <4>3. QED BY <3>1, <4>1, <4>2, PlacesRest DEF OpenInv, EveryMemberKept
    <3>5. QED BY <3>2, <3>3, <3>4 DEF WjInv
  <2>11. QED BY <2>1, <2>2, <2>3, <2>4, <2>5, <2>6, <2>7, <2>8, <2>9, <2>10 DEF WjNext
<1>2. QED BY <1>1, JoinStarts, JoinInvSuffices, PTL DEF WjSpec
=============================================================================
