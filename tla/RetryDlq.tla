------------------------------- MODULE RetryDlq -------------------------------
(***************************************************************************)
(* One send_batch through the dead-letter and the retry middleware of an   *)
(* output: the DlqPublisher around the RetryPublisher around the sink.     *)
(* The sink and the dead-letter queue answer as they like; an answer that  *)
(* takes part of a batch names the rest with an error each, and a failed   *)
(* call has taken nothing.                                                 *)
(***************************************************************************)
EXTENDS Naturals, FiniteSets

CONSTANTS
    BatchMessages,  \* the messages of the batch
    MaxAttempts     \* RetryMiddleware::max_attempts, zero allowed

ASSUME RetryBounds == IsFiniteSet(BatchMessages) /\ MaxAttempts \in Nat

VARIABLES
    rqPhase,        \* which middleware has the batch
    rqAttempt,      \* attempts made
    rqCurrent,      \* current_messages
    rqProgress,     \* partial_progress
    rqFailed,       \* all_failed: messages given up, with their error
    rqSent,         \* how often the sink took each message
    rqDead,         \* messages the dead-letter queue took
    rqNoted,        \* what note_dead_lettered was told
    rqResult        \* what send_batch returned to the route

rqVars == <<rqPhase, rqAttempt, rqCurrent, rqProgress, rqFailed, rqSent, rqDead, rqNoted, rqResult>>

\* PublisherError: "exhausted" is a Retryable error whose text says "Retries exhausted".
RawErrors == {"Retryable", "NonRetryable", "Connection"}
SinkErrors == RawErrors \cup {"exhausted"}

\* Ack, Partial with the failed messages, or Err with one error for the whole batch.
Ack == [kind |-> "Ack", failed |-> <<>>, error |-> "none"]
Partial(failed) == [kind |-> "Partial", failed |-> failed, error |-> "none"]
Err(e) == [kind |-> "Err", failed |-> <<>>, error |-> e]

\* Every answer to a batch of the messages in S.
Answers(S) ==
    {Ack} \cup {Err(e) : e \in RawErrors}
    \cup UNION {{Partial(f) : f \in [T -> RawErrors]} : T \in SUBSET S}

RqInit ==
    /\ rqPhase = "retry"
    /\ rqAttempt = 0
    /\ rqCurrent = BatchMessages
    /\ rqProgress = FALSE
    /\ rqFailed = <<>>
    /\ rqSent = [m \in BatchMessages |-> 0]
    /\ rqDead = {}
    /\ rqNoted = 0
    /\ rqResult = Err("none")

Merge(f, g) == [m \in DOMAIN f \cup DOMAIN g |-> IF m \in DOMAIN g THEN g[m] ELSE f[m]]

Having(f, errors) == {m \in DOMAIN f : f[m] \in errors}

\* The messages of S an answer says were taken.
Taken(S, answer) == IF answer.kind = "Err" THEN {} ELSE S \ DOMAIN answer.failed

-----------------------------------------------------------------------------
(* RetryPublisher::send_batch *)

LastAttempt(n) == n >= MaxAttempts

\* The retry middleware returns.
RetryReturns(result) == rqPhase' = "dlq" /\ rqResult' = result

\* Part of the batch failed and is worth another attempt: only that part is sent again.
RetryRemainder(answer) ==
    LET retryable == Having(answer.failed, {"Retryable"})
    IN  /\ retryable # {}
        /\ ~LastAttempt(rqAttempt + 1)
        /\ rqCurrent' = retryable
        /\ rqFailed' = Merge(rqFailed, [m \in DOMAIN answer.failed \ retryable |-> answer.failed[m]])
        /\ rqProgress' = TRUE
        /\ UNCHANGED <<rqPhase, rqResult>>

\* Part of the batch failed for good, or on the last attempt.
RetryGivesUp(answer) ==
    LET retryable == Having(answer.failed, {"Retryable"})
        failed == [m \in DOMAIN answer.failed |->
                      IF m \in retryable THEN "exhausted" ELSE answer.failed[m]]
    IN  /\ retryable = {} \/ LastAttempt(rqAttempt + 1)
        /\ rqFailed' = Merge(rqFailed, failed)
        /\ RetryReturns(Partial(Merge(rqFailed, failed)))
        /\ UNCHANGED <<rqCurrent, rqProgress>>

\* The sink took everything it was sent.
RetryAcked ==
    /\ RetryReturns(IF rqFailed = <<>> THEN Ack ELSE Partial(rqFailed))
    /\ UNCHANGED <<rqCurrent, rqProgress, rqFailed>>

\* Mutated: a whole-batch error also fails what an earlier attempt delivered.
RetryErredWhole(e) ==
    /\ IF LastAttempt(rqAttempt + 1) \/ e # "Retryable"
         THEN RetryReturns(Err(IF e = "Retryable" THEN "exhausted" ELSE e))
         ELSE UNCHANGED <<rqPhase, rqResult>>
    /\ UNCHANGED <<rqCurrent, rqProgress, rqFailed>>

\* The call failed as a whole.  Once an earlier attempt has delivered part of the batch,
\* giving up fails the remainder only.
RetryErred(e) ==
    LET given == IF e = "Retryable" THEN "exhausted" ELSE e
        failed == Merge(rqFailed, [m \in rqCurrent |-> given])
    IN  /\ IF ~LastAttempt(rqAttempt + 1) /\ e = "Retryable"
             THEN UNCHANGED <<rqPhase, rqResult, rqFailed>>
             ELSE IF rqProgress
             THEN rqFailed' = failed /\ RetryReturns(Partial(failed))
             ELSE rqFailed' = rqFailed /\ RetryReturns(Err(given))
        /\ UNCHANGED <<rqCurrent, rqProgress>>

\* One attempt: the sink answers and the middleware decides.
Attempt ==
    /\ rqPhase = "retry"
    /\ rqAttempt' = rqAttempt + 1
    /\ \E answer \in Answers(rqCurrent) :
        /\ rqSent' = [m \in BatchMessages |->
                        rqSent[m] + (IF m \in Taken(rqCurrent, answer) THEN 1 ELSE 0)]
        /\ \/ answer.kind = "Ack" /\ RetryAcked
           \/ answer.kind = "Partial" /\ (RetryRemainder(answer) \/ RetryGivesUp(answer))
           \/ answer.kind = "Err" /\ RetryErred(answer.error)
    /\ UNCHANGED <<rqDead, rqNoted>>

-----------------------------------------------------------------------------
(* DlqPublisher::send_batch *)

\* What the dead-letter middleware takes for permanent.
PermanentError(e) == e \in {"NonRetryable", "exhausted"}

\* What is to be dead-lettered, and what stays with the route.
ToDlq(result) ==
    CASE result.kind = "Ack" -> {}
      [] result.kind = "Partial" -> {m \in DOMAIN result.failed : PermanentError(result.failed[m])}
      [] result.kind = "Err" -> IF PermanentError(result.error) THEN BatchMessages ELSE {}

\* Nothing is to be dead-lettered: the result passes through.
DlqPasses ==
    /\ rqPhase = "dlq"
    /\ ToDlq(rqResult) = {}
    /\ rqPhase' = "done"
    /\ UNCHANGED <<rqAttempt, rqCurrent, rqProgress, rqFailed, rqSent, rqDead, rqNoted, rqResult>>

\* The result after the dead-letter queue's answer: what it refused goes back to the route,
\* and if it failed as a whole so does the batch.
AfterDlq(answer) ==
    LET kept == [m \in DOMAIN rqResult.failed \ ToDlq(rqResult) |-> rqResult.failed[m]]
    IN  IF rqResult.kind = "Err" /\ answer.kind = "Ack" THEN Ack
        ELSE IF answer.kind = "Err"
        THEN Err(IF answer.error = "Connection" THEN "Connection"
                 ELSE IF rqResult.kind = "Partial" THEN "Retryable" ELSE "NonRetryable")
        ELSE Partial(Merge(kept, answer.failed))

\* dlq_len minus what the queue refused.
DeadCount(dead, answer) ==
    IF answer.kind = "Err" THEN 0 ELSE Cardinality(dead) - Cardinality(DOMAIN answer.failed)

\* The permanent failures go to the dead-letter queue.
DeadLetter ==
    /\ rqPhase = "dlq"
    /\ LET dead == ToDlq(rqResult)
       IN  /\ dead # {}
           /\ \E answer \in Answers(dead) :
                /\ rqDead' = rqDead \cup Taken(dead, answer)
                /\ rqNoted' = rqNoted + DeadCount(dead, answer)
                /\ rqResult' = AfterDlq(answer)
    /\ rqPhase' = "done"
    /\ UNCHANGED <<rqAttempt, rqCurrent, rqProgress, rqFailed, rqSent>>

RqNext == Attempt \/ DlqPasses \/ DeadLetter

RqSpec == RqInit /\ [][RqNext]_rqVars

-----------------------------------------------------------------------------
(* Properties *)

\* The types of the variables.
RqTypeOK ==
    /\ rqPhase \in {"retry", "dlq", "done"}
    /\ rqAttempt \in Nat
    /\ rqCurrent \subseteq BatchMessages
    /\ rqProgress \in BOOLEAN
    /\ DOMAIN rqFailed \subseteq BatchMessages
    /\ rqSent \in [BatchMessages -> Nat]
    /\ rqDead \subseteq BatchMessages
    /\ rqNoted \in Nat
    /\ rqResult.kind \in {"Ack", "Partial", "Err"}

\* What the route is told is true, through any number of attempts that each took some of
\* the batch: a message reported sent is with the sink or in the dead-letter queue, one
\* reported failed is in neither.
ReportIsTrue ==
    rqPhase = "done" /\ rqResult.kind # "Err" =>
        \A m \in BatchMessages :
            (m \in DOMAIN rqResult.failed) <=> (rqSent[m] = 0 /\ m \notin rqDead)

\* A retry never sends again what the sink has taken.
NeverSentTwice == \A m \in BatchMessages : rqSent[m] + (IF m \in rqDead THEN 1 ELSE 0) <= 1

\* A message the sink could not be reached for is never dead-lettered: it stays with the
\* route for redelivery.
UnreachableNotDead ==
    \A m \in DOMAIN rqFailed : rqFailed[m] = "Connection" => m \notin rqDead

\* Retries are exhausted only after max_attempts, and no more attempts are made; zero
\* counts as one.
AttemptsBounded ==
    /\ rqAttempt <= IF MaxAttempts = 0 THEN 1 ELSE MaxAttempts
    /\ rqPhase = "dlq" /\ ("exhausted" \in {rqFailed[m] : m \in DOMAIN rqFailed} \cup {rqResult.error}) =>
           rqAttempt >= MaxAttempts

\* The run's tally of dead-lettered messages is the number the queue took.
TallyIsRight == rqNoted = Cardinality(rqDead)

\* What the retry and the dead-letter middleware keep true together.
RetryDlqInv ==
    RqTypeOK /\ ReportIsTrue /\ NeverSentTwice /\ UnreachableNotDead /\ AttemptsBounded /\ TallyIsRight

-----------------------------------------------------------------------------
(* The inductive invariant *)

\* Messages the sink has not taken.
Undelivered == {m \in BatchMessages : rqSent[m] = 0}

\* No message is with the sink twice, and the dead-letter queue comes last.
SinkInv ==
    /\ \A m \in BatchMessages : rqSent[m] \in {0, 1}
    /\ rqPhase # "done" => rqDead = {} /\ rqNoted = 0

\* Between two attempts every message is with the sink, is given up or is to be sent again.
RetryInv == rqPhase = "retry" =>
    /\ Undelivered = rqCurrent \cup DOMAIN rqFailed
    /\ rqCurrent \cap DOMAIN rqFailed = {}
    /\ \A m \in DOMAIN rqFailed : rqFailed[m] \in {"NonRetryable", "Connection"}
    /\ ~rqProgress => rqCurrent = BatchMessages /\ DOMAIN rqFailed = {}
    /\ rqAttempt = 0 \/ rqAttempt < MaxAttempts

\* What the retry middleware returned: the messages the sink has not taken.
ResultInv == rqPhase = "dlq" =>
    \/ rqResult = Ack /\ Undelivered = {} /\ DOMAIN rqFailed = {}
    \/ rqResult = Partial(rqFailed) /\ Undelivered = DOMAIN rqFailed
    \/ /\ \E e \in SinkErrors : rqResult = Err(e)
       /\ Undelivered = BatchMessages /\ DOMAIN rqFailed = {}

RqInv == RetryDlqInv /\ SinkInv /\ RetryInv /\ ResultInv
=============================================================================
