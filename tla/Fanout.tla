-------------------------------- MODULE Fanout --------------------------------
(***************************************************************************)
(* One send_batch through the fanout endpoint: every destination gets the  *)
(* whole batch, all at once; their answers are merged in list order, and   *)
(* the route turns the merged answer into dispositions for its source.     *)
(***************************************************************************)
EXTENDS Naturals, Sequences, FiniteSets, FiniteSetsExt

CONSTANTS
    FoLegs,         \* number of destinations
    FoId,           \* the message_ids of the batch, in order
    FoHasDlq        \* has_dlq_middleware

FoMessages == DOMAIN FoId

ASSUME FanoutBounds ==
    /\ FoLegs \in Nat \ {0} /\ FoHasDlq \in BOOLEAN
    /\ Len(FoId) \in Nat \ {0} /\ FoMessages = 1..Len(FoId)

VARIABLES
    foAnswers,      \* the answers of the destinations
    foResult,       \* what send_batch returned
    foSettled,      \* the dispositions of the messages
    foBadGateway    \* the source is a server: TransientPublishFailurePolicy::ReplyBadGateway

foVars == <<foAnswers, foResult, foSettled, foBadGateway>>

\* Connection and Retryable failures are tried again.
FoErrors == {"NonRetryable", "Retryable", "Connection"}
Recoverability == [NonRetryable |-> 0, Retryable |-> 1, Connection |-> 2]

\* Some of the messages failed and some are replied to; or the whole call failed.
FoPartial(failed, replies) == [ok |-> TRUE, error |-> "none", failed |-> failed, replies |-> replies]
FoErr(error) == [ok |-> FALSE, error |-> error, failed |-> <<>>, replies |-> {}]

\* Every answer of a destination: the errors of the messages it failed, which it lists in
\* the order of the batch, and those of the others it replied to.
FoAnswers ==
    {FoErr(error) : error \in FoErrors} \cup
    UNION {{FoPartial(f, replies) : f \in [F -> FoErrors], replies \in SUBSET (FoMessages \ F)} :
            F \in SUBSET FoMessages}

FoInit ==
    /\ foAnswers = <<>> /\ foResult = FoPartial({}, {}) /\ foSettled = <<>>
    /\ foBadGateway \in BOOLEAN

-----------------------------------------------------------------------------
(* The merged answer *)

\* A failure is a destination and a message it lists, in the order of the merge.
FoFailures(answers) ==
    {p \in (DOMAIN answers) \X FoMessages : p[2] \in DOMAIN answers[p[1]].failed}

ErrorAt(answers, p) == answers[p[1]].failed[p[2]]

ComesBefore(p, q) == p[1] < q[1] \/ (p[1] = q[1] /\ p[2] < q[2])

\* The id, and which of the destination's failures with that id it is.
Key(answers, p) ==
    <<FoId[p[2]], Cardinality({m \in DOMAIN answers[p[1]].failed : m <= p[2] /\ FoId[m] = FoId[p[2]]})>>

SameKey(answers, p) == {q \in FoFailures(answers) : Key(answers, q) = Key(answers, p)}

\* Mutated: the error of the first destination that lists a message is kept.
KeptErrorFirst(answers, p) == ErrorAt(answers, p)

\* A later failure of the same key replaces the error if it is more recoverable.
KeptError(answers, p) ==
    LET errors == {ErrorAt(answers, q) : q \in SameKey(answers, p)}
    IN  CHOOSE e \in errors : \A f \in errors : Recoverability[f] <= Recoverability[e]

\* Every key is listed once, where it came up first.
MergedFailures(answers) ==
    {[at |-> p, message |-> p[2], error |-> KeptError(answers, p)] :
        p \in {q \in FoFailures(answers) : \A r \in SameKey(answers, q) : ~ComesBefore(r, q)}}

\* The first reply to an id wins.
MergedReplies(answers) == {FoId[m] : m \in UNION {answers[l].replies : l \in DOMAIN answers}}

FoFailed(error) == [ok |-> FALSE, error |-> error, failed |-> {}, replies |-> {}]

\* The first destination in list order that failed as a whole decides what the call returns.
Merged(answers) ==
    LET failedLegs == {l \in DOMAIN answers : ~answers[l].ok}
    IN  IF failedLegs # {} THEN FoFailed(answers[Min(failedLegs)].error)
          ELSE FoPartial(MergedFailures(answers), MergedReplies(answers))

\* The destinations are sent to at once and all awaited.
FoSend(answers) ==
    /\ foAnswers = <<>>
    /\ foAnswers' = answers
    /\ foResult' = Merged(answers)
    /\ UNCHANGED <<foSettled, foBadGateway>>

-----------------------------------------------------------------------------
(* The route *)

\* A refusal is dropped unless a dlq middleware is there to answer for it.
DispositionOfError(error) == IF error = "NonRetryable" /\ ~FoHasDlq THEN "Ack" ELSE "Nack"

\* map_responses_to_dispositions: the last failure listed with an id decides for every
\* message that has it; a reply goes to the first message of its id.
Disposed(result, m) ==
    LET failures == {f \in result.failed : FoId[f.message] = FoId[m]}
        last     == CHOOSE f \in failures : \A g \in failures : ~ComesBefore(f.at, g.at)
    IN  IF failures # {} THEN DispositionOfError(last.error)
          ELSE IF FoId[m] \in result.replies /\ \A j \in 1..(m - 1) : FoId[j] # FoId[m]
            THEN "Reply" ELSE "Ack"

FoTransient == {"Retryable", "Connection"}

HasTransient(result) ==
    IF result.ok THEN \E f \in result.failed : f.error \in FoTransient ELSE result.error \in FoTransient

\* A batch that failed as a whole gets one disposition.  apply_server_failure_policy: after
\* a transient failure a server answers with a bad gateway instead of a nack.
FoDisposition(result, m) ==
    LET d == IF result.ok THEN Disposed(result, m) ELSE DispositionOfError(result.error)
    IN  IF foBadGateway /\ HasTransient(result) /\ d = "Nack" THEN "BadGateway" ELSE d

FoSettle ==
    /\ foAnswers # <<>> /\ foSettled = <<>>
    /\ foSettled' = [m \in FoMessages |-> FoDisposition(foResult, m)]
    /\ UNCHANGED <<foAnswers, foResult, foBadGateway>>

FoNext == FoSettle \/ \E answers \in [1..FoLegs -> FoAnswers] : FoSend(answers)

FoSpec == FoInit /\ [][FoNext]_foVars

-----------------------------------------------------------------------------
(* Properties *)

\* The errors the destinations gave for a message.
ErrorsOf(m) == {ErrorAt(foAnswers, p) : p \in {q \in FoFailures(foAnswers) : q[2] = m}}

AllAnswered == \A l \in DOMAIN foAnswers : foAnswers[l].ok

\* The errors of the destinations that failed as a whole.
BatchErrors == {foAnswers[l].error : l \in DOMAIN foAnswers} \ {"none"}

\* Unless a destination refuses the batch for good, a message any destination may still
\* take is not acknowledged: it fails for the whole fanout, whatever the others did with it,
\* and a server's caller is told so.
RecoverableIsNacked ==
    \A m \in DOMAIN foSettled :
        /\ "NonRetryable" \notin BatchErrors
        /\ (ErrorsOf(m) \cup BatchErrors) \cap FoTransient # {}
        => foSettled[m] = IF foBadGateway THEN "BadGateway" ELSE "Nack"

\* A message that every destination took is neither sent to them again nor left without
\* the reply one of them gave.
DeliveredIsSettled ==
    \A m \in DOMAIN foSettled :
        AllAnswered /\ ErrorsOf(m) = {} =>
            foSettled[m] = IF \E l \in DOMAIN foAnswers : m \in foAnswers[l].replies
                             THEN "Reply" ELSE "Ack"

\* The merged answer lists every failed message once.
FailuresListedOnce ==
    foResult.ok => \A m \in FoMessages :
        Cardinality({f \in foResult.failed : f.message = m}) = IF ErrorsOf(m) = {} THEN 0 ELSE 1

\* What the fanout keeps true of a batch without repeated ids.
FanoutInv == RecoverableIsNacked /\ DeliveredIsSettled /\ FailuresListedOnce

DistinctIds == \A m, n \in FoMessages : FoId[m] = FoId[n] => m = n

\* Nothing has been decided before the destinations have answered.
FoInv ==
    \/ foAnswers = <<>> /\ foResult = FoPartial({}, {}) /\ foSettled = <<>>
    \/ /\ foAnswers \in [1..FoLegs -> FoAnswers] /\ foResult = Merged(foAnswers)
       /\ \/ foSettled = <<>>
          \/ foSettled = [m \in FoMessages |-> FoDisposition(foResult, m)]
=============================================================================
