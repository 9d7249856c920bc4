------------------------ MODULE RouteSupervisor_proofs ------------------------
(* Proofs about RouteSupervisor. *)
EXTENDS RouteSupervisor, TLAPS

-----------------------------------------------------------------------------
\* Every step of the pass, the supervisor and the caller keeps the invariant.
LEMMA SupStep == SupInv /\ [Next]_vars => SupInv'
<1> SUFFICES ASSUME SupInv, [Next]_vars PROVE SupInv'
  OBVIOUS
<1> USE OptionsAreFlags, GiveUpIsPositive, DropsAreNatural, ResultsAreKnown
    DEF SupInv, supVars, runVars, callVars
<1>1. CASE PassReady
  <2> USE <1>1 DEF PassReady
  <2>1. SupTypeOK'
    <3>1. TasksOK' BY DEF SupTypeOK, TasksOK, Results
    <3>2. CellsOK' BY DEF SupTypeOK, CellsOK, TasksOK, Failures, Errors
    <3>3. CountersOK' BY DEF SupTypeOK, CountersOK, FailureCap
    <3>4. FlagsOK' BY DEF SupTypeOK, FlagsOK, TasksOK
    <3> QED BY <3>1, <3>2, <3>3, <3>4 DEF SupTypeOK
  <2>2. OverInv' /\ BetweenInv'
    BY DEF OverInv, BetweenInv, SupTypeOK, TasksOK, CellsOK
  <2>3. StartedInv' /\ CompletedHasStarted'
    BY DEF StartedInv, CompletedHasStarted, OverInv, SupTypeOK, TasksOK, CellsOK, FlagsOK
  <2>4. AbortInv' /\ RefusalNamesCause'
    BY DEF AbortInv, RefusalNamesCause, SupTypeOK, TasksOK, CellsOK, FlagsOK
  <2>5. FlappingShowsError'
    BY DEF FlappingShowsError, OverInv, Unhealthy, Failures
  <2>6. VerdictExplained'
    BY DEF VerdictExplained, OverInv, BetweenInv, Unhealthy, Failures, Errors, SupTypeOK,
           TasksOK, CellsOK, CountersOK
  <2>7. DrainBounded'
    BY DEF DrainBounded, OverInv, SupTypeOK, CountersOK, FlagsOK, FailureCap
  <2>8. EndIsQuiet'
    BY DEF EndIsQuiet, OverInv, BetweenInv, SupTypeOK, TasksOK, CellsOK, FlagsOK
  <2> QED BY <2>1, <2>2, <2>3, <2>4, <2>5, <2>6, <2>7, <2>8
<1>2. CASE PassSends
  <2> USE <1>2 DEF PassSends
  <2>1. SupTypeOK'
    <3>1. TasksOK' BY DEF SupTypeOK, TasksOK, Results
    <3>2. CellsOK' BY DEF SupTypeOK, CellsOK, TasksOK, Failures, Errors
    <3>3. CountersOK' BY DEF SupTypeOK, CountersOK, FailureCap
    <3>4. FlagsOK' BY DEF SupTypeOK, FlagsOK, TasksOK
    <3> QED BY <3>1, <3>2, <3>3, <3>4 DEF SupTypeOK
  <2>2. OverInv' /\ BetweenInv'
    BY DEF OverInv, BetweenInv, SupTypeOK, TasksOK, CellsOK
  <2>3. StartedInv' /\ CompletedHasStarted'
    BY DEF StartedInv, CompletedHasStarted, OverInv, SupTypeOK, TasksOK, CellsOK, FlagsOK
  <2>4. AbortInv' /\ RefusalNamesCause'
    BY DEF AbortInv, RefusalNamesCause, SupTypeOK, TasksOK, CellsOK, FlagsOK
  <2>5. FlappingShowsError'
    BY DEF FlappingShowsError, OverInv, Unhealthy, Failures
  <2>6. VerdictExplained'
    BY DEF VerdictExplained, OverInv, BetweenInv, Unhealthy, Failures, Errors, SupTypeOK,
           TasksOK, CellsOK, CountersOK
  <2>7. DrainBounded'
    BY DEF DrainBounded, OverInv, SupTypeOK, CountersOK, FlagsOK, FailureCap
  <2>8. EndIsQuiet'
    BY DEF EndIsQuiet, OverInv, BetweenInv, SupTypeOK, TasksOK, CellsOK, FlagsOK
  <2> QED BY <2>1, <2>2, <2>3, <2>4, <2>5, <2>6, <2>7, <2>8
<1>3. CASE PassEnds
  <2> USE <1>3 DEF PassEnds, CanEnd
  <2>1. SupTypeOK'
    <3>1. TasksOK' BY DEF SupTypeOK, TasksOK, Results
    <3>2. CellsOK' BY DEF SupTypeOK, CellsOK, TasksOK, Failures, Errors
    <3>3. CountersOK' BY DEF SupTypeOK, CountersOK, FailureCap
    <3>4. FlagsOK' BY DEF SupTypeOK, FlagsOK, TasksOK
    <3> QED BY <3>1, <3>2, <3>3, <3>4 DEF SupTypeOK
  <2>2. OverInv' /\ BetweenInv'
    BY DEF OverInv, BetweenInv, SupTypeOK, TasksOK, CellsOK
  <2>3. StartedInv' /\ CompletedHasStarted'
    BY DEF StartedInv, CompletedHasStarted, OverInv, SupTypeOK, TasksOK, CellsOK, FlagsOK
  <2>4. AbortInv' /\ RefusalNamesCause'
    BY DEF AbortInv, RefusalNamesCause, SupTypeOK, TasksOK, CellsOK, FlagsOK
  <2>5. FlappingShowsError'
    BY DEF FlappingShowsError, OverInv, Unhealthy, Failures
  <2>6. VerdictExplained'
    BY DEF VerdictExplained, OverInv, BetweenInv, Unhealthy, Failures, Errors, SupTypeOK,
           TasksOK, CellsOK, CountersOK
  <2>7. DrainBounded'
    BY DEF DrainBounded, OverInv, SupTypeOK, CountersOK, FlagsOK, FailureCap
  <2>8. EndIsQuiet'
    BY DEF EndIsQuiet, OverInv, BetweenInv, SupTypeOK, TasksOK, CellsOK, FlagsOK
  <2> QED BY <2>1, <2>2, <2>3, <2>4, <2>5, <2>6, <2>7, <2>8
<1>4. CASE SelectShutdown
  <2> USE <1>4 DEF SelectShutdown
  <2>1. SupTypeOK'
    <3>1. TasksOK' BY DEF SupTypeOK, TasksOK, Results
    <3>2. CellsOK' BY DEF SupTypeOK, CellsOK, TasksOK, Failures, Errors
    <3>3. CountersOK' BY DEF SupTypeOK, CountersOK, FailureCap
    <3>4. FlagsOK' BY DEF SupTypeOK, FlagsOK, TasksOK
    <3> QED BY <3>1, <3>2, <3>3, <3>4 DEF SupTypeOK
  <2>2. OverInv' /\ BetweenInv'
    BY DEF OverInv, BetweenInv, SupTypeOK, TasksOK, CellsOK
  <2>3. StartedInv' /\ CompletedHasStarted'
    BY DEF StartedInv, CompletedHasStarted, OverInv, SupTypeOK, TasksOK, CellsOK, FlagsOK
  <2>4. AbortInv' /\ RefusalNamesCause'
    BY DEF AbortInv, RefusalNamesCause, SupTypeOK, TasksOK, CellsOK, FlagsOK
  <2>5. FlappingShowsError'
    BY DEF FlappingShowsError, OverInv, Unhealthy, Failures
  <2>6. VerdictExplained'
    BY DEF VerdictExplained, OverInv, BetweenInv, Unhealthy, Failures, Errors, SupTypeOK,
           TasksOK, CellsOK, CountersOK
  <2>7. DrainBounded'
    BY DEF DrainBounded, OverInv, SupTypeOK, CountersOK, FlagsOK, FailureCap
  <2>8. EndIsQuiet'
    BY DEF EndIsQuiet, OverInv, BetweenInv, SupTypeOK, TasksOK, CellsOK, FlagsOK
  <2> QED BY <2>1, <2>2, <2>3, <2>4, <2>5, <2>6, <2>7, <2>8
<1>5. CASE PassStopped
  <2> USE <1>5 DEF PassStopped, Finish, Verdict, Forwarded
  <2>1. SupTypeOK'
    <3>1. TasksOK' BY DEF SupTypeOK, TasksOK, Results
    <3>2. CellsOK' BY DEF SupTypeOK, CellsOK, TasksOK, Failures, Errors
    <3>3. CountersOK' BY DEF SupTypeOK, CountersOK, FailureCap
    <3>4. FlagsOK' BY DEF SupTypeOK, FlagsOK, TasksOK
    <3> QED BY <3>1, <3>2, <3>3, <3>4 DEF SupTypeOK
  <2>2. OverInv' /\ BetweenInv'
    BY DEF OverInv, BetweenInv, SupTypeOK, TasksOK, CellsOK
  <2>3. StartedInv' /\ CompletedHasStarted'
    BY DEF StartedInv, CompletedHasStarted, OverInv, SupTypeOK, TasksOK, CellsOK, FlagsOK
  <2>4. AbortInv' /\ RefusalNamesCause'
    BY DEF AbortInv, RefusalNamesCause, SupTypeOK, TasksOK, CellsOK, FlagsOK
  <2>5. FlappingShowsError'
    BY DEF FlappingShowsError, OverInv, Unhealthy, Failures
  <2>6. VerdictExplained'
    BY DEF VerdictExplained, OverInv, BetweenInv, Unhealthy, Failures, Errors, SupTypeOK,
           TasksOK, CellsOK, CountersOK
  <2>7. DrainBounded'
    BY DEF DrainBounded, OverInv, SupTypeOK, CountersOK, FlagsOK, FailureCap
  <2>8. EndIsQuiet'
    BY DEF EndIsQuiet, OverInv, BetweenInv, SupTypeOK, TasksOK, CellsOK, FlagsOK
  <2> QED BY <2>1, <2>2, <2>3, <2>4, <2>5, <2>6, <2>7, <2>8
<1>6. CASE SelectStable
  <2> USE <1>6 DEF SelectStable, Healthy
  <2>1. SupTypeOK'
    <3>1. TasksOK' BY DEF SupTypeOK, TasksOK, Results
    <3>2. CellsOK' BY DEF SupTypeOK, CellsOK, TasksOK, Failures, Errors
    <3>3. CountersOK' BY DEF SupTypeOK, CountersOK, FailureCap
    <3>4. FlagsOK' BY DEF SupTypeOK, FlagsOK, TasksOK
    <3> QED BY <3>1, <3>2, <3>3, <3>4 DEF SupTypeOK
  <2>2. OverInv' /\ BetweenInv'
    BY DEF OverInv, BetweenInv, SupTypeOK, TasksOK, CellsOK
  <2>3. StartedInv' /\ CompletedHasStarted'
    BY DEF StartedInv, CompletedHasStarted, OverInv, SupTypeOK, TasksOK, CellsOK, FlagsOK
  <2>4. AbortInv' /\ RefusalNamesCause'
    BY DEF AbortInv, RefusalNamesCause, SupTypeOK, TasksOK, CellsOK, FlagsOK
  <2>5. FlappingShowsError'
    BY DEF FlappingShowsError, OverInv, Unhealthy, Failures
  <2>6. VerdictExplained'
    BY DEF VerdictExplained, OverInv, BetweenInv, Unhealthy, Failures, Errors, SupTypeOK,
           TasksOK, CellsOK, CountersOK
  <2>7. DrainBounded'
    BY DEF DrainBounded, OverInv, SupTypeOK, CountersOK, FlagsOK, FailureCap
  <2>8. EndIsQuiet'
    BY DEF EndIsQuiet, OverInv, BetweenInv, SupTypeOK, TasksOK, CellsOK, FlagsOK
  <2> QED BY <2>1, <2>2, <2>3, <2>4, <2>5, <2>6, <2>7, <2>8
<1>7. CASE SelectReady
  <2> USE <1>7 DEF SelectReady, ReadyStatus, Healthy
  <2>1. SupTypeOK'
    <3>1. TasksOK' BY DEF SupTypeOK, TasksOK, Results
    <3>2. CellsOK' BY DEF SupTypeOK, CellsOK, TasksOK, Failures, Errors
    <3>3. CountersOK' BY DEF SupTypeOK, CountersOK, FailureCap
    <3>4. FlagsOK' BY DEF SupTypeOK, FlagsOK, TasksOK
    <3> QED BY <3>1, <3>2, <3>3, <3>4 DEF SupTypeOK
  <2>2. OverInv' /\ BetweenInv'
    BY DEF OverInv, BetweenInv, SupTypeOK, TasksOK, CellsOK
  <2>3. StartedInv' /\ CompletedHasStarted'
    BY DEF StartedInv, CompletedHasStarted, OverInv, SupTypeOK, TasksOK, CellsOK, FlagsOK
  <2>4. AbortInv' /\ RefusalNamesCause'
    BY DEF AbortInv, RefusalNamesCause, SupTypeOK, TasksOK, CellsOK, FlagsOK
  <2>5. FlappingShowsError'
    BY DEF FlappingShowsError, OverInv, Unhealthy, Failures
  <2>6. VerdictExplained'
    BY DEF VerdictExplained, OverInv, BetweenInv, Unhealthy, Failures, Errors, SupTypeOK,
           TasksOK, CellsOK, CountersOK
  <2>7. DrainBounded'
    BY DEF DrainBounded, OverInv, SupTypeOK, CountersOK, FlagsOK, FailureCap
  <2>8. EndIsQuiet'
    BY DEF EndIsQuiet, OverInv, BetweenInv, SupTypeOK, TasksOK, CellsOK, FlagsOK
  <2> QED BY <2>1, <2>2, <2>3, <2>4, <2>5, <2>6, <2>7, <2>8
<1>8. CASE SelectCompleted
  <2> USE <1>8 DEF SelectCompleted, Finish, Verdict, Forwarded, Healthy
  <2>1. SupTypeOK'
    <3>1. TasksOK' BY DEF SupTypeOK, TasksOK, Results
    <3>2. CellsOK' BY DEF SupTypeOK, CellsOK, TasksOK, Failures, Errors
    <3>3. CountersOK' BY DEF SupTypeOK, CountersOK, FailureCap
    <3>4. FlagsOK' BY DEF SupTypeOK, FlagsOK, TasksOK
    <3> QED BY <3>1, <3>2, <3>3, <3>4 DEF SupTypeOK
  <2>2. OverInv' /\ BetweenInv'
    BY DEF OverInv, BetweenInv, SupTypeOK, TasksOK, CellsOK
  <2>3. StartedInv' /\ CompletedHasStarted'
    BY DEF StartedInv, CompletedHasStarted, OverInv, SupTypeOK, TasksOK, CellsOK, FlagsOK
  <2>4. AbortInv' /\ RefusalNamesCause'
    BY DEF AbortInv, RefusalNamesCause, SupTypeOK, TasksOK, CellsOK, FlagsOK
  <2>5. FlappingShowsError'
    BY DEF FlappingShowsError, OverInv, Unhealthy, Failures
  <2>6. VerdictExplained'
    BY DEF VerdictExplained, OverInv, BetweenInv, Unhealthy, Failures, Errors, SupTypeOK,
           TasksOK, CellsOK, CountersOK
  <2>7. DrainBounded'
    BY DEF DrainBounded, OverInv, SupTypeOK, CountersOK, FlagsOK, FailureCap
  <2>8. EndIsQuiet'
    BY DEF EndIsQuiet, OverInv, BetweenInv, SupTypeOK, TasksOK, CellsOK, FlagsOK
  <2> QED BY <2>1, <2>2, <2>3, <2>4, <2>5, <2>6, <2>7, <2>8
<1>9. CASE SelectFailed
  <2> USE <1>9 DEF SelectFailed, Finish, Verdict, Forwarded, Reconnect, NewPass, GivesUp,
             DrainGivesUp, IsFailure, Unhealthy, Counted
  <2>1. SupTypeOK'
    <3> HIDE <1>9 DEF SelectFailed, NewPass
    <3>1. pass' = [pass EXCEPT !.ready = FALSE] \/ pass' = NewPass
      BY <1>9 DEF SelectFailed
    <3>2. sup' \in {"select", "backoff", "over"} /\ caller' = caller /\ cause' = cause
      BY <1>9 DEF SelectFailed
    <3>3. TasksOK'
      <4>1. CASE pass' = NewPass
        BY <4>1, <3>2 DEF SupTypeOK, TasksOK, Results, NewPass
      <4>2. CASE pass' = [pass EXCEPT !.ready = FALSE]
        BY <4>2, <3>2 DEF SupTypeOK, TasksOK
      <4> QED BY <4>1, <4>2, <3>1
    <3>4. status' = Unhealthy(pass.result) /\ outcome' \in {"Failed", outcome}
      BY <1>9 DEF SelectFailed
    <3>5. pass.result \in Errors
      BY <1>9 DEF SelectFailed, Errors, Failures
    <3>6. CellsOK'
      BY <3>2, <3>4, <3>5 DEF SupTypeOK, CellsOK
    <3>7. CountersOK' BY <1>9 DEF SelectFailed, SupTypeOK, CountersOK, FailureCap
    <3>8. FlagsOK' BY <1>9 DEF SelectFailed, SupTypeOK, FlagsOK, TasksOK
    <3> QED BY <3>3, <3>6, <3>7, <3>8 DEF SupTypeOK
  <2>2. OverInv' /\ BetweenInv'
    BY DEF OverInv, BetweenInv, SupTypeOK, TasksOK, CellsOK
  <2>3. StartedInv' /\ CompletedHasStarted'
    BY DEF StartedInv, CompletedHasStarted, OverInv, SupTypeOK, TasksOK, CellsOK, FlagsOK
  <2>4. AbortInv' /\ RefusalNamesCause'
    BY DEF AbortInv, RefusalNamesCause, SupTypeOK, TasksOK, CellsOK, FlagsOK
  <2>5. FlappingShowsError'
    BY DEF FlappingShowsError, OverInv, Unhealthy, Failures
  <2>6. VerdictExplained'
    BY DEF VerdictExplained, OverInv, BetweenInv, Unhealthy, Failures, Errors, SupTypeOK,
           TasksOK, CellsOK, CountersOK
  <2>7. DrainBounded'
    BY DEF DrainBounded, OverInv, SupTypeOK, CountersOK, FlagsOK, FailureCap
  <2>8. EndIsQuiet'
    BY DEF EndIsQuiet, OverInv, BetweenInv, SupTypeOK, TasksOK, CellsOK, FlagsOK
  <2> QED BY <2>1, <2>2, <2>3, <2>4, <2>5, <2>6, <2>7, <2>8
<1>10. CASE SelectAgain
  <2> USE <1>10 DEF SelectAgain, Reconnect, NewPass, Forwarded
  <2>1. SupTypeOK'
    <3>1. TasksOK' BY DEF SupTypeOK, TasksOK, Results
    <3>2. CellsOK' BY DEF SupTypeOK, CellsOK, TasksOK, Failures, Errors
    <3>3. CountersOK' BY DEF SupTypeOK, CountersOK, FailureCap
    <3>4. FlagsOK' BY DEF SupTypeOK, FlagsOK, TasksOK
    <3> QED BY <3>1, <3>2, <3>3, <3>4 DEF SupTypeOK
  <2>2. OverInv' /\ BetweenInv'
    BY DEF OverInv, BetweenInv, SupTypeOK, TasksOK, CellsOK
  <2>3. StartedInv' /\ CompletedHasStarted'
    BY DEF StartedInv, CompletedHasStarted, OverInv, SupTypeOK, TasksOK, CellsOK, FlagsOK
  <2>4. AbortInv' /\ RefusalNamesCause'
    BY DEF AbortInv, RefusalNamesCause, SupTypeOK, TasksOK, CellsOK, FlagsOK
  <2>5. FlappingShowsError'
    BY DEF FlappingShowsError, OverInv, Unhealthy, Failures
  <2>6. VerdictExplained'
    BY DEF VerdictExplained, OverInv, BetweenInv, Unhealthy, Failures, Errors, SupTypeOK,
           TasksOK, CellsOK, CountersOK
  <2>7. DrainBounded'
    BY DEF DrainBounded, OverInv, SupTypeOK, CountersOK, FlagsOK, FailureCap
  <2>8. EndIsQuiet'
    BY DEF EndIsQuiet, OverInv, BetweenInv, SupTypeOK, TasksOK, CellsOK, FlagsOK
  <2> QED BY <2>1, <2>2, <2>3, <2>4, <2>5, <2>6, <2>7, <2>8
<1>11. CASE BackoffOver
  <2> USE <1>11 DEF BackoffOver, Reconnect, NewPass
  <2>1. SupTypeOK'
    <3>1. TasksOK' BY DEF SupTypeOK, TasksOK, Results
    <3>2. CellsOK' BY DEF SupTypeOK, CellsOK, TasksOK, Failures, Errors
    <3>3. CountersOK' BY DEF SupTypeOK, CountersOK, FailureCap
    <3>4. FlagsOK' BY DEF SupTypeOK, FlagsOK, TasksOK
    <3> QED BY <3>1, <3>2, <3>3, <3>4 DEF SupTypeOK
  <2>2. OverInv' /\ BetweenInv'
    BY DEF OverInv, BetweenInv, SupTypeOK, TasksOK, CellsOK
  <2>3. StartedInv' /\ CompletedHasStarted'
    BY DEF StartedInv, CompletedHasStarted, OverInv, SupTypeOK, TasksOK, CellsOK, FlagsOK
  <2>4. AbortInv' /\ RefusalNamesCause'
    BY DEF AbortInv, RefusalNamesCause, SupTypeOK, TasksOK, CellsOK, FlagsOK
  <2>5. FlappingShowsError'
    BY DEF FlappingShowsError, OverInv, Unhealthy, Failures
  <2>6. VerdictExplained'
    BY DEF VerdictExplained, OverInv, BetweenInv, Unhealthy, Failures, Errors, SupTypeOK,
           TasksOK, CellsOK, CountersOK
  <2>7. DrainBounded'
    BY DEF DrainBounded, OverInv, SupTypeOK, CountersOK, FlagsOK, FailureCap
  <2>8. EndIsQuiet'
    BY DEF EndIsQuiet, OverInv, BetweenInv, SupTypeOK, TasksOK, CellsOK, FlagsOK
  <2> QED BY <2>1, <2>2, <2>3, <2>4, <2>5, <2>6, <2>7, <2>8
<1>12. CASE BackoffShutdown
  <2> USE <1>12 DEF BackoffShutdown, Finish, Verdict
  <2>1. SupTypeOK'
    <3>1. TasksOK' BY DEF SupTypeOK, TasksOK, Results
    <3>2. CellsOK' BY DEF SupTypeOK, CellsOK, TasksOK, Failures, Errors
    <3>3. CountersOK' BY DEF SupTypeOK, CountersOK, FailureCap
    <3>4. FlagsOK' BY DEF SupTypeOK, FlagsOK, TasksOK
    <3> QED BY <3>1, <3>2, <3>3, <3>4 DEF SupTypeOK
  <2>2. OverInv' /\ BetweenInv'
    BY DEF OverInv, BetweenInv, SupTypeOK, TasksOK, CellsOK
  <2>3. StartedInv' /\ CompletedHasStarted'
    BY DEF StartedInv, CompletedHasStarted, OverInv, SupTypeOK, TasksOK, CellsOK, FlagsOK
  <2>4. AbortInv' /\ RefusalNamesCause'
    BY DEF AbortInv, RefusalNamesCause, SupTypeOK, TasksOK, CellsOK, FlagsOK
  <2>5. FlappingShowsError'
    BY DEF FlappingShowsError, OverInv, Unhealthy, Failures
  <2>6. VerdictExplained'
    BY DEF VerdictExplained, OverInv, BetweenInv, Unhealthy, Failures, Errors, SupTypeOK,
           TasksOK, CellsOK, CountersOK
  <2>7. DrainBounded'
    BY DEF DrainBounded, OverInv, SupTypeOK, CountersOK, FlagsOK, FailureCap
  <2>8. EndIsQuiet'
    BY DEF EndIsQuiet, OverInv, BetweenInv, SupTypeOK, TasksOK, CellsOK, FlagsOK
  <2> QED BY <2>1, <2>2, <2>3, <2>4, <2>5, <2>6, <2>7, <2>8
<1>13. CASE SupDropped
  <2> USE <1>13 DEF SupDropped, Finish, Verdict, Unhealthy
  <2>1. SupTypeOK'
    <3>1. TasksOK' BY DEF SupTypeOK, TasksOK, Results
    <3>2. CellsOK' BY DEF SupTypeOK, CellsOK, TasksOK, Failures, Errors
    <3>3. CountersOK' BY DEF SupTypeOK, CountersOK, FailureCap
    <3>4. FlagsOK' BY DEF SupTypeOK, FlagsOK, TasksOK
    <3> QED BY <3>1, <3>2, <3>3, <3>4 DEF SupTypeOK
  <2>2. OverInv' /\ BetweenInv'
    BY DEF OverInv, BetweenInv, SupTypeOK, TasksOK, CellsOK
  <2>3. StartedInv' /\ CompletedHasStarted'
    BY DEF StartedInv, CompletedHasStarted, OverInv, SupTypeOK, TasksOK, CellsOK, FlagsOK
  <2>4. AbortInv' /\ RefusalNamesCause'
    BY DEF AbortInv, RefusalNamesCause, SupTypeOK, TasksOK, CellsOK, FlagsOK
  <2>5. FlappingShowsError'
    BY DEF FlappingShowsError, OverInv, Unhealthy, Failures
  <2>6. VerdictExplained'
    BY DEF VerdictExplained, OverInv, BetweenInv, Unhealthy, Failures, Errors, SupTypeOK,
           TasksOK, CellsOK, CountersOK
  <2>7. DrainBounded'
    BY DEF DrainBounded, OverInv, SupTypeOK, CountersOK, FlagsOK, FailureCap
  <2>8. EndIsQuiet'
    BY DEF EndIsQuiet, OverInv, BetweenInv, SupTypeOK, TasksOK, CellsOK, FlagsOK
  <2> QED BY <2>1, <2>2, <2>3, <2>4, <2>5, <2>6, <2>7, <2>8
<1>14. CASE Caller
  <2> USE <1>14 DEF Caller, RunReturns, RunGivesUp, RunRefuses, HandleStop, HandleJoin,
             StopActive, StopTimeout, StopReturned
  <2>1. SupTypeOK'
    <3>1. TasksOK' BY DEF SupTypeOK, TasksOK, Results
    <3>2. CellsOK' BY DEF SupTypeOK, CellsOK, TasksOK, Failures, Errors
    <3>3. CountersOK' BY DEF SupTypeOK, CountersOK, FailureCap
    <3>4. FlagsOK' BY DEF SupTypeOK, FlagsOK, TasksOK
    <3> QED BY <3>1, <3>2, <3>3, <3>4 DEF SupTypeOK
  <2>2. OverInv' /\ BetweenInv'
    BY DEF OverInv, BetweenInv, SupTypeOK, TasksOK, CellsOK
  <2>3. StartedInv' /\ CompletedHasStarted'
    BY DEF StartedInv, CompletedHasStarted, OverInv, SupTypeOK, TasksOK, CellsOK, FlagsOK
  <2>4. AbortInv' /\ RefusalNamesCause'
    BY DEF AbortInv, RefusalNamesCause, SupTypeOK, TasksOK, CellsOK, FlagsOK
  <2>5. FlappingShowsError'
    BY DEF FlappingShowsError, OverInv, Unhealthy, Failures
  <2>6. VerdictExplained'
    BY DEF VerdictExplained, OverInv, BetweenInv, Unhealthy, Failures, Errors, SupTypeOK,
           TasksOK, CellsOK, CountersOK
  <2>7. DrainBounded'
    BY DEF DrainBounded, OverInv, SupTypeOK, CountersOK, FlagsOK, FailureCap
  <2>8. EndIsQuiet'
    BY DEF EndIsQuiet, OverInv, BetweenInv, SupTypeOK, TasksOK, CellsOK, FlagsOK
  <2> QED BY <2>1, <2>2, <2>3, <2>4, <2>5, <2>6, <2>7, <2>8
<1>15. CASE UNCHANGED vars
  <2> USE <1>15 DEF vars
  <2>1. SupTypeOK'
    <3>1. TasksOK' BY DEF SupTypeOK, TasksOK, Results
    <3>2. CellsOK' BY DEF SupTypeOK, CellsOK, TasksOK, Failures, Errors
    <3>3. CountersOK' BY DEF SupTypeOK, CountersOK, FailureCap
    <3>4. FlagsOK' BY DEF SupTypeOK, FlagsOK, TasksOK
    <3> QED BY <3>1, <3>2, <3>3, <3>4 DEF SupTypeOK
  <2>2. OverInv' /\ BetweenInv'
    BY DEF OverInv, BetweenInv, SupTypeOK, TasksOK, CellsOK
  <2>3. StartedInv' /\ CompletedHasStarted'
    BY DEF StartedInv, CompletedHasStarted, OverInv, SupTypeOK, TasksOK, CellsOK, FlagsOK
  <2>4. AbortInv' /\ RefusalNamesCause'
    BY DEF AbortInv, RefusalNamesCause, SupTypeOK, TasksOK, CellsOK, FlagsOK
  <2>5. FlappingShowsError'
    BY DEF FlappingShowsError, OverInv, Unhealthy, Failures
  <2>6. VerdictExplained'
    BY DEF VerdictExplained, OverInv, BetweenInv, Unhealthy, Failures, Errors, SupTypeOK,
           TasksOK, CellsOK, CountersOK
  <2>7. DrainBounded'
    BY DEF DrainBounded, OverInv, SupTypeOK, CountersOK, FlagsOK, FailureCap
  <2>8. EndIsQuiet'
    BY DEF EndIsQuiet, OverInv, BetweenInv, SupTypeOK, TasksOK, CellsOK, FlagsOK
  <2> QED BY <2>1, <2>2, <2>3, <2>4, <2>5, <2>6, <2>7, <2>8
<1> QED
  BY <1>1, <1>2, <1>3, <1>4, <1>5, <1>6, <1>7, <1>8,
     <1>9, <1>10, <1>11, <1>12, <1>13, <1>14, <1>15
  DEF Next, Pass, Supervisor

\* The reconnect loop, its caller and its passes: the inductive invariant holds in every
\* state, for every configuration of the route.
THEOREM SupInvariant == Spec => []SupInv
<1>1. Init => SupInv
  <2> SUFFICES ASSUME Init PROVE SupInv
    OBVIOUS
  <2> USE OptionsAreFlags, GiveUpIsPositive, DropsAreNatural DEF Init
  <2>1. TasksOK BY DEF TasksOK, NewPass, Results
  <2>2. CellsOK BY DEF CellsOK, Unhealthy, Errors, Failures
  <2>3. CountersOK BY DEF CountersOK, FailureCap
  <2>4. FlagsOK BY DEF FlagsOK
  <2>5. OverInv /\ BetweenInv /\ StartedInv /\ AbortInv
    BY DEF OverInv, BetweenInv, StartedInv, AbortInv, NewPass, Unhealthy
  <2>6. FlappingShowsError /\ VerdictExplained /\ CompletedHasStarted
    BY DEF FlappingShowsError, VerdictExplained, CompletedHasStarted
  <2>7. RefusalNamesCause /\ DrainBounded /\ EndIsQuiet
    BY DEF RefusalNamesCause, DrainBounded, EndIsQuiet
  <2> QED BY <2>1, <2>2, <2>3, <2>4, <2>5, <2>6, <2>7 DEF SupInv, SupTypeOK
<1> QED BY <1>1, SupStep, PTL DEF Spec

\* RouteHandle::status and outcome: a flapping route keeps showing its error, and what a
\* finished route shows agrees with how it ended.
THEOREM SupReportsTruly == Spec => [](FlappingShowsError /\ VerdictExplained)
<1>1. SupInv => FlappingShowsError /\ VerdictExplained BY DEF SupInv
<1> QED BY <1>1, SupInvariant, PTL

\* run(): a route that completed is never reported as one that did not start, and a refusal
\* names the error the route recorded.
THEOREM SupStartsTruly == Spec => [](CompletedHasStarted /\ RefusalNamesCause)
<1>1. SupInv => CompletedHasStarted /\ RefusalNamesCause BY DEF SupInv
<1> QED BY <1>1, SupInvariant, PTL

\* exit_on_empty: a drain that cannot get past a failure stops trying, for every limit.
THEOREM SupBoundsDrains == Spec => []DrainBounded
<1>1. SupInv => DrainBounded BY DEF SupInv
<1> QED BY <1>1, SupInvariant, PTL
=============================================================================
