--------------------------- MODULE RouteSupervisor ---------------------------
(***************************************************************************)
(* The reconnect loop a running route lives in (Route::run_with_resume_    *)
(* policy), the caller that waits for it to start and later stops it       *)
(* (run, stop, RouteHandle), and the cells they share: the health status,  *)
(* the terminal outcome and the tally of dropped messages.                 *)
(*                                                                         *)
(* Three tasks interleave.  The caller; the supervisor, which is the task  *)
(* behind RouteHandle; and the pass, a further task that connects the      *)
(* endpoints and runs the route once (SequentialRoute and ConcurrentRoute  *)
(* model its inside).  A pass is spawned by the supervisor and merely      *)
(* detached when the supervisor is aborted.                                *)
(***************************************************************************)
EXTENDS Naturals

CONSTANTS
    ExitOnEmpty,    \* options.exit_on_empty: the route is a drain job
    ZeroInterval,   \* options.reconnect_interval_ms is zero
    GiveUpAfter,    \* DRAIN_MAX_RECONNECT_ATTEMPTS
    PassResults,    \* the ways a pass may end in this instance
    MaxDrops        \* bound: messages dropped for good

ASSUME OptionsAreFlags == ExitOnEmpty \in BOOLEAN /\ ZeroInterval \in BOOLEAN
ASSUME GiveUpIsPositive == GiveUpAfter \in Nat \ {0}
ASSUME DropsAreNatural == MaxDrops \in Nat

\* "drained": Ok(false); "again": Ok(true), the runner ended without an error or a drained
\* source; "eos": an EndOfStream error; "fatal": an error no reconnect can cure; "auth":
\* a rejected login, fatal to a drain only; "error": any other error; "panic".
Results == {"drained", "again", "eos", "fatal", "auth", "error", "panic"}
ASSUME ResultsAreKnown == PassResults \subseteq Results

VARIABLES
    sup,        \* the supervisor: "select", "await" (a stopped pass), "backoff", "over"
    aborted,    \* JoinHandle::abort was called on the supervisor
    pass,       \* the current pass: its task and the three channels it shares
    failures,   \* consecutive_failures, up to FailureCap
    notified,   \* startup_notified: the ready signal was forwarded to run()
    delivered,  \* PendingSends::delivered
    drops,      \* DropReport::count
    status,     \* the health cell
    outcome,    \* the outcome cell
    told,       \* the shutdown channel holds a signal or is closed
    caller,     \* where run(), and then the owner of its handle, stands
    cause       \* the error run() reports when it gives up on the start

supVars == <<sup, aborted, pass, failures, notified, status, outcome>>
runVars == <<delivered, drops>>
callVars == <<told, caller, cause>>
vars == <<supVars, runVars, callVars>>

\* Bound: the loop only asks whether it has failed at all and whether it failed GiveUpAfter
\* times, so counting one further loses nothing.
FailureCap == GiveUpAfter + 1
Counted(n) == IF n < FailureCap THEN n ELSE FailureCap

Healthy == [healthy |-> TRUE, error |-> "none"]
Unhealthy(e) == [healthy |-> FALSE, error |-> e]

\* A pass as it is spawned, with a shutdown and a ready channel of its own.
NewPass == [at |-> "connecting", result |-> "none", told |-> FALSE, ready |-> FALSE]

Init ==
    /\ sup = "select"
    /\ aborted = FALSE
    /\ pass = NewPass
    /\ failures = 0
    /\ notified = FALSE
    /\ delivered = FALSE
    /\ drops = 0
    /\ status = Unhealthy("connecting")
    /\ outcome = "None"
    /\ told = FALSE
    /\ caller = "starting"
    /\ cause = "none"

-----------------------------------------------------------------------------
(* The pass *)

\* The endpoints are connected: signal ready on the pass's own channel.
PassReady ==
    /\ pass.at = "connecting"
    /\ pass' = [pass EXCEPT !.at = "up", !.ready = TRUE]
    /\ UNCHANGED <<sup, aborted, failures, notified, status, outcome, runVars, callVars>>

\* The sink accepted a batch, or refused a message for good with no dlq to take it.
PassSends ==
    /\ pass.at = "up"
    /\ \/ ~delivered /\ delivered' = TRUE /\ drops' = drops
       \/ drops < MaxDrops /\ drops' = drops + 1 /\ delivered' = delivered
    /\ UNCHANGED <<supVars, callVars>>

\* Only a pass that got to its receive loop drains, reaches the end of a stream or
\* notices that it is to stop; connecting fails or panics.
CanEnd(r) ==
    \/ pass.at = "up"
    \/ pass.at = "connecting" /\ r \in {"fatal", "auth", "error", "panic"}

PassEnds ==
    /\ \/ \E r \in PassResults : CanEnd(r) /\ pass' = [pass EXCEPT !.at = "ended", !.result = r]
       \/ /\ pass.at = "up"
          /\ pass.told
          /\ pass' = [pass EXCEPT !.at = "ended", !.result = "again"]
    /\ UNCHANGED <<sup, aborted, failures, notified, status, outcome, runVars, callVars>>

-----------------------------------------------------------------------------
(* The supervisor *)

\* Mutated: a reconnect error that is still recorded hides the dropped messages.
VerdictKeepsError(o, s) ==
    LET clean == IF o = "Completed" THEN Healthy ELSE s
    IN IF drops > 0 /\ clean.error = "none" THEN [clean EXCEPT !.error = "drops"] ELSE clean

\* The status a finished task leaves behind: a clean end clears a stale connection error,
\* and dropped messages are reported unless a failure explains the end.
Verdict(o, s) ==
    LET clean == IF o = "Completed" THEN Healthy ELSE s
    IN IF drops > 0 /\ (clean.error = "none" \/ o # "Failed")
         THEN [clean EXCEPT !.error = "drops"]
         ELSE clean

\* The task returns and drops its guard, which publishes status and then outcome.
Finish(o, s) ==
    /\ sup' = "over"
    /\ status' = Verdict(o, s)
    /\ outcome' = o

\* A ready signal the pass left in its channel reaches run() before the end does.
Forwarded == notified \/ pass.ready

\* Mutated: waits for the pass without telling it to stop.
SelectShutdownUntold ==
    /\ sup = "select"
    /\ ~aborted
    /\ told
    /\ sup' = "await"
    /\ UNCHANGED <<aborted, pass, failures, notified, status, outcome, runVars, callVars>>

\* One of the select arms: the shutdown signal.  The pass is told through its own channel.
SelectShutdown ==
    /\ sup = "select"
    /\ ~aborted
    /\ told
    /\ pass' = [pass EXCEPT !.told = TRUE]
    /\ sup' = "await"
    /\ UNCHANGED <<aborted, failures, notified, status, outcome, runVars, callVars>>

\* The pass the supervisor stopped has ended, however it did.
PassStopped ==
    /\ sup = "await"
    /\ ~aborted
    /\ pass.at = "ended"
    /\ notified' = Forwarded
    /\ pass' = [pass EXCEPT !.ready = FALSE]
    /\ Finish("Stopped", status)
    /\ UNCHANGED <<aborted, failures, runVars, callVars>>

\* One of the select arms: nothing happened for STABLE_RUN, armed after a failure only.
SelectStable ==
    /\ sup = "select"
    /\ ~aborted
    /\ failures > 0
    /\ failures' = 0
    /\ status' = Healthy
    /\ UNCHANGED <<sup, aborted, pass, notified, outcome, runVars, callVars>>

\* What a ready signal does to the status: a flapping route stays unhealthy.
ReadyStatus == IF failures = 0 THEN Healthy ELSE status

\* One of the select arms: the pass's ready signal.
SelectReady ==
    /\ sup = "select"
    /\ ~aborted
    /\ pass.ready
    /\ pass' = [pass EXCEPT !.ready = FALSE]
    /\ status' = ReadyStatus
    /\ notified' = TRUE
    /\ UNCHANGED <<sup, aborted, failures, outcome, runVars, callVars>>

Permanent(r) == r \in {"fatal", "eos"} \cup (IF ExitOnEmpty THEN {"auth"} ELSE {})
IsFailure(r) == r \in {"fatal", "auth", "error", "panic"}

\* Mutated: one more reconnect than the limit.
DrainGivesUpLate(n) == ~delivered \/ n > GiveUpAfter

\* drain_gives_up, asked with the failure just counted.
DrainGivesUp(n) == ~delivered \/ n >= GiveUpAfter

GivesUp(r) == Permanent(r) \/ (ExitOnEmpty /\ DrainGivesUp(Counted(failures + 1)))

\* A pass is spawned in the place of the one that ended.
Reconnect ==
    /\ pass' = NewPass
    /\ sup' = "select"

\* The pass ended cleanly: the route is complete.
SelectCompleted ==
    /\ sup = "select"
    /\ ~aborted
    /\ pass.at = "ended"
    /\ pass.result \in {"drained", "eos"}
    /\ notified' = Forwarded
    /\ pass' = [pass EXCEPT !.ready = FALSE]
    /\ Finish("Completed", status)
    /\ UNCHANGED <<aborted, failures, runVars, callVars>>

\* The pass failed or panicked: give up, or wait before the next one.
SelectFailed ==
    /\ sup = "select"
    /\ ~aborted
    /\ pass.at = "ended"
    /\ IsFailure(pass.result)
    /\ notified' = Forwarded
    /\ failures' = Counted(failures + 1)
    /\ \/ /\ GivesUp(pass.result)
          /\ Finish("Failed", Unhealthy(pass.result))
          /\ pass' = [pass EXCEPT !.ready = FALSE]
       \/ /\ ~GivesUp(pass.result)
          /\ status' = Unhealthy(pass.result)
          /\ outcome' = outcome
          /\ \/ /\ ZeroInterval
                /\ Reconnect
             \/ /\ ~ZeroInterval
                /\ sup' = "backoff"
                /\ pass' = [pass EXCEPT !.ready = FALSE]
    /\ UNCHANGED <<aborted, runVars, callVars>>

\* The pass ended for no reason of its own: start over at once.
SelectAgain ==
    /\ sup = "select"
    /\ ~aborted
    /\ pass.at = "ended"
    /\ pass.result = "again"
    /\ notified' = Forwarded
    /\ Reconnect
    /\ UNCHANGED <<aborted, failures, status, outcome, runVars, callVars>>

BackoffOver ==
    /\ sup = "backoff"
    /\ ~aborted
    /\ Reconnect
    /\ UNCHANGED <<aborted, failures, notified, status, outcome, runVars, callVars>>

BackoffShutdown ==
    /\ sup = "backoff"
    /\ ~aborted
    /\ told
    /\ Finish("Stopped", status)
    /\ UNCHANGED <<aborted, pass, failures, notified, runVars, callVars>>

\* Mutated: the pass keeps a sender of its own shutdown channel.
SupDroppedUntold ==
    /\ sup # "over"
    /\ aborted
    /\ Finish("Failed", Unhealthy("aborted"))
    /\ UNCHANGED <<aborted, pass, failures, notified, runVars, callVars>>

\* An aborted task is dropped at the await it stands at: the guard publishes a failure, the
\* pass loses the sender of its shutdown channel (which reads as a signal) and is detached.
SupDropped ==
    /\ sup # "over"
    /\ aborted
    /\ Finish("Failed", Unhealthy("aborted"))
    /\ pass' = [pass EXCEPT !.told = TRUE]
    /\ UNCHANGED <<aborted, failures, notified, runVars, callVars>>

-----------------------------------------------------------------------------
(* The caller: run(), then whoever owns the handle *)

\* The ready signal arrives in time: run() returns the handle.
RunReturns ==
    /\ caller = "starting"
    /\ notified
    /\ caller' = "owns"
    /\ UNCHANGED <<supVars, runVars, told, cause>>

\* startup_timeout_ms passed, or the task ended without a signal.  The recorded error is
\* read first; aborting the task replaces it.
RunGivesUp ==
    /\ caller = "starting"
    /\ ~notified
    /\ caller' = "refusing"
    /\ cause' = status.error
    /\ UNCHANGED <<supVars, runVars, told>>

\* abort() is only a request, and run() returns without waiting for it; its end of the
\* shutdown channel goes with it.
RunRefuses ==
    /\ caller = "refusing"
    /\ aborted' = TRUE
    /\ told' = TRUE
    /\ caller' = "refused"
    /\ UNCHANGED <<sup, pass, failures, notified, status, outcome, runVars, cause>>

\* RouteHandle::stop, or the handle is dropped: the shutdown channel is signalled or closed.
HandleStop ==
    /\ caller = "owns"
    /\ told' = TRUE
    /\ caller' = "joining"
    /\ UNCHANGED <<supVars, runVars, cause>>

HandleJoin ==
    /\ caller = "joining"
    /\ sup = "over"
    /\ caller' = "joined"
    /\ UNCHANGED <<supVars, runVars, told, cause>>

\* Route::stop: signal, then wait for the task for five seconds.
StopActive ==
    /\ caller = "owns"
    /\ told' = TRUE
    /\ caller' = "stopping"
    /\ UNCHANGED <<supVars, runVars, cause>>

\* Mutated: stop waits for the route however long it takes.
StopTimeoutNever == FALSE /\ UNCHANGED vars

StopTimeout ==
    /\ caller = "stopping"
    /\ sup # "over"
    /\ aborted' = TRUE
    /\ caller' = "aborting"
    /\ UNCHANGED <<sup, pass, failures, notified, status, outcome, runVars, told, cause>>

StopReturned ==
    /\ caller \in {"stopping", "aborting"}
    /\ sup = "over"
    /\ caller' = "stopped"
    /\ UNCHANGED <<supVars, runVars, told, cause>>

-----------------------------------------------------------------------------
Pass == PassReady \/ PassSends \/ PassEnds
Supervisor ==
    \/ SelectShutdown \/ PassStopped \/ SelectReady \/ SelectCompleted \/ SelectFailed
    \/ SelectAgain \/ BackoffOver \/ BackoffShutdown \/ SupDropped
Caller ==
    \/ RunReturns \/ RunGivesUp \/ RunRefuses \/ HandleStop \/ HandleJoin \/ StopActive
    \/ StopTimeout \/ StopReturned

Next == Pass \/ Supervisor \/ SelectStable \/ Caller

Spec == Init /\ [][Next]_vars

\* The shutdown arms keep becoming ready while the loop reconnects, and select! picks among
\* ready arms at random: strong fairness.  A stopped caller's timer always fires.
SupFairness ==
    /\ WF_vars(Supervisor)
    /\ SF_vars(SelectShutdown \/ BackoffShutdown)
    /\ WF_vars(StopTimeout \/ StopReturned)
    /\ WF_vars(HandleJoin)

\* What a pass owes its supervisor: connecting comes to an end, and so does a pass that has
\* been told to stop (the property StopEnds of the two runners).
PassFairness ==
    /\ WF_vars(pass.at = "connecting" /\ (PassReady \/ PassEnds))
    /\ WF_vars(pass.told /\ PassEnds)

-----------------------------------------------------------------------------
(* Properties *)

Failures == {"fatal", "auth", "error", "panic"}
Errors == Failures \cup {"none", "connecting", "aborted", "drops"}

\* The four tasks and channels, the cells, the counters and the flags.
TasksOK ==
    /\ sup \in {"select", "await", "backoff", "over"}
    /\ pass \in [at : {"connecting", "up", "ended"}, result : Results \cup {"none"},
                 told : BOOLEAN, ready : BOOLEAN]
    /\ caller \in {"starting", "refusing", "refused", "owns", "joining", "joined", "stopping",
                   "aborting", "stopped"}
CellsOK ==
    /\ status \in [healthy : BOOLEAN, error : Errors]
    /\ outcome \in {"None", "Completed", "Stopped", "Failed"}
    /\ cause \in Errors
CountersOK ==
    /\ failures \in 0 .. FailureCap
    /\ drops \in 0 .. MaxDrops
FlagsOK ==
    /\ aborted \in BOOLEAN
    /\ notified \in BOOLEAN
    /\ delivered \in BOOLEAN
    /\ told \in BOOLEAN

\* Every cell and channel holds a value of its type.
SupTypeOK == TasksOK /\ CellsOK /\ CountersOK /\ FlagsOK

\* A route that failed and has not yet stayed up for STABLE_RUN shows its last error, across
\* any number of reconnects and ready signals.
FlappingShowsError ==
    outcome = "None" /\ failures > 0 => status \in {Unhealthy(e) : e \in Failures}

\* The status left behind agrees with the outcome: a completed route is healthy, a failed
\* one says why, and messages dropped by any pass are reported unless a failure is.
VerdictExplained ==
    /\ outcome = "Completed" => status.healthy /\ status.error \in {"none", "drops"}
    /\ outcome = "Failed" => status \in {Unhealthy(e) : e \in Failures \cup {"aborted"}}
    /\ outcome \in {"Completed", "Stopped"} /\ drops > 0 => status.error = "drops"

\* A route that ran to completion has told run() that it started, however late the
\* supervisor was to look at the ready signal.
CompletedHasStarted == outcome = "Completed" => notified

\* The error run() returns names what went wrong, never the abort run() itself asked for.
RefusalNamesCause == caller \in {"refusing", "refused"} => cause # "aborted"

\* A drain job never reconnects before it has delivered something, nor after GiveUpAfter
\* failures in a row.
DrainBounded ==
    ExitOnEmpty /\ outcome = "None" => failures < GiveUpAfter /\ (failures > 0 => delivered)

\* Unless it was aborted, a route whose task is done has no pass left running.
EndIsQuiet == outcome # "None" /\ ~aborted => pass.at = "ended"

\* The task is over exactly when its guard has published an outcome.
OverInv == sup = "over" <=> outcome # "None"

\* The supervisor only sleeps between passes, and outlives the pass unless it is aborted.
BetweenInv ==
    /\ sup = "backoff" => pass.at = "ended"
    /\ outcome \in {"Completed", "Stopped"} => pass.at = "ended"

\* A pass that got as far as its receive loop has left its ready signal somewhere.
StartedInv ==
    /\ pass.at = "up" => notified \/ pass.ready \/ sup = "over"
    /\ pass.result \in {"drained", "eos"} => notified \/ pass.ready \/ sup = "over"

\* Only an abort leaves the abort's error, and run() reads the cause before it aborts.
AbortInv ==
    /\ status.error = "aborted" => aborted
    /\ aborted => caller \notin {"starting", "refusing"}

\* The inductive invariant of the reconnect loop: with the properties above it, what the
\* route reports about itself is true in every state.
SupInv ==
    /\ SupTypeOK /\ OverInv /\ BetweenInv /\ StartedInv /\ AbortInv
    /\ FlappingShowsError /\ VerdictExplained /\ CompletedHasStarted /\ RefusalNamesCause
    /\ DrainBounded /\ EndIsQuiet

\* Route::stop returns even if the pass hangs for ever: the abort breaks the wait.
StopReturns == []<>(caller \notin {"stopping", "aborting"})

\* A route stopped through its handle ends, however often it reconnects meanwhile, if its
\* passes do what they owe.
JoinReturns == PassFairness => []<>(caller # "joining")

\* A pass detached by an abort still notices that it is alone and ends.
OrphanEnds == PassFairness => []<>(sup = "over" => pass.at = "ended")

\* RouteHandle::status: "running and connected" is told from "failing to connect".
HealthyIsConnected == outcome = "None" /\ status.healthy => pass.at # "connecting"
=============================================================================
