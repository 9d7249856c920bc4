---------------------------- MODULE RouteRegistry ----------------------------
(***************************************************************************)
(* Deploying and stopping routes by name (Route::deploy, Route::stop): the *)
(* process-wide registry entry of one name, and any number of calls that   *)
(* race for it.  A call is an async function its caller may drop at any    *)
(* await.  The route task a deploy starts is the supervisor of             *)
(* RouteSupervisor, reduced to what the calls see of it: it lives, it is   *)
(* signalled to stop, it is over.                                          *)
(***************************************************************************)
EXTENDS Naturals, FiniteSets

CONSTANTS
    Calls,      \* the calls made on the name; a deploy call names the route it starts
    NoRoute     \* the entry of a name nothing is deployed under

ASSUME NoRouteIsNoCall == NoRoute \notin Calls

VARIABLES
    entry,      \* the route registered under the name
    pc,         \* where each call stands
    deploys,    \* whether the call is a deploy (else a stop)
    holds,      \* the route a call took out of the registry and has to stop
    task,       \* the task of the route a deploy call started
    signalled   \* that task's shutdown channel is signalled or closed

registryVars == <<entry, pc, deploys, holds, task, signalled>>

RegistryInit ==
    /\ entry = NoRoute
    /\ pc = [c \in Calls |-> "idle"]
    /\ deploys = [c \in Calls |-> FALSE]
    /\ holds = [c \in Calls |-> NoRoute]
    /\ task = [c \in Calls |-> "none"]
    /\ signalled = [c \in Calls |-> FALSE]

\* deploy and stop begin alike: remove the entry under the registry's lock.
Begin(c) ==
    /\ pc[c] = "idle"
    /\ deploys' = [deploys EXCEPT ![c] = TRUE] \/ deploys' = deploys
    /\ holds' = [holds EXCEPT ![c] = entry]
    /\ entry' = NoRoute
    /\ pc' = [pc EXCEPT ![c] = "stopOld"]
    /\ UNCHANGED <<task, signalled>>

\* stop_active: signal the removed route and close its channel.
Signal(c) ==
    /\ pc[c] \in {"stopOld", "stopReplaced"}
    /\ holds[c] # NoRoute
    /\ ~signalled[holds[c]]
    /\ signalled' = [signalled EXCEPT ![holds[c]] = TRUE]
    /\ UNCHANGED <<entry, pc, deploys, holds, task>>

\* stop_active: five seconds have passed, the task is aborted.
Abort(c) ==
    /\ pc[c] \in {"stopOld", "stopReplaced"}
    /\ holds[c] # NoRoute
    /\ signalled[holds[c]]
    /\ task[holds[c]] = "live"
    /\ task' = [task EXCEPT ![holds[c]] = "over"]
    /\ UNCHANGED <<entry, pc, deploys, holds, signalled>>

\* There was nothing to stop, or the signalled task has been joined.
Joined(c) == holds[c] # NoRoute => signalled[holds[c]] /\ task[holds[c]] = "over"

\* stop returns; deploy goes on to run().
StoppedOld(c) ==
    /\ pc[c] = "stopOld"
    /\ Joined(c)
    /\ holds' = [holds EXCEPT ![c] = NoRoute]
    /\ IF deploys[c]
         THEN /\ pc' = [pc EXCEPT ![c] = "run"]
              /\ task' = [task EXCEPT ![c] = "live"]
         ELSE /\ pc' = [pc EXCEPT ![c] = "returned"]
              /\ task' = task
    /\ UNCHANGED <<entry, deploys, signalled>>

\* run() fails: the task is aborted but not awaited, its shutdown channel closed.
RunFails(c) ==
    /\ pc[c] = "run"
    /\ pc' = [pc EXCEPT ![c] = "failed"]
    /\ signalled' = [signalled EXCEPT ![c] = TRUE]
    /\ UNCHANGED <<entry, deploys, holds, task>>

\* Mutated: the entry of a concurrent deploy is overwritten and forgotten.
RegisterForgets(c) ==
    /\ pc[c] = "run"
    /\ entry' = c
    /\ pc' = [pc EXCEPT ![c] = "stopReplaced"]
    /\ UNCHANGED <<deploys, holds, task, signalled>>

\* run() returns a handle, which is registered without another await.  A concurrent deploy
\* may have registered in between: its route is replaced and has to be stopped.
Register(c) ==
    /\ pc[c] = "run"
    /\ holds' = [holds EXCEPT ![c] = entry]
    /\ entry' = c
    /\ pc' = [pc EXCEPT ![c] = "stopReplaced"]
    /\ UNCHANGED <<deploys, task, signalled>>

StoppedReplaced(c) ==
    /\ pc[c] = "stopReplaced"
    /\ Joined(c)
    /\ holds' = [holds EXCEPT ![c] = NoRoute]
    /\ pc' = [pc EXCEPT ![c] = "returned"]
    /\ UNCHANGED <<entry, deploys, task, signalled>>

\* The routes whose handles a call in progress owns.
Owned(c) == (IF pc[c] = "run" THEN {c} ELSE {}) \cup ({holds[c]} \ {NoRoute})

\* Mutated: dropping the call leaves the route it was starting as it is.
CancelLeaks(c) ==
    /\ pc[c] \in {"stopOld", "run", "stopReplaced"}
    /\ signalled' = [g \in Calls |-> signalled[g] \/ g = holds[c]]
    /\ holds' = [holds EXCEPT ![c] = NoRoute]
    /\ pc' = [pc EXCEPT ![c] = "cancelled"]
    /\ UNCHANGED <<entry, deploys, task>>

\* The caller drops the call at an await: the handles it owns are dropped, which closes
\* their shutdown channels.
Cancel(c) ==
    /\ pc[c] \in {"stopOld", "run", "stopReplaced"}
    /\ signalled' = [g \in Calls |-> signalled[g] \/ g \in Owned(c)]
    /\ holds' = [holds EXCEPT ![c] = NoRoute]
    /\ pc' = [pc EXCEPT ![c] = "cancelled"]
    /\ UNCHANGED <<entry, deploys, task>>

\* The route ends: told to, or drained or failed by itself.
TaskEnds(g) ==
    /\ task[g] = "live"
    /\ task' = [task EXCEPT ![g] = "over"]
    /\ UNCHANGED <<entry, pc, deploys, holds, signalled>>

Step(c) ==
    \/ Signal(c) \/ Abort(c) \/ StoppedOld(c) \/ RunFails(c) \/ Register(c)
    \/ StoppedReplaced(c)

RegistryNext == \E c \in Calls : Begin(c) \/ Step(c) \/ Cancel(c) \/ TaskEnds(c)

RegistrySpec == RegistryInit /\ [][RegistryNext]_registryVars

\* A call in progress is polled, timers fire, and a route that was signalled stops.
RegistryFairness ==
    \A c \in Calls : WF_registryVars(Step(c)) /\ WF_registryVars(signalled[c] /\ TaskEnds(c))

-----------------------------------------------------------------------------
(* Properties *)

Ended == {"returned", "failed", "cancelled"}

\* The types of the variables.
RegistryTypeOK ==
    /\ entry \in Calls \cup {NoRoute}
    /\ pc \in [Calls -> {"idle", "stopOld", "run", "stopReplaced"} \cup Ended]
    /\ deploys \in [Calls -> BOOLEAN]
    /\ holds \in [Calls -> Calls \cup {NoRoute}]
    /\ task \in [Calls -> {"none", "live", "over"}]
    /\ signalled \in [Calls -> BOOLEAN]

\* A route that runs and has not been signalled can still be reached: it is registered
\* under the name, or a call in progress owns its handle.
NoRouteForgotten ==
    \A g \in Calls :
        task[g] = "live" /\ ~signalled[g] => entry = g \/ \E c \in Calls : g \in Owned(c)

\* No route is owned twice: by two calls, or by a call and by the registry.
OneOwner ==
    \A c \in Calls :
        /\ entry \notin Owned(c)
        /\ \A d \in Calls \ {c} : Owned(c) \cap Owned(d) = {}

\* Once every call has returned, nothing runs but the registered route, however many
\* deploys and stops raced.
OnlyRegisteredRuns ==
    (\A c \in Calls : pc[c] \in {"idle", "returned"}) =>
        \A g \in Calls \ {entry} : task[g] # "live"

\* What deploy and stop keep true of the routes of one name.
RegistrySafety == RegistryTypeOK /\ NoRouteForgotten /\ OneOwner /\ OnlyRegisteredRuns

\* Whatever was cancelled or failed, a route that is not the registered one ends.
StraysEnd ==
    <>[](\A g \in Calls : pc[g] \in Ended /\ entry # g => task[g] # "live")
=============================================================================
