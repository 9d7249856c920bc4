----------------------------- MODULE MCEndpoints -----------------------------
(***************************************************************************)
(* Instances for TLC of the endpoints that keep messages, and of the       *)
(* supervisor of a continuous route.  They share no state, so one run      *)
(* takes them one at a time: the scene says which of them moves, while     *)
(* the others rest in one initial state of theirs.                         *)
(***************************************************************************)
EXTENDS CursorReader, MemoryQueue, DirSpool, RouteSupervisor

VARIABLE scene

\* Four rows of three transactions, the second and the third with one value.
FourRows == 1..4
Tied == <<1, 2, 2, 3>>

\* Values that follow the transactions, and those of a sequence two transactions draw from.
FollowsTx == <<1, 2, 2, 3>>
Interleaved == <<1, 2, 1, 3>>
Writers == {FollowsTx, Interleaved}

\* One message, more than half of a delivery, and a last one.
QueueBatches == <<{1}, {2, 3, 4, 5}, {6}>>

\* One producer whose writes, and whose deliveries, fail, or two that take over from each
\* other.  Run spool_redelivery shows what happens when both meet.
Failing == spProducers = 1 /\ spFaultsLeft > 0 /\ spBad = {}
TakingOver == spProducers = 2 /\ spFaultsLeft = 0 /\ spBad = {1}

AllResults == Results

-----------------------------------------------------------------------------
endpoints == <<crVars, mqVars, spVars>>

EndpointsInit ==
    /\ scene \in {"cursor", "queue", "spool", "route"}
    /\ CrInit /\ MqInit /\ SpInit /\ Init
    /\ (Failing /\ spDrain) \/ TakingOver
    /\ scene # "cursor" => crGuarded /\ crTxOf = FollowsTx
    /\ scene # "queue" => mqNackable
    /\ scene # "spool" => Failing

EndpointsNext ==
    \/ scene = "cursor" /\ CrNext /\ UNCHANGED <<scene, mqVars, spVars, vars>>
    \/ scene = "queue" /\ MqNext /\ UNCHANGED <<scene, crVars, spVars, vars>>
    \/ scene = "spool" /\ SpNextStep /\ UNCHANGED <<scene, crVars, mqVars, vars>>
    \/ scene = "route" /\ Next /\ UNCHANGED <<scene, endpoints>>

\* A spool is polled in its own scene only; what else fairness asks for is not enabled in a
\* component that rests.
EndpointsSpec ==
    /\ EndpointsInit
    /\ [][EndpointsNext]_<<scene, endpoints, vars>>
    /\ CrFairness /\ MqFairness /\ SpFairness /\ SupFairness
    /\ WF_spVars(scene = "spool" /\ SpNextReader)
=============================================================================
