---------------------------- MODULE MCComponents ----------------------------
(***************************************************************************)
(* Instances of the components around the runners for TLC.  They share no  *)
(* state, so one run takes them one at a time: the scene says which of     *)
(* them moves, while the others rest in an initial state of theirs.        *)
(***************************************************************************)
EXTENDS DeferredCommits, Deduplication, RetryDlq, BufferPublisher, MCWeakJoin, FileCheckpoint,
        EventStore, Fanout, SequenceInput, RouteRegistry, RouteSupervisor

CONSTANTS c1, c2, c3

VARIABLE scene

ThreeCalls == {c1, c2, c3}

\* The runners that read a source: Ok(true) only in answer to a shutdown signal.
RunnerResults == Results \ {"again"}

\* Two copies of one message and a second message.
ThreeCopies == {"a1", "a2", "b1"}
KeyOfCopies == [m \in ThreeCopies |-> IF m = "b1" THEN "b" ELSE "a"]

ThreeMessages == {"m1", "m2", "m3"}

\* The last two messages have the same id.
MessageIds == <<"a", "b", "b">>

\* Two messages to two destinations.
TwoIds == <<"a", "b">>

\* Rows 1 and 2 belong to the table of the first phase, row 3 to that of the second.
TwoTables == <<1, 1, 2>>

-----------------------------------------------------------------------------
structural == <<foVars, sqVars>>
middleware == <<dcVars, ddVars, rqVars, bfVars, wjVars>>
stores == <<fcVars, esVars>>
routes == <<registryVars, vars, structural>>

\* Message b has been delivered and settled; the store fails, and one crash is to come.
OneKeySettled ==
    /\ ddSource = [m \in Copies |-> IF m = "b1" THEN "acked" ELSE "queued"]
    /\ ddMarker = [k \in Keys |-> IF k = "b" THEN "durable" ELSE "none"]
    /\ ddWritten = {"b"} /\ ddSettled = {"b"}
    /\ ddPhase = [c \in Consumers |-> "idle"]
    /\ ddHas = [c \in Consumers |-> {}]
    /\ ddState = [c \in Consumers |-> <<>>]
    /\ ddLate = [c \in Consumers |-> "off"]
    /\ ddClaimed = {} /\ ddOut = {} /\ ddCapped = FALSE /\ ddCrashes = 1
    /\ ddMissed = {} /\ ddFaulty = TRUE

\* While the store works, the two copies come from two sources, one for each consumer.
OwnSources == scene = "dedup" => "a2" \notin ddHas'[1] /\ "a1" \notin ddHas'[2]

ComponentsInit ==
    /\ scene \in {"filter", "dropped", "dedup", "dedup crash", "retry", "buffer", "join",
                  "checkpoint", "events", "fanout", "sequence", "deploy", "drain"}
    /\ dcFills = (scene = "filter")
    /\ DcInit /\ RqInit /\ BfInit /\ WjInit
    /\ IF scene = "dedup crash" THEN OneKeySettled ELSE DdInit /\ ddCrashes = 0 /\ ~ddFaulty
    /\ FcInit /\ EsInit
    /\ RegistryInit /\ Init /\ FoInit /\ SqInit
    /\ scene # "join" => \A f \in DOMAIN wjConf : wjConf[f]
    /\ wjConf.required => wjConf.branches
    /\ wjConf.drain = wjConf.required
    /\ wjConf.onJoin \/ (wjConf.ordered /\ ~wjConf.branches)
    /\ scene # "events" => esMax = 1
    /\ scene # "fanout" => ~foBadGateway
    /\ scene \notin {"filter", "dropped"} => dcExits

ComponentsNext ==
    \/ scene \in {"filter", "dropped"} /\ DcNext /\ UNCHANGED <<scene, ddVars, rqVars, bfVars, wjVars, stores, routes>>
    \/ scene \in {"dedup", "dedup crash"} /\ DdNext /\ OwnSources /\ UNCHANGED <<scene, dcVars, rqVars, bfVars, wjVars, stores, routes>>
    \/ scene = "retry" /\ RqNext /\ UNCHANGED <<scene, dcVars, ddVars, bfVars, wjVars, stores, routes>>
    \/ scene = "buffer" /\ BfNext /\ UNCHANGED <<scene, dcVars, ddVars, rqVars, wjVars, stores, routes>>
    \/ scene = "join" /\ WjNext /\ UNCHANGED <<scene, dcVars, ddVars, rqVars, bfVars, stores, routes>>
    \/ scene = "checkpoint" /\ FcNext /\ UNCHANGED <<scene, esVars, middleware, routes>>
    \/ scene = "events" /\ EsNext /\ UNCHANGED <<scene, fcVars, middleware, routes>>
    \/ scene = "fanout" /\ FoNext /\ UNCHANGED <<scene, sqVars, registryVars, vars, middleware, stores>>
    \/ scene = "sequence" /\ SqNext /\ UNCHANGED <<scene, foVars, registryVars, vars, middleware, stores>>
    \/ scene = "deploy" /\ RegistryNext /\ UNCHANGED <<scene, vars, middleware, stores, structural>>
    \/ scene = "drain" /\ Next /\ UNCHANGED <<scene, registryVars, middleware, stores, structural>>

\* What fairness asks for is not enabled in a component that rests.
ComponentsSpec ==
    /\ ComponentsInit
    /\ [][ComponentsNext]_<<scene, middleware, stores, routes>>
    /\ DdFairness /\ BfFairness /\ RegistryFairness
=============================================================================
