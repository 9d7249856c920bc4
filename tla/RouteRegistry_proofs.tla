------------------------- MODULE RouteRegistry_proofs -------------------------
(* Proofs about RouteRegistry, for any number of calls. *)
EXTENDS RouteRegistry, TLAPS

\* Only a call that is stopping a route holds one.
HoldsInv == \A c \in Calls : holds[c] # NoRoute => pc[c] \in {"stopOld", "stopReplaced"}

\* The route of a call that has not got to run() is nowhere yet.
FreshInv ==
    \A c \in Calls :
        pc[c] \in {"idle", "stopOld"} =>
            task[c] = "none" /\ ~signalled[c] /\ entry # c /\ \A d \in Calls : holds[d] # c

\* A route signalled to stop is being stopped, unless a call failed or was dropped.
ToldInv ==
    \A g \in Calls :
        task[g] = "live" /\ signalled[g] =>
            \E c \in Calls : holds[c] = g \/ pc[c] \in {"failed", "cancelled"}

RegistryInv ==
    RegistryTypeOK /\ HoldsInv /\ FreshInv /\ OneOwner /\ NoRouteForgotten /\ ToldInv

-----------------------------------------------------------------------------
\* A step that leaves the registry alone and lets nobody own more keeps the owners apart.
LEMMA OwnersShrink ==
    ASSUME OneOwner, entry' = entry, \A d \in Calls : Owned(d)' \subseteq Owned(d)
    PROVE  OneOwner'
<1>1. ASSUME NEW d \in Calls PROVE entry' \notin Owned(d)'
  BY DEF OneOwner
<1>2. ASSUME NEW d \in Calls, NEW e \in Calls \ {d} PROVE Owned(d)' \cap Owned(e)' = {}
  BY DEF OneOwner
<1> QED BY <1>1, <1>2 DEF OneOwner

\* Every step keeps the inductive invariant, one call's action at a time.
LEMMA RegistryStep ==
    ASSUME RegistryInv, NEW c \in Calls,
           Begin(c) \/ Step(c) \/ Cancel(c) \/ TaskEnds(c)
    PROVE  RegistryInv'
<1> USE NoRouteIsNoCall
<1>1. CASE Begin(c)
  <2> USE <1>1 DEF RegistryInv, Begin
  <2>1. RegistryTypeOK' BY DEF RegistryTypeOK
  <2>2. HoldsInv' BY DEF RegistryTypeOK, HoldsInv
  <2>3. FreshInv' BY DEF RegistryTypeOK, FreshInv
  <2>4. OneOwner' BY DEF RegistryTypeOK, OneOwner, Owned, HoldsInv
  <2>5. NoRouteForgotten' BY DEF RegistryTypeOK, NoRouteForgotten, Owned, HoldsInv
  <2>6. ToldInv' BY DEF RegistryTypeOK, ToldInv, HoldsInv
  <2> QED BY <2>1, <2>2, <2>3, <2>4, <2>5, <2>6
<1>2. CASE Signal(c)
  <2> USE <1>2 DEF RegistryInv, Signal
  <2>1. RegistryTypeOK' BY DEF RegistryTypeOK
  <2>2. HoldsInv' BY DEF HoldsInv
  <2>3. FreshInv' BY DEF RegistryTypeOK, FreshInv
  <2>4. OneOwner' BY DEF OneOwner, Owned
  <2>5. NoRouteForgotten' BY DEF RegistryTypeOK, NoRouteForgotten, Owned
  <2>6. ToldInv' BY DEF RegistryTypeOK, ToldInv
  <2> QED BY <2>1, <2>2, <2>3, <2>4, <2>5, <2>6
<1>3. CASE Abort(c) \/ TaskEnds(c)
  <2> USE <1>3 DEF RegistryInv, Abort, TaskEnds
  <2>1. RegistryTypeOK' BY DEF RegistryTypeOK
  <2>2. HoldsInv' BY DEF HoldsInv
  <2>3. FreshInv' BY DEF RegistryTypeOK, FreshInv
  <2>4. OneOwner' BY DEF OneOwner, Owned
  <2>5. NoRouteForgotten' BY DEF RegistryTypeOK, NoRouteForgotten, Owned
  <2>6. ToldInv' BY DEF RegistryTypeOK, ToldInv
  <2> QED BY <2>1, <2>2, <2>3, <2>4, <2>5, <2>6
<1>4. CASE StoppedOld(c)
  <2> USE <1>4 DEF RegistryInv, StoppedOld
  <2>1. RegistryTypeOK' BY DEF RegistryTypeOK, Ended
  <2>2. HoldsInv' BY DEF RegistryTypeOK, HoldsInv
  <2>3. FreshInv' BY DEF RegistryTypeOK, FreshInv
  <2>4. OneOwner'
    <3>1. Owned(c)' \subseteq {c}
      BY DEF RegistryTypeOK, Owned
    <3>2. \A d \in Calls \ {c} : Owned(d)' = Owned(d) /\ c \notin Owned(d)
      BY DEF RegistryTypeOK, Owned, FreshInv
    <3>3. entry' = entry /\ entry # c
      BY DEF FreshInv
    <3>4. ASSUME NEW d \in Calls, NEW e \in Calls \ {d}
          PROVE  entry' \notin Owned(d)' /\ Owned(d)' \cap Owned(e)' = {}
      <4>1. CASE d = c
        BY <4>1, <3>1, <3>2, <3>3
      <4>2. CASE d # c /\ e = c
        BY <4>2, <3>1, <3>2, <3>3 DEF OneOwner
      <4>3. CASE d # c /\ e # c
        BY <4>3, <3>2, <3>3 DEF OneOwner
      <4> QED BY <4>1, <4>2, <4>3
    <3>5. ASSUME NEW d \in Calls PROVE entry' \notin Owned(d)'
      BY <3>1, <3>2, <3>3 DEF OneOwner
    <3> QED BY <3>4, <3>5 DEF OneOwner
  <2>5. NoRouteForgotten'
    BY DEF RegistryTypeOK, NoRouteForgotten, Owned, Joined, FreshInv
  <2>6. ToldInv'
    BY DEF RegistryTypeOK, ToldInv, Joined, FreshInv, NoRouteForgotten, Owned
  <2> QED BY <2>1, <2>2, <2>3, <2>4, <2>5, <2>6
<1>5. CASE RunFails(c)
  <2> USE <1>5 DEF RegistryInv, RunFails
  <2>1. RegistryTypeOK' BY DEF RegistryTypeOK, Ended
  <2>2. HoldsInv' BY DEF RegistryTypeOK, HoldsInv
  <2>3. FreshInv' BY DEF RegistryTypeOK, FreshInv
  <2>4. OneOwner'
    <3>1. entry' = entry /\ \A d \in Calls : Owned(d)' \subseteq Owned(d)
      BY DEF RegistryTypeOK, Owned
    <3> QED BY <3>1, OwnersShrink
  <2>5. NoRouteForgotten' BY DEF RegistryTypeOK, NoRouteForgotten, Owned
  <2>6. ToldInv' BY DEF RegistryTypeOK, ToldInv
  <2> QED BY <2>1, <2>2, <2>3, <2>4, <2>5, <2>6
<1>6. CASE Register(c)
  <2> USE <1>6 DEF RegistryInv, Register
  <2>1. RegistryTypeOK' BY DEF RegistryTypeOK
  <2>2. HoldsInv' BY DEF RegistryTypeOK, HoldsInv
  <2>3. FreshInv' BY DEF RegistryTypeOK, FreshInv
  <2>4. OneOwner' BY DEF RegistryTypeOK, OneOwner, Owned, HoldsInv
  <2>5. NoRouteForgotten' BY DEF RegistryTypeOK, NoRouteForgotten, Owned, HoldsInv
  <2>6. ToldInv' BY DEF RegistryTypeOK, ToldInv, HoldsInv
  <2> QED BY <2>1, <2>2, <2>3, <2>4, <2>5, <2>6
<1>7. CASE StoppedReplaced(c)
  <2> USE <1>7 DEF RegistryInv, StoppedReplaced
  <2>1. RegistryTypeOK' BY DEF RegistryTypeOK, Ended
  <2>2. HoldsInv' BY DEF RegistryTypeOK, HoldsInv
  <2>3. FreshInv' BY DEF RegistryTypeOK, FreshInv
  <2>4. OneOwner'
    <3>1. entry' = entry /\ \A d \in Calls : Owned(d)' \subseteq Owned(d)
      BY DEF RegistryTypeOK, Owned
    <3> QED BY <3>1, OwnersShrink
  <2>5. NoRouteForgotten' BY DEF RegistryTypeOK, NoRouteForgotten, Owned, Joined
  <2>6. ToldInv' BY DEF RegistryTypeOK, ToldInv, Joined
  <2> QED BY <2>1, <2>2, <2>3, <2>4, <2>5, <2>6
<1>8. CASE Cancel(c)
  <2> USE <1>8 DEF RegistryInv, Cancel
  <2>1. RegistryTypeOK' BY DEF RegistryTypeOK, Ended
  <2>2. HoldsInv' BY DEF RegistryTypeOK, HoldsInv
  <2>3. FreshInv' BY DEF RegistryTypeOK, FreshInv, Owned
  <2>4. OneOwner'
    <3>1. entry' = entry /\ \A d \in Calls : Owned(d)' \subseteq Owned(d)
      BY DEF RegistryTypeOK, Owned
    <3> QED BY <3>1, OwnersShrink
  <2>5. NoRouteForgotten' BY DEF RegistryTypeOK, NoRouteForgotten, Owned
  <2>6. ToldInv' BY DEF RegistryTypeOK, ToldInv
  <2> QED BY <2>1, <2>2, <2>3, <2>4, <2>5, <2>6
<1> QED BY <1>1, <1>2, <1>3, <1>4, <1>5, <1>6, <1>7, <1>8 DEF Step

\* deploy and stop: the registry's inductive invariant holds in every state, whichever
\* calls race and whichever are dropped halfway.
THEOREM RegistryInvariant == RegistrySpec => []RegistryInv
<1>1. RegistryInit => RegistryInv
  BY NoRouteIsNoCall
  DEF RegistryInit, RegistryInv, RegistryTypeOK, HoldsInv, FreshInv, OneOwner, Owned,
      NoRouteForgotten, ToldInv
<1>2. RegistryInv /\ [RegistryNext]_registryVars => RegistryInv'
  <2> SUFFICES ASSUME RegistryInv, [RegistryNext]_registryVars PROVE RegistryInv'
    OBVIOUS
  <2>1. CASE RegistryNext
    BY <2>1, RegistryStep DEF RegistryNext
  <2>2. CASE UNCHANGED registryVars
    BY <2>2
    DEF registryVars, RegistryInv, RegistryTypeOK, HoldsInv, FreshInv, OneOwner, Owned,
        NoRouteForgotten, ToldInv
  <2> QED BY <2>1, <2>2
<1> QED BY <1>1, <1>2, PTL DEF RegistrySpec

\* deploy and stop: no route runs that nobody can stop any more, none is owned twice, and
\* when all calls have returned only the registered route runs.
THEOREM RegistryIsSafe == RegistrySpec => []RegistrySafety
<1>1. RegistryInv => OnlyRegisteredRuns
  <2> SUFFICES ASSUME RegistryInv,
                      \A c \in Calls : pc[c] \in {"idle", "returned"},
                      NEW g \in Calls \ {entry},
                      task[g] = "live"
               PROVE  FALSE
    BY DEF OnlyRegisteredRuns
  <2>1. \A c \in Calls : holds[c] = NoRoute /\ Owned(c) = {}
    BY DEF RegistryInv, HoldsInv, Owned
  <2>2. signalled[g]
    BY <2>1 DEF RegistryInv, NoRouteForgotten
  <2> QED BY <2>1, <2>2, NoRouteIsNoCall DEF RegistryInv, ToldInv
<1>2. RegistryInv => RegistrySafety
  BY <1>1 DEF RegistryInv, RegistrySafety
<1> QED BY <1>2, RegistryInvariant, PTL
=============================================================================
