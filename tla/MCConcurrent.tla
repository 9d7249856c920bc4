----------------------------- MODULE MCConcurrent -----------------------------
(***************************************************************************)
(* Model checking the concurrent runner.                                   *)
(***************************************************************************)
EXTENDS ConcurrentRoute, TLC

CONSTANTS w1, w2

Pool == {w1, w2}
PoolSymmetry == Permutations(Pool)

Acked == [kind |-> "Ack", results |-> {"ok"}]
Mixed == [kind |-> "Partial", results |-> {"ok", "transient"}]
Answered == [kind |-> "Partial", results |-> {"reply", "permanent"}]
Refused == [kind |-> "Err", results |-> {"transient"}]
Poison == [kind |-> "Err", results |-> {"permanent"}]

GoodOrBad == {Acked, Refused}
MixedOutcomes == {Acked, Mixed, Poison}
ServerOutcomes == {Acked, Answered, Refused}
=============================================================================
