----------------------------- MODULE MCSequential -----------------------------
(***************************************************************************)
(* Model checking the sequential runner.                                   *)
(***************************************************************************)
EXTENDS SequentialRoute

Acked == [kind |-> "Ack", results |-> {"ok"}]
Mixed == [kind |-> "Partial", results |-> {"ok", "transient"}]
Refused == [kind |-> "Err", results |-> {"transient"}]
Poison == [kind |-> "Err", results |-> {"permanent"}]

Good == {Acked}
GoodOrBad == {Acked, Refused}
AllKinds == {Acked, Mixed, Refused, Poison}
=============================================================================
