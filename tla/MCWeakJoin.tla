----------------------------- MODULE MCWeakJoin -----------------------------
(* A source for WeakJoin. *)
EXTENDS WeakJoin

\* Group g has two messages of one branch before the other, and spans all batches.
JoinMessage(g, b) == [group |-> g, branch |-> b]
JoinSource ==
    << <<JoinMessage("g", "x"), JoinMessage("h", "x")>>,
       <<JoinMessage("g", "x")>>,
       <<JoinMessage("g", "y"), JoinMessage("h", "y")>> >>
=============================================================================
