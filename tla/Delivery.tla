------------------------------- MODULE Delivery -------------------------------
(***************************************************************************)
(* What a route promises a source with a cumulative position: the position *)
(* only moves forward, and only over batches that are settled, i.e. that   *)
(* need no redelivery.  A settled batch stays settled.  A crash at any     *)
(* moment therefore redelivers everything that still needs it.             *)
(***************************************************************************)
EXTENDS Naturals

CONSTANT NumBatches

VARIABLES position,     \* the source redelivers from here after a restart
          settled       \* batches that need no redelivery

Init == position = 0 /\ settled = {}

Settle ==
    /\ settled \subseteq settled'
    /\ settled' \subseteq 0 .. (NumBatches - 1)
    /\ position' = position

Advance ==
    /\ position' \in (position + 1) .. NumBatches
    /\ 0 .. (position' - 1) \subseteq settled
    /\ settled' = settled

Spec == Init /\ [][Settle \/ Advance]_<<position, settled>>

-----------------------------------------------------------------------------
\* Everything the source will not redeliver is settled (BatchCommitFunc's contract).
SettledBelowPosition ==
    /\ position \in 0 .. NumBatches
    /\ \A s \in 0 .. (NumBatches - 1) : s < position => s \in settled
=============================================================================
