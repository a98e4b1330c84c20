------------------------------- MODULE MCLedTx -------------------------------
(* Model checking of LedTx with four labels. *)
EXTENDS LedTx
=============================================================================
