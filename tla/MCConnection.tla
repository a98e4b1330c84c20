---------------------------- MODULE MCConnection ----------------------------
(* Model checking of Connection: its constants need no definitions.        *)
EXTENDS Connection
=============================================================================
