---------------------------- MODULE MCAppService ----------------------------
EXTENDS AppService, TLC

CONSTANTS a1, a2, bad

(* An app with a personality of one slot, one whose personality has more   *)
(* slots than there may be, and an image without a descriptor, whose table *)
(* has more personalities than there may be.                               *)
MCSlots == (a1 :> <<1>>) @@ (a2 :> <<2>>) @@ (bad :> <<1, 1>>)
=============================================================================
