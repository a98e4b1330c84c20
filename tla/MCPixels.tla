------------------------------ MODULE MCPixels ------------------------------
EXTENDS Pixels
CONSTANTS c1, c2

(* The commands at both ends of a strip of two LEDs.                       *)
MCCommands ==
  {[kind |-> "off", at |-> 0]}
    \cup [kind : {"range"}, at : {0, 1}, length : {1, 2}, colour : {c1}]
    \cup [kind : {"seek"}, at : {1, 2}]
    \cup [kind : {"seq"}, at : {0}, colours : {<<c2>>, <<c2, c1>>}, rest : {0, 2}]
=============================================================================
