------------------------------- MODULE MCDmx --------------------------------
(* Model checking of Dmx.                                                  *)
EXTENDS Dmx

\* A new device, one that has a parameter of an earlier session, and either.
FirstBoot == {Missing}
LaterBoot == {Config(1, 1)}
AnyBoot == FirstBoot \cup LaterBoot
=============================================================================
