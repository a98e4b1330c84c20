---------------------------- MODULE ProgramStore ----------------------------
(***************************************************************************)
(* What the device promises about programs, with no buffers, records or    *)
(* checksums in sight: a program runs whole or not at all, a save keeps    *)
(* the one that is running, and what is kept is lost only to another save, *)
(* an erase or a mishap, never to a power failure.  The first program to   *)
(* run after power on is the one that was kept, or the built-in one.       *)
(***************************************************************************)
CONSTANTS
  Programs,   \* the programs, among them BuiltIn
  BuiltIn,    \* the default program of the firmware
  None        \* no program

VARIABLES
  running,    \* the program that the render threads may run, or None
  kept,       \* the program that a power failure will not lose, or None
  booted      \* the first load after power on is over

vars == <<running, kept, booted>>

Init == running = None /\ kept = None /\ booted = FALSE

\* The first load after power on.
Boot(p) ==
  /\ ~booted /\ running = None
  /\ kept # None => p \in {kept, BuiltIn}
  /\ running' = p /\ booted' = TRUE
  /\ UNCHANGED kept

\* A load takes the old program away ...
Stop ==
  /\ booted
  /\ running' = None
  /\ UNCHANGED <<kept, booted>>

\* ... and brings the new one.
Start(p) ==
  /\ booted /\ running = None
  /\ running' = p
  /\ UNCHANGED <<kept, booted>>

\* A save reports success.
Keep ==
  /\ running # None /\ kept = None
  /\ kept' = running
  /\ UNCHANGED <<running, booted>>

\* Another save or an erase begins, or a mishap befalls the flash.
Lose ==
  /\ booted
  /\ kept' = None
  /\ UNCHANGED <<running, booted>>

PowerFails ==
  /\ running' = None /\ booted' = FALSE
  /\ kept' \in {kept, None}

Next == \/ Stop \/ Keep \/ Lose \/ PowerFails
        \/ \E p \in Programs : Boot(p) \/ Start(p)

Spec == Init /\ [][Next]_vars
=============================================================================
