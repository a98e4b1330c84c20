------------------------------ MODULE MCRwLock ------------------------------
(* Model checking of RwLock with three tasks. *)
EXTENDS RwLock

CONSTANTS t1, t2, t3

ThreeTasks == {t1, t2, t3}
=============================================================================
