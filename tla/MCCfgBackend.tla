---------------------------- MODULE MCCfgBackend ----------------------------
(* Model checking of CfgBackend: two values of one or two parameters, two     *)
(* tasks.                                                                     *)
EXTENDS CfgBackend

CONSTANTS p1, p2, v1, v2, t1, t2, s1

OneParam == {p1}
TwoParams == {p1, p2}
TwoValues == {v1, v2}
TwoTasks == {t1, t2}
OneSub == {s1}
=============================================================================
