--------------------------- MODULE MCUserAppStore ---------------------------
(* Model checking of UserAppStore: two records per image, as with 4 KiB of    *)
(* program and FDS pages of 1024 words, and one program beside the built-in   *)
(* one.                                                                       *)
EXTENDS UserAppStore

Blk == 0
Dflt == 1
OneProgram == {2}

\* A position-weighted sum: different images have different sums.
SumCrc == [a \in [1..2 -> 0..2] |-> a[1] + 3 * a[2]]
=============================================================================
