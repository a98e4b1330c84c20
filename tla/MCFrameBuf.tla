----------------------------- MODULE MCFrameBuf -----------------------------
(* Model checking of FrameBuf.                                              *)
EXTENDS FrameBuf, TLC

\* No step asks which bytes they are.
AnyByte == Permutations(Bytes)
=============================================================================
