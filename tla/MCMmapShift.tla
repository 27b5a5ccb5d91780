----------------------------- MODULE MCMmapShift -----------------------------
(* Words of four bytes of eight bits, as in the code. *)
EXTENDS MmapShift

\* Vectors of up to two words and a tail, on both sides of each byte boundary.
TidyLengths == {0, 1, 7, 8, 9, 16, 17, 23, 24, 32, 33, 40, 41, 56, 64, 65, 88}
AnyLengths == TidyLengths \cup {25, 31, 57}
=============================================================================
