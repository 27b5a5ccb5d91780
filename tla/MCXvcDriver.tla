----------------------------- MODULE MCXvcDriver -----------------------------
(* The shift ioctl with two processes and words of two or three bits. *)
EXTENDS XvcDriver

CONSTANTS p1, p2, nobody

MCUsers == {p1, p2}
\* Nothing, part of a word, a word, a word and part of one, two words and more.
MCLengths == {0, 1, 3, 4, 7}
=============================================================================
