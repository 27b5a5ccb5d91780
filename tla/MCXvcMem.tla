------------------------------- MODULE MCXvcMem -------------------------------
(***************************************************************************)
(* A hub of two words at 4..11, with the bytes around it: one of the three *)
(* behind it that a word may reach exists, the others do not.  The         *)
(* payloads tell the bytes of a message from those after it.               *)
(***************************************************************************)
EXTENDS XvcMem

MCCells == 0..12
Blank0 == {[b \in MCCells |-> 0]}
\* Below the hub, inside it, before its end; from 10 a word leaves what exists.
MCAddresses == {3, 6, 9, 10}
ReadSizes == {1, 4}
\* None, less than a word, a word, more than one: from 9 these end with the hub,
\* a byte behind it and two.
WriteSizes == {0, 3, 4, 5}
MCPayloads == {[k \in 0..13 |-> 1], [k \in 0..13 |-> k % 2]}
=============================================================================
