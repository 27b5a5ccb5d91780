------------------------------ MODULE MCDpcRing ------------------------------
(***************************************************************************)
(* Instances of DpcRing: short rings, the byte sizes of the code.          *)
(***************************************************************************)
EXTENDS DpcRing

\* One packet that fits the bound of the error text, one that idpc refuses.
UsualSizes == {258, 1032}
=============================================================================
