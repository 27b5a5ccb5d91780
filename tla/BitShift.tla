------------------------------ MODULE BitShift ------------------------------
(***************************************************************************)
(* What a shift of n bits promises: bit i of the TMS and TDI vectors is    *)
(* presented at the i-th TCK, there are n TCKs, and bit i of the answer is *)
(* what TDO was at the i-th.  A shift may fail; then it has clocked the    *)
(* first bits of its vectors and no others.  Bits are named by their       *)
(* place: a TCK is <<mode, bit of TMS, bit of TDI>>, mode being 1 for the  *)
(* JTAG chain and 2 for the loopback of the debug bridge.                  *)
(***************************************************************************)
EXTENDS Naturals, Sequences

CONSTANTS Modes, Lengths

VARIABLES active,   \* a shift is being served
          mode, bits,
          clocked,  \* TCKs of this shift
          answer    \* <<>> until there is one, Failed, or <<TRUE, TDO vector>>

vars == <<active, mode, bits, clocked, answer>>

Failed == <<FALSE, <<>>>>
Places(n) == [i \in 1..n |-> i]
Clocks(m, n) == [i \in 1..n |-> <<m, i, i>>]

Init == /\ active = FALSE /\ mode \in Modes /\ bits = 0
        /\ clocked = <<>> /\ answer = <<>>

Begin(m, n) == /\ ~active
               /\ active' = TRUE /\ mode' = m /\ bits' = n
               /\ clocked' = <<>> /\ answer' = <<>>

\* Some more bits, the last of which may come after a failure was reported.
Clock == /\ \E n \in (Len(clocked) + 1)..bits : clocked' = Clocks(mode, n)
         /\ UNCHANGED <<active, mode, bits, answer>>

Succeed == /\ active /\ clocked = Clocks(mode, bits)
           /\ active' = FALSE
           /\ answer' = <<TRUE, Places(bits)>>
           /\ UNCHANGED <<mode, bits, clocked>>

GiveUp == /\ active
          /\ active' = FALSE
          /\ answer' = Failed
          /\ UNCHANGED <<mode, bits, clocked>>

\* A shift that fails before it begins clocks nothing.
Refuse == /\ ~active
          /\ answer' = Failed
          /\ UNCHANGED <<active, mode, bits, clocked>>

\* A call that asks for no shift is answered and clocks nothing.
Ignore == /\ ~active
          /\ answer' = <<TRUE, <<>>>>
          /\ UNCHANGED <<active, mode, bits, clocked>>

Next == \/ \E m \in Modes, n \in Lengths : Begin(m, n)
        \/ Clock \/ Succeed \/ GiveUp \/ Refuse \/ Ignore

Spec == Init /\ [][Next]_vars
=============================================================================
