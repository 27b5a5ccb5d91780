------------------------------- MODULE Uleb128 -------------------------------
(***************************************************************************)
(* The numbers of XVC 1.1 messages, dpc/src/xvcserver.c: digits of base    *)
(* Radix (128), the lowest first, Radix added to every one but the last.   *)
(***************************************************************************)
EXTENDS Integers, Sequences

CONSTANT Radix
ASSUME RadixAssumption == Radix \in Nat \ {0, 1}

\* reply_uleb128, and what a client does.
Encode[v \in Nat] ==
    IF v < Radix THEN <<v>> ELSE <<Radix + (v % Radix)>> \o Encode[v \div Radix]

\* The bytes get_uleb128 passes over when the first n of bytes have arrived, n
\* less than 1 meaning none.  A byte beyond the end counts as 0, and is passed
\* over as well.
Width_StopAtEnd(bytes, n) ==
    CHOOSE i \in 0..Len(bytes) :
        /\ i >= n \/ (i > 0 /\ bytes[i] < Radix)
        /\ \A j \in 0..(i - 1) : j < n /\ (j > 0 => bytes[j] >= Radix)
Width(bytes, n) ==
    CHOOSE i \in 1..(Len(bytes) + 1) :
        /\ i > n \/ bytes[i] < Radix
        /\ \A j \in 1..(i - 1) : j <= n /\ bytes[j] >= Radix

\* The value it returns.
Value(bytes, n) ==
    LET used == Width(bytes, n)
        From[i \in 1..(used + 1)] ==
            IF i > used \/ i > n THEN 0 ELSE (bytes[i] % Radix) + Radix * From[i + 1]
    IN From[1]
=============================================================================
