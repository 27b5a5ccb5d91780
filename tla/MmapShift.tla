------------------------------ MODULE MmapShift ------------------------------
(***************************************************************************)
(* The shift loop of handle_data over the mapped registers of the debug    *)
(* bridge: jtag/zynq7000/XAPP1251/src/xvcServer.c, and the mmap build of   *)
(* jtag/zynqMP.  It takes whole words as long as four bytes of the vectors *)
(* are left and counts bits only behind them.  The bridge is external, as  *)
(* in XvcDriver; here nothing gives it up.                                 *)
(*                                                                         *)
(* Bit k of a vector is the number k; the bits from len + 1 to the end of  *)
(* the last byte are sent by the client and belong to no TCK.              *)
(***************************************************************************)
EXTENDS Integers, Sequences

CONSTANTS ByteBits,   \* 8
          WordBytes,  \* 4
          Lengths     \* values of <num bits>

ASSUME MmapAssumption ==
    /\ ByteBits \in Nat \ {0} /\ WordBytes \in Nat \ {0}
    /\ Lengths \subseteq Nat

WordBits == ByteBits * WordBytes

VARIABLES pc,                     \* "idle", "word", "poll"
          len,                    \* <num bits>
          bytesLeft, bitsLeft, byteIndex,
          length, tms, tdi, tdo,  \* registers; a word is a sequence of bits
          ctrl,                   \* its bit 0
          clocked,                \* TCKs of this message
          result,                 \* bits of the TDO vector
          answer                  \* what was replied, as in BitShift

words == <<bytesLeft, bitsLeft, byteIndex>>
bridge == <<length, tms, tdi, tdo, ctrl, clocked>>
vars == <<pc, len, words, bridge, result, answer>>

nr_bytes(n) == (n + ByteBits - 1) \div ByteBits
InBytes(n) == [i \in 1..n |-> byteIndex * ByteBits + i]

Init ==
    /\ pc = "idle" /\ len = 0
    /\ bytesLeft = 0 /\ bitsLeft = 0 /\ byteIndex = 0
    /\ length = 0 /\ tms = <<>> /\ tdi = <<>> /\ tdo = <<>> /\ ctrl = 0
    /\ clocked = <<>> /\ result = <<>> /\ answer = <<>>

\* shift: with its vectors.
Begin(n) ==
    /\ pc = "idle"
    /\ pc' = "word" /\ len' = n
    /\ bytesLeft' = nr_bytes(n) /\ bitsLeft' = n /\ byteIndex' = 0
    /\ clocked' = <<>> /\ result' = <<>> /\ answer' = <<>>
    /\ UNCHANGED <<length, tms, tdi, tdo, ctrl>>

\* LENGTH, TMS and TDI are written, then the control register.
Store(n, bytes) ==
    /\ length' = n
    /\ tms' = InBytes(bytes * ByteBits) /\ tdi' = InBytes(bytes * ByteBits)
    /\ ctrl' = 1
    /\ pc' = "poll"
    /\ UNCHANGED <<len, words, tdo, clocked, result, answer>>

WholeWord == pc = "word" /\ bytesLeft >= WordBytes /\ Store(WordBits, WordBytes)

InTail == pc = "word" /\ bytesLeft \in 1..(WordBytes - 1)
TailWord_Bytes == InTail /\ Store(bytesLeft * ByteBits, bytesLeft)
TailWord_NotOne == InTail /\ bytesLeft > 1 /\ Store(bitsLeft, bytesLeft)
TailWord == InTail /\ Store(bitsLeft, bytesLeft)

\* TDO is copied behind the bits of the words before.
Copied(bytes) ==
    result' = result \o [i \in 1..(bytes * ByteBits) |->
                            IF i \in DOMAIN tdo THEN tdo[i] ELSE 0]

CollectWhole ==
    /\ pc = "poll" /\ ctrl = 0 /\ bytesLeft >= WordBytes
    /\ Copied(WordBytes)
    /\ bytesLeft' = bytesLeft - WordBytes /\ bitsLeft' = bitsLeft - WordBits
    /\ byteIndex' = byteIndex + WordBytes
    /\ pc' = "word"
    /\ UNCHANGED <<len, bridge, answer>>

\* write: the vector, in whole bytes.
Reply(vector) == pc' = "idle" /\ answer' = <<TRUE, SubSeq(vector, 1, len)>>

\* break, and the reply.
CollectTail ==
    /\ pc = "poll" /\ ctrl = 0 /\ bytesLeft < WordBytes
    /\ Copied(bytesLeft)
    /\ Reply(result')
    /\ UNCHANGED <<len, words, bridge>>

\* The reply when no bytes are left.
Finish ==
    /\ pc = "word" /\ bytesLeft = 0
    /\ Reply(result)
    /\ UNCHANGED <<len, words, bridge, result>>

\* The bridge shifts the word, and TDO of a TCK is named by its number.
Shift ==
    /\ ctrl = 1
    /\ ctrl' = 0
    /\ clocked' = clocked \o [i \in 1..length |-> <<1, tms[i], tdi[i]>>]
    /\ tdo' = [i \in 1..length |-> Len(clocked) + i]
    /\ UNCHANGED <<pc, len, words, length, tms, tdi, result, answer>>

-----------------------------------------------------------------------------
Loop == WholeWord \/ TailWord \/ CollectWhole \/ CollectTail \/ Finish

Next == (\E n \in Lengths : Begin(n)) \/ Loop \/ Shift

\* The server goes on, and the bridge ends the words it is given.
Fairness == WF_vars(Loop) /\ WF_vars(Shift)

Spec == Init /\ [][Next]_vars /\ Fairness

-----------------------------------------------------------------------------
\* With lengths whose last word fills no more than its first three bytes or
\* all of it, the loop is a shift: every bit once, in order, and TDO of each.
Shifts == INSTANCE BitShift WITH
    Modes <- {1}, mode <- 1,
    active <- pc # "idle", bits <- len
ImplementsBitShift == Shifts!Spec

\* The loop ends, also for a length that leaves a single bit or byte to the last
\* word: provided that the bridge ends each word, every message is answered.  The
\* code polls without end, so it relies on that.  The run tidy checks it for
\* lengths whose last word has at most 24 bits or is full; for the others the loop
\* clocks too often (TogglesAsAsked).
AnsweredEventually == pc # "idle" ~> pc = "idle"

\* README.md: <num bits> is "the number of TCK clk toggles needed to shift the
\* vectors out".
TogglesAsAsked == Len(clocked) <= len
=============================================================================
