--------------------------- MODULE MmapShiftProofs ---------------------------
(***************************************************************************)
(* The shift loop over the mapped registers, with words of four bytes as   *)
(* in the code, for every set of lengths whose last word is whole or fills *)
(* no more than its first three bytes.                                     *)
(***************************************************************************)
EXTENDS MmapShift, SequenceTheorems, TLAPS

CodeWidths == ByteBits = 8 /\ WordBytes = 4
TidyLengths == \A n \in Lengths : n % 32 <= 24

Tcks == Nat \X Nat \X Nat
\* Where the word in hand begins, in bits.
From == 8 * byteIndex
\* The bytes of the vectors in it.
InHand == IF bytesLeft >= 4 THEN 4 ELSE bytesLeft

TypeInv ==
    /\ pc \in {"idle", "word", "poll"}
    /\ len \in Nat
    /\ byteIndex \in Nat /\ bytesLeft \in Nat /\ bitsLeft \in Int
    /\ length \in Nat /\ ctrl \in {0, 1}
    /\ clocked \in Seq(Tcks) /\ result \in Seq(Nat)

\* The words done are whole, and what is left is counted twice: in bytes and
\* in bits (xvcServer.c:125-156).
Counting ==
    pc # "idle" =>
       /\ len \in Lengths
       /\ \E w \in Nat : byteIndex = 4 * w
       /\ bytesLeft = nr_bytes(len) - byteIndex
       /\ bitsLeft = len - From

\* The bits of the words done, and no others, have been clocked and collected;
\* the word in hand is clocked once.
Clocking ==
    /\ clocked = Shifts!Clocks(1, Len(clocked))
    /\ Len(clocked) <= len
    /\ pc \in {"idle", "word"} => ctrl = 0
    /\ pc = "word" => Len(clocked) = From
    /\ pc # "idle" => result = Shifts!Places(From)
    /\ pc = "poll" =>
          /\ bytesLeft >= 1
          /\ length = IF bytesLeft >= 4 THEN 32 ELSE bitsLeft
          /\ tms = InBytes(8 * InHand) /\ tdi = InBytes(8 * InHand)
          /\ IF ctrl = 1 THEN Len(clocked) = From
             ELSE /\ Len(clocked) = From + length
                  /\ tdo = [i \in 1..length |-> From + i]

Inv == TypeInv /\ Counting /\ Clocking

-----------------------------------------------------------------------------
\* Counting in bytes is counting in bits unless a last word that fills its
\* four bytes has bits to spare.
LEMMA LastWord ==
    ASSUME CodeWidths, NEW n \in Nat, n % 32 <= 24, NEW w \in Nat,
           NEW left \in Nat, left = nr_bytes(n) - 4 * w
    PROVE  /\ left >= 4 => n - 32 * w >= 32
           /\ left = 0 => n = 32 * w
           /\ left \in 1..3 => n - 32 * w \in (8 * left - 7)..(8 * left)
<1>1. nr_bytes(n) = (n + 7) \div 8
  BY DEF CodeWidths, nr_bytes
<1> QED  BY <1>1

\* A vector of places continued.
LEMMA PlacesExtend ==
    ASSUME NEW a \in Nat, NEW b \in Nat,
           NEW t \in Seq(Nat), Len(t) = b, \A i \in 1..b : t[i] = a + i
    PROVE  Shifts!Places(a) \o t = Shifts!Places(a + b)
<1> DEFINE done == Shifts!Places(a)
           all == Shifts!Places(a + b)
<1>1. /\ done \in Seq(Nat) /\ Len(done) = a
      /\ \A i \in 1..a : done[i] = i
  <2>1. done \in Seq(Nat) /\ Len(done) = a
    BY DEF Shifts!Places
  <2>2. \A i \in 1..a : done[i] = i
    BY DEF Shifts!Places
  <2> QED  BY <2>1, <2>2
<1>2. /\ all \in Seq(Nat) /\ Len(all) = a + b
      /\ \A i \in 1..(a + b) : all[i] = i
  <2>1. all \in Seq(Nat) /\ Len(all) = a + b
    BY DEF Shifts!Places
  <2>2. \A i \in 1..(a + b) : all[i] = i
    BY DEF Shifts!Places
  <2> QED  BY <2>1, <2>2
<1> HIDE DEF done, all
<1>3. /\ done \o t \in Seq(Nat) /\ Len(done \o t) = Len(done) + Len(t)
      /\ \A i \in 1..(Len(done) + Len(t)) :
            (done \o t)[i] = IF i <= Len(done) THEN done[i] ELSE t[i - Len(done)]
  BY <1>1, ConcatProperties
<1>4. ASSUME NEW i \in 1..(a + b) PROVE (done \o t)[i] = all[i]
  <2>1. CASE i <= a
    <3>1. i \in 1..a
      BY <2>1
    <3> QED  BY <1>1, <1>2, <1>3, <3>1
  <2>2. CASE i > a
    <3>1. i - a \in 1..b /\ a + (i - a) = i /\ ~(i <= a)
      BY <2>2
    <3> QED  BY <1>1, <1>2, <1>3, <3>1
  <2>3. i <= a \/ i > a
    OBVIOUS
  <2> QED  BY <2>1, <2>2, <2>3
<1>5. done \o t = all
  BY <1>1, <1>2, <1>3, <1>4, SeqEqual
<1> QED  BY <1>5 DEF done, all

\* The first bits of a vector of places.
LEMMA FirstPlaces ==
    ASSUME NEW n \in Nat, NEW s, \A i \in 1..n : s[i] = i
    PROVE  SubSeq(s, 1, n) = Shifts!Places(n)
<1> DEFINE part == SubSeq(s, 1, n)
           all == Shifts!Places(n)
<1>1. /\ part \in Seq(Nat) /\ Len(part) = IF 1 <= n THEN n - 1 + 1 ELSE 0
      /\ \A i \in 1..(n - 1 + 1) : part[i] = s[1 + i - 1]
  <2>1. \A i \in 1..n : s[i] \in Nat
    OBVIOUS
  <2> QED  BY <2>1, SubSeqProperties
<1>2. all \in Seq(Nat) /\ Len(all) = n /\ \A i \in 1..n : all[i] = i
  BY DEF Shifts!Places
<1> HIDE DEF part, all
<1>3. Len(part) = n
  BY <1>1
<1>4. ASSUME NEW i \in 1..n PROVE part[i] = all[i]
  <2>1. i \in 1..(n - 1 + 1) /\ 1 + i - 1 = i
    OBVIOUS
  <2> QED  BY <1>1, <1>2, <2>1
<1>5. part = all
  BY <1>1, <1>2, <1>3, <1>4, SeqEqual
<1> QED  BY <1>5 DEF part, all

\* So are the TCKs.
LEMMA ClocksExtend ==
    ASSUME NEW a \in Nat, NEW b \in Nat,
           NEW t \in Seq(Tcks), Len(t) = b, \A i \in 1..b : t[i] = <<1, a + i, a + i>>
    PROVE  Shifts!Clocks(1, a) \o t = Shifts!Clocks(1, a + b)
<1> DEFINE done == Shifts!Clocks(1, a)
           all == Shifts!Clocks(1, a + b)
<1>1. /\ done \in Seq(Tcks) /\ Len(done) = a
      /\ \A i \in 1..a : done[i] = <<1, i, i>>
  <2>1. done \in Seq(Tcks) /\ Len(done) = a
    BY DEF Shifts!Clocks, Tcks
  <2>2. \A i \in 1..a : done[i] = <<1, i, i>>
    BY DEF Shifts!Clocks
  <2> QED  BY <2>1, <2>2
<1>2. /\ all \in Seq(Tcks) /\ Len(all) = a + b
      /\ \A i \in 1..(a + b) : all[i] = <<1, i, i>>
  <2>1. all \in Seq(Tcks) /\ Len(all) = a + b
    BY DEF Shifts!Clocks, Tcks
  <2>2. \A i \in 1..(a + b) : all[i] = <<1, i, i>>
    BY DEF Shifts!Clocks
  <2> QED  BY <2>1, <2>2
<1> HIDE DEF done, all
<1>3. /\ done \o t \in Seq(Tcks) /\ Len(done \o t) = Len(done) + Len(t)
      /\ \A i \in 1..(Len(done) + Len(t)) :
            (done \o t)[i] = IF i <= Len(done) THEN done[i] ELSE t[i - Len(done)]
  BY <1>1, ConcatProperties
<1>4. ASSUME NEW i \in 1..(a + b) PROVE (done \o t)[i] = all[i]
  <2>1. CASE i <= a
    <3>1. i \in 1..a
      BY <2>1
    <3>2. (done \o t)[i] = done[i]
      BY <1>1, <1>3, <3>1
    <3> QED  BY <1>1, <1>2, <3>1, <3>2
  <2>2. CASE i > a
    <3>1. i - a \in 1..b /\ a + (i - a) = i /\ ~(i <= a)
      BY <2>2
    <3> QED  BY <1>1, <1>2, <1>3, <3>1
  <2>3. i <= a \/ i > a
    OBVIOUS
  <2> QED  BY <2>1, <2>2, <2>3
<1>5. done \o t = all
  BY <1>1, <1>2, <1>3, <1>4, SeqEqual
<1> QED  BY <1>5 DEF done, all

-----------------------------------------------------------------------------
LEMMA InitKeeps == ASSUME Init PROVE Inv
<1>1. <<>> \in Seq(Tcks) /\ <<>> \in Seq(Nat) /\ <<>> = Shifts!Clocks(1, 0)
  BY DEF Shifts!Clocks
<1>2. Len(<<>>) = 0
  OBVIOUS
<1> QED  BY <1>1, <1>2 DEF Init, Inv, TypeInv, Counting, Clocking

\* What the counters say of the word in hand.
LEMMA WordInHand ==
    ASSUME CodeWidths, TidyLengths, Inv, pc # "idle"
    PROVE  /\ From \in Nat /\ nr_bytes(len) \in Nat /\ bitsLeft = len - From
           /\ bytesLeft >= 4 => bitsLeft >= 32
           /\ bytesLeft = 0 => bitsLeft = 0
           /\ bytesLeft \in 1..3 => bitsLeft \in 1..(8 * bytesLeft)
<1>1. PICK w \in Nat : byteIndex = 4 * w
  BY DEF Inv, Counting
<1>2. len \in Nat /\ len % 32 <= 24 /\ bytesLeft \in Nat
      /\ bytesLeft = nr_bytes(len) - 4 * w /\ bitsLeft = len - 32 * w
      /\ From = 32 * w
  <2>1. /\ len \in Lengths /\ len \in Nat /\ bytesLeft \in Nat /\ bitsLeft = len - From
        /\ bytesLeft = nr_bytes(len) - byteIndex
    BY DEF Inv, TypeInv, Counting
  <2>2. From = 32 * w
    BY <1>1 DEF From
  <2>3. len % 32 <= 24
    BY <2>1 DEF TidyLengths
  <2> QED  BY <1>1, <2>1, <2>2, <2>3
<1>3. nr_bytes(len) \in Nat
  BY <1>2 DEF CodeWidths, nr_bytes
<1>4. /\ bytesLeft >= 4 => len - 32 * w >= 32
      /\ bytesLeft = 0 => len = 32 * w
      /\ bytesLeft \in 1..3 => len - 32 * w \in (8 * bytesLeft - 7)..(8 * bytesLeft)
  BY <1>2, LastWord
<1> QED  BY <1>1, <1>2, <1>3, <1>4

LEMMA StepKeeps == ASSUME CodeWidths, TidyLengths, Inv, Next PROVE Inv'
<1>1. /\ TypeInv /\ Counting /\ Clocking
      /\ ByteBits = 8 /\ WordBytes = 4 /\ WordBits = 32
      /\ Lengths \subseteq Nat
  BY MmapAssumption DEF Inv, CodeWidths, WordBits
<1>2. ASSUME NEW n \in Lengths, Begin(n) PROVE Inv'
  <2>1. n \in Nat /\ nr_bytes(n) \in Nat
    BY <1>1 DEF nr_bytes
  <2>2. /\ <<>> \in Seq(Tcks) /\ <<>> \in Seq(Nat) /\ Len(<<>>) = 0
        /\ <<>> = Shifts!Clocks(1, 0) /\ <<>> = Shifts!Places(0)
    BY DEF Shifts!Clocks, Shifts!Places
  <2>3. /\ pc = "idle" /\ pc' = "word" /\ len' = n
        /\ bytesLeft' = nr_bytes(n) /\ bitsLeft' = n /\ byteIndex' = 0
        /\ clocked' = <<>> /\ result' = <<>> /\ length' = length /\ ctrl' = ctrl
    BY <1>2 DEF Begin
  <2>4. TypeInv'
    BY <1>1, <2>1, <2>2, <2>3 DEF TypeInv
  <2>5. Counting'
    <3>1. byteIndex' = 4 * 0 /\ nr_bytes(len') = nr_bytes(n)
      BY <2>3
    <3> QED  BY <2>1, <2>3, <3>1 DEF Counting, From
  <2>6. Clocking'
    BY <1>1, <2>1, <2>2, <2>3 DEF Clocking, From
  <2> QED  BY <2>4, <2>5, <2>6 DEF Inv
<1>3. CASE WholeWord \/ TailWord
  <2>1. /\ pc = "word" /\ pc' = "poll" /\ bytesLeft >= 1 /\ ctrl' = 1
        /\ length' = IF bytesLeft >= 4 THEN 32 ELSE bitsLeft
        /\ tms' = InBytes(8 * InHand) /\ tdi' = InBytes(8 * InHand)
        /\ UNCHANGED <<len, bytesLeft, bitsLeft, byteIndex, clocked, result>>
    BY <1>1, <1>3 DEF TypeInv, WholeWord, TailWord, InTail, Store, InHand, words
  <2>2. length' \in Nat
    BY <1>1, <2>1, WordInHand DEF TypeInv
  <2>3. TypeInv'
    BY <1>1, <2>1, <2>2 DEF TypeInv
  <2>4. Counting'
    BY <1>1, <2>1 DEF Counting, From, nr_bytes
  <2>5. Clocking'
    BY <1>1, <2>1 DEF Clocking, From, InHand, InBytes
  <2> QED  BY <2>3, <2>4, <2>5 DEF Inv
<1>4. CASE CollectWhole
  <2>1. /\ pc = "poll" /\ pc' = "word" /\ ctrl = 0 /\ bytesLeft >= 4
        /\ bytesLeft' = bytesLeft - 4 /\ bitsLeft' = bitsLeft - 32
        /\ byteIndex' = byteIndex + 4
        /\ result' = result \o [i \in 1..32 |->
                                  IF i \in DOMAIN tdo THEN tdo[i] ELSE 0]
        /\ UNCHANGED <<len, length, ctrl, clocked>>
    BY <1>1, <1>4 DEF CollectWhole, Copied, bridge
  <2>2. /\ tdo = [i \in 1..32 |-> From + i] /\ Len(clocked) = From + 32
        /\ From \in Nat /\ From' = From + 32 /\ result = Shifts!Places(From)
    <3>1. byteIndex \in Nat /\ byteIndex' = byteIndex + 4
      BY <1>1, <2>1 DEF TypeInv
    <3>2. From \in Nat /\ From' = From + 32
      BY <3>1 DEF From
    <3>3. length = 32 /\ Len(clocked) = From + length
          /\ tdo = [i \in 1..length |-> From + i] /\ result = Shifts!Places(From)
      BY <1>1, <2>1 DEF Clocking
    <3> QED  BY <3>2, <3>3
  <2>3. result' = Shifts!Places(From + 32)
    <3> DEFINE t == [i \in 1..32 |-> IF i \in DOMAIN tdo THEN tdo[i] ELSE 0]
    <3>1. \A i \in 1..32 : t[i] = From + i
      BY <2>2
    <3>2. t \in Seq(Nat) /\ Len(t) = 32
      BY <2>2
    <3>3. result' = result \o t
      BY <2>1
    <3> HIDE DEF t
    <3> QED  BY <2>2, <3>1, <3>2, <3>3, PlacesExtend
  <2>4. result' \in Seq(Nat)
    BY <2>2, <2>3 DEF Shifts!Places
  <2>5. TypeInv'
    BY <1>1, <2>1, <2>4 DEF TypeInv
  <2>6. Counting'
    <3>1. PICK w \in Nat : byteIndex = 4 * w
      BY <1>1, <2>1 DEF Counting
    <3>2. byteIndex' = 4 * (w + 1) /\ w + 1 \in Nat
      BY <2>1, <3>1
    <3>3. /\ len' \in Lengths /\ bitsLeft' = len' - From'
          /\ nr_bytes(len)' = nr_bytes(len) /\ nr_bytes(len) \in Nat
      BY <1>1, <2>1, <2>2, WordInHand DEF Counting, TypeInv, nr_bytes
    <3>4. bytesLeft' = nr_bytes(len)' - byteIndex'
      BY <1>1, <2>1, <3>3 DEF Counting, TypeInv
    <3> QED  BY <3>2, <3>3, <3>4 DEF Counting
  <2>7. Clocking'
    BY <1>1, <2>1, <2>2, <2>3 DEF Clocking
  <2> QED  BY <2>5, <2>6, <2>7 DEF Inv
<1>5. CASE CollectTail
  <2>1. /\ pc = "poll" /\ pc' = "idle" /\ ctrl = 0
        /\ result' = result \o [i \in 1..(bytesLeft * 8) |->
                                  IF i \in DOMAIN tdo THEN tdo[i] ELSE 0]
        /\ UNCHANGED <<len, bytesLeft, bitsLeft, byteIndex, length, ctrl, clocked>>
    BY <1>1, <1>5 DEF CollectTail, Copied, Reply, words, bridge
  <2>2. result' \in Seq(Nat)
    <3> DEFINE t == [i \in 1..(bytesLeft * 8) |->
                       IF i \in DOMAIN tdo THEN tdo[i] ELSE 0]
    <3>1. \A i \in DOMAIN tdo : tdo[i] \in Nat
      BY <1>1, <2>1 DEF Clocking, TypeInv, From
    <3>2. bytesLeft * 8 \in Nat
      BY <1>1 DEF TypeInv
    <3>3. t \in Seq(Nat)
      BY <3>1, <3>2
    <3>4. result' = result \o t
      BY <2>1
    <3> HIDE DEF t
    <3> QED  BY <1>1, <3>3, <3>4, ConcatProperties DEF TypeInv
  <2>3. TypeInv'
    BY <1>1, <2>1, <2>2 DEF TypeInv
  <2> QED  BY <1>1, <2>1, <2>3 DEF Inv, Counting, Clocking
<1>6. CASE Finish
  <2>1. /\ pc = "word" /\ pc' = "idle"
        /\ UNCHANGED <<len, bytesLeft, bitsLeft, byteIndex, length, ctrl, clocked, result>>
    BY <1>6 DEF Finish, Reply, words, bridge
  <2> QED  BY <1>1, <2>1 DEF Inv, TypeInv, Counting, Clocking
<1>7. CASE Shift
  <2>1. pc = "poll" /\ ctrl = 1 /\ ctrl' = 0
        /\ clocked' = clocked \o [i \in 1..length |-> <<1, tms[i], tdi[i]>>]
        /\ tdo' = [i \in 1..length |-> Len(clocked) + i]
        /\ UNCHANGED <<pc, len, bytesLeft, bitsLeft, byteIndex, length, tms, tdi, result>>
    BY <1>1, <1>7 DEF Clocking, Shift, TypeInv, words
  <2>2. /\ From \in Nat /\ Len(clocked) = From /\ length \in Nat
        /\ clocked = Shifts!Clocks(1, From)
        /\ tms = InBytes(8 * InHand) /\ tdi = InBytes(8 * InHand)
        /\ length <= 8 * InHand /\ From + length <= len
        /\ 8 * InHand \in Nat
    <3>1. /\ bytesLeft \in Nat /\ bytesLeft >= 1 /\ length \in Nat /\ bitsLeft \in Int
          /\ length = IF bytesLeft >= 4 THEN 32 ELSE bitsLeft
          /\ Len(clocked) = From /\ clocked = Shifts!Clocks(1, From)
          /\ tms = InBytes(8 * InHand) /\ tdi = InBytes(8 * InHand)
      BY <1>1, <2>1 DEF Clocking, TypeInv
    <3>2. /\ From \in Nat /\ bitsLeft = len - From /\ len \in Nat
          /\ bytesLeft >= 4 => bitsLeft >= 32
          /\ bytesLeft \in 1..3 => bitsLeft \in 1..(8 * bytesLeft)
      BY <1>1, <2>1, WordInHand DEF TypeInv
    <3>3. length <= 8 * InHand /\ From + length <= len /\ 8 * InHand \in Nat
      BY <3>1, <3>2 DEF InHand
    <3> QED  BY <3>1, <3>2, <3>3
  <2>3. clocked' = Shifts!Clocks(1, From + length)
    <3> DEFINE t == [i \in 1..length |-> <<1, tms[i], tdi[i]>>]
    <3>1. ASSUME NEW i \in 1..length PROVE tms[i] = From + i /\ tdi[i] = From + i
      <4>1. i \in 1..(8 * InHand) /\ byteIndex * ByteBits + i = From + i
        BY <1>1, <2>2 DEF From, TypeInv
      <4> QED  BY <2>2, <4>1 DEF InBytes
    <3>2. \A i \in 1..length : t[i] = <<1, From + i, From + i>>
      BY <3>1
    <3>3. t \in Seq(Tcks) /\ Len(t) = length
      BY <2>2, <3>2 DEF Tcks
    <3>4. clocked' = clocked \o t
      BY <2>1
    <3> HIDE DEF t
    <3>5. Shifts!Clocks(1, From) \o t = Shifts!Clocks(1, From + length)
      BY <2>2, <3>2, <3>3, ClocksExtend
    <3> QED  BY <2>2, <3>4, <3>5
  <2>4. clocked' \in Seq(Tcks) /\ Len(clocked') = From + length
    BY <2>2, <2>3 DEF Shifts!Clocks, Tcks
  <2>5. TypeInv'
    BY <1>1, <2>1, <2>4 DEF TypeInv
  <2>6. Counting'
    BY <1>1, <2>1 DEF Counting, From, nr_bytes
  <2>7. Clocking'
    <3>1. /\ From' = From /\ InBytes(8 * InHand)' = InBytes(8 * InHand)
          /\ UNCHANGED <<pc, len, length, bytesLeft, bitsLeft, tms, tdi, result>>
      BY <2>1 DEF From, InHand, InBytes
    <3>2. /\ bytesLeft >= 1 /\ length = IF bytesLeft >= 4 THEN 32 ELSE bitsLeft
          /\ result = Shifts!Places(From)
      BY <1>1, <2>1 DEF Clocking
    <3>3. clocked' = Shifts!Clocks(1, Len(clocked')) /\ Len(clocked') <= len
      BY <2>2, <2>3, <2>4
    <3>4. tdo' = [i \in 1..length |-> From + i]
      BY <2>1, <2>2
    <3>5. (/\ bytesLeft >= 1
           /\ length = IF bytesLeft >= 4 THEN 32 ELSE bitsLeft
           /\ tms = InBytes(8 * InHand) /\ tdi = InBytes(8 * InHand))'
      BY <2>2, <3>1, <3>2
    <3>6. (IF ctrl = 1 THEN Len(clocked) = From
           ELSE /\ Len(clocked) = From + length
                /\ tdo = [i \in 1..length |-> From + i])'
      <4>0. ctrl' = 0 /\ From' = From /\ length' = length
        BY <2>1, <3>1
      <4>1. ctrl' # 1 /\ Len(clocked') = From' + length'
        BY <2>4, <4>0
      <4>2. tdo' = [i \in 1..length' |-> From' + i]
        BY <3>1, <3>4
      <4> QED  BY <4>1, <4>2
    <3> QED  BY <2>1, <3>1, <3>2, <3>3, <3>5, <3>6 DEF Clocking
  <2> QED  BY <2>5, <2>6, <2>7 DEF Inv
<1> QED  BY <1>2, <1>3, <1>4, <1>5, <1>6, <1>7 DEF Next, Loop

\* The counters and the vectors agree in every state.
LEMMA InvHolds ==
    ASSUME CodeWidths, TidyLengths
    PROVE  Spec => []Inv
<1>1. Inv /\ UNCHANGED vars => Inv'
  BY DEF Inv, TypeInv, Counting, Clocking, From, InHand, InBytes, nr_bytes, vars,
         words, bridge
<1>2. Inv /\ [Next]_vars => Inv'
  BY <1>1, StepKeeps
<1> QED  BY <1>2, InitKeeps, PTL DEF Spec

\* What the collected vector holds at the end: TDO of every TCK, in whole bytes.
LEMMA TailAnswer ==
    ASSUME CodeWidths, TidyLengths, Inv, CollectTail
    PROVE  /\ clocked = Shifts!Clocks(1, len)
           /\ SubSeq(result', 1, len) = Shifts!Places(len)
<1>1. /\ pc = "poll" /\ ctrl = 0 /\ bytesLeft \in 1..3
      /\ result' = result \o [i \in 1..(bytesLeft * 8) |->
                                IF i \in DOMAIN tdo THEN tdo[i] ELSE 0]
  BY DEF CollectTail, Copied, CodeWidths, Inv, TypeInv, Clocking
<1>2. /\ From \in Nat /\ bitsLeft \in 1..(8 * bytesLeft) /\ len \in Nat
      /\ bitsLeft = len - From
  BY <1>1, WordInHand DEF Inv, TypeInv
<1>3. /\ length = bitsLeft /\ Len(clocked) = From + length
      /\ clocked = Shifts!Clocks(1, Len(clocked))
      /\ tdo = [i \in 1..length |-> From + i] /\ result = Shifts!Places(From)
  BY <1>1 DEF Inv, Clocking
<1> DEFINE done == Shifts!Places(From)
           t == [i \in 1..(bytesLeft * 8) |-> IF i \in DOMAIN tdo THEN tdo[i] ELSE 0]
<1>4. \A i \in 1..length : t[i] = From + i
  BY <1>1, <1>2, <1>3
<1>5. t \in Seq(Nat) /\ Len(t) = bytesLeft * 8
  <2>1. \A i \in 1..(bytesLeft * 8) : (IF i \in DOMAIN tdo THEN tdo[i] ELSE 0) \in Nat
    BY <1>2, <1>3
  <2>2. bytesLeft * 8 \in Nat
    BY <1>1
  <2> QED  BY <2>1, <2>2
<1>6. done \in Seq(Nat) /\ Len(done) = From
  BY <1>2 DEF Shifts!Places
<1>7. \A i \in 1..From : done[i] = i
  BY DEF Shifts!Places
<1>8. result' = done \o t
  BY <1>1, <1>3
<1> HIDE DEF done, t
<1>9. \A i \in 1..(From + bytesLeft * 8) :
         (done \o t)[i] = IF i <= From THEN done[i] ELSE t[i - From]
  <2>1. \A i \in 1..(Len(done) + Len(t)) :
           (done \o t)[i] = IF i <= Len(done) THEN done[i] ELSE t[i - Len(done)]
    <3>1. done \in Seq(Nat) /\ t \in Seq(Nat)
      BY <1>5, <1>6
    <3> QED  BY <3>1, ConcatProperties
  <2> QED  BY <1>5, <1>6, <2>1
<1>10. ASSUME NEW i \in 1..len PROVE (done \o t)[i] = i
  <2>1. i \in 1..(From + bytesLeft * 8)
    BY <1>1, <1>2
  <2>2. CASE i <= From
    <3>1. i \in 1..From
      BY <2>2
    <3> QED  BY <1>7, <1>9, <2>1, <2>2, <3>1
  <2>3. CASE ~(i <= From)
    <3>1. i - From \in 1..length /\ From + (i - From) = i
      BY <1>2, <1>3, <2>3
    <3> QED  BY <1>4, <1>9, <2>1, <2>3, <3>1
  <2> QED  BY <2>2, <2>3
<1>11. SubSeq(done \o t, 1, len) = Shifts!Places(len)
  BY <1>2, <1>10, FirstPlaces
<1>12. Len(clocked) = len
  BY <1>2, <1>3
<1> QED  BY <1>3, <1>8, <1>11, <1>12

\* When no byte is left the last word was whole.
LEMMA WholeAnswer ==
    ASSUME CodeWidths, TidyLengths, Inv, Finish
    PROVE  /\ clocked = Shifts!Clocks(1, len)
           /\ SubSeq(result, 1, len) = Shifts!Places(len)
<1>1. pc = "word" /\ bytesLeft = 0
  BY DEF Finish
<1>2. len = From /\ len \in Nat
  BY <1>1, WordInHand DEF Inv, TypeInv
<1>3. clocked = Shifts!Clocks(1, len) /\ result = Shifts!Places(len)
  BY <1>1, <1>2 DEF Inv, Clocking
<1>4. Shifts!Places(len) \in Seq(Nat) /\ Len(Shifts!Places(len)) = len
  BY <1>2 DEF Shifts!Places
<1>5. SubSeq(Shifts!Places(len), 1, Len(Shifts!Places(len))) = Shifts!Places(len)
  BY <1>4, SubSeqFull
<1> QED  BY <1>3, <1>4, <1>5

\* The word loop is a shift for every vector whose last word is whole or fills
\* at most three bytes: each bit is clocked once, in order, and the answer is
\* TDO of each (xvcServer.c:130-198).
THEOREM LoopIsAShift ==
    ASSUME CodeWidths, TidyLengths
    PROVE  Spec => ImplementsBitShift
<1>1. Init => Shifts!Init
  BY DEF Init, Shifts!Init
<1>2. ASSUME Inv, Inv', [Next]_vars PROVE [Shifts!Next]_(Shifts!vars)
  <2>1. ASSUME NEW n \in Lengths, Begin(n) PROVE Shifts!Next
    <3>1. Shifts!Begin(1, n)
      BY <2>1 DEF Begin, Shifts!Begin
    <3> QED  BY <3>1 DEF Shifts!Next
  <2>2. CASE WholeWord \/ TailWord \/ CollectWhole
    <3>1. /\ pc # "idle" /\ pc' # "idle"
          /\ UNCHANGED <<len, clocked, answer>>
      BY <2>2 DEF WholeWord, TailWord, InTail, Store, CollectWhole, bridge
    <3> QED  BY <3>1 DEF Shifts!vars
  <2>3. CASE CollectTail
    <3>1. Shifts!Succeed
      BY <1>2, <2>3, TailAnswer
         DEF CollectTail, Reply, bridge, words, Shifts!Succeed
    <3> QED  BY <3>1 DEF Shifts!Next
  <2>4. CASE Finish
    <3>1. Shifts!Succeed
      BY <1>2, <2>4, WholeAnswer DEF Finish, Reply, bridge, words, Shifts!Succeed
    <3> QED  BY <3>1 DEF Shifts!Next
  <2>5. CASE Shift
    <3>1. pc = "poll" /\ pc' = pc /\ len' = len /\ answer' = answer
      BY <1>2, <2>5 DEF Inv, TypeInv, Clocking, Shift
    <3>2. /\ clocked' = Shifts!Clocks(1, Len(clocked')) /\ Len(clocked') <= len
          /\ Len(clocked) \in Nat /\ len \in Nat
      BY <1>2, <3>1 DEF Inv, Clocking, TypeInv
    <3>3. Len(clocked') \in Nat /\ Len(clocked') > Len(clocked)
      <4>1. pc' = "poll" /\ ctrl = 1 /\ ctrl' = 0 /\ length' = length /\ From' = From
            /\ bytesLeft' = bytesLeft
        BY <2>5, <3>1 DEF Shift, words, From
      <4>2. Len(clocked) = From /\ Len(clocked') = From + length
        BY <1>2, <3>1, <4>1 DEF Inv, Clocking
      <4>3. length >= 1 /\ length \in Nat
        <5>1. /\ length = IF bytesLeft >= 4 THEN 32 ELSE bitsLeft
              /\ bytesLeft \in Nat /\ bytesLeft >= 1
          BY <1>2, <3>1 DEF Inv, Clocking, TypeInv
        <5> QED  BY <1>2, <3>1, <5>1, WordInHand DEF Inv, TypeInv
      <4>4. From \in Nat
        BY <1>2, <3>1, WordInHand
      <4> QED  BY <4>2, <4>3, <4>4
    <3>4. Shifts!Clock
      BY <3>1, <3>2, <3>3 DEF Shifts!Clock
    <3> QED  BY <3>4 DEF Shifts!Next
  <2>6. CASE UNCHANGED vars
    BY <2>6 DEF vars, bridge, Shifts!vars
  <2> QED  BY <1>2, <2>1, <2>2, <2>3, <2>4, <2>5, <2>6 DEF Next, Loop
<1> QED  BY <1>1, <1>2, InvHolds, PTL DEF Spec, ImplementsBitShift, Shifts!Spec
=============================================================================
