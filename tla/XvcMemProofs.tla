----------------------------- MODULE XvcMemProofs -----------------------------
(***************************************************************************)
(* Theorems about XvcMem for every window, address, payload, count and     *)
(* extent of the memory behind the window, in both builds.                 *)
(***************************************************************************)
EXTENDS XvcMem, SequenceTheorems, TLAPS

\* The word loop moves whole words from the first byte on.
LEMMA WordsMoved ==
    ASSUME NEW n \in Nat
    PROVE  /\ WordOffsets(n) = 0..(4 * ((n + 3) \div 4) - 1)
           /\ WordOffsets(n) \subseteq 0..(n + 2)
<1>1. ASSUME NEW k \in WordOffsets(n) PROVE k \in 0..(4 * ((n + 3) \div 4) - 1)
  <2>1. PICK w \in 0..n : 4 * w < n /\ k \in (4 * w)..(4 * w + 3)
    BY DEF WordOffsets
  <2> QED  BY <2>1
<1>2. ASSUME NEW k \in 0..(4 * ((n + 3) \div 4) - 1) PROVE k \in WordOffsets(n)
  <2>1. /\ k \in 0..(n + 2) /\ k \div 4 \in 0..n /\ 4 * (k \div 4) < n
        /\ k \in (4 * (k \div 4))..(4 * (k \div 4) + 3)
    OBVIOUS
  <2> QED  BY <2>1 DEF WordOffsets
<1>3. WordOffsets(n) \subseteq 0..(n + 2)
  BY DEF WordOffsets
<1>4. WordOffsets(n) = 0..(4 * ((n + 3) \div 4) - 1)
  <2> DEFINE A == WordOffsets(n)
             B == 0..(4 * ((n + 3) \div 4) - 1)
  <2>1. A \subseteq B /\ B \subseteq A
    BY <1>1, <1>2
  <2> HIDE DEF A, B
  <2>2. A = B
    BY <2>1
  <2> QED  BY <2>2 DEF A, B
<1> QED  BY <1>3, <1>4

\* A count of whole words moves no byte behind it.
LEMMA MovesWhatIsAsked ==
    ASSUME NEW n \in Nat, build = "words" => n % 4 = 0
    PROVE  Moved(n) \subseteq 0..(n - 1)
<1>1. CASE build = "words"
  <2>1. n % 4 = 0 => 4 * ((n + 3) \div 4) = n
    OBVIOUS
  <2>2. Moved(n) = 0..(4 * ((n + 3) \div 4) - 1)
    BY <1>1, WordsMoved DEF Moved
  <2> QED  BY <1>1, <2>1, <2>2
<1>2. CASE build # "words"
  BY <1>2 DEF Moved
<1> QED  BY <1>1, <1>2

\* A byte that a step changes is one that a mwr: moves.
LEMMA ChangedIsMoved ==
    ASSUME DOMAIN mem = Cells, [Next]_vars, NEW b \in Cells, mem'[b] # mem[b]
    PROVE  \E addr \in Addresses, n \in WriteCounts, payload \in Payloads :
              /\ Mwr(addr, n, payload) \/ MwrFaults(addr, n, payload)
              /\ ~OutOfWindow(addr, n) /\ b - addr \in Moved(n)
<1>1. PICK addr \in Addresses, n \in WriteCounts, payload \in Payloads :
          Mwr(addr, n, payload) \/ MwrFaults(addr, n, payload)
  BY DEF Next, Mrd, MrdFaults, Accept, MapFails, CloseConnection, CollectError, Send,
     Stopped, setting, vars
<1>2. Store(addr, n, payload) /\ ~OutOfWindow(addr, n)
  <2>1. CASE MwrFaults(addr, n, payload)
    BY <2>1 DEF MwrFaults, Accesses
  <2>2. CASE Mwr(addr, n, payload) /\ ~pending_error'
    BY <2>2 DEF Mwr
  <2>3. CASE Mwr(addr, n, payload) /\ pending_error'
    BY <2>3 DEF Mwr
  <2> QED  BY <1>1, <2>1, <2>2, <2>3
<1>3. b - addr \in Moved(n)
  BY <1>2 DEF Store, BeforeFault
<1> QED  BY <1>1, <1>2, <1>3

\* The device keeps its cells.
LEMMA DomainStep ==
    ASSUME DOMAIN mem = Cells, [Next]_vars
    PROVE  (DOMAIN mem = Cells)'
  BY DEF Next, Mrd, MrdFaults, Mwr, MwrFaults, Store, Accept, MapFails,
     CloseConnection, CollectError, Send, Stopped, setting, vars

LEMMA DomainInit == ASSUME Init PROVE DOMAIN mem = Cells
  BY MemAssumption DEF Init

\* The rounding of the word loop, after a test of the bytes asked for, reaches at
\* most three bytes behind the window, and memcpy none.
THEOREM WindowIsKept == Spec => KeepsToWindow
<1> DEFINE Kept == \A b \in Cells : mem'[b] # mem[b] =>
                      \/ b \in Base..(Base + Size - 1)
                      \/ build = "words" /\ b \in (Base + Size)..(Base + Size + 2)
           Dom == DOMAIN mem = Cells
<1>1. Init => Dom
  BY DomainInit
<1>2. Dom /\ [Next]_vars => Dom'
  BY DomainStep
<1>3. Dom /\ [Next]_vars => [Kept]_vars
  <2> SUFFICES ASSUME Dom, [Next]_vars, NEW b \in Cells, mem'[b] # mem[b]
               PROVE  \/ b \in Base..(Base + Size - 1)
                      \/ build = "words" /\ b \in (Base + Size)..(Base + Size + 2)
    OBVIOUS
  <2>1. PICK addr \in Addresses, n \in WriteCounts :
            ~OutOfWindow(addr, n) /\ b - addr \in Moved(n)
    BY ChangedIsMoved
  <2>2. addr \in Nat /\ n \in Nat /\ b \in Nat /\ Base \in Nat /\ Size \in Nat
    BY MemAssumption
  <2>3. CASE build = "words"
    <3>1. b - addr \in 0..(n + 2)
      BY <2>1, <2>2, <2>3, WordsMoved DEF Moved
    <3> QED  BY <2>1, <2>2, <2>3, <3>1 DEF OutOfWindow
  <2>4. CASE build # "words"
    <3>1. b - addr \in 0..(n - 1)
      BY <2>1, <2>4 DEF Moved
    <3> QED  BY <2>1, <2>2, <3>1 DEF OutOfWindow
  <2> QED  BY <2>3, <2>4
<1> QED  BY <1>1, <1>2, <1>3, PTL DEF Spec, KeepsToWindow

\* A mwr: of whole words, or in the block build any, writes no byte it was not
\* asked for, which is what src/README.md says of every count.
THEOREM WholeWordsWriteExactly ==
    Spec => [][\A addr \in Addresses, n \in WriteCounts, payload \in Payloads :
                  (build = "words" => n % 4 = 0) /\ Mwr(addr, n, payload) =>
                     \A b \in Cells :
                        ~(addr <= b /\ b < addr + n) => mem'[b] = mem[b]]_vars
<1> DEFINE Exact == \A addr \in Addresses, n \in WriteCounts, payload \in Payloads :
                  (build = "words" => n % 4 = 0) /\ Mwr(addr, n, payload) =>
                     \A b \in Cells :
                        ~(addr <= b /\ b < addr + n) => mem'[b] = mem[b]
           Dom == DOMAIN mem = Cells
<1>1. Init => Dom
  BY DomainInit
<1>2. Dom /\ [Next]_vars => Dom'
  BY DomainStep
<1>3. Dom => Exact
  <2> SUFFICES ASSUME Dom, NEW addr \in Addresses, NEW n \in WriteCounts,
                      NEW payload \in Payloads, build = "words" => n % 4 = 0,
                      Mwr(addr, n, payload), NEW b \in Cells,
                      ~(addr <= b /\ b < addr + n)
               PROVE  mem'[b] = mem[b]
    OBVIOUS
  <2>1. addr \in Nat /\ n \in Nat /\ b \in Nat
    BY MemAssumption
  <2>2. b - addr \notin Moved(n)
    BY <2>1, MovesWhatIsAsked
  <2>3. CASE pending_error'
    BY <2>3 DEF Mwr
  <2>4. CASE ~pending_error'
    BY <2>2, <2>4 DEF Mwr, Store, BeforeFault
  <2> QED  BY <2>3, <2>4
<1> QED  BY <1>1, <1>2, <1>3, PTL DEF Spec

-----------------------------------------------------------------------------
(* The batch of replies and the device are a byte memory. *)

\* The reply buffer keeps its size; a batch that is being built fits it.
ReplyInv ==
    /\ build \in Builds
    /\ mem = [b \in Cells |-> mem[b]]
    /\ pending_error \in BOOLEAN
    /\ DOMAIN reply_buf = 0..(ReplyMax - 1)
    /\ reply_len \in 0..ReplyMax

\* What \o and Append do to vectors given byte by byte.
LEMMA ThreeParts ==
    ASSUME NEW S, NEW s \in Seq(S), NEW t \in Seq(S), NEW e \in S
    PROVE  /\ s \o t \o <<e>> \in Seq(S)
           /\ Len(s \o t \o <<e>>) = Len(s) + Len(t) + 1
           /\ \A k \in 1..(Len(s) + Len(t) + 1) :
                 (s \o t \o <<e>>)[k] =
                    IF k <= Len(s) THEN s[k]
                    ELSE IF k <= Len(s) + Len(t) THEN t[k - Len(s)] ELSE e
<1> DEFINE two == s \o t
           one == <<e>>
<1>1. /\ two \in Seq(S) /\ Len(two) = Len(s) + Len(t)
      /\ \A k \in 1..(Len(s) + Len(t)) :
            two[k] = IF k <= Len(s) THEN s[k] ELSE t[k - Len(s)]
  BY ConcatProperties
<1>2. one \in Seq(S) /\ Len(one) = 1 /\ one[1] = e
  OBVIOUS
<1>3. Len(s) \in Nat /\ Len(t) \in Nat
  OBVIOUS
<1> HIDE DEF one, two
<1>4. /\ two \o one \in Seq(S) /\ Len(two \o one) = Len(two) + Len(one)
      /\ \A k \in 1..(Len(two) + Len(one)) :
            (two \o one)[k] = IF k <= Len(two) THEN two[k] ELSE one[k - Len(two)]
  <2>1. two \in Seq(S) /\ one \in Seq(S)
    BY <1>1, <1>2
  <2> QED  BY <2>1, ConcatProperties
<1>5. ASSUME NEW k \in 1..(Len(s) + Len(t) + 1)
      PROVE  (two \o one)[k] = IF k <= Len(s) THEN s[k]
                               ELSE IF k <= Len(s) + Len(t) THEN t[k - Len(s)] ELSE e
  <2>1. CASE k <= Len(s) + Len(t)
    <3>1. k \in 1..(Len(s) + Len(t)) /\ k <= Len(two)
      BY <1>1, <2>1
    <3>2. (two \o one)[k] = two[k]
      BY <1>1, <1>2, <1>3, <1>4, <3>1
    <3> QED  BY <1>1, <2>1, <3>1, <3>2
  <2>2. CASE k = Len(s) + Len(t) + 1
    <3>1. k - Len(two) = 1 /\ ~(k <= Len(two)) /\ ~(k <= Len(s))
      BY <1>1, <1>3, <2>2
    <3> QED  BY <1>1, <1>2, <1>3, <1>4, <2>2, <3>1
  <2>3. k <= Len(s) + Len(t) \/ k = Len(s) + Len(t) + 1
    BY <1>3
  <2> QED  BY <2>1, <2>2, <2>3
<1>6. two \o one \in Seq(S) /\ Len(two \o one) = Len(s) + Len(t) + 1
  BY <1>1, <1>2, <1>4
<1> QED  BY <1>5, <1>6 DEF two, one

LEMMA AppendAsFunction ==
    ASSUME NEW S, NEW s \in Seq(S), NEW e \in S, NEW m \in Nat, Len(s) = m,
           NEW f \in [1..(m + 1) -> S],
           \A k \in 1..(m + 1) : f[k] = IF k <= m THEN s[k] ELSE e
    PROVE  f = Append(s, e)
<1>1. f \in Seq(S) /\ Len(f) = m + 1
  OBVIOUS
<1>2. /\ Append(s, e) \in Seq(S) /\ Len(Append(s, e)) = m + 1
      /\ \A k \in 1..(m + 1) : f[k] = Append(s, e)[k]
  OBVIOUS
<1> QED  BY <1>1, <1>2, SeqEqual

\* The loop over whole words moves at least the bytes asked for.
LEMMA WordsReachTheEnd ==
    ASSUME NEW n \in Nat
    PROVE  0..(n - 1) \subseteq Moved(n)
<1> SUFFICES ASSUME NEW k \in 0..(n - 1) PROVE k \in WordOffsets(n)
  BY DEF Moved
<1>1. /\ k \div 4 \in 0..n /\ 4 * (k \div 4) < n
      /\ k \in (4 * (k \div 4))..(4 * (k \div 4) + 3)
  OBVIOUS
<1> QED  BY <1>1 DEF WordOffsets

\* The two tests of the window are the one of the byte memory.
LEMMA WindowTest ==
    ASSUME NEW addr \in Nat, NEW n \in Nat
    PROVE  /\ Device!Allowed(addr, n) <=> Accesses(addr, n)
           /\ Accesses(addr, n) <=> ~(pending_error \/ OutOfWindow(addr, n))
  BY MemAssumption DEF Device!Allowed, Accesses, OutOfWindow

\* What is moved is the area of the byte memory, and a fault cuts both at the
\* same unit.
LEMMA MovedIsArea ==
    ASSUME NEW addr \in Nat, NEW n \in Nat, Accesses(addr, n)
    PROVE  /\ Faults(addr, n) <=> ~Device!Fits(addr, n)
           /\ \A b \in Cells :
                 b - addr \in BeforeFault(addr, n) <=> b \in Device!Reached(addr, n)
<1>0. Cells \subseteq Nat
  BY MemAssumption
<1>1. CASE build = "words"
  <2> DEFINE w == 4 * ((n + 3) \div 4)
  <2>1. Moved(n) = 0..(w - 1) /\ Device!Area(addr, n) = addr..(addr + w - 1)
    BY <1>1, WordsMoved DEF Moved, Device!Area, Device!Whole
  <2>2. w \in Nat
    OBVIOUS
  <2> HIDE DEF w
  <2>3. \A a \in Int : a \in addr..(addr + w - 1) <=> a - addr \in 0..(w - 1)
    BY <2>2
  <2>4. \A j \in 0..(w - 1) : addr + j \in addr..(addr + w - 1) /\ (addr + j) - addr = j
    BY <2>2
  <2>5. Faults(addr, n) <=> ~Device!Fits(addr, n)
    <3>1. Faults(addr, n) => ~Device!Fits(addr, n)
      BY <2>1, <2>4 DEF Faults, Device!Fits
    <3>2. ASSUME NEW a \in addr..(addr + w - 1), a \notin Cells PROVE Faults(addr, n)
      <4>1. a - addr \in 0..(w - 1) /\ addr + (a - addr) = a
        BY <2>2
      <4> QED  BY <2>1, <3>2, <4>1 DEF Faults
    <3> QED  BY <2>1, <3>1, <3>2 DEF Device!Fits
  <2>6. ASSUME NEW b \in Cells
        PROVE  b - addr \in BeforeFault(addr, n) <=> b \in Device!Reached(addr, n)
    <3> DEFINE P(k) == \A j \in 0..(w - 1) : j \div 4 <= k \div 4 => addr + j \in Cells
               Q == \A a \in addr..(addr + w - 1) :
                       (a - addr) \div 4 <= (b - addr) \div 4 => a \in Cells
    <3>1. b - addr \in BeforeFault(addr, n) <=> b - addr \in 0..(w - 1) /\ P(b - addr)
      BY <2>1 DEF BeforeFault
    <3>2. b \in Device!Reached(addr, n) <=> b \in addr..(addr + w - 1) /\ Q
      BY <1>1, <2>1 DEF Device!Reached
    <3>3. b - addr \in 0..(w - 1) <=> b \in addr..(addr + w - 1)
      BY <1>0, <2>3
    <3>4. P(b - addr) => Q
      <4> SUFFICES ASSUME P(b - addr), NEW a \in addr..(addr + w - 1),
                          (a - addr) \div 4 <= (b - addr) \div 4
                   PROVE  a \in Cells
        OBVIOUS
      <4>1. a - addr \in 0..(w - 1) /\ addr + (a - addr) = a
        BY <2>2
      <4> QED  BY <4>1
    <3>5. Q => P(b - addr)
      BY <2>4
    <3> QED  BY <3>1, <3>2, <3>3, <3>4, <3>5
  <2> QED  BY <2>5, <2>6
<1>2. CASE build # "words"
  <2>1. Moved(n) = 0..(n - 1) /\ Device!Area(addr, n) = addr..(addr + n - 1)
    BY <1>2 DEF Moved, Device!Area, Device!Whole
  <2>2. addr..(addr + n - 1) \subseteq Cells
    BY MemAssumption DEF Accesses, OutOfWindow
  <2>3. \A j \in 0..(n - 1) : addr + j \in Cells
    BY <2>2
  <2>4. ~Faults(addr, n) /\ Device!Fits(addr, n)
    BY <2>1, <2>2, <2>3 DEF Faults, Device!Fits
  <2>5. BeforeFault(addr, n) = 0..(n - 1)
    BY <2>1, <2>3 DEF BeforeFault
  <2>6. Device!Reached(addr, n) = addr..(addr + n - 1)
    BY <2>1, <2>2 DEF Device!Reached
  <2> QED  BY <1>0, <2>4, <2>5, <2>6
<1> QED  BY <1>1, <1>2

\* So a store leaves in the device what the byte memory says.
LEMMA StoreIsStored ==
    ASSUME NEW addr \in Nat, NEW n \in Nat, NEW payload, Accesses(addr, n)
    PROVE  Store(addr, n, payload) <=> mem' = Device!Stored(addr, n, payload)
  BY MovedIsArea DEF Store, Device!Stored

LEMMA ReplyInvInit == ASSUME Init PROVE ReplyInv
<1>1. mem = [b \in Cells |-> mem[b]]
  BY MemAssumption DEF Init
<1>2. DOMAIN reply_buf = 0..(ReplyMax - 1) /\ reply_len \in 0..ReplyMax
  BY MemAssumption DEF Init
<1> QED  BY <1>1, <1>2 DEF Init, ReplyInv

LEMMA ReplyInvStep == ASSUME ReplyInv, [Next]_vars PROVE ReplyInv'
<1> USE MemAssumption DEF ReplyInv
<1>1. ASSUME NEW addr \in Addresses, NEW n \in ReadCounts, Mrd(addr, n)
      PROVE  ReplyInv'
  <2>1. n \in Nat /\ reply_len + n < ReplyMax
    BY <1>1 DEF Mrd, Room
  <2>2. DOMAIN reply_buf' = 0..(ReplyMax - 1)
    BY <1>1 DEF Mrd, ReplyStatus, Blank, Load
  <2>3. pending_error' \in BOOLEAN
    BY <1>1 DEF Mrd, OutOfWindow
  <2> QED  BY <1>1, <2>1, <2>2, <2>3 DEF Mrd, setting
<1>2. ASSUME NEW addr \in Addresses, NEW n \in WriteCounts,
             NEW payload \in Payloads, Mwr(addr, n, payload)
      PROVE  ReplyInv'
  <2>1. mem' = [b \in Cells |-> mem'[b]]
    BY <1>2 DEF Mwr, Store
  <2>2. reply_len + 1 \in 0..ReplyMax
    BY <1>2 DEF Mwr, Room
  <2>3. DOMAIN reply_buf' = 0..(ReplyMax - 1)
    BY <1>2 DEF Mwr, ReplyStatus
  <2>4. pending_error' \in BOOLEAN
    BY <1>2 DEF Mwr, OutOfWindow
  <2> QED  BY <1>2, <2>1, <2>2, <2>3, <2>4 DEF Mwr, setting
<1>4. ASSUME NEW addr \in Addresses, NEW n \in WriteCounts,
             NEW payload \in Payloads, MwrFaults(addr, n, payload)
      PROVE  ReplyInv'
  <2>1. mem' = [b \in Cells |-> mem'[b]]
    BY <1>4 DEF MwrFaults, Store
  <2> QED  BY <1>4, <2>1 DEF MwrFaults
<1>5. ASSUME NEW addr \in Addresses, NEW n \in ReadCounts, MrdFaults(addr, n)
      PROVE  ReplyInv'
  BY <1>5 DEF MrdFaults
<1>3. CASE \/ Accept \/ MapFails \/ CloseConnection \/ CollectError \/ Send
           \/ Stopped \/ UNCHANGED vars
  <2>1. /\ UNCHANGED <<build, mem, reply_buf>>
        /\ reply_len' = 0 \/ reply_len' = reply_len
        /\ pending_error' = FALSE \/ pending_error' = pending_error
    BY <1>3 DEF Accept, MapFails, CloseConnection, CollectError, Send, Stopped,
                setting, vars
  <2>2. mem' = [b \in Cells |-> mem'[b]] /\ DOMAIN reply_buf' = 0..(ReplyMax - 1)
    BY <2>1
  <2>3. reply_len' \in 0..ReplyMax
    BY <2>1
  <2>4. pending_error' \in BOOLEAN
    BY <2>1, Zenon
  <2> QED  BY <2>1, <2>2, <2>3, <2>4
<1> QED  BY <1>1, <1>2, <1>3, <1>4, <1>5 DEF Next

\* A load puts the bytes asked for behind the batch and the status byte behind
\* them; what the last word stored too much is under the status byte or later.
LEMMA ReadIsRead ==
    ASSUME ReplyInv, NEW addr \in Addresses, NEW n \in ReadCounts, Mrd(addr, n)
    PROVE  Device!Read(addr, n)
<1>1. /\ n \in Nat /\ addr \in Nat /\ reply_len \in Nat
      /\ reply_len + n < ReplyMax /\ ReplyMax \in Nat
      /\ DOMAIN reply_buf = 0..(ReplyMax - 1)
  BY MemAssumption DEF ReplyInv, Mrd, Room
<1>2. pending_error' = ~Device!Allowed(addr, n) /\ pending_error' \in BOOLEAN
  <2>1. pending_error' = (pending_error \/ OutOfWindow(addr, n))
    BY DEF Mrd
  <2> QED  BY <1>1, <2>1, WindowTest
<1>3. ~pending_error' => addr \in Nat /\ \A k \in 0..(n - 1) : addr + k \in Cells
  <2>1. ASSUME NEW k \in 0..(n - 1), ~pending_error' PROVE addr + k \in Cells
    <3>1. addr \in Base..(Base + Size - n) /\ Base \in Nat /\ Size \in Nat
      BY <1>2, <2>1, MemAssumption DEF Device!Allowed
    <3>2. addr + k \in Base..(Base + Size - 1)
      BY <1>1, <3>1
    <3> QED  BY <3>2, MemAssumption
  <2> QED  BY <1>1, <2>1
<1> DEFINE status == Device!Status(pending_error')
           data == [k \in 1..n |-> IF pending_error' THEN 0 ELSE mem[addr + k - 1]]
           out == [k \in 1..reply_len |-> reply_buf[k - 1]]
           all == [k \in 1..(reply_len + n + 1) |-> reply_buf'[k - 1]]
           Values == {reply_buf[k] : k \in 0..(ReplyMax - 1)}
                       \cup {mem[b] : b \in Cells} \cup {0, status}
           filled == IF pending_error' THEN Blank(reply_buf, n) ELSE Load(addr, n)
<1>4. reply_buf' = [filled EXCEPT ![reply_len + n] = status]
  BY DEF Mrd, ReplyStatus, Device!Status
<1>5. DOMAIN filled = 0..(ReplyMax - 1)
  BY <1>1 DEF Blank, Load
<1>6. ASSUME NEW k \in 0..(reply_len - 1) PROVE filled[k] = reply_buf[k]
  <2>1. k - reply_len \notin Moved(n) /\ k - reply_len \notin 0..(n - 1)
        /\ k \in DOMAIN reply_buf
    BY <1>1 DEF Moved, WordOffsets
  <2> QED  BY <2>1 DEF Blank, Load
<1>7. ASSUME NEW k \in 0..(n - 1)
      PROVE  filled[reply_len + k] = IF pending_error' THEN 0 ELSE mem[addr + k]
  <2>1. k \in Moved(n) /\ reply_len + k \in DOMAIN reply_buf
        /\ (reply_len + k) - reply_len = k
        /\ addr + (reply_len + k) - reply_len = addr + k
    BY <1>1, WordsReachTheEnd
  <2>2. Blank(reply_buf, n)[reply_len + k] = 0
    BY <2>1 DEF Blank
  <2>3. Load(addr, n)[reply_len + k] = mem[addr + k]
    BY <2>1 DEF Load
  <2> QED  BY <2>2, <2>3
<1> HIDE DEF filled
<1>8. /\ out \in Seq(Values) /\ Len(out) = reply_len
      /\ data \in Seq(Values) /\ Len(data) = n
      /\ status \in Values
  <2>1. ASSUME NEW k \in 1..reply_len PROVE out[k] \in Values
    <3>1. k - 1 \in 0..(ReplyMax - 1)
      BY <1>1
    <3> QED  BY <3>1
  <2>2. ASSUME NEW k \in 1..n PROVE data[k] \in Values
    <3>1. k - 1 \in 0..(n - 1) /\ addr + (k - 1) = addr + k - 1
      BY <1>1
    <3>2. ~pending_error' => addr + k - 1 \in Cells
      BY <1>3, <3>1
    <3> QED  BY <3>2
  <2>3. status \in Values
    OBVIOUS
  <2> HIDE DEF Values, status
  <2>4. out \in [1..reply_len -> Values] /\ data \in [1..n -> Values]
    BY <2>1, <2>2
  <2> HIDE DEF out, data
  <2> QED  BY <1>1, <2>3, <2>4
<1>9. all = out \o data \o <<status>>
  <2>1. ASSUME NEW k \in 1..(reply_len + n + 1)
        PROVE  all[k] = IF k <= reply_len THEN out[k]
                        ELSE IF k <= reply_len + n THEN data[k - reply_len]
                        ELSE status
    <3>1. all[k] = [filled EXCEPT ![reply_len + n] = status][k - 1]
      BY <1>4
    <3>2. CASE k <= reply_len
      <4>1. k - 1 \in 0..(reply_len - 1) /\ k - 1 # reply_len + n
            /\ k - 1 \in 0..(ReplyMax - 1)
        BY <1>1, <3>2
      <4>2. all[k] = filled[k - 1]
        BY <1>5, <3>1, <4>1
      <4> QED  BY <1>6, <3>2, <4>1, <4>2
    <3>3. CASE k > reply_len /\ k <= reply_len + n
      <4>1. /\ k - 1 - reply_len \in 0..(n - 1) /\ k - 1 # reply_len + n
            /\ k - 1 \in 0..(ReplyMax - 1) /\ k - reply_len \in 1..n
            /\ reply_len + (k - 1 - reply_len) = k - 1
            /\ addr + (k - 1 - reply_len) = addr + (k - reply_len) - 1
            /\ ~(k <= reply_len)
        BY <1>1, <3>3
      <4>2. all[k] = filled[k - 1]
        BY <1>5, <3>1, <4>1
      <4>3. filled[k - 1] = IF pending_error' THEN 0 ELSE mem[addr + (k - reply_len) - 1]
        BY <1>7, <4>1
      <4> QED  BY <3>3, <4>1, <4>2, <4>3
    <3>4. CASE k = reply_len + n + 1
      <4>1. k - 1 = reply_len + n /\ k - 1 \in 0..(ReplyMax - 1)
            /\ ~(k <= reply_len) /\ ~(k <= reply_len + n)
        BY <1>1, <3>4
      <4>2. all[k] = status
        BY <1>5, <3>1, <4>1
      <4> QED  BY <4>1, <4>2
    <3>5. \/ k <= reply_len
          \/ k > reply_len /\ k <= reply_len + n
          \/ k = reply_len + n + 1
      BY <1>1
    <3> QED  BY <3>2, <3>3, <3>4, <3>5
  <2>0. all = [k \in 1..(reply_len + n + 1) |-> all[k]]
    OBVIOUS
  <2> HIDE DEF out, data, status, Values, all
  <2>2. ASSUME NEW k \in 1..(reply_len + n + 1) PROVE all[k] \in Values
    <3>1. CASE k <= reply_len
      <4>1. k \in 1..Len(out)
        BY <1>1, <1>8, <3>1
      <4>2. out[k] \in Values
        BY <1>8, <4>1, ElementOfSeq
      <4> QED  BY <2>1, <3>1, <4>2
    <3>2. CASE k > reply_len /\ k <= reply_len + n
      <4>1. k - reply_len \in 1..Len(data) /\ ~(k <= reply_len)
        BY <1>1, <1>8, <3>2
      <4>2. data[k - reply_len] \in Values
        BY <1>8, <4>1, ElementOfSeq
      <4> QED  BY <2>1, <3>2, <4>1, <4>2
    <3>3. CASE k > reply_len + n
      <4>1. ~(k <= reply_len) /\ ~(k <= reply_len + n)
        BY <1>1, <3>3
      <4> QED  BY <1>8, <2>1, <4>1
    <3> QED  BY <1>1, <3>1, <3>2, <3>3
  <2>3. all \in [1..(reply_len + n + 1) -> Values]
    BY <2>0, <2>2
  <2>4. all \in Seq(Values) /\ Len(all) = reply_len + n + 1
    BY <1>1, <2>3
  <2>5. /\ out \o data \o <<status>> \in Seq(Values)
        /\ Len(out \o data \o <<status>>) = reply_len + n + 1
        /\ \A k \in 1..(reply_len + n + 1) :
              (out \o data \o <<status>>)[k] =
                 IF k <= reply_len THEN out[k]
                 ELSE IF k <= reply_len + n THEN data[k - reply_len] ELSE status
    BY <1>8, ThreeParts
  <2> QED  BY <2>1, <2>4, <2>5, SeqEqual
<1>10. /\ reply_len' = reply_len + n + 1 /\ mem' = mem
       /\ port = "open" /\ build' = build /\ port' = port
  BY DEF Mrd, setting
<1> QED  BY <1>2, <1>9, <1>10 DEF Device!Read

\* A store changes exactly the bytes asked for, and the batch gets a status.
LEMMA WriteIsWrite ==
    ASSUME ReplyInv, NEW addr \in Addresses, NEW n \in WriteCounts, NEW payload,
           Mwr(addr, n, payload)
    PROVE  Device!Write(addr, n, payload)
<1>1. /\ n \in Nat /\ addr \in Nat /\ reply_len \in Nat /\ reply_len < ReplyMax
      /\ ReplyMax \in Nat /\ DOMAIN reply_buf = 0..(ReplyMax - 1)
      /\ build \in Builds
  BY MemAssumption DEF ReplyInv, Mwr, Room
<1>2. pending_error' = ~Device!Allowed(addr, n) /\ pending_error' \in BOOLEAN
  <2>1. pending_error' = (pending_error \/ OutOfWindow(addr, n))
    BY DEF Mwr
  <2> QED  BY <1>1, <2>1, WindowTest
<1>3. Device!Allowed(addr, n) => Device!Fits(addr, n)
  BY <1>1, WindowTest, MovedIsArea DEF Mwr
<1>4. mem' = IF Device!Allowed(addr, n) THEN Device!Stored(addr, n, payload) ELSE mem
  <2>1. CASE Device!Allowed(addr, n)
    <3>1. Store(addr, n, payload)
      BY <1>2, <2>1 DEF Mwr
    <3> QED  BY <1>1, <2>1, <3>1, WindowTest, StoreIsStored
  <2>2. CASE ~Device!Allowed(addr, n)
    BY <1>2, <2>2 DEF Mwr
  <2> QED  BY <2>1, <2>2
<1> DEFINE status == Device!Status(pending_error')
           out == [k \in 1..reply_len |-> reply_buf[k - 1]]
           all == [k \in 1..(reply_len + 1) |-> reply_buf'[k - 1]]
           Values == {reply_buf[k] : k \in 0..(ReplyMax - 1)} \cup {status}
<1>5. reply_buf' = [reply_buf EXCEPT ![reply_len] = status]
  BY DEF Mwr, ReplyStatus, Device!Status
<1>6. out \in Seq(Values) /\ Len(out) = reply_len /\ status \in Values
  <2>1. ASSUME NEW k \in 1..reply_len PROVE out[k] \in Values
    <3>1. k - 1 \in 0..(ReplyMax - 1)
      BY <1>1
    <3> QED  BY <3>1
  <2>2. status \in Values
    OBVIOUS
  <2> HIDE DEF Values, status
  <2>3. out \in [1..reply_len -> Values]
    BY <2>1
  <2> HIDE DEF out
  <2> QED  BY <1>1, <2>2, <2>3
<1>7. all = Append(out, status)
  <2>1. ASSUME NEW k \in 1..(reply_len + 1)
        PROVE  all[k] = IF k <= reply_len THEN out[k] ELSE status
    <3>1. k - 1 \in 0..(ReplyMax - 1) /\ (k <= reply_len <=> k - 1 # reply_len)
          /\ (k <= reply_len => k \in 1..reply_len)
      BY <1>1
    <3> QED  BY <1>1, <1>5, <3>1
  <2>0. all = [k \in 1..(reply_len + 1) |-> all[k]]
    OBVIOUS
  <2> HIDE DEF Values, status, out, all
  <2>2. ASSUME NEW k \in 1..(reply_len + 1) PROVE all[k] \in Values
    <3>1. CASE k <= reply_len
      <4>1. k \in 1..Len(out)
        BY <1>1, <1>6, <3>1
      <4>2. out[k] \in Values
        BY <1>6, <4>1, ElementOfSeq
      <4> QED  BY <2>1, <3>1, <4>2
    <3>2. CASE k > reply_len
      <4>1. ~(k <= reply_len)
        BY <1>1, <3>2
      <4> QED  BY <1>6, <2>1, <4>1
    <3> QED  BY <1>1, <3>1, <3>2
  <2>3. all \in [1..(reply_len + 1) -> Values]
    BY <2>0, <2>2
  <2> QED  BY <1>1, <1>6, <2>1, <2>3, AppendAsFunction
<1>8. /\ reply_len' = reply_len + 1
      /\ port = "open" /\ build' = build /\ port' = port
  BY DEF Mwr, setting
<1> QED  BY <1>2, <1>3, <1>4, <1>7, <1>8 DEF Device!Write

\* A store that faults is the end of the byte memory.
LEMMA FaultIsRunOff ==
    ASSUME ReplyInv, NEW addr \in Addresses, NEW n \in WriteCounts, NEW payload,
           MwrFaults(addr, n, payload)
    PROVE  Device!RunOff(addr, n, payload)
<1>1. addr \in Nat /\ n \in Nat
  BY MemAssumption
<1>2. /\ Accesses(addr, n) /\ Faults(addr, n) /\ Store(addr, n, payload)
      /\ port = "open" /\ port' = "exited"
      /\ UNCHANGED <<build, pending_error, reply_buf, reply_len>>
  BY DEF MwrFaults
<1>3. /\ Device!Allowed(addr, n) /\ ~Device!Fits(addr, n)
      /\ mem' = Device!Stored(addr, n, payload)
  BY <1>1, <1>2, WindowTest, MovedIsArea, StoreIsStored
<1> QED  BY <1>2, <1>3 DEF Device!RunOff

\* Both builds implement a byte memory, written in bytes or in words: every mrd:
\* and mwr: acts on the memory it names, in a batch of any length, whatever the
\* counts; no connection inherits an error or a reply.
THEOREM MemoryIsByteMemory == Spec => ImplementsByteMemory
<1>1. Init => Device!Init
  BY DEF Init, Builds, Device!Init
<1>2. ASSUME ReplyInv, [Next]_vars PROVE [Device!Next]_(Device!vars)
  <2>1. ASSUME NEW addr \in Addresses, NEW n \in ReadCounts, Mrd(addr, n)
        PROVE  Device!Next
    BY <1>2, <2>1, ReadIsRead DEF Device!Next
  <2>2. ASSUME NEW addr \in Addresses, NEW n \in WriteCounts,
               NEW payload \in Payloads, Mwr(addr, n, payload)
        PROVE  Device!Next
    BY <1>2, <2>2, WriteIsWrite DEF Device!Next
  <2>3. ASSUME NEW addr \in Addresses, NEW n \in WriteCounts,
               NEW payload \in Payloads, MwrFaults(addr, n, payload)
        PROVE  Device!Next
    BY <1>2, <2>3, FaultIsRunOff DEF Device!Next
  <2>4. ASSUME NEW addr \in Addresses, NEW n \in ReadCounts, MrdFaults(addr, n)
        PROVE  Device!Next
    BY <2>4 DEF MrdFaults, Device!Next, Device!Down
  <2>5. CASE Accept
    BY <2>5 DEF Accept, Device!Next, Device!Connect
  <2>6. CASE MapFails
    BY <2>6 DEF MapFails, Device!Next, Device!Down
  <2>7. CASE CollectError
    BY <2>7 DEF CollectError, setting, Device!Next, Device!Collect
  <2>8. CASE Send
    BY <1>2, <2>8 DEF Send, setting, ReplyInv, Device!Next, Device!Deliver
  <2>9. CASE CloseConnection \/ Stopped \/ UNCHANGED vars
    BY <2>9 DEF CloseConnection, Stopped, setting, vars, Device!vars
  <2> QED  BY <1>2, <2>1, <2>2, <2>3, <2>4, <2>5, <2>6, <2>7, <2>8, <2>9 DEF Next
<1> QED  BY <1>1, <1>2, ReplyInvInit, ReplyInvStep, PTL
         DEF Spec, ImplementsByteMemory, Device!Spec
=============================================================================
