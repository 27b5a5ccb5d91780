--------------------------- MODULE XvcDriverProofs ---------------------------
(***************************************************************************)
(* Theorems about the shift ioctl for every set of processes, every width  *)
(* of a word and every number of bits.                                     *)
(***************************************************************************)
EXTENDS XvcDriver, TLAPS

Places == {"out", "prepare", "word", "start", "poll"}

TypeInv ==
    /\ lock \in Users \cup {NoUser}
    /\ pc \in [Users -> Places]
    /\ op \in [Users -> Codes]
    /\ num_bits \in [Users -> Nat]
    /\ current_bit \in [Users -> Nat]
    /\ tdo_buf \in [Users -> Seq(Nat)]
    /\ control \in Opcodes
    /\ length \in 0..WordBits
    /\ tms \in [1..WordBits -> Nat]
    /\ tdi \in [1..WordBits -> Nat]
    /\ tdo \in [1..WordBits -> Nat]
    /\ shifting \in BOOLEAN
    /\ begun \in [mode : Opcodes, bits : Nat]
    /\ clocked \in Seq(Opcodes \X Nat \X Nat)

\* The vector of n bits from the base-th on, as WordAt.
WordFrom(base, n) ==
    [i \in 1..WordBits |-> IF base + i <= n THEN base + i ELSE 0]
\* What the answer holds when its first done bits are collected.
Filled(done, n) == [i \in 1..n |-> IF i <= done THEN i ELSE 0]

\* A call is under way exactly while its process holds the spin lock.
LockHeld == \A u \in Users : pc[u] # "out" <=> lock = u

\* What the bridge shifts is the next word of the shift begun last, also when
\* the call that began it gave up; so what it clocked is a first part of it.
BridgeKeeps ==
    /\ Len(clocked) <= begun.bits
    /\ clocked = Shifts!Clocks(begun.mode, Len(clocked))
    /\ shifting =>
          /\ control = begun.mode
          /\ length >= 1
          /\ length <= begun.bits - Len(clocked)
          /\ tms = WordFrom(Len(clocked), begun.bits)
          /\ tdi = WordFrom(Len(clocked), begun.bits)

\* A call that has written the control register owns the bridge; LENGTH needs
\* writing only for a word that is not whole.
CallOwns(u) ==
    /\ begun = [mode |-> op[u], bits |-> num_bits[u]]
    /\ control = op[u]
    /\ current_bit[u] <= num_bits[u]
    /\ tdo_buf[u] = Filled(current_bit[u], num_bits[u])
    /\ pc[u] = "word" =>
          /\ ~shifting /\ Len(clocked) = current_bit[u]
          /\ Remaining(u) >= WordBits => length = WordBits
    /\ pc[u] \in {"start", "poll"} =>
          /\ current_bit[u] < num_bits[u]
          /\ length = WordLength(u) /\ tms = WordAt(u) /\ tdi = WordAt(u)
    /\ pc[u] = "start" => ~shifting /\ Len(clocked) = current_bit[u]
    /\ pc[u] = "poll" =>
          IF shifting THEN Len(clocked) = current_bit[u]
          ELSE /\ Len(clocked) = current_bit[u] + length
               /\ tdo = [i \in 1..WordBits |->
                           IF i > length THEN 0 ELSE current_bit[u] + i]

Inv ==
    /\ TypeInv
    /\ LockHeld
    /\ BridgeKeeps
    /\ \A u \in Users : pc[u] = "prepare" =>
          /\ num_bits[u] \in Lengths /\ current_bit[u] = 0
          /\ tdo_buf[u] = Filled(0, num_bits[u])
    /\ \A u \in Users : pc[u] \in {"word", "start", "poll"} => CallOwns(u)

-----------------------------------------------------------------------------
\* What the program counters allow: a process inside the call holds the lock
\* and every other is outside.
LEMMA HolderAlone ==
    ASSUME LockHeld, NEW u \in Users, pc[u] # "out"
    PROVE  lock = u /\ \A v \in Users \ {u} : pc[v] = "out"
  BY DEF LockHeld

\* The word a call loads is one of its vector, and never empty.
LEMMA WordIsPart ==
    ASSUME TypeInv, NEW u \in Users, current_bit[u] < num_bits[u]
    PROVE  /\ Remaining(u) \in Nat \ {0}
           /\ WordLength(u) \in 1..WordBits
           /\ WordLength(u) <= Remaining(u)
           /\ current_bit[u] + WordLength(u) \in Nat
           /\ current_bit[u] + WordLength(u) <= num_bits[u]
           /\ WordAt(u) = WordFrom(current_bit[u], num_bits[u])
           /\ WordAt(u) \in [1..WordBits -> Nat]
<1>1. /\ current_bit[u] \in Nat /\ num_bits[u] \in Nat
      /\ WordBits \in Nat \ {0}
  BY DriverAssumption DEF TypeInv
<1> QED  BY <1>1 DEF Remaining, WordLength, WordAt, WordFrom

\* The buffer of a partly collected answer is a vector.
LEMMA FilledIsVector ==
    ASSUME NEW done \in Nat, NEW n \in Nat
    PROVE  Filled(done, n) \in Seq(Nat)
<1>1. \A i \in 1..n : (IF i <= done THEN i ELSE 0) \in Nat
  OBVIOUS
<1> QED  BY <1>1 DEF Filled

\* The control register is written before the first word (Prepare); nothing
\* of the call before it is clocked from then on.
LEMMA InitKeeps == Init => Inv
<1> SUFFICES ASSUME Init PROVE Inv
  OBVIOUS
<1> USE DriverAssumption
<1>1. TypeInv
  <2>1. <<>> \in Seq(Nat) /\ <<>> \in Seq(Opcodes \X Nat \X Nat)
    OBVIOUS
  <2>2. /\ Blank \in [1..WordBits -> Nat] /\ 0 \in 0..WordBits
        /\ 1 \in Opcodes /\ 1 \in Codes
    BY DEF Blank, Opcodes, Codes
  <2>3. begun \in [mode : Opcodes, bits : Nat]
    BY DEF Init, Opcodes
  <2> QED  BY <2>1, <2>2, <2>3 DEF Init, TypeInv, Places
<1>2. LockHeld
  BY DEF Init, LockHeld
<1>3. BridgeKeeps
  BY DEF Init, BridgeKeeps, Shifts!Clocks
<1> QED  BY <1>1, <1>2, <1>3 DEF Init, Inv

-----------------------------------------------------------------------------
LEMMA StepKeeps == ASSUME Inv, Next PROVE Inv'
<1> USE DriverAssumption
<1>0. /\ TypeInv /\ LockHeld /\ BridgeKeeps
  BY DEF Inv
<1>1. ASSUME NEW u \in Users, NEW o \in Codes, NEW n \in Lengths, Enter(u, o, n)
      PROVE  Inv'
  <2>1. TypeInv'
    <3>1. n \in Nat /\ [i \in 1..n |-> 0] \in Seq(Nat)
      OBVIOUS
    <3> QED  BY <1>0, <1>1, <3>1 DEF TypeInv, Enter, At, Places, bridge
  <2>2. LockHeld'
    BY <1>0, <1>1 DEF TypeInv, LockHeld, Enter, MayEnter, At
  <2>3. BridgeKeeps'
    BY <1>0, <1>1 DEF BridgeKeeps, Enter, bridge
  <2>4. pc'[u] = "prepare" /\ \A v \in Users \ {u} : pc'[v] = "out"
    BY <1>0, <1>1 DEF TypeInv, LockHeld, Enter, MayEnter, At
  <2>5. /\ num_bits'[u] \in Lengths /\ current_bit'[u] = 0
        /\ tdo_buf'[u] = Filled(0, num_bits'[u])
    BY <1>0, <1>1 DEF TypeInv, Enter, Filled
  <2> QED  BY <2>1, <2>2, <2>3, <2>4, <2>5 DEF Inv
<1>2. ASSUME NEW u \in Users, NEW from \in Places \ {"out"}, NEW result,
             Leave(u, from, result)
      PROVE  Inv'
  <2>1. TypeInv'
    BY <1>0, <1>2 DEF TypeInv, Leave, At, Places, bridge
  <2>2. \A v \in Users : pc'[v] = "out"
    BY <1>0, <1>2, HolderAlone DEF TypeInv, Leave, At, Places
  <2>3. LockHeld'
    BY <1>2, <2>2 DEF LockHeld, Leave
  <2>4. BridgeKeeps'
    BY <1>0, <1>2 DEF BridgeKeeps, Leave, bridge
  <2> QED  BY <2>1, <2>2, <2>3, <2>4 DEF Inv
<1>3. ASSUME NEW u \in Users, Prepare(u) PROVE Inv'
  <2>1. TypeInv'
    <3>0. <<>> \in Seq(Opcodes \X Nat \X Nat)
      OBVIOUS
    <3>1. clocked' \in Seq(Opcodes \X Nat \X Nat) /\ shifting' \in BOOLEAN
      BY <1>3, <3>0, Zenon DEF Prepare
    <3>2. /\ control' \in Opcodes /\ length' \in 0..WordBits
          /\ begun' \in [mode : Opcodes, bits : Nat]
          /\ pc' \in [Users -> Places]
      BY <1>0, <1>3 DEF TypeInv, Prepare, At, Places
    <3> QED  BY <1>0, <1>3, <3>1, <3>2 DEF TypeInv, Prepare
  <2>2. pc'[u] = "word" /\ \A v \in Users \ {u} : pc'[v] = "out"
    BY <1>0, <1>3, HolderAlone DEF TypeInv, Prepare, At
  <2>3. LockHeld'
    BY <1>0, <1>3, <2>2, HolderAlone DEF LockHeld, Prepare, At
  <2>4. BridgeKeeps'
    BY <1>0, <1>3 DEF TypeInv, BridgeKeeps, Prepare, Shifts!Clocks
  <2>5. CallOwns(u)'
    BY <1>0, <1>3, <2>2 DEF Inv, TypeInv, CallOwns, Prepare, At, Remaining
  <2> QED  BY <2>1, <2>2, <2>3, <2>4, <2>5 DEF Inv
<1>4. ASSUME NEW u \in Users, Load(u) PROVE Inv'
  <2>0. /\ pc[u] = "word" /\ current_bit[u] < num_bits[u] /\ CallOwns(u)
        /\ current_bit[u] \in Nat /\ num_bits[u] \in Nat
    BY <1>0, <1>4 DEF Inv, TypeInv, Load, At
  <2>1. TypeInv'
    <3>1. Remaining(u) \in Nat /\ WordAt(u) \in [1..WordBits -> Nat]
      BY <1>0, <2>0, WordIsPart
    <3>2. length' \in 0..WordBits /\ pc' \in [Users -> Places]
      <4>1. /\ length' = IF Remaining(u) < WordBits THEN Remaining(u) ELSE length
            /\ pc' = [pc EXCEPT ![u] = "start"]
        BY <1>4 DEF Load, At
      <4>2. length \in 0..WordBits /\ WordBits \in Nat /\ pc \in [Users -> Places]
        BY <1>0, DriverAssumption DEF TypeInv
      <4>3. length' \in 0..WordBits
        BY <3>1, <4>1, <4>2
      <4>4. pc' \in [Users -> Places]
        BY <4>1, <4>2 DEF Places
      <4> QED  BY <4>3, <4>4
    <3>3. tms' \in [1..WordBits -> Nat] /\ tdi' \in [1..WordBits -> Nat]
      BY <1>4, <3>1 DEF Load
    <3>4. UNCHANGED <<lock, op, num_bits, current_bit, tdo_buf, control, tdo,
                      shifting, begun, clocked>>
      BY <1>4 DEF Load
    <3> QED  BY <1>0, <3>2, <3>3, <3>4 DEF TypeInv
  <2>2. pc'[u] = "start" /\ \A v \in Users \ {u} : pc'[v] = "out"
    BY <1>0, <1>4, <2>0, HolderAlone DEF TypeInv, Load, At
  <2>3. LockHeld'
    BY <1>0, <1>4, <2>0, <2>2, HolderAlone DEF LockHeld, Load
  <2>4. BridgeKeeps'
    BY <1>0, <1>4, <2>0 DEF BridgeKeeps, Load, CallOwns
  <2>5. length' = WordLength(u)
    BY <1>0, <1>4, <2>0 DEF TypeInv, Load, CallOwns, WordLength, Remaining
  <2>6. CallOwns(u)'
    BY <1>4, <2>0, <2>2, <2>5 DEF CallOwns, Load, WordLength, Remaining, WordAt
  <2> QED  BY <2>1, <2>2, <2>3, <2>4, <2>6 DEF Inv
<1>5. ASSUME NEW u \in Users, Start(u) PROVE Inv'
  <2>0. pc[u] = "start" /\ CallOwns(u)
    BY <1>5 DEF Inv, Start, At
  <2>1. TypeInv'
    BY <1>0, <1>5 DEF TypeInv, Start, At, Places
  <2>2. pc'[u] = "poll" /\ \A v \in Users \ {u} : pc'[v] = "out"
    BY <1>0, <1>5, <2>0, HolderAlone DEF TypeInv, Start, At
  <2>3. LockHeld'
    BY <1>0, <1>5, <2>0, <2>2, HolderAlone DEF LockHeld, Start
  <2>4. BridgeKeeps'
    <3>1. /\ begun.bits = num_bits[u] /\ begun.mode = op[u]
          /\ Len(clocked) = current_bit[u] /\ current_bit[u] < num_bits[u]
          /\ length = WordLength(u) /\ tms = WordAt(u) /\ tdi = WordAt(u)
          /\ control = op[u]
      BY <2>0 DEF CallOwns
    <3>2. /\ WordLength(u) \in 1..WordBits
          /\ WordLength(u) <= begun.bits - Len(clocked)
          /\ WordAt(u) = WordFrom(Len(clocked), begun.bits)
      BY <1>0, <3>1, WordIsPart DEF Remaining
    <3> QED  BY <1>0, <1>5, <3>1, <3>2 DEF BridgeKeeps, Start
  <2>5. CallOwns(u)'
    BY <1>5, <2>0, <2>2 DEF CallOwns, Start, WordLength, Remaining, WordAt
  <2> QED  BY <2>1, <2>2, <2>3, <2>4, <2>5 DEF Inv
<1>6. ASSUME NEW u \in Users, Collect(u) PROVE Inv'
  <2>0. /\ pc[u] = "poll" /\ ~shifting /\ CallOwns(u)
        /\ current_bit[u] < num_bits[u]
        /\ current_bit[u] \in Nat /\ num_bits[u] \in Nat
    BY <1>0, <1>6 DEF Inv, TypeInv, Collect, At, CallOwns
  <2> DEFINE done == current_bit[u] + WordLength(u)
  <2>1. /\ WordLength(u) \in 1..WordBits /\ done \in Nat /\ done <= num_bits[u]
        /\ WordLength(u) = Remaining(u) \/ WordLength(u) = WordBits
        /\ length = WordLength(u) /\ Len(clocked) = done
        /\ tdo = [i \in 1..WordBits |->
                           IF i > length THEN 0 ELSE current_bit[u] + i]
    BY <1>0, <2>0, WordIsPart DEF CallOwns, WordLength
  <2>2. current_bit'[u] = done
    BY <1>0, <1>6 DEF TypeInv, Collect
  <2>3. tdo_buf'[u] = Filled(done, num_bits[u])
    <3>1. tdo_buf'[u] = [i \in 1..num_bits[u] |->
              IF current_bit[u] < i /\ i <= done
              THEN tdo[i - current_bit[u]] ELSE tdo_buf[u][i]]
      BY <1>0, <1>6 DEF TypeInv, Collect
    <3>2. ASSUME NEW i \in 1..num_bits[u]
          PROVE  tdo_buf'[u][i] = IF i <= done THEN i ELSE 0
      <4>1. CASE current_bit[u] < i /\ i <= done
        <5>1. i - current_bit[u] \in 1..length
          BY <2>0, <2>1, <4>1
        <5> QED  BY <2>0, <2>1, <3>1, <4>1, <5>1
      <4>2. CASE ~(current_bit[u] < i /\ i <= done)
        <5>1. tdo_buf[u][i] = IF i <= current_bit[u] THEN i ELSE 0
          BY <2>0 DEF CallOwns, Filled
        <5> QED  BY <2>0, <2>1, <3>1, <4>2, <5>1
      <4> QED  BY <4>1, <4>2
    <3> QED  BY <3>1, <3>2 DEF Filled
  <2>4. TypeInv'
    <3>1. Filled(done, num_bits[u]) \in Seq(Nat)
      BY <2>0, <2>1, FilledIsVector
    <3>2. tdo_buf' = [tdo_buf EXCEPT ![u] = Filled(done, num_bits[u])]
      BY <1>0, <1>6, <2>3 DEF TypeInv, Collect
    <3>3. tdo_buf' \in [Users -> Seq(Nat)]
      BY <1>0, <3>1, <3>2 DEF TypeInv
    <3>4. current_bit' \in [Users -> Nat]
      <4>1. current_bit' = [current_bit EXCEPT ![u] = done]
        BY <1>6 DEF Collect
      <4>2. done \in Nat
        BY <2>1
      <4> QED  BY <1>0, <4>1, <4>2 DEF TypeInv
    <3>5. pc' \in [Users -> Places]
      BY <1>0, <1>6 DEF TypeInv, Collect, At, Places
    <3>6. UNCHANGED <<lock, op, num_bits, control, length, tms, tdi, tdo, shifting,
                      begun, clocked>>
      BY <1>6 DEF Collect, bridge
    <3> QED  BY <1>0, <3>3, <3>4, <3>5, <3>6 DEF TypeInv
  <2>5. pc'[u] = "word" /\ \A v \in Users \ {u} : pc'[v] = "out"
    BY <1>0, <1>6, <2>0, HolderAlone DEF TypeInv, Collect, At
  <2>6. LockHeld'
    BY <1>0, <1>6, <2>0, <2>5, HolderAlone DEF LockHeld, Collect
  <2>7. BridgeKeeps'
    BY <1>0, <1>6, <2>0 DEF BridgeKeeps, Collect, bridge
  <2>8. CallOwns(u)'
    <3>1. UNCHANGED <<op, num_bits, control, length, shifting, begun, clocked>>
      BY <1>6 DEF Collect, bridge
    <3>2. num_bits[u] - done >= WordBits => length = WordBits
      BY <2>0, <2>1 DEF Remaining
    <3> HIDE DEF done
    <3> QED  BY <2>0, <2>1, <2>2, <2>3, <2>5, <3>1, <3>2
             DEF CallOwns, Remaining
  <2> QED  BY <2>4, <2>5, <2>6, <2>7, <2>8 DEF Inv
<1>7. CASE Shift
  <2>1. /\ length \in 1..WordBits
        /\ length <= begun.bits - Len(clocked)
        /\ Len(clocked) \in Nat /\ begun.bits \in Nat
        /\ control = begun.mode /\ begun.mode \in Opcodes
        /\ tms = WordFrom(Len(clocked), begun.bits)
        /\ tdi = WordFrom(Len(clocked), begun.bits)
    BY <1>0, <1>7 DEF TypeInv, BridgeKeeps, Shift
  <2> DEFINE base == Len(clocked)
  <2>2. clocked' = Shifts!Clocks(begun.mode, base + length)
    <3>1. ASSUME NEW i \in 1..(base + length)
          PROVE  clocked'[i] = <<begun.mode, i, i>>
      <4>1. CASE i <= base
        <5>1. clocked[i] = <<begun.mode, i, i>>
          BY <1>0, <2>1, <4>1 DEF BridgeKeeps, Shifts!Clocks
        <5> QED  BY <1>7, <4>1, <5>1 DEF Shift
      <4>2. CASE i > base
        <5>1. i - base \in 1..WordBits /\ base + (i - base) <= begun.bits
          BY <2>1, <4>2
        <5>2. tms[i - base] = i /\ tdi[i - base] = i
          BY <2>1, <5>1 DEF WordFrom
        <5> QED  BY <1>7, <2>1, <4>2, <5>2 DEF Shift
      <4> QED  BY <2>1, <4>1, <4>2
    <3>2. clocked' = [i \in 1..(base + length) |-> clocked'[i]]
      BY <1>7 DEF Shift
    <3> QED  BY <3>1, <3>2 DEF Shifts!Clocks
  <2>3. Len(clocked') = base + length
    BY <2>1, <2>2 DEF Shifts!Clocks
  <2>4. tdo' = [i \in 1..WordBits |-> IF i > length THEN 0 ELSE base + i]
    <3>1. ASSUME NEW i \in 1..length PROVE tdi[i] = base + i
      BY <2>1 DEF WordFrom
    <3> QED  BY <1>7, <2>1, <3>1 DEF Shift
  <2>5. TypeInv'
    <3>1. tdo' \in [1..WordBits -> Nat]
      BY <2>1, <2>4
    <3>2. clocked' \in Seq(Opcodes \X Nat \X Nat)
      BY <2>1, <2>2 DEF Shifts!Clocks
    <3> QED  BY <1>0, <1>7, <3>1, <3>2 DEF TypeInv, Shift, locals
  <2>6. LockHeld'
    BY <1>0, <1>7 DEF LockHeld, Shift, locals
  <2>7. BridgeKeeps'
    <3>1. ~shifting' /\ begun' = begun /\ base + length <= begun.bits
      BY <1>7, <2>1 DEF Shift
    <3> HIDE DEF base
    <3> QED  BY <2>2, <2>3, <3>1 DEF BridgeKeeps
  <2>8. ASSUME NEW u \in Users, pc[u] \in {"word", "start", "poll"}
        PROVE  CallOwns(u)'
    <3>1. CallOwns(u) /\ shifting /\ pc[u] = "poll"
      BY <1>7, <2>8 DEF Inv, Shift, CallOwns
    <3>2. base = current_bit[u]
      BY <3>1 DEF CallOwns
    <3>3. ~shifting' /\ UNCHANGED <<pc, op, num_bits, current_bit, tdo_buf,
                                    control, length, tms, tdi, begun>>
      BY <1>7 DEF Shift, locals
    <3> HIDE DEF base
    <3> QED  BY <2>3, <2>4, <3>1, <3>2, <3>3
             DEF CallOwns, WordLength, Remaining, WordAt
  <2>9. ASSUME NEW u \in Users, pc[u] = "prepare"
        PROVE  (/\ num_bits[u] \in Lengths /\ current_bit[u] = 0
                /\ tdo_buf[u] = Filled(0, num_bits[u]))'
    BY <1>7, <2>9 DEF Inv, Shift, locals
  <2> QED  BY <1>7, <2>5, <2>6, <2>7, <2>8, <2>9 DEF Inv, Shift, locals
<1>8. ASSUME NEW u \in Users, Call(u) PROVE Inv'
  BY <1>2, <1>3, <1>4, <1>5, <1>6, <1>8
     DEF Call, NoMemory, NoOperation, TimedOut, CopyOut, CopyOutFails, Places
<1> QED  BY <1>1, <1>7, <1>8 DEF Next

LEMMA StutterKeeps == ASSUME Inv, UNCHANGED vars PROVE Inv'
  BY DEF Inv, TypeInv, LockHeld, BridgeKeeps, CallOwns, Remaining, WordLength,
         WordAt, vars, locals, bridge

\* TypeInv and the rest hold in every state of every run.
LEMMA InvHolds == Spec => []Inv
<1>1. Inv /\ [Next]_vars => Inv'
  BY StepKeeps, StutterKeeps
<1> QED  BY InitKeeps, <1>1, PTL DEF Spec

-----------------------------------------------------------------------------
\* The registers hold the word and the length of the call that is polling
\* (xvc_driver.c:138-156), for any number of processes, although LENGTH is
\* written only when it changes.
THEOREM WordStaysInForce == Spec => []WordInForce
<1>1. Inv => WordInForce
  BY DEF Inv, CallOwns, WordInForce
<1> QED  BY <1>1, InvHolds, PTL

-----------------------------------------------------------------------------
(* The ioctl implements a shift. *)

Active == lock # NoUser /\ pc[lock] # "prepare"

\* Nobody inside the call: no shift is being served.
LEMMA Idle ==
    ASSUME TypeInv, LockHeld, NEW u \in Users, pc[u] = "prepare"
    PROVE  ~Active
  BY DriverAssumption DEF TypeInv, LockHeld, Active

\* Taking the lock, writing the registers and reading the answer of the bridge
\* are no step of the shift.
LEMMA StepShifts ==
    ASSUME Inv, Inv', Next
    PROVE  Shifts!Next \/ UNCHANGED <<Active, begun.mode, begun.bits, clocked, answer>>
<1> USE DriverAssumption
<1>0. /\ TypeInv /\ LockHeld /\ BridgeKeeps
      /\ TypeInv' /\ LockHeld' /\ BridgeKeeps'
      /\ Active \in BOOLEAN /\ Active' \in BOOLEAN
  BY DEF Inv, Active
<1>1. ASSUME NEW u \in Users, NEW o \in Codes, NEW n \in Lengths, Enter(u, o, n)
      PROVE  UNCHANGED <<Active, begun.mode, begun.bits, clocked, answer>>
  <2>1. ~Active /\ ~Active'
    BY <1>0, <1>1 DEF Active, TypeInv, Enter, MayEnter, At
  <2>2. UNCHANGED <<begun, clocked, answer>> /\ Active' = Active
    BY <1>0, <1>1, <2>1 DEF Enter
  <2> QED  BY <2>2
<1>2. ASSUME NEW u \in Users, Prepare(u)
      PROVE  \E m \in Opcodes, n \in Lengths : Shifts!Begin(m, n)
  <2>1. ~Active /\ Active'
    BY <1>0, <1>2, Idle DEF Active, TypeInv, LockHeld, Prepare, At
  <2>2. op[u] \in Opcodes /\ num_bits[u] \in Lengths
    BY <1>0, <1>2 DEF Inv, TypeInv, Prepare, At
  <2>3. Shifts!Begin(op[u], num_bits[u])
    BY <1>2, <2>1 DEF Shifts!Begin, Prepare, Active
  <2> QED  BY <2>2, <2>3
<1>3. ASSUME NEW u \in Users, Load(u) \/ Start(u) \/ Collect(u)
      PROVE  UNCHANGED <<Active, begun.mode, begun.bits, clocked, answer>>
  <2>1. /\ pc[u] \in {"word", "start", "poll"}
        /\ pc'[u] \in {"word", "start", "poll"}
        /\ lock' = lock
    BY <1>0, <1>3 DEF TypeInv, Load, Start, Collect, At
  <2>2. Active /\ Active'
    BY <1>0, <2>1 DEF Active, LockHeld
  <2>3. UNCHANGED <<begun, clocked, answer>>
    BY <1>3 DEF Load, Start, Collect
  <2> QED  BY <2>2, <2>3
<1>4. ASSUME NEW u \in Users, NoMemory(u) PROVE Shifts!Refuse
  <2>1. ~Active /\ ~Active'
    BY <1>0, <1>4, Idle DEF Active, NoMemory, Leave, At
  <2> QED  BY <1>4, <2>1 DEF NoMemory, Leave, Shifts!Refuse, Active, Shifts!Failed, Failed
<1>10. ASSUME NEW u \in Users, NoOperation(u) PROVE Shifts!Ignore
  <2>1. ~Active /\ ~Active'
    BY <1>0, <1>10, Idle DEF Active, NoOperation, Leave, At
  <2> QED  BY <1>10, <2>1 DEF NoOperation, Leave, Shifts!Ignore, Active, Nothing
<1>5. ASSUME NEW u \in Users, NEW from \in {"word", "poll"}, NEW result,
             Leave(u, from, result)
      PROVE  Active /\ ~Active' /\ answer' = result /\ UNCHANGED <<begun, clocked>>
  BY <1>0, <1>5 DEF Active, LockHeld, Leave, At
<1>6. ASSUME NEW u \in Users, TimedOut(u) \/ CopyOutFails(u) PROVE Shifts!GiveUp
  BY <1>5, <1>6 DEF TimedOut, CopyOutFails, Shifts!GiveUp, Active, Shifts!Failed, Failed
<1>7. ASSUME NEW u \in Users, CopyOut(u) PROVE Shifts!Succeed
  <2>1. /\ Active /\ ~Active' /\ answer' = <<TRUE, tdo_buf[u]>>
        /\ UNCHANGED <<begun, clocked>>
    BY <1>5, <1>7 DEF CopyOut
  <2>2. /\ CallOwns(u) /\ pc[u] = "word" /\ current_bit[u] = num_bits[u]
        /\ num_bits[u] \in Nat
    BY <1>0, <1>7 DEF Inv, TypeInv, CopyOut, Leave, At
  <2>3. begun.bits = num_bits[u] /\ Len(clocked) = num_bits[u]
    BY <2>2 DEF CallOwns
  <2>4. clocked = Shifts!Clocks(begun.mode, begun.bits)
    BY <1>0, <2>3 DEF BridgeKeeps
  <2>5. tdo_buf[u] = Shifts!Places(begun.bits)
    BY <2>2, <2>3 DEF CallOwns, Filled, Shifts!Places
  <2> QED  BY <2>1, <2>4, <2>5 DEF Shifts!Succeed, Active
<1>8. CASE Shift
  <2>1. UNCHANGED <<Active, begun, answer>>
    BY <1>8 DEF Shift, Active, locals
  <2>2. clocked' = Shifts!Clocks(begun.mode, Len(clocked'))
    BY <1>0, <2>1 DEF BridgeKeeps
  <2>3. Len(clocked') \in (Len(clocked) + 1)..begun.bits
    <3>1. /\ Len(clocked) \in Nat /\ length \in Nat /\ begun.bits \in Nat
          /\ length >= 1
      BY <1>0, <1>8 DEF TypeInv, BridgeKeeps, Shift
    <3>2. Len(clocked') = Len(clocked) + length
      BY <1>8, <3>1 DEF Shift
    <3>3. Len(clocked') <= begun.bits
      BY <1>0, <2>1 DEF BridgeKeeps
    <3> QED  BY <3>1, <3>2, <3>3
  <2>4. Shifts!Clock
    BY <2>1, <2>2, <2>3 DEF Shifts!Clock, Active
  <2> QED  BY <2>4 DEF Shifts!Next
<1>9. ASSUME NEW u \in Users, Call(u)
      PROVE  Shifts!Next \/ UNCHANGED <<Active, begun.mode, begun.bits, clocked, answer>>
  BY <1>2, <1>3, <1>4, <1>6, <1>7, <1>9, <1>10 DEF Call, Shifts!Next
<1> QED  BY <1>1, <1>8, <1>9 DEF Next

\* For any number of processes the ioctl clocks the bits of its own vectors in
\* their order, none twice and none of a call that timed out before, and
\* answers success with what TDO was at each of them.
THEOREM IoctlIsAShift == Spec => ImplementsBitShift
<1>1. Init => Shifts!Init
  BY DEF Init, Shifts!Init, Opcodes
<1>2. Inv /\ Inv' /\ [Next]_vars => [Shifts!Next]_(Shifts!vars)
  <2>1. CASE UNCHANGED vars
    BY <2>1 DEF vars, locals, bridge, Shifts!vars
  <2> QED  BY StepShifts, <2>1 DEF Shifts!vars, Active
<1> QED  BY <1>1, <1>2, InvHolds, PTL DEF Spec, ImplementsBitShift, Shifts!Spec
=============================================================================
