------------------------------ MODULE XvcDriver ------------------------------
(***************************************************************************)
(* The shift ioctl of jtag/zynqMP/src/driver: char_ctrl_ioctl,             *)
(* xil_xvc_ioctl and xil_xvc_shift_bits.  Several processes (xvcServer,    *)
(* verify_xilinx_xvc_driver) call it on one device file; the registers of  *)
(* the debug bridge are shared and the bridge shifts a word on its own.    *)
(* The bridge is external: a write that sets bit 0 of its control register *)
(* starts a word of LENGTH bits and the bit is clear when the word is      *)
(* done; a write that clears the bit ends what was running.                *)
(*                                                                         *)
(* Vectors hold the places of their bits; 0 is a bit that is in no vector. *)
(* Lengths are those for which (num_bits + 7) / 8 is the size of a vector: *)
(* a num_bits of more than 2^32 - 8, which a negative <num bits> of -1 to  *)
(* -7 becomes (xvcServer.c:160 lets it pass), wraps to no bytes at         *)
(* xvc_driver.c:102, and what the call then does is not defined.           *)
(***************************************************************************)
EXTENDS Integers, Sequences

CONSTANTS Users,     \* processes with the device open
          NoUser,    \* none of them
          WordBits,  \* 32
          Lengths    \* values of <num bits>

ASSUME DriverAssumption ==
    /\ WordBits \in Nat \ {0}
    /\ Lengths \subseteq Nat
    /\ NoUser \notin Users

\* Opcodes: 1 shifts through the JTAG chain, 2 through the loopback; 0 stands
\* for every other number a caller may give.
Opcodes == {1, 2}
Codes == Opcodes \cup {0}

VARIABLES
    lock,                    \* i_lock of the inode
    pc, op, num_bits,        \* the call of each process: where it is, its
    current_bit, tdo_buf,    \*   arguments and its local variables
    control, length,         \* registers of the bridge; control without bit 0
    tms, tdi, tdo,
    shifting,                \* bit 0 of the control register
    begun,                   \* the shift begun last: op and num_bits;
    clocked,                 \*   the TCKs since then
    answer                   \* of the last call that ended, see BitShift

locals == <<pc, op, num_bits, current_bit, tdo_buf>>
bridge == <<control, length, tms, tdi, tdo, shifting>>
vars == <<lock, locals, bridge, begun, clocked, answer>>

Failed == <<FALSE, <<>>>>
Nothing == <<TRUE, <<>>>>
Blank == [i \in 1..WordBits |-> 0]

Init ==
    /\ lock = NoUser
    /\ pc = [u \in Users |-> "out"] /\ op = [u \in Users |-> 1]
    /\ num_bits = [u \in Users |-> 0] /\ current_bit = [u \in Users |-> 0]
    /\ tdo_buf = [u \in Users |-> <<>>]
    /\ control = 1 /\ length = 0 /\ tms = Blank /\ tdi = Blank /\ tdo = Blank
    /\ shifting = FALSE
    /\ begun \in [mode : {1}, bits : {0}] /\ clocked = <<>> /\ answer = <<>>

At(u, from, to) == pc[u] = from /\ pc' = [pc EXCEPT ![u] = to]

-----------------------------------------------------------------------------
(* char_ctrl_ioctl takes the spin lock around the whole call. *)

MayEnter_Unlocked == TRUE
MayEnter == lock = NoUser

Enter(u, o, n) ==
    /\ MayEnter
    /\ At(u, "out", "prepare")
    /\ lock' = u
    /\ op' = [op EXCEPT ![u] = o]
    /\ num_bits' = [num_bits EXCEPT ![u] = n]
    /\ current_bit' = [current_bit EXCEPT ![u] = 0]
    /\ tdo_buf' = [tdo_buf EXCEPT ![u] = [i \in 1..n |-> 0]]
    /\ UNCHANGED <<bridge, begun, clocked, answer>>

Leave(u, from, result) ==
    /\ At(u, from, "out")
    /\ lock' = NoUser
    /\ answer' = result
    /\ UNCHANGED <<op, num_bits, current_bit, tdo_buf, bridge, begun, clocked>>

\* One of the buffers cannot be allocated, or not be read.
NoMemory(u) == Leave(u, "prepare", Failed)

\* "Invalid operation type, no operation performed", and success.
NoOperation(u) == op[u] \notin Opcodes /\ Leave(u, "prepare", Nothing)

-----------------------------------------------------------------------------
(* xil_xvc_ioctl: the control register, then a word at a time.  A call that *)
(* timed out may have left the bridge shifting: what it clocks until the    *)
(* control register is written is still that call's.                        *)

Prepare(u) ==
    /\ op[u] \in Opcodes
    /\ At(u, "prepare", "word")
    /\ control' = op[u] /\ shifting' = FALSE
    /\ length' = IF num_bits[u] >= WordBits THEN WordBits ELSE length
    /\ begun' = [mode |-> op[u], bits |-> num_bits[u]]
    /\ clocked' = <<>> /\ answer' = <<>>
    /\ UNCHANGED <<lock, op, num_bits, current_bit, tdo_buf, tms, tdi, tdo>>

Remaining(u) == num_bits[u] - current_bit[u]
WordLength(u) == IF Remaining(u) < WordBits THEN Remaining(u) ELSE WordBits
\* The vector from current_bit on, with zeros after its end.
WordAt(u) == [i \in 1..WordBits |->
                IF current_bit[u] + i <= num_bits[u] THEN current_bit[u] + i ELSE 0]

\* LENGTH is written again only for a last word that is not whole.
Load_StaleLength(u) ==
    /\ current_bit[u] < num_bits[u]
    /\ At(u, "word", "start")
    /\ length' = length
    /\ tms' = WordAt(u) /\ tdi' = WordAt(u)
    /\ UNCHANGED <<lock, op, num_bits, current_bit, tdo_buf, control, tdo,
                   shifting, begun, clocked, answer>>
Load(u) ==
    /\ current_bit[u] < num_bits[u]
    /\ At(u, "word", "start")
    /\ length' = IF Remaining(u) < WordBits THEN Remaining(u) ELSE length
    /\ tms' = WordAt(u) /\ tdi' = WordAt(u)
    /\ UNCHANGED <<lock, op, num_bits, current_bit, tdo_buf, control, tdo,
                   shifting, begun, clocked, answer>>

Start(u) ==
    /\ At(u, "start", "poll")
    /\ shifting' = TRUE
    /\ UNCHANGED <<lock, op, num_bits, current_bit, tdo_buf, control, length,
                   tms, tdi, tdo, begun, clocked, answer>>

\* The bit is clear at one of the 100 reads of the control register.
Collect(u) ==
    /\ ~shifting
    /\ At(u, "poll", "word")
    /\ tdo_buf' = [tdo_buf EXCEPT ![u] =
          [i \in 1..num_bits[u] |->
              IF current_bit[u] < i /\ i <= current_bit[u] + WordLength(u)
              THEN tdo[i - current_bit[u]] ELSE tdo_buf[u][i]]]
    /\ current_bit' = [current_bit EXCEPT ![u] = current_bit[u] + WordLength(u)]
    /\ UNCHANGED <<lock, op, num_bits, bridge, begun, clocked, answer>>

\* It is set at all of them.
TimedOut_Uncounted(u) == shifting /\ pc[u] = "poll" /\ UNCHANGED vars
TimedOut(u) == shifting /\ Leave(u, "poll", Failed)

\* copy_to_user and the end of the call.
CopyOut(u) == current_bit[u] = num_bits[u] /\ Leave(u, "word", <<TRUE, tdo_buf[u]>>)
CopyOutFails(u) == current_bit[u] = num_bits[u] /\ Leave(u, "word", Failed)

-----------------------------------------------------------------------------
\* The bridge shifts a word.
Shift ==
    /\ shifting
    /\ shifting' = FALSE
    /\ clocked' = [i \in 1..(Len(clocked) + length) |->
          IF i <= Len(clocked) THEN clocked[i]
          ELSE <<control, tms[i - Len(clocked)], tdi[i - Len(clocked)]>>]
    /\ tdo' = [i \in 1..WordBits |->
          IF i > length THEN 0
          ELSE IF control = 2 THEN tdi[i] ELSE Len(clocked) + i]
    /\ UNCHANGED <<lock, locals, control, length, tms, tdi, begun, answer>>

-----------------------------------------------------------------------------
Call(u) == \/ NoMemory(u) \/ NoOperation(u) \/ Prepare(u) \/ Load(u) \/ Start(u)
           \/ Collect(u) \/ TimedOut(u) \/ CopyOut(u) \/ CopyOutFails(u)

Next == \/ \E u \in Users : Call(u)
        \/ \E u \in Users, o \in Codes, n \in Lengths : Enter(u, o, n)
        \/ Shift

\* A call does not stop half way; the bridge may, which the time-out is for.
Fairness == \A u \in Users : WF_vars(Call(u))

Spec == Init /\ [][Next]_vars /\ Fairness

-----------------------------------------------------------------------------
(* Properties. *)

\* From the moment a call loads a word until it collects it or gives up, the
\* registers hold that word and its length, although they are written one by
\* one, LENGTH only when it changes (xvc_driver.c:138-156) and by every
\* process that has the device open.
WordInForce ==
    \A u \in Users : pc[u] \in {"start", "poll"} =>
        /\ control = op[u] /\ length = WordLength(u)
        /\ tms = WordAt(u) /\ tdi = WordAt(u)

\* The ioctl is a shift: its TCKs are its own bits in order, none twice and
\* none of another process or of an earlier call that timed out, and success
\* is answered with what TDO was at each of them; a call for no operation
\* clocks nothing.
Shifts == INSTANCE BitShift WITH
    Modes <- Opcodes,
    active <- lock # NoUser /\ pc[lock] # "prepare",
    mode <- begun.mode, bits <- begun.bits
ImplementsBitShift == Shifts!Spec

\* Every call returns, whether or not the bridge ever finishes a word: the
\* polling at xvc_driver.c:59-70 is bounded.
Returns == \A u \in Users : lock = u ~> lock # u
=============================================================================
