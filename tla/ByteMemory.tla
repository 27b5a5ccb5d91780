----------------------------- MODULE ByteMemory -----------------------------
(***************************************************************************)
(* What mrd: and mwr: promise: a byte-addressed memory behind a window,    *)
(* written in units of one byte or of a word.  An access is admitted by    *)
(* the bytes it asks for; a write stores the whole units they begin, a     *)
(* read returns exactly the bytes asked for, an access that is not         *)
(* admitted stores nothing and leaves an error, and nothing is accessed    *)
(* while an error waits.  A write that runs off the memory is never        *)
(* answered: what is left of it are whole units, and the memory is gone.   *)
(* XvcMem is shown to implement this module.                               *)
(***************************************************************************)
EXTENDS Integers, Sequences

CONSTANTS Base, Size,   \* the window of the debug hub
          Cells,        \* byte addresses that exist, the window included
          InitialMem,   \* what the device may hold at first
          Addresses,    \* values of <address>
          ReadCounts, WriteCounts,  \* values of <num bytes>
          Payloads      \* what may follow the header of a mwr: in the buffer

VARIABLES unit,  \* bytes stored at once: 1 or 4
          up,    \* the memory is served
          mem,   \* contents of the device
          err,   \* an error waits to be collected
          out    \* bytes of the replies not yet sent

vars == <<unit, up, mem, err, out>>

Allowed(addr, n) == ~err /\ addr \in Base..(Base + Size - n)

\* The bytes stored by a write of n bytes, those before the first unit that is
\* not there, and whether that are all.
Whole(n) == unit * ((n + unit - 1) \div unit)
Area(addr, n) == addr..(addr + Whole(n) - 1)
Reached(addr, n) ==
    {b \in Area(addr, n) :
        \A a \in Area(addr, n) :
            (a - addr) \div unit <= (b - addr) \div unit => a \in Cells}
Fits(addr, n) == Area(addr, n) \subseteq Cells

Stored(addr, n, payload) ==
    LET reached == Reached(addr, n)
    IN [b \in Cells |-> IF b \in reached THEN payload[b - addr] ELSE mem[b]]

Init == /\ unit \in {1, 4} /\ up = TRUE
        /\ mem \in InitialMem /\ err = FALSE /\ out = <<>>

Status(e) == IF e THEN 1 ELSE 0

Write(addr, n, payload) ==
    /\ up /\ (Allowed(addr, n) => Fits(addr, n))
    /\ mem' = IF Allowed(addr, n) THEN Stored(addr, n, payload) ELSE mem
    /\ err' = ~Allowed(addr, n)
    /\ out' = Append(out, Status(err'))
    /\ UNCHANGED <<unit, up>>

RunOff(addr, n, payload) ==
    /\ up /\ Allowed(addr, n) /\ ~Fits(addr, n)
    /\ up' = FALSE
    /\ mem' = Stored(addr, n, payload)
    /\ UNCHANGED <<unit, err, out>>

Read(addr, n) ==
    /\ up
    /\ err' = ~Allowed(addr, n)
    /\ LET data == [k \in 1..n |-> IF err' THEN 0 ELSE mem[addr + k - 1]]
       IN out' = out \o data \o <<Status(err')>>
    /\ UNCHANGED <<unit, up, mem>>

Collect == up /\ err' = FALSE /\ UNCHANGED <<unit, up, mem, out>>

\* A new connection owes no reply of the one before, and no error.
Connect == up /\ err' = FALSE /\ out' = <<>> /\ UNCHANGED <<unit, up, mem>>

Deliver == up /\ out # <<>> /\ out' = <<>> /\ UNCHANGED <<unit, up, mem, err>>

\* The memory cannot be mapped, or a read ran off it.
Down == up /\ up' = FALSE /\ UNCHANGED <<unit, mem, err, out>>

Next == \/ \E addr \in Addresses, n \in ReadCounts : Read(addr, n)
        \/ \E addr \in Addresses, n \in WriteCounts, payload \in Payloads :
              Write(addr, n, payload) \/ RunOff(addr, n, payload)
        \/ Collect
        \/ Connect
        \/ Deliver
        \/ Down

Spec == Init /\ [][Next]_vars
=============================================================================
