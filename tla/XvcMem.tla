-------------------------------- MODULE XvcMem --------------------------------
(***************************************************************************)
(* mem/versal/src/xvc_mem.c under the engine's mrd: and mwr: branches: the *)
(* debug hub is mapped for each connection and accessed in whole 32-bit    *)
(* words (ENABLE_SINGLE_WORD_RW, the default) or in blocks, each reply is  *)
(* appended to a batch in reply_buf, and the status byte is stored after   *)
(* the callback has run.  XvcServer has the framing, the batches and the   *)
(* locks; here a message is always complete.                               *)
(***************************************************************************)
EXTENDS Integers, Sequences

CONSTANTS Base, Size,   \* hub.addr and hub.size
          Cells,        \* byte addresses that exist, the window included;
                        \* an access to any other is a fault
          InitialMem,   \* what the device may hold at first
          Addresses,    \* values of <address>
          ReadCounts,   \* values of <num bytes> in mrd:
          WriteCounts,  \* and in mwr:
          Payloads,     \* the receive buffer from the data of a mwr: on: the
                        \* bytes after the message are there too
          ReplyMax      \* bytes of reply_buf

Builds == {"words", "block"}

ASSUME MemAssumption ==
    /\ Base \in Nat /\ Size \in Nat /\ ReplyMax \in Nat
    /\ Addresses \subseteq Nat
    /\ ReadCounts \subseteq Nat /\ WriteCounts \subseteq Nat
    /\ Base..(Base + Size - 1) \subseteq Cells /\ Cells \subseteq Nat
    /\ InitialMem \subseteq [Cells -> 0..255]

VARIABLES build,          \* how mrd and mwr access the hub
          port,           \* "closed", "open" (hub.buf is mapped), "exited"
          mem,            \* the device, by physical address
          pending_error,  \* c->pending_error[0] # 0
          reply_buf,      \* static, never cleared
          reply_len

setting == <<build, port>>
vars == <<setting, mem, pending_error, reply_buf, reply_len>>

Init ==
    /\ build \in Builds
    /\ port = "closed"
    /\ mem \in InitialMem
    /\ pending_error = FALSE
    /\ reply_buf = [k \in 0..(ReplyMax - 1) |-> 0]
    /\ reply_len = 0

-----------------------------------------------------------------------------
\* A connection: open_port maps the hub, read_packet starts on a client
\* structure that is cleared and a reply buffer that is not.
Accept ==
    /\ port = "closed" /\ port' = "open"
    /\ pending_error' = FALSE /\ reply_len' = 0
    /\ UNCHANGED <<build, mem, reply_buf>>

\* /dev/mem cannot be opened or mapped: exit.
MapFails ==
    /\ port = "closed" /\ port' = "exited"
    /\ UNCHANGED <<build, mem, pending_error, reply_buf, reply_len>>

\* close_port; the batch that was not sent is lost.
CloseConnection ==
    /\ port = "open" /\ port' = "closed"
    /\ UNCHANGED <<build, mem, pending_error, reply_buf, reply_len>>

\* The window check of mrd and mwr, whose sum does not overflow for the
\* addresses considered.
OutOfWindow_OffByOne(addr, n) == addr < Base \/ addr + n > Base + Size + 1
OutOfWindow(addr, n) == addr < Base \/ addr + n > Base + Size

\* The bytes moved by the word loop, as offsets: those of the words that start
\* at i = 0, 4, .. while i < n.
WordOffsets(n) == {k \in 0..(n + 2) :
                     \E w \in 0..n : 4 * w < n /\ k \in (4 * w)..(4 * w + 3)}

\* memcpy moves the bytes asked for.
Moved(n) == IF build = "words" THEN WordOffsets(n) ELSE 0..(n - 1)

\* A word that leaves what exists is a fault, and the process ends with SIGBUS
\* or SIGSEGV; the words before it have been moved.  (memcpy keeps to the window.)
Faults(addr, n) == \E k \in Moved(n) : addr + k \notin Cells
BeforeFault(addr, n) ==
    {k \in Moved(n) :
        \A j \in Moved(n) : j \div 4 <= k \div 4 => addr + j \in Cells}

\* mwr stores the words of the payload, those bytes after the message too.
Store(addr, n, payload) ==
    LET moved == BeforeFault(addr, n)
    IN mem' = [b \in Cells |-> IF b - addr \in moved THEN payload[b - addr]
                               ELSE mem[b]]

\* mrd loads words to reply_buf + reply_len.
Load(addr, n) ==
    [k \in DOMAIN reply_buf |->
        IF k - reply_len \in Moved(n) THEN mem[addr + k - reply_len]
        ELSE reply_buf[k]]

\* memset(reply_buf + reply_len, 0, num_bytes).
Blank(buf, n) == [k \in DOMAIN buf |->
                    IF k - reply_len \in 0..(n - 1) THEN 0 ELSE buf[k]]

\* reply_status at position pos.
ReplyStatus(buf, pos) ==
    [buf EXCEPT ![pos] = IF pending_error' THEN 1 ELSE 0]

\* Bound: the batch and the last word of this reply fit reply_buf, which the
\* code does not test.
Room(n) == /\ reply_len + n < ReplyMax
           /\ \A k \in Moved(n) : reply_len + k < ReplyMax

\* The callback is called and its access is not refused.
Accesses(addr, n) == ~pending_error /\ ~OutOfWindow(addr, n)

Mrd_StatusFirst(addr, n) ==
    /\ port = "open" /\ Room(n)
    /\ Accesses(addr, n) => ~Faults(addr, n)
    /\ pending_error' = (pending_error \/ OutOfWindow(addr, n))
    /\ reply_buf' = LET marked == ReplyStatus(reply_buf, reply_len + n)
                    IN [k \in DOMAIN marked |->
                          IF pending_error' \/ k - reply_len \notin Moved(n)
                          THEN Blank(marked, n)[k] ELSE Load(addr, n)[k]]
    /\ reply_len' = reply_len + n + 1
    /\ UNCHANGED <<setting, mem>>
Mrd(addr, n) ==
    /\ port = "open" /\ Room(n)
    /\ Accesses(addr, n) => ~Faults(addr, n)
    /\ pending_error' = (pending_error \/ OutOfWindow(addr, n))
    /\ reply_buf' = ReplyStatus(IF pending_error' THEN Blank(reply_buf, n)
                                ELSE Load(addr, n), reply_len + n)
    /\ reply_len' = reply_len + n + 1
    /\ UNCHANGED <<setting, mem>>

MrdFaults(addr, n) ==
    /\ port = "open" /\ Room(n)
    /\ Accesses(addr, n) /\ Faults(addr, n)
    /\ port' = "exited"
    /\ UNCHANGED <<build, mem, pending_error, reply_buf, reply_len>>

Mwr(addr, n, payload) ==
    /\ port = "open" /\ Room(0)
    /\ Accesses(addr, n) => ~Faults(addr, n)
    /\ pending_error' = (pending_error \/ OutOfWindow(addr, n))
    /\ IF pending_error' THEN UNCHANGED mem ELSE Store(addr, n, payload)
    /\ reply_buf' = ReplyStatus(reply_buf, reply_len)
    /\ reply_len' = reply_len + 1
    /\ UNCHANGED setting

MwrFaults(addr, n, payload) ==
    /\ port = "open" /\ Room(0)
    /\ Accesses(addr, n) /\ Faults(addr, n)
    /\ port' = "exited" /\ Store(addr, n, payload)
    /\ UNCHANGED <<build, pending_error, reply_buf, reply_len>>

\* error: clears the error; its text goes to the reply, which is not modelled.
CollectError ==
    /\ port = "open"
    /\ pending_error' = FALSE
    /\ UNCHANGED <<setting, mem, reply_buf, reply_len>>

\* The batch is sent; reply_buf keeps its contents.
Send ==
    /\ port = "open" /\ reply_len > 0
    /\ reply_len' = 0
    /\ UNCHANGED <<setting, mem, pending_error, reply_buf>>

\* The process is gone.
Stopped == port = "exited" /\ UNCHANGED vars

Next == \/ \E addr \in Addresses, n \in ReadCounts :
              Mrd(addr, n) \/ MrdFaults(addr, n)
        \/ \E addr \in Addresses, n \in WriteCounts, payload \in Payloads :
              Mwr(addr, n, payload) \/ MwrFaults(addr, n, payload)
        \/ Accept \/ MapFails \/ CloseConnection
        \/ CollectError
        \/ Send
        \/ Stopped

Spec == Init /\ [][Next]_vars

-----------------------------------------------------------------------------
\* Whatever the counts, mrd: and mwr: act on the memory they name and the
\* replies of a batch do not disturb each other, although words are moved whole:
\* the bytes a load stores past its reply are overwritten before they are sent.
\* What the word build does differently from the other is in the unit of its
\* writes and nowhere else.  A connection inherits neither an error nor a reply.
Device == INSTANCE ByteMemory WITH
    unit <- IF build = "words" THEN 4 ELSE 1,
    up <- port # "exited",
    err <- pending_error,
    out <- [k \in 1..reply_len |-> reply_buf[k - 1]]
ImplementsByteMemory == Device!Spec

\* Whatever the counts, no byte outside the window of the debug hub ever changes
\* but the three behind it, and those only where words are stored.
KeepsToWindow ==
    [][\A b \in Cells : mem'[b] # mem[b] =>
          \/ b \in Base..(Base + Size - 1)
          \/ build = "words" /\ b \in (Base + Size)..(Base + Size + 2)]_vars
=============================================================================
