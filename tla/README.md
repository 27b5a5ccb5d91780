# A TLA+ development of the Xilinx Virtual Cable programs

This directory specifies, model-checks and partly proves the programs of this
repository. Paths below are relative to the repository; `mem:210` is line 210
of `src/mem/versal/src/xvcserver.c`, `dpc:` one of `src/dpc/src/xvcserver.c`, and
the other short names are in the table.

## 1. The system

XVC carries debug traffic over TCP. A host tool is the client; each program is
a server on the board that turns messages into accesses to a piece of debug
hardware.

| Part | Source | State it keeps | Operations |
|---|---|---|---|
| XVC 1.1 engine (`mem`) | `src/mem/versal/src/xvcserver.[ch]` | one `XvcClient`: receive buffer, lock, options, pending error; a static reply buffer | one message after another: `getinfo: capabilities: idcode: configure: error: lock: unlock: shift: settck: register_shift: state: mrd: mwr:` |
| memory callbacks | `src/mem/versal/src/xvc_mem.c` | the mapped debug hub | `mrd`, `mwr`, `open_port`, `close_port` |
| DPC engine | `src/dpc/src/xvcserver.[ch]` | as the mem engine, an older copy | the above without lock and registers, plus `edpc: idpc:` |
| DPC callbacks and rings (`hsdp`) | `src/dpc/src/xvc_dpc.c`, `hsdp.[ch]`, `hsdp_lib.[ch]` | two descriptor rings in memory shared with an AXI DMA engine; `last` of each ring | send a packet, poll for a response, reset both rings |
| jtag server, zynqMP (`jtag`) | `src/jtag/zynqMP/src/user/xvcServer.c` | descriptor set, `maxfd`; the JTAG state machine of the device, implicitly | select, accept, `handle_data` |
| jtag server, zynq7000 (`zynq`) | `src/jtag/zynq7000/XAPP1251/src/xvcServer.c` | the same, with mapped registers | the same |
| Linux driver (`drv`, `base`) | `src/jtag/zynqMP/src/driver/xvc_driver.c`, `xvc_driver_base.c` | the bridge's registers, the inode's spin lock, device tables | the shift ioctl; init, probe, remove, exit |
| driver test program | `src/jtag/zynqMP/src/user/verify_xilinx_xvc_driver.c` | none | two shift ioctls |

How they interact. The engines call the callback table of their program with
`client_data` and a pointer into their reply buffer; callbacks report errors by
`xvcserver_set_error` and may put off filling in a TDO vector until `flush`
or `unlock`, of which the engine waits for the first only.
`xvc_dpc`'s callbacks share the rings with the DMA, which runs by
itself. The zynqMP server calls the driver's ioctl; several processes may have
the device open. In the mmap builds the server writes the same registers
itself. Everything else is TCP.

What is hard here:

* TCP cuts and joins messages; clients pipeline; a batch of replies is sent at
  once; `lock:` breaks a batch; errors latch until `error:` collects them.
* A client may vanish at any point, also between `accept` and `getpeername`, or
  with replies on their way, and the one static client structure is used again.
* The DMA reads and writes descriptors and buffers while the server does.
* A bridge may be late: after 100 polls the driver gives up a word that then ends.
* One thread serves several clients, and a client in the middle of its shifts
  must not be disturbed.
* Numbers are decoded from the bytes that happen to be there, zeros beyond.
* The lock on the scan chain is the handlers', a flag of it the engine's: the flag
  goes with a connection and the lock does not.
* The driver's calls into the kernel fail one by one; its devices come and go,
  two at a time, while processes have its nodes open and the ioctl in progress.

What makes each part correct: the session a client sees is the one its requests
determine, whatever TCP does (engine); exactly the bytes named inside the window
are read and written (memory); the rings are a lossless ordered channel (rings);
a shift clocks each of its bits once, in order, and nothing else (driver, mmap
loop); shifts are not mixed and everyone is served (jtag server); what is taken
from the kernel or the system is given back, once, and is not used afterwards
(driver life cycle, start-up and connections of `xvc_dpc`).

## 2. Modules

| Module | What it is |
|---|---|
| `XvcProtocol` | requests, the callback table and replies as the parser tells them apart |
| `XvcSession` | abstract: what a client of either engine may rely on in one connection |
| `XvcServer` | the engine: accept loop, buffer, parser, batch, lock, error |
| `XvcServerProofs` | theorems about `XvcServer` |
| `ByteMemory` | abstract: a memory with a window, read in bytes and written in bytes or words |
| `XvcMem`, `XvcMemProofs` | `mrd`, `mwr` and their batch; theorems about them |
| `DpcLink` | abstract: a first-in first-out channel that may lose what a fault hits |
| `DpcRing`, `DpcRingProofs` | the two rings, the server's stores, the DMA and the DPC; theorems |
| `Uleb128` | `get_uleb128` and `reply_uleb128`: numbers as bytes |
| `DpcServer`, `DpcServerProofs` | `xvc_dpc` around its rings: URL, sockets, mappings, engine; theorems |
| `BitShift` | abstract: a shift of n bits |
| `XvcDriver`, `XvcDriverProofs` | the shift ioctl of the driver with several processes; theorems |
| `DriverLifecycle`, `DriverLifecycleProofs` | init, probe, remove and exit of the driver; theorems |
| `MmapShift`, `MmapShiftProofs` | the shift loop of the servers that map the registers; a theorem |
| `JtagServer`, `JtagServerProofs` | the select loop and `handle_data`; theorems |
| `MC*` | instances for TLC |

Refinements, each by `INSTANCE ... WITH` a mapping: both engines, `XvcServer` and
`DpcServer`, implement `XvcSession` (whose `Calling` and `Terse` say which
commands answer with a status byte and which may leave it out); `XvcMem`
implements `ByteMemory`; `DpcRing` implements `DpcLink`; `XvcDriver` and
`MmapShift` implement the same `BitShift`. Composition: `DpcServer` runs on top
of the actions of `DpcLink` (`Link!Put`, `Link!Get`, `Link!Lose`), so that what it
is shown to do with the channel holds over the rings, which implement it.

A definition named `Name_Variant` is a mutated form of `Name`: how a plausible
mistake in that code would read. The specifications do not use them; each run
is known to fail when one is put in the place of its original.

### XvcServer

`stage` is the place in `xvcserver_start` and `read_packet`: *accept*, *scan*
(the parser loop at mem:275), *flush* (573), *send* (581), *recv* (590),
*close* (710), *returned* (`accept` failed, for whatever cause), *exited* (SIGPIPE)
and *aborted* (a failed assertion). `stream` holds the
requests written and not consumed; the first `buf_len` bytes of it are
`c->buf`, the other `wire` bytes are still in the network. `cbuf` and `parsed`
are the parser's position in bytes and requests, `fill` the variable of the same
name. A request is a record: its command, the length of its name, of its
length fields and of the whole, the length of its reply, and the options of a
`configure:`; bytes are not spelled out. `reply_buf` holds one record per reply
(command, whether the callback ran, status byte). `c` is `struct XvcClient`,
`pending_error` being whether the text is non-empty. `deferred` says that a
callback still owes data, which `MayDefer` lets it do when the table has a `flush`,
or an `unlock` that is to come because the client holds the lock
(xvcserver.h:71-119).

There is an action for each branch of the parser (`ParseLock`, `ParseShift`,
...), for an incomplete message (`NeedMore`, `AssertFails`), for an unknown one
(`ProtocolError`), for `lock:` behind other messages (`LockBreak`) and for each
outcome of `accept`, `getpeername`, `open_port`, `flush`, `send` and `recv`. The
client writes requests whole into the network, `Recv` takes any part of what is
there. A peer is *up*, *fin* (closed), *broken* (closed, and has refused data
since: the next send raises SIGPIPE) or *reset*.

`chain` is the scan chain as the handlers of the table see it, which outlives a
connection: *free*, *held* by the client that is served, or *left* by one that
has gone. It follows the callbacks `lock` and `unlock` that have done their work
and the close of a connection. `c->locked` cannot stand for it, since the `memset`
at `accept` (mem:695) clears that without a callback.

### XvcMem

`mem` is a function from addresses to bytes, `reply_buf` the batch. `Mrd` and
`Mwr` are the callbacks with the branch of the engine that calls them: the window
check, the loop over 32-bit words (`build = "words"`) or the `memcpy` ("block"),
and the zeros and the status byte of a refused command. The byte order of a word
is its place in memory, as it is on this processor. `Cells` are the addresses that
exist: a word loop that leaves them ends the process after the words before
(`MrdFaults`, `MwrFaults`); what lies behind the window is the instance's choice. A
load or store at an unaligned address is taken to work, as it does for the memory
types on which it does not fault. `Accept` is `open_port` with
the fresh client structure over an old reply buffer, `MapFails` its `exit`,
`CloseConnection` is `close_port`.

### DpcRing

Per ring: the status of each descriptor (`ists`, `ests`), the buffers, the TAIL
register, `last`, and the descriptor the DMA is at. Each of the server's actions
ends at a store the DMA can see: `SendFill` (`memcpy`, hsdp.c:327),
`SendArm` (STS, 332), `SendKick` (TAIL, 340), `PollTake` (STS, 216),
`PollRearm` (TAIL, 224), then the copy to the reply in two halves. A response is
two words, so that one that is torn can be seen. The DMA and the DPC are
external and are what the code takes them to be: the engine follows a ring up to
TAIL, marks descriptors done or failed, and goes on when TAIL is written; the
DPC answers packets in order. `Reopen` is `hsdp_setup_dma` at a new connection.
`Window` bounds the packets a client leaves unanswered, those of an earlier
connection that the DPC still holds included.

### DpcServer and Uleb128

`stage` follows `xvcserver_start`: *url*, *resolve*, *listen*, *name* (dpc:466-540),
*accept*, then as in `XvcServer`, and *returned* with `ret`. `Resolve` and
`TryAddress` are `open_server`; `AcceptNoPeer` leaves a socket behind, counted in
`strays`. `OpenPort` and `ClosePort` are `hsdp_open` and `hsdp_close` with the
mappings (`maps`, `hsdp`). The parser is finer than that of `XvcServer` in one
respect: a request has the bytes of its numbers, and `Extent`, how far the parser
would advance, is decoded from those that have arrived (`Width`, `Value`), whose
rest reads as zero. So `configure:` and `idpc:` may be judged by part of a length.
`Idpc` and `Edpc` are the callbacks of `xvc_dpc.c`.

Reading the code for this module showed some of it to be without effect, and the
model has nothing for it: the status option of `configure:` is stored and never
read (dpc:390 comes after a `goto`), `fill` is always set when a batch ends, so
the server always calls `recv` after sending, and a positive error code of
`open_port` would pass the `< 0` test, but it returns none.

### DriverLifecycle

`module` says whether the module is loaded; `region`, `class`, `owner` and `cdev`
are the static variables of `xvc_driver_base.c`, `ptr` is `db_ptrs`, `live` are the
mappings there really are, `nodes` the device nodes, and `strays` those whose class
has been destroyed under them; `registered` is the kernel's record of the class,
which makes a second `class_create` fail. Each device has a `pc` and a `unit` of its
own, since the driver core locks a device and not the driver: probes and removes of
two devices interleave on the static variables. Every step ends at a call into the
kernel or at a store, and each of these calls may fail (`ClassFails`, `CdevFails`,
`NodeFails`, `MapFails`, `LoadNoRegion`, `LoadNoDriver`), with the clean-up the code
runs then (`Cleanup`, one step). `NodeFails` returns 0 or, where nothing has set
`status`, anything. Processes open and close nodes and call the ioctl between any two
steps; `call` is the pointer it read. `failed`, `crowded` (two devices have
overlapped), `loose` and `raced` are histories, which the properties use to say
where the code does leak or lose a mapping; `over` collects what was released
without being held. The two builds differ in who unmaps: the kernel, when a device
is detached (`Detached`), or `remove` (`UnmapUnit`). A mapping is known by its unit
and the device it was made for, so two of the same pair are not told apart, and
an address that is reused does not come alive again.

### XvcDriver, MmapShift and BitShift

A vector holds the numbers of its bits, so a TCK shows which bits it clocked and
the answer which TCK each TDO bit is from. `XvcDriver` has a program counter per
process; `Enter` takes the spin lock, `Prepare` writes CONTROL and LENGTH,
`Load` LENGTH, TMS and TDI of a word, `Start` bit 0 of CONTROL, `Collect` reads
TDO, `TimedOut` is the 100th poll. The bridge is external: it ends a started
word at any time, also after the call that started it has failed; writing
CONTROL with bit 0 clear ends a word that runs. A call begins, for `BitShift`,
when it writes CONTROL. `MmapShift` keeps the three counters of the loop at
zynq:125-193, which the mmap build of the zynqMP server shares; its bridge ends
each word in the end.

### JtagServer

`conn`, `maxfd`, `ready` and `except` are the sets of `main`; a descriptor is
removed from the last two when the scan has passed it, which stands for the loop
variable. `pc` and `fd` say where `handle_data` is and for whom. A request is
two pieces, because `handle_data` decides after two bytes; every other cut is
hidden by `sread`. `jtag` remembers whose shifts are unfinished. The listening
descriptor lies between the two client descriptors, as it may on zynq7000.

## 3. Runs

All are exhaustive for their instance, but for what `life` says of failures, and take between a second and three minutes
with two workers.

| Run | Shows | Bounds |
|---|---|---|
| `session` | types; errors latch; status bytes are true; a connection inherits no lock, option or error; `lock()` never runs while the client that is served holds the chain, `unlock()` only when it does; `lock()` is entered with no deferred data held back | two connections of four requests, deferred shifts and shifts of no bits among them, a buffer of four bytes |
| `frame` | framing, room in the buffer, refinement of `XvcSession`, deferred data before sending, every request answered, the loop returns to accept | three requests of one to four bytes, buffer of four, which cuts every message everywhere |
| `pipe` | finding 1 | two requests |
| `words` | refinement of `ByteMemory`; writes stay in the window but for the three bytes behind it in the word build | a window of two words; one byte behind it exists, so that a rounded access to it is made and one beyond it is a fault; both builds, counts of no, part of a, one and more than one word, accesses that end with the window, up to two bytes behind it (stored or loaded), and where nothing is (a fault); batches of up to six bytes |
| `link` | no stale descriptor, rings in step, refinement of `DpcLink`, losses only by faults, delivery | rings of three, four packets, so that both rings wrap and fill |
| `window` | finding 2 | as `link`, with one packet more unanswered |
| `dpc` | framing with cut numbers, aborts only for too long a message, refinement of `XvcSession`, packets and replies agree, sockets, handles and mappings given back, every request answered | base-2 numbers of one and two digits, one-byte words, a buffer of six, two requests in each of two connections, two addresses, two packets |
| `driver` | registers in force, refinement of `BitShift`, every call returns | two processes, words of three bits, 0 to 7 bits: nothing, part of a word, whole words, words and a rest |
| `life` | types; what is taken is given back, and once, but for the exceptions named in `GivenBackOnce`; pointers are good; which ioctls can be without their mapping, and why | both builds, two devices, two units, one file; any overlap of probes and removes; failures of one kind, any number of them (`OneKindFails`) |
| `tidy` | refinement of `BitShift` by the mmap loop; every message is answered | the real sizes of 8 bits and 4 bytes, lengths on both sides of the byte and word boundaries |
| `tail` | finding 3 | lengths of one word that fill its last byte partly |
| `jtag` | types; shifts undisturbed; nobody hung up on without cause; everyone accepted and answered, as long as the client being handled goes on | three clients on two descriptors (so one is reused and one accept fails), two requests of every kind between them |

Why small instances are enough: the buffer, batch and rings matter by being
empty, partly full, full and reused, and each bound lets all of these happen;
two connections, processes or clients are what interference and inheritance
need. `life` is symmetric in devices, which no definition tells apart, and files
meet only in `Pinned`, so that one is enough. It does not follow what comes after a failure
of a second kind; the theorems cover all of them.
`dpc` takes base 2 and one-byte words because only the number of digits and
the proportion of a message to the buffer matter; base 128 and 4 are values of
the same constants. `SigPipeKills` says whether SIGPIPE has its default action
in the engine: a shell leaves it so, a service manager may not. `frame`, which
is about what follows a lost connection, takes it as ignored, the others as
default; in `JtagServer` and `DpcServer` both may happen. Deadlock is checked
but in `JtagServer`, where all clients may have come and gone or SIGPIPE has
ended the process, and in `DriverLifecycle`, where a module that has left
something behind cannot be loaded again; `XvcServer`, `DpcServer` and `XvcMem`
have an explicit `Stopped` for the end of the process.

### Fairness

* `XvcServer`: weak fairness of the server's steps together. It is one thread
  that blocks only in `accept` and `recv`. Nothing is assumed of clients.
* `DpcServer`: the same (`Parse \/ Transfer`).
* `DpcRing`: weak fairness of the server's and the DMA's steps; strong fairness
  of a poll that finds something, which says that the client keeps asking.
* `XvcDriver`: weak fairness of each process's call, none of the bridge.
* `MmapShift`: weak fairness of the loop and of the bridge. The code needs the
  second, since it polls without end.
* `JtagServer`: weak fairness of the server, and of the client it is handling,
  which finishes, goes on or closes. The code needs the second: it has no
  time-out, and a client that is silent after half a request or between its
  shifts holds everybody else up for as long as it likes. Nothing is assumed of a
  failing `select`, an exception on the listening socket or SIGPIPE, which end
  the program.

### Findings

1. `pipe`: `send` (mem:224) raises SIGPIPE when a client has closed with two
   replies outstanding, and nothing ignores it; the header says the server waits
   indefinitely. It would not in another way, which the model has and no run
   claims: a failed `getpeername` (mem:684) leaves the socket open
   (`AcceptNoPeer`), and when descriptors run out, or `accept` fails for another
   cause, the loop ends and `xvcserver_start` returns (`AcceptFails`).
2. `window`: a response may be overwritten while it is copied to the reply,
   because its descriptor is armed first (hsdp.c:215). With at most as many
   packets unanswered as the ring is long this cannot happen (`link`).
3. `tail`: the mmap loops (zynq:134, jtag:193) clock a last word of 25 to 31
   bits 32 times. With all other lengths they are shifts (`tidy`).

Deviations met while modelling that have no run of their own; the properties
that hold are stated with them:

* A client that disconnects while it holds the lock leaves the chain
  locked. No `unlock` callback runs, and after the `memset` (mem:695) the
  next client's `lock:` calls `lock` again; the header (xvcserver.h:83-85)
  says that the lock lasts until `unlock`. This is `chain = "left"`, on which
  `LockPaired` lets `lock` be called.
* A shift deferred until `unlock`, as xvcserver.h:73-75 allows, is
  answered before its data is there, since only `flush` is called before a send
  (mem:573). `SentIsComplete` is about the other tables; `frame` has a `flush`.
* `mwr` (xvc_mem.c:212) in the default build stores whole words, so a
  count that is no multiple of four writes up to three bytes more, whose values
  are those of the buffer behind the message; src/README.md:280 says that
  it is the number of bytes to write. `words` takes such counts, at the end
  of the window too: `KeepsToWindow` says how far they go, and
  `WholeWordsWriteExactly` that all other counts, and the other build, are exact.
* The driver: after a failed `class_create` the error pointer stays in
  `xvc_dev_class` and the clean-up gives nothing back, region included; after a
  failed `cdev_add` or `device_create` the clean-up runs and runs again at exit;
  a failed `platform_driver_register` leaks the region; two devices that are probed or
  removed at the same time may share a unit. A node can be opened before its
  bridge is mapped, and `remove` of a device by hand unmaps under an ioctl. All of this is
  in the model; `GivenBackOnce` and `CallsMapped` name each case with its cause and
  say that there are no others. None is idle: leave one out and TLC violates the property.
* `mrd` (xvc_mem.c:170) rounds its count up too, so near the end of the hub it
  reads past the mapping, and past the reply (`MrdFaults`, `Room`).
* `idpc` (xvc_dpc.c:101) compares words with a size in bytes, so that a packet may
  be longer than its slot; `Overrun` of `DpcRing` says what that destroys.
* Lengths of -1 to -7 pass the check of the jtag server (jtag:160), whose number of
  bytes is then zero, and `(num_bits + 7) / 8` of the driver (drv:102) is unsigned.
  Lengths in the models are natural numbers.
* `xvc_dpc` passes uninitialised addresses on when its options give none
  (xvc_dpc.c:181).

## 4. Proofs

`tlapm` proves, for all values of the constants (under the hypotheses named, if
any), of a module `XProofs` about the specification of `X`:

| Theorem | Says |
|---|---|
| **`XvcServerProofs`** | |
| `TypeCorrect` | `TypeOK` always holds; lengths never go negative, which is the assertion of `consume_packet` |
| `ErrorsLatch` | after a status byte has reported an error no callback runs until `error:` |
| `StatusIsHonest` | a status byte 0 to a served command means its callback ran |
| `LocksArePaired` | `lock` never runs while the client that is served holds the chain, and `unlock` only when it does, never for a lock an earlier connection left (`LockPaired`) |
| `SentIsComplete` | no reply leaves while a callback still owes it data, in tables that have a `flush` or no `unlock` |
| `LockHoldsNothing` | `lock()` is entered with no deferred data held back, in all tables (`LockOwesNothing`) |
| `NothingIsInherited` | a connection starts afresh, however the one before it ended |
| `FramingIsExact` | the parser stands between two messages, and those in the buffer and the network are the ones not consumed (`HeadsFit`) |
| `EngineIsASession` | `XvcServer` implements `XvcSession` |
| **`XvcMemProofs`** | |
| `WindowIsKept` | whatever its count, `mwr:` changes nothing outside the window but the three bytes behind it, and these in the word build only |
| `WholeWordsWriteExactly` | it changes no byte but those named, in the block build and for whole words: the deviation is confined to the other counts |
| `MemoryIsByteMemory` | `XvcMem` implements `ByteMemory` in both builds, for any counts and whatever exists behind the window |
| **`DpcServerProofs`** | |
| `SocketsAreTidy` | sockets and handles are given back on every way through `xvcserver_start` but a failed `getpeername` |
| `RegionsMappedOnce` | no number of connections maps the regions again: the assertion of `mmap_buffer` holds |
| `ValueOfNumber` | `get_uleb128` returns what `reply_uleb128` wrote, and no more than that of a number cut off by TCP |
| `FramingIsExact` | as above, where the length of a message is decoded from the bytes that have arrived |
| `AbortsForLength` | an assertion about a length fails only for a message that has no room in the buffer |
| `LinkIsHonest` | `idpc:` is answered "ok" for the packets taken, and the replies to `edpc:` are the responses returned, once and in order |
| `EngineIsASession` | `DpcServer` implements `XvcSession` |
| **`DpcRingProofs`** | |
| `DmaFindsArmed` | the DMA never comes to a descriptor that is not armed |
| `NextIsFirstFree` | a send times out only on a full ring, a poll finds nothing only when nothing waits |
| **`XvcDriverProofs`** | |
| `WordStaysInForce` | from its load to its collection the registers hold the word and its length |
| `IoctlIsAShift` | `XvcDriver` implements `BitShift`, for any processes, word and lengths |
| **`MmapShiftProofs`** | |
| `LoopIsAShift` | `MmapShift` implements `BitShift` (`CodeWidths`, `TidyLengths`) |
| **`JtagServerProofs`** | |
| `WatchedAreOpen` | types; what `select` watches is open and not above `maxfd` |
| `NobodyShiftsBetween` | nobody shifts between the shifts of a client |
| `HangsUpForCause` | a client that is there is hung up on only with a cause |
| **`DriverLifecycleProofs`** | |
| `TypeCorrect` | nodes are of units, a running probe or remove has a device |
| `PointersLive` | whatever fails, `db_ptrs` never names a mapping that is gone, except between `iounmap` and the store after it |
| `CallsStayMapped` | an ioctl is without its mapping only in the cases `CallsMapped` names, whatever fails |
| `AllGivenBackOnce` | an unloaded module holds nothing and nothing is released without being held, but in the cases `GivenBackOnce` names, whatever fails and overlaps |

Assumptions are the named ASSUMEs of the modules (`RequestsAssumption`,
`RepliesAssumption`, `BoundsAssumption`, ...), which TLC evaluates in the runs.
Four hypotheses are those of single theorems, because only these need them:

* `HeadsFit`: what precedes the data of a message fits the buffer. In the code a
  head is some tens of bytes and the buffer has 10000. The instances have it.
* `SentIsComplete` takes tables that have a `flush` or no `unlock`; the deviation
  listed above is what happens with the others. The table of `xvc_mem` has neither.
* `CodeWidths`: bytes of 8 bits and words of 4 bytes, the sizes of the code.
* `TidyLengths`: a last word has at most 24 bits, or 32. Finding 3 is what
  happens with the others.

Initial states and steps of the instances meet all of them, except that `tail` is
without `TidyLengths` on purpose.

### The arguments

**Engine (`XvcServer`).** `TypeOK` is not inductive, since `buf_len - cbuf`
and `fds - 1` have to stay natural numbers. `TypeInv` adds that what is parsed
lies inside the buffer, that the batch is empty where `read_more` has cleared
it, and that a socket is open while a connection is served. All branches of the
parser that answer are instances of one shape, `AnswerStep`: one reply is
appended, positions advance by one message, and `Kind` says which status and
client structure go with which command. Preservation is proved once for the
shape and once per remaining action.

* `ErrorInv`: an error in the history not followed by an `error:` reply means
  that `pending_error` is still set. A callback that runs shows there is none.
* `LockInv`: a client that holds the lock has been answered so.
  `SettingsInv`: settings come from a `configure:` of this history.
* `ChainInv`: while a connection is served `c.locked` says whether it holds the
  chain, and between connections nobody holds it, though one may have left it locked.
  The parser calls `lock` where `c.locked` is clear, `unlock` where it is set.
* `BatchInv` and `DeferInv`: with a `flush`, data is owed only when the batch has a
  reply with bytes, and never at *send*; without one, only while the client holds
  the lock. So `lock()` finds none owed: the first case has broken the batch, and
  in the second it is not called. The argument needs that shifts of no bits
  are the only replies without a byte, hence `RepliesAssumption`.
* `FramingInv`: `cbuf` is the sum of the requests parsed, and `buf_len + wire`
  that of all in the stream. When more is asked for with an empty batch there is
  room, because of `HeadsFit` and the assertions on lengths.
* The refinement: an answer is a `Serve` of the session, whose reply is computed
  from what `Kind` allows; a send of the batch is its `Deliver`, every end of
  a connection its `Disconnect`.

**Engine (`DpcServer`).** `ResourceInv` adds to `SocketsTidy` that nothing is
accepted before the loop, and that both regions are mapped or none wherever the
process lives, hence `NeedsMapping` is true at the first connection only. The
steps inside a connection touch none of this (`ServingStep`). The framing is that
of the other engine but for `ExtentFacts`: whatever part of a message has arrived,
how far the parser would advance is at least one byte more than that part, or the
whole message, and never more than the whole. It rests on `ValueOfNumber`, as
digits that are missing read as zeros. `HonestInv` counts the packets taken since
the connection began and says that the responses of the history, joined, are a
suffix of `got`.

**Memory.** A count of n makes the word loop move the offsets below n rounded up to
four (`WordsMoved`), no more than three beyond; the window check bounds n, hence
what `WindowIsKept` says. They are the units of `ByteMemory`
(`MovedIsArea`), and an access faults where one of these does not exist
(`FaultIsRunOff`). `ReplyInv` keeps the reply buffer at its size and
the batch within it; a read then appends the bytes asked for as three parts of a
function (`ThreeParts`), the surplus being overwritten later or not sent.

**Rings.** The descriptors armed are `n` in ring order from where the DMA is, and
the one behind them is what the server looks at next (`Armed`). Those the DMA may
process are the same, but for one that is armed and whose TAIL is not written yet
(`HandedOver`). The server makes the stretch longer (`RingPush`), the DMA shorter
(`RingPop`); `Reopen` makes it none in one ring and all in the other. Nothing is
assumed of `Window`: this holds also when a response is overwritten (finding 2).

**Driver and loop.** `BridgeKeeps` says that what was clocked is a first part of
the shift begun last, and that a word that still runs is the next part, also when
the call that started it has given up; `CallOwns`, that a call that has
written CONTROL owns the bridge and has collected what it counts. `LENGTH` may be
left alone because it holds a whole word's whenever a whole word is loaded. In the
loop, `Counting` states that bytes and bits left are of the same vector;
`LastWord` is the arithmetic by which they end together, false for other lengths.

**Jtag server.** `Account` relates the pieces not read to the requests not answered,
with those read of the request at hand and one written by half, so that the server
knows which request it is reading (`AtHand`). `JtagInv`: only the client at hand has
unfinished shifts, since `handle_data` does not return in between.

**Life cycle.** Nothing is assumed: failures and overlaps are histories of the
model, and the invariants say what each of them may cost.

* `NoDangling` is not inductive: in the res build the kernel unmaps everything of
  a device when `remove` has returned, so by then every pointer to it must be clear.
  That is `Swept`: `remove` has cleared the pointers to its device below its loop
  variable, which starts at the first unit (`Rested`). It holds under any overlap,
  as a probe writes only the pointer of a mapping it has just made.
* `Staged`: when probes, removes and open files can be. `Held`: how region, class and
  cdev hang together and which failure explains what is missing. `Managed`: a
  mapping of the res build has a bound device.
* `Alone` and `Serial`: while no two devices have overlapped, what a probe or remove
  has read of `db_ptrs` and the class is still so. This is what the code takes for granted, and
  the only part that an overlap breaks.
* `Met` for `CallsMapped`: a call that meets a remove is raced, and a file that is
  not loose has a mapped unit.
* `Pointed` and `Tidy` for `GivenBackOnce`: without overlap a mapping of the config
  build is that of its unit's pointer, and, while no `device_create` or mapping has
  failed either, nodes are those of pointers and each pointer has a device that
  will clear it. So nothing is left when the last device is gone.

### Data

Some of this is about sequences and numbers defined by recursion. It is
proved without an induction rule: of the counterexamples to a claim about
naturals there would be a least one (`LeastNatural`, from the well-founded
ordering of `WellFoundedInduction`), and it is none. In this way `EncodingsExist`,
`JoinsExist` or `UptoSums` show that the function a definition chooses exists,
`EncodingsAgree` or `JoinsAgree` that two of them agree where both are defined, and
the equations of the definition follow. The folds of the models are
written as functions for this reason (`Bytes`, `Total`, `Encode`, `Value`).

### Only model-checked

* Liveness: `AnsweredEventually` of the engines and the loop, `ListensAgain`,
  `Delivered`, `Returns`, `AcceptedEventually`, `ServedEventually`. ENABLED and
  fairness are outside the prover's reach.
* `ImplementsLink` and `LostOnlyByFaults` of `DpcRing`. They hold only if at most as
  many packets are unanswered as the ring is long and each fits its slot, and
  speak of the responses in ring order from wherever the ring starts.
* The three findings: they are violations.

## 5. Not modelled

* The options, help and log output of the programs; the fields of a URL beyond
  their number; `/dev/mem` beyond whether it can be mapped.
* Overflow of ULEB128 numbers of more bytes than an `unsigned` or `size_t` has;
  in `XvcServer` a number is complete or is not (`DpcServer` has its bytes).
* Requests whose replies together exceed the reply buffer, addresses that wrap,
  negative shift lengths, and faults of `copy_from_user`.
* Accesses of words at unaligned addresses as anything but accesses, and the order
  of the calls inside `xil_xvc_cleanup`, which is one step.
* Sleeping with the driver's spin lock held (`kmalloc`, the copies), and weak
  memory order between CPU and DMA: the models keep program order.
* `VERBOSE` and debug dumps, `hsdp_receive_packet`, which nothing calls, and the
  polling for halt and reset in `hsdp_setup_dma`.
* The other device ioctl, `XDMA_RDXVC_PROPS`, which changes nothing.
* The device tree, Makefiles and the driver's test program, a sequential caller.

## 6. Plan

In this order; the first nine are done.

1. `XvcProtocol`, `XvcSession`, `XvcServer`: the core of both engines.
2. `XvcServerProofs`: types, error latch, status.
3. `ByteMemory`, `XvcMem`, `XvcMemProofs`, with both builds and connections.
4. `DpcLink`, `DpcRing`.
5. `BitShift`, `XvcDriver`, `MmapShift`.
6. `JtagServer`.
7. `DriverLifecycle`, `DriverLifecycleProofs`.
8. `Uleb128`, `DpcServer`, `DpcServerProofs`, over the channel of `DpcRing`.
9. Proofs: the safety of both engines and their refinement of `XvcSession`;
   `ByteMemory`; `BitShift` by the driver and the loop; the rings; the jtag
   server; the life cycle.
10. `DpcRing` implements `DpcLink`, and `LostOnlyByFaults`: an invariant on the
    counts of `Unanswered` where `Window` is at most `N` and packets fit their
    slot, lemmas on `SelectSeq` along `RingFrom`, then one mapped step per action.
11. `ReplyBatch`: lengths of replies against the reply buffer, and numbers wider
    than their C types.
