------------------------------ MODULE XvcServer ------------------------------
(***************************************************************************)
(* The XVC 1.1 engine of mem/versal/src/xvcserver.c: accept loop, receive  *)
(* buffer, parser, reply batch, error and lock state.  One client is       *)
(* served at a time.  The client and TCP are the environment: the bytes of *)
(* a request arrive in chunks of any size, several requests may arrive at  *)
(* once, the client may close or reset the connection at any time.         *)
(*                                                                         *)
(* The receive buffer is a window on "stream", the requests written and    *)
(* not yet consumed: its first buf_len bytes are in c->buf, the other      *)
(* "wire" bytes are still in the network.                                  *)
(***************************************************************************)
EXTENDS XvcProtocol, FiniteSetsExt, SequencesExt

CONSTANTS BufMax,       \* c->buf_max, scaled down
          MaxRequests,  \* bound: requests a client writes in one connection
          MaxConns,     \* bound: connection attempts
          FdLimit,      \* accepted sockets the process may hold
          SigPipeKills  \* SIGPIPE has its default action

ASSUME BoundsAssumption ==
    /\ BufMax \in Nat \ {0} /\ MaxRequests \in Nat
    /\ MaxConns \in Nat /\ FdLimit \in Nat \ {0}
    /\ SigPipeKills \in BOOLEAN

VARIABLES
    stage,      \* where xvcserver_start and read_packet are
    peer,       \* the client's end: "up", "fin" (closed), "broken" (closed
                \*   and has refused what was sent since), "reset"
    conns,      \* connection attempts so far
    fds,        \* accepted sockets that are open
    stream,     \* requests written and not consumed by the server
    wire,       \* bytes of stream that are not in the buffer
    buf_len,    \* bytes of stream in the buffer
    cbuf,       \* bytes of the buffer already parsed in this batch
    parsed,     \* requests already parsed in this batch
    fill,       \* the batch ended on an incomplete message
    reply_buf,  \* replies of this batch
    reply_len,  \* their bytes
    c,          \* locked, enable_locking, enable_status, pending_error
    deferred,   \* a callback has put off work until flush() or unlock()
    sent,       \* replies given to send()
    chain       \* the scan chain, which the lock and unlock callbacks hold for
                \* the process: "free", "held" by the client that is served, or
                \* "left" by one that has gone without unlock

conn == <<stream, wire, buf_len, cbuf, parsed, fill, reply_buf, reply_len, c,
          deferred, sent, chain>>
vars == <<stage, peer, conns, fds, conn>>

Stages == {"accept", "scan", "flush", "send", "recv", "close", "returned",
           "exited", "aborted"}
Serving == {"scan", "flush", "send", "recv", "close"}

\* struct XvcClient, without its buffer; pending_error[0] # 0 is the flag.
ClientState == [locked : BOOLEAN, enable_locking : BOOLEAN,
                enable_status : BOOLEAN, pending_error : BOOLEAN]

\* memset(c, 0, sizeof *c).
FreshClient == [locked |-> FALSE, enable_locking |-> FALSE,
                enable_status |-> FALSE, pending_error |-> FALSE]

Init ==
    /\ stage = "accept" /\ peer = "fin" /\ conns = 0 /\ fds = 0
    /\ stream = <<>> /\ wire = 0 /\ buf_len = 0
    /\ cbuf = 0 /\ parsed = 0 /\ fill = FALSE
    /\ reply_buf = <<>> /\ reply_len = 0
    /\ c = FreshClient /\ deferred = FALSE /\ sent = <<>> /\ chain = "free"

-----------------------------------------------------------------------------
(* The accept loop of xvcserver_start.  The definitions whose name has an  *)
(* underscore followed by a capital are mutated forms of the next one: how *)
(* a plausible mistake in that code would read.                            *)

ClearClient_Forgotten == c' = c
ClearClient == c' = FreshClient

Attempt == stage = "accept" /\ conns < MaxConns /\ conns' = conns + 1

Accept ==
    /\ Attempt /\ fds < FdLimit
    /\ fds' = fds + 1 /\ peer' = "up" /\ stage' = "scan"
    /\ stream' = <<>> /\ wire' = 0 /\ buf_len' = 0
    /\ cbuf' = 0 /\ parsed' = 0 /\ fill' = FALSE
    /\ reply_buf' = <<>> /\ reply_len' = 0
    /\ ClearClient /\ deferred' = FALSE /\ sent' = <<>>
    /\ UNCHANGED chain

\* getpeername fails because the peer has gone: the socket is not closed.
AcceptNoPeer ==
    /\ Attempt /\ fds < FdLimit
    /\ fds' = fds + 1
    /\ UNCHANGED <<stage, peer, conn>>

\* open_port fails: the socket is closed again.  c was cleared before.
AcceptRefused_ClosedTwice ==
    /\ Attempt /\ fds < FdLimit
    /\ ClearClient /\ fds' = fds - 1
    /\ UNCHANGED <<stage, peer, stream, wire, buf_len, cbuf, parsed,
                   fill, reply_buf, reply_len, deferred, sent, chain>>
AcceptRefused ==
    /\ Attempt /\ fds < FdLimit
    /\ ClearClient
    /\ UNCHANGED <<stage, peer, fds, stream, wire, buf_len, cbuf, parsed,
                   fill, reply_buf, reply_len, deferred, sent, chain>>

\* accept fails, for want of a descriptor or for any other errno: the loop ends
\* and xvcserver_start returns.
AcceptFails ==
    /\ Attempt
    /\ stage' = "returned"
    /\ UNCHANGED <<peer, fds, conn>>

\* close_port, closesocket, free; unlock is not called.
CloseConnection ==
    /\ stage = "close"
    /\ stage' = "accept" /\ fds' = fds - 1 /\ peer' = "fin"
    /\ chain' = IF chain = "held" THEN "left" ELSE chain
    /\ UNCHANGED <<conns, stream, wire, buf_len, cbuf, parsed, fill,
                   reply_buf, reply_len, c, deferred, sent>>

-----------------------------------------------------------------------------
(* read_packet: parsing one message after another.                         *)

Current == stream[parsed + 1]
Available == buf_len - cbuf
InBuffer(n) == parsed < Len(stream) /\ n <= Available

\* A whole message the parser recognises.
Ready == stage = "scan" /\ InBuffer(Current.len) /\ Recognised(Current)

\* reply_status and the part of the reply before it.
StatusAfter_Zero(c2) == "ok"
StatusAfter(c2) == IF c2.pending_error THEN "err" ELSE "ok"
\* shift and settck report the status only when the client asked for it.
StatusOf(optional, c2) ==
    IF optional /\ ~c.enable_status THEN "none" ELSE StatusAfter(c2)

\* The callbacks lock and unlock have done their work.
Locks(a)   == a.cmd = "lock" /\ a.ran /\ a.status = "ok"
Unlocks(a) == a.cmd = "unlock" /\ a.ran /\ a.status = "ok"

Chained(a) == IF Locks(a) THEN "held" ELSE IF Unlocks(a) THEN "free" ELSE chain

Answer(ran, status, c2) ==
    /\ LET a == [cmd |-> Current.cmd, ran |-> ran, status |-> status]
       IN reply_buf' = Append(reply_buf, a) /\ chain' = Chained(a)
    /\ reply_len' = reply_len + Current.out + (IF status = "none" THEN 0 ELSE 1)
    /\ cbuf' = cbuf + Current.len
    /\ parsed' = parsed + 1
    /\ c' = c2
    /\ UNCHANGED <<stage, peer, conns, fds, stream, wire, buf_len, fill, sent>>

Fail == [c EXCEPT !.pending_error = TRUE]
\* A callback may call xvcserver_set_error.
AfterCallback(c2) == {c2, Fail}

ParseQuery ==
    /\ Ready /\ Current.cmd \in {"getinfo", "capabilities"}
    /\ Answer(FALSE, "none", c) /\ UNCHANGED deferred

\* The options before the first one refused take effect; the others do not.
Refused(o) == \/ o.opt = "other" \/ o.enable = -1
              \/ o.opt = "locking" /\ ~({"lock", "unlock"} \subseteq Handlers)
Configured(opts) ==
    LET applied == {i \in DOMAIN opts : \A j \in 1..i : ~Refused(opts[j])}
        last(opt) == {i \in applied : opts[i].opt = opt}
        value(opt, old) == IF last(opt) = {} THEN old
                           ELSE opts[Max(last(opt))].enable = 1
    IN [c EXCEPT !.enable_locking = value("locking", c.enable_locking),
                 !.enable_status = value("status", c.enable_status),
                 !.pending_error = applied # DOMAIN opts]

ParseConfigure ==
    /\ Ready /\ Current.cmd = "configure"
    /\ LET c2 == IF c.pending_error THEN c ELSE Configured(Current.opts)
       IN Answer(FALSE, StatusAfter(c2), c2)
    /\ UNCHANGED deferred

\* error: returns the message and forgets it.
ParseError ==
    /\ Ready /\ Current.cmd = "error"
    /\ Answer(FALSE, "none", [c EXCEPT !.pending_error = FALSE])
    /\ UNCHANGED deferred

MayLock == ~c.pending_error /\ c.enable_locking /\ ~c.locked

\* lock: is parsed again in a batch of its own when replies are held back.
HoldsReplies_Ignored == FALSE
HoldsReplies == reply_len > 0

ParseLock ==
    /\ Ready /\ Current.cmd = "lock" /\ ~HoldsReplies
    /\ \E c2 \in IF MayLock THEN AfterCallback([c EXCEPT !.locked = TRUE])
                 ELSE {Fail} :
          Answer(MayLock, StatusAfter(c2), c2)
    /\ UNCHANGED deferred

LockBreak_Fill ==
    /\ Ready /\ Current.cmd = "lock" /\ HoldsReplies
    /\ fill' = TRUE /\ stage' = "flush"
    /\ UNCHANGED <<peer, conns, fds, stream, wire, buf_len, cbuf, parsed,
                   reply_buf, reply_len, c, deferred, sent, chain>>
LockBreak ==
    /\ Ready /\ Current.cmd = "lock" /\ HoldsReplies
    /\ stage' = "flush"
    /\ UNCHANGED <<peer, conns, fds, conn>>

MayUnlock == ~c.pending_error /\ c.enable_locking /\ c.locked

\* The unlock callback may complete what others deferred.
ParseUnlock ==
    /\ Ready /\ Current.cmd = "unlock"
    /\ \E c2 \in IF MayUnlock THEN AfterCallback([c EXCEPT !.locked = FALSE])
                 ELSE {Fail} :
          Answer(MayUnlock, StatusAfter(c2), c2)
    /\ deferred' = (deferred /\ ~MayUnlock)

\* Callbacks run only when no error waits; the reply is zeros otherwise.
MayCall_Always == TRUE
MayCall == ~c.pending_error

\* A callback puts off only data that flush() or unlock() can still fill in.
MayDefer == /\ MayCall
            /\ "flush" \in Handlers \/ ("unlock" \in Handlers /\ c.locked)
            /\ \/ Current.cmd = "rshift"
               \/ Current.cmd = "shift" /\ Current.out > 0

Work(optional) ==
    /\ \E c2 \in IF MayCall THEN AfterCallback(c) ELSE {c} :
          Answer(MayCall, StatusOf(optional, c2), c2)
    /\ deferred' \in {deferred} \cup (IF MayDefer THEN {TRUE} ELSE {})

ParseShift         == Ready /\ Current.cmd = "shift"  /\ Work(TRUE)
ParseSetTck        == Ready /\ Current.cmd = "settck" /\ Work(TRUE)
ParseRegisterShift == Ready /\ Current.cmd = "rshift" /\ Work(FALSE)
ParseState         == Ready /\ Current.cmd = "state"  /\ Work(FALSE)
ParseMrd           == Ready /\ Current.cmd = "mrd"    /\ Work(FALSE)
ParseMwr           == Ready /\ Current.cmd = "mwr"    /\ Work(FALSE)

\* The length is known and the message is not all there: the assertion on its
\* length, which configure states with < where the others say <=.
AssertHolds(r) ==
    CASE r.cmd = "configure" -> r.len < BufMax
      [] r.cmd \in {"shift", "rshift", "mwr"} -> r.len <= BufMax
      [] OTHER -> TRUE

Partial == /\ stage = "scan"
           /\ InBuffer(Current.hdr) /\ Recognised(Current)
           /\ ~InBuffer(Current.len)

NameOnly == InBuffer(Current.name) /\ Recognised(Current)

\* Not even the length is there, or the message is known to be incomplete.
NeedMore ==
    /\ stage = "scan"
    /\ \/ ~InBuffer(1)
       \/ ~InBuffer(Current.name)
       \/ NameOnly /\ ~InBuffer(Current.hdr)
       \/ Partial /\ AssertHolds(Current)
    /\ fill' = TRUE /\ stage' = "flush"
    /\ UNCHANGED <<peer, conns, fds, stream, wire, buf_len, cbuf, parsed,
                   reply_buf, reply_len, c, deferred, sent, chain>>

AssertFails ==
    /\ Partial /\ ~AssertHolds(Current)
    /\ stage' = "aborted"
    /\ UNCHANGED <<peer, conns, fds, conn>>

\* goto error: the replies of the batch are not sent.
ProtocolError ==
    /\ stage = "scan"
    /\ InBuffer(Current.name) /\ ~Recognised(Current)
    /\ stage' = "close"
    /\ UNCHANGED <<peer, conns, fds, conn>>

-----------------------------------------------------------------------------
(* read_packet: after a batch.                                             *)

NoProgress ==
    /\ stage = "flush" /\ cbuf = 0
    /\ stage' = "recv"
    /\ UNCHANGED <<peer, conns, fds, conn>>

\* The flush callback completes deferred work; it may report an error.
Flush_Skipped ==
    /\ stage = "flush" /\ cbuf > 0
    /\ stage' = "send"
    /\ UNCHANGED <<peer, conns, fds, conn>>
Flush ==
    /\ stage = "flush" /\ cbuf > 0
    /\ stage' = "send"
    /\ IF "flush" \in Handlers
       THEN c' \in AfterCallback(c) /\ deferred' = FALSE
       ELSE UNCHANGED <<c, deferred>>
    /\ UNCHANGED <<peer, conns, fds, stream, wire, buf_len, cbuf, parsed,
                   fill, reply_buf, reply_len, sent, chain>>

FlushFails ==
    /\ stage = "flush" /\ cbuf > 0 /\ "flush" \in Handlers
    /\ stage' = "close"
    /\ UNCHANGED <<peer, conns, fds, conn>>

\* The start of read_more.  (After send, what it clears is not looked at again
\* before the next read_more, so it is cleared at once.)
ReadMore_KeepReplies(next) ==
    /\ stage' = next /\ cbuf' = 0 /\ parsed' = 0 /\ fill' = FALSE
    /\ UNCHANGED <<reply_buf, reply_len>>
ReadMore(next) ==
    /\ stage' = next /\ cbuf' = 0 /\ parsed' = 0 /\ fill' = FALSE
    /\ reply_buf' = <<>> /\ reply_len' = 0

\* consume_packet.
Consume_All(n)  == buf_len' = 0
Consume(n) == buf_len' = buf_len - n

\* send_packet, and the way back to the parser or to recv.
Send ==
    /\ stage = "send" /\ peer \in {"up", "fin"}
    /\ peer' \in {peer} \cup (IF peer = "fin" THEN {"broken"} ELSE {})
    /\ sent' = sent \o reply_buf
    /\ stream' = SubSeq(stream, parsed + 1, Len(stream))
    /\ Consume(cbuf)
    /\ ReadMore(IF buf_len' > 0 /\ ~fill THEN "scan" ELSE "recv")
    /\ UNCHANGED <<conns, fds, wire, c, deferred, chain>>

\* send to a broken connection raises SIGPIPE.
PipeBreaks == stage = "send" /\ peer = "broken" /\ SigPipeKills

SendFails ==
    /\ stage = "send" /\ peer \in {"broken", "reset"} /\ ~PipeBreaks
    /\ stage' = "close"
    /\ UNCHANGED <<peer, conns, fds, conn>>

SendKilled ==
    /\ PipeBreaks
    /\ stage' = "exited"
    /\ UNCHANGED <<peer, conns, fds, conn>>

Recv ==
    /\ stage = "recv" /\ peer # "reset"
    /\ \E n \in 1..BufMax :
          /\ n <= wire /\ n <= BufMax - buf_len
          /\ wire' = wire - n
          /\ buf_len' = buf_len + n
    /\ ReadMore("scan")
    /\ UNCHANGED <<peer, conns, fds, stream, c, deferred, sent, chain>>

\* recv returns 0 at the end of the stream, or when asked for no bytes.
RecvEnd_Ignored ==
    /\ stage = "recv" /\ peer = "fin" /\ wire = 0
    /\ ReadMore("scan")
    /\ UNCHANGED <<peer, conns, fds, stream, wire, buf_len, c, deferred, sent,
                   chain>>
RecvEnd ==
    /\ stage = "recv"
    /\ \/ peer \in {"fin", "broken"} /\ wire = 0
       \/ peer # "reset" /\ buf_len = BufMax
    /\ stage' = "close"
    /\ UNCHANGED <<peer, conns, fds, conn>>

RecvFails ==
    /\ stage = "recv" /\ peer = "reset"
    /\ stage' = "close"
    /\ UNCHANGED <<peer, conns, fds, conn>>

-----------------------------------------------------------------------------
(* The client.                                                             *)

Issued == Len(sent) + Len(stream)

ClientWrite ==
    /\ stage \in Serving /\ peer = "up" /\ Issued < MaxRequests
    /\ \E r \in Requests :
          /\ stream' = Append(stream, r)
          /\ wire' = wire + r.len
    /\ UNCHANGED <<stage, peer, conns, fds, buf_len, cbuf, parsed, fill,
                   reply_buf, reply_len, c, deferred, sent, chain>>

ClientClose ==
    /\ stage \in Serving /\ peer = "up"
    /\ peer' \in {"fin", "reset"}
    /\ UNCHANGED <<stage, conns, fds, conn>>

-----------------------------------------------------------------------------
Listen == Accept \/ AcceptNoPeer \/ AcceptRefused \/ AcceptFails

Parse == \/ ParseQuery \/ ParseConfigure \/ ParseError \/ ParseLock
         \/ LockBreak \/ ParseUnlock \/ ParseShift \/ ParseSetTck
         \/ ParseRegisterShift \/ ParseState \/ ParseMrd \/ ParseMwr
         \/ NeedMore
         \/ AssertFails \/ ProtocolError

Transfer == \/ NoProgress \/ Flush \/ FlushFails \/ Send \/ SendFails \/ SendKilled
            \/ Recv \/ RecvEnd \/ RecvFails \/ CloseConnection

Client == ClientWrite \/ ClientClose

\* The process is gone, or no client connects any more.
Stopped ==
    /\ \/ stage \in {"returned", "exited", "aborted"}
       \/ stage = "accept" /\ conns = MaxConns
    /\ UNCHANGED vars

Next == Listen \/ Parse \/ Transfer \/ Client \/ Stopped

\* The server is one thread that blocks only in accept and recv.
Fairness == WF_vars(Parse \/ Transfer)

Spec == Init /\ [][Next]_vars /\ Fairness

-----------------------------------------------------------------------------
TypeOK ==
    /\ stage \in Stages /\ peer \in {"up", "fin", "broken", "reset"}
    /\ conns \in 0..MaxConns /\ fds \in Nat
    /\ stream \in Seq(Requests)
    /\ wire \in Nat /\ buf_len \in Nat
    /\ cbuf \in Nat /\ parsed \in Nat /\ fill \in BOOLEAN
    /\ reply_buf \in Seq(Replies) /\ reply_len \in Nat
    /\ c \in ClientState
    /\ deferred \in BOOLEAN
    /\ sent \in Seq(Replies)
    /\ chain \in {"free", "held", "left"}

-----------------------------------------------------------------------------
(* Properties.                                                             *)

\* Everything answered in this connection, sent or not.
History == sent \o reply_buf

\* The session of a client depends on its requests only, never on how TCP cut
\* them: requests are served in order, one reply each, as XvcSession says.
Session == INSTANCE XvcSession WITH
    Terse  <- {"shift", "settck"},
    up     <- stage \in Serving,
    todo   <- IF stage \in Serving
              THEN SubSeq(stream, parsed + 1, Len(stream)) ELSE <<>>,
    outbox <- IF stage \in Serving THEN reply_buf ELSE <<>>,
    inbox  <- sent,
    err    <- stage \in Serving /\ c.pending_error,
    held   <- stage \in Serving /\ c.locked

ImplementsSession == Session!Spec

\* Once a status byte has reported an error, no callback of a later command is
\* called until an "error:" has collected it, across batches.
ErrorLatched ==
    \A i, j \in DOMAIN History :
        /\ i < j
        /\ History[i].status = "err"
        /\ \A k \in i..j : History[k].cmd # "error"
        => ~History[j].ran

\* A status byte 0 to a command served by a callback means it was called.
StatusHonest ==
    \A i \in DOMAIN History :
        History[i].cmd \in Calling /\ History[i].status = "ok"
            => History[i].ran

\* The callbacks a step calls.
Calls(cmd) == /\ parsed' > parsed
              /\ Last(reply_buf').cmd = cmd /\ Last(reply_buf').ran
LockRuns   == Calls("lock")
UnlockRuns == Calls("unlock")

\* The callbacks see one client's lock at a time, across connections however
\* they end: lock() never runs while the client that is served holds the chain,
\* and unlock() only when it does, never for a lock an earlier client left.  (That
\* lock() is called on such a chain, without an unlock() before, is what the code
\* does and the header does not say.)
LockPaired == [][/\ LockRuns => chain # "held"
                 /\ UnlockRuns => chain = "held"]_vars

\* lock() may block for the client's timeout; it is entered only when no
\* callback owes data to a reply that is held back: what was deferred before
\* has been completed, by flush() or by unlock().
LockOwesNothing == [][LockRuns => ~deferred]_vars

\* A connection inherits nothing from the one before: its lock, its settings
\* and its error come from requests it has been answered.
NothingInherited ==
    stage \in Serving =>
        /\ c.locked => \E i \in DOMAIN History : Locks(History[i])
        /\ c.enable_locking \/ c.enable_status =>
              \E i \in DOMAIN History : History[i].cmd = "configure"
        /\ c.pending_error => History # <<>>

\* The buffer starts at a message boundary: what is buffered and what is on
\* the wire are the unconsumed requests to the byte, and the parser's position
\* is the end of the last parsed one.  When recv is called there is room: a
\* request left in a full buffer would make it ask for no bytes and take the
\* answer for the end of the stream.
Bytes(s) == LET Upto[i \in 0..Len(s)] == IF i = 0 THEN 0 ELSE Upto[i - 1] + s[i].len
            IN Upto[Len(s)]
FramingExact ==
    stage \in Serving =>
        /\ buf_len + wire = Bytes(stream)
        /\ cbuf = Bytes(SubSeq(stream, 1, parsed))
        /\ cbuf <= buf_len
        /\ stage = "recv" => buf_len < BufMax

\* No reply leaves while a callback still owes part of its data.  It holds when
\* there is a flush callback, or no unlock callback to wait for; xvcserver.h lets
\* shift and register_shift wait for unlock() in any table of handlers.
SentComplete == [][Len(sent') > Len(sent) => ~deferred]_vars

\* Every request a connected client has written is answered, unless the
\* connection ends.
AnsweredEventually ==
    \A k \in 1..MaxRequests :
        (stage \in Serving /\ Issued >= k) ~>
            (Len(sent) >= k \/ stage \notin Serving)

\* When the client has gone the server returns to its accept loop, if SIGPIPE
\* is ignored and no assertion fails.
ListensAgain ==
    (stage \in Serving /\ peer # "up") ~> stage \in {"accept", "aborted"}

\* xvcserver.h: xvcserver_start "will wait indefinitely for incomming
\* connections": whatever a client does, the process is there to accept the
\* next one (that accept itself fails, and the call returns, is no client's
\* doing).
WaitsIndefinitely == stage # "exited"
=============================================================================
