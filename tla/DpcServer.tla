------------------------------ MODULE DpcServer ------------------------------
(***************************************************************************)
(* The program xvc_dpc around its rings: xvcserver_start and read_packet   *)
(* of dpc/src/xvcserver.c, the callbacks of xvc_dpc.c and the mappings of  *)
(* hsdp_lib.c, from the URL to the exit of the process.  The rings below   *)
(* idpc: and edpc: are the channel DpcLink, which DpcRing implements.      *)
(*                                                                         *)
(* As in XvcServer the receive buffer is a window on "stream"; here the    *)
(* length of a message is what the parser decodes from the bytes of its    *)
(* numbers that have arrived.  A request is a record:                      *)
(*   cmd   the command      name  bytes up to and including the ':'        *)
(*   nums  its numbers      body  bytes behind them                        *)
(*   bad   configure only: it has an option that is refused                *)
(***************************************************************************)
EXTENDS Integers, Sequences, SequencesExt, Uleb128

CONSTANTS Requests,     \* the requests a client may send
          WordBytes,    \* 4
          MaxWords,     \* MAX_PACKET_SIZE, which idpc compares with words
          BufMax,       \* max_packet_len
          MaxAddrs,     \* bound: addresses getaddrinfo returns
          MaxRequests,  \* bound: requests a client writes in one connection
          MaxConns,     \* bound: connection attempts
          MaxPackets    \* bound: packets the Debug Packet Controller takes

Commands == {"getinfo", "capabilities", "configure", "error", "edpc", "idpc",
             "unknown"}
RequestType == [cmd : Commands, name : Nat \ {0}, nums : Seq(Nat), body : Nat,
                bad : BOOLEAN]

ASSUME DpcServerAssumption ==
    /\ WordBytes \in Nat \ {0} /\ MaxWords \in Nat /\ BufMax \in Nat \ {0}
    /\ {MaxAddrs, MaxRequests, MaxConns, MaxPackets} \subseteq Nat
    /\ Requests \subseteq RequestType
    /\ \A r \in Requests :
          /\ Len(r.nums) = (CASE r.cmd \in {"configure", "edpc"} -> 1
                              [] r.cmd = "idpc" -> 2
                              [] OTHER -> 0)
          /\ r.body = (CASE r.cmd = "configure" -> r.nums[1]
                         [] r.cmd = "idpc" -> r.nums[2] * WordBytes
                         [] OTHER -> 0)

VARIABLES
    stage,      \* where the process is
    ret,        \* what xvcserver_start has returned, "none" before that
    addrs,      \* addresses open_server has not tried
    listeners,  \* sockets made by open_server that are open
    conns,      \* connection attempts so far
    fds,        \* accepted sockets that are open,
    strays,     \*   those among them that were left by a failed getpeername
    maps,       \* mmap_buffer_count
    hsdp,       \* hsdp_dma structures allocated
    peer,       \* the client's end, as in XvcServer
    stream,     \* requests written and not consumed by the server
    wire,       \* bytes of stream that are not in the buffer
    buf_len,    \* bytes of stream in the buffer
    cbuf,       \* bytes of the buffer parsed in this batch
    parsed,     \* requests parsed in this batch
    reply_buf,  \* replies of this batch
    pending_error,
    delivered,  \* replies given to send()
    taken, queue, got,  \* the channel: see DpcLink
    before      \* taken and Len(got) when the connection began

startup == <<ret, addrs, listeners>>
sockets == <<conns, fds, strays>>
memory == <<maps, hsdp>>
input == <<stream, wire, buf_len>>
batch == <<cbuf, parsed, reply_buf>>
link == <<taken, queue, got>>
client == <<delivered, before>>
vars == <<stage, startup, sockets, memory, peer, input, batch, pending_error,
          client, link>>

Link == INSTANCE DpcLink WITH sent <- taken

Serving == {"scan", "send", "recv", "close"}

Init ==
    /\ stage = "url" /\ ret = "none" /\ addrs = 0 /\ listeners = 0
    /\ conns = 0 /\ fds = 0 /\ strays = 0 /\ maps = 0 /\ hsdp = 0 /\ peer = "fin"
    /\ stream = <<>> /\ wire = 0 /\ buf_len = 0
    /\ cbuf = 0 /\ parsed = 0 /\ reply_buf = <<>> /\ pending_error = FALSE
    /\ delivered = <<>> /\ before = [taken |-> 0, got |-> 0]
    /\ taken = 0 /\ queue = <<>> /\ got = <<>>

\* Nothing of a connection changes.
NoTraffic == UNCHANGED <<peer, input, batch, pending_error, client, link>>

-----------------------------------------------------------------------------
(* xvcserver_start up to its loop *)

Returns(code) == stage' = "returned" /\ ret' = code

\* The URL has the given number of fields; tcp says that the first is "tcp".
ParseUrl ==
    /\ stage = "url"
    /\ \E tcp \in BOOLEAN, fields \in 1..4 :
          IF fields <= (IF tcp THEN 3 ELSE 2)
          THEN stage' = "resolve" /\ UNCHANGED ret
          ELSE Returns(IF tcp THEN "ERROR_INVALID_URL_FIELD"
                       ELSE "ERROR_INVALID_URL_TRANSPORT_TYPE")
    /\ UNCHANGED <<addrs, listeners, sockets, memory>> /\ NoTraffic

\* getaddrinfo, which returns at least one address or fails.
Resolve ==
    /\ stage = "resolve"
    /\ \/ addrs' \in 1..MaxAddrs /\ stage' = "listen" /\ UNCHANGED ret
       \/ Returns("ERROR_SOCKET_CREATION") /\ UNCHANGED addrs
    /\ UNCHANGED <<listeners, sockets, memory>> /\ NoTraffic

Exhausted == IF addrs' = 0 THEN Returns("ERROR_SOCKET_CREATION")
             ELSE UNCHANGED <<stage, ret>>

\* socket fails, or setsockopt, bind or listen, and the socket is closed.
TryAddress_Left ==
    /\ stage = "listen" /\ addrs > 0
    /\ addrs' = addrs - 1
    /\ \/ Exhausted /\ listeners' \in {listeners, listeners + 1}
       \/ stage' = "name" /\ listeners' = listeners + 1 /\ UNCHANGED ret
    /\ UNCHANGED <<sockets, memory>> /\ NoTraffic
TryAddress ==
    /\ stage = "listen" /\ addrs > 0
    /\ addrs' = addrs - 1
    /\ \/ Exhausted /\ UNCHANGED listeners
       \/ stage' = "name" /\ listeners' = listeners + 1 /\ UNCHANGED ret
    /\ UNCHANGED <<sockets, memory>> /\ NoTraffic

\* gethostname is called when the URL names no host.
HostName ==
    /\ stage = "name"
    /\ \/ stage' = "accept" /\ UNCHANGED <<ret, listeners>>
       \/ Returns("ERROR_GETHOSTNAME_FAILED") /\ listeners' = listeners - 1
    /\ UNCHANGED <<addrs, sockets, memory>> /\ NoTraffic

-----------------------------------------------------------------------------
(* The accept loop, open_port and close_port *)

Attempt == stage = "accept" /\ conns < MaxConns /\ conns' = conns + 1

\* accept fails, and xvcserver_start returns 0.
AcceptFails ==
    /\ Attempt
    /\ Returns("0") /\ listeners' = listeners - 1
    /\ UNCHANGED <<addrs, fds, strays, memory>> /\ NoTraffic

\* getpeername fails because the peer has gone: the socket is not closed.
AcceptNoPeer ==
    /\ Attempt
    /\ fds' = fds + 1 /\ strays' = strays + 1
    /\ UNCHANGED <<stage, startup, memory>> /\ NoTraffic

\* hsdp_open calls alloc_buffers, which maps both regions, only when nothing is
\* mapped.
NeedsMapping_Always == TRUE
NeedsMapping == maps = 0
Regions == 2

\* hsdp_open allocates a handle and resets the rings, where packets and responses
\* may be lost.
OpenPort ==
    /\ maps' = IF NeedsMapping THEN maps + Regions ELSE maps
    /\ hsdp' = hsdp + 1
    /\ Link!Lose

\* hsdp_close frees the handle; it would unmap the regions had it none.
ClosePort ==
    IF hsdp > 0 THEN hsdp' = hsdp - 1 /\ UNCHANGED maps
    ELSE maps' = 0 /\ UNCHANGED hsdp

Accept ==
    /\ Attempt
    /\ OpenPort
    /\ fds' = fds + 1
    /\ stage' = "scan" /\ peer' = "up"
    /\ stream' = <<>> /\ wire' = 0 /\ buf_len' = 0
    /\ cbuf' = 0 /\ parsed' = 0 /\ reply_buf' = <<>> /\ pending_error' = FALSE
    /\ delivered' = <<>> /\ before' = [taken |-> taken, got |-> Len(got)]
    /\ UNCHANGED <<startup, strays>>

\* /dev/mem cannot be opened or mapped: exit.
MapFails ==
    /\ Attempt /\ NeedsMapping
    /\ maps' \in maps..(maps + Regions - 1)
    /\ fds' = fds + 1 /\ stage' = "exited"
    /\ UNCHANGED <<startup, strays, hsdp>> /\ NoTraffic

CloseConnection ==
    /\ stage = "close"
    /\ ClosePort
    /\ stage' = "accept" /\ fds' = fds - 1 /\ peer' = "fin"
    /\ UNCHANGED <<startup, conns, strays, input, batch, pending_error, client,
                   link>>

-----------------------------------------------------------------------------
(* read_packet: one message after another *)

\* The bytes of the numbers of each request.
Digits == [r \in Requests |->
             FlattenSeq([i \in DOMAIN r.nums |-> Encode[r.nums[i]]])]
\* Bytes of a request, as its client wrote it.
Bytes(r) == r.name + Len(Digits[r]) + r.body

Current == stream[parsed + 1]
Available == buf_len - cbuf
NameArrived == parsed < Len(stream) /\ Current.name <= Available

\* The numbers of Current as the parser reads them now: how far they reach, and
\* the last one.
FirstWidth == Width(Digits[Current], Available - Current.name)
SecondDigits == SubSeq(Digits[Current], FirstWidth + 1, Len(Digits[Current]))
SecondArrived == Available - Current.name - FirstWidth
NumWords == Value(SecondDigits, SecondArrived)

\* cbuf would be advanced by this.
Extent ==
    Current.name
    + CASE Current.cmd = "edpc" -> FirstWidth
        [] Current.cmd = "configure" ->
              FirstWidth + Value(Digits[Current], Available - Current.name)
        [] Current.cmd = "idpc" ->
              FirstWidth + Width(SecondDigits, SecondArrived) + NumWords * WordBytes
        [] OTHER -> 0

Complete_Strict == Extent < Available
Complete == Extent <= Available

Ready(cmds) == stage = "scan" /\ NameArrived /\ Current.cmd \in cmds /\ Complete

\* reply_status comes after the callback; status "none" is a reply without it.
StatusOf(err) == IF err THEN "err" ELSE "ok"
Answer(ran, status, response, err) ==
    /\ reply_buf' = Append(reply_buf, [cmd |-> Current.cmd, ran |-> ran,
                                       status |-> status, response |-> response])
    /\ cbuf' = cbuf + Extent
    /\ parsed' = parsed + 1
    /\ pending_error' = err
    /\ UNCHANGED <<stage, startup, sockets, memory, peer, input, client>>

ParseQuery == /\ Ready({"getinfo", "capabilities"})
              /\ Answer(FALSE, "none", <<>>, pending_error) /\ UNCHANGED link
ParseError == /\ Ready({"error"})
              /\ Answer(FALSE, "none", <<>>, FALSE) /\ UNCHANGED link

\* There are no lock callbacks, so "locking" is refused like an unknown option;
\* enable_status is stored and never read.
ParseConfigure ==
    /\ Ready({"configure"})
    /\ LET err == pending_error \/ Current.bad
       IN Answer(FALSE, StatusOf(err), <<>>, err)
    /\ UNCHANGED link

MayCall_Always == TRUE
MayCall == ~pending_error

\* The callback finds nothing, or the oldest response.
Edpc(response) ==
    \/ response = <<>> /\ UNCHANGED link
    \/ Link!Get /\ response = <<Head(queue)>>

\* An error leaves zeros in the place of a response.
ParseEdpc ==
    /\ Ready({"edpc"})
    /\ \/ /\ MayCall
          /\ \E response \in {<<>>} \cup {<<q>> : q \in ToSet(queue)} :
                /\ Edpc(response)
                /\ Answer(TRUE, StatusOf(pending_error),
                          IF pending_error THEN <<>> ELSE response, pending_error)
       \/ /\ ~MayCall /\ UNCHANGED link
          /\ Answer(FALSE, StatusOf(pending_error), <<>>, pending_error)

\* The callback: the packet is taken; or it is too long, or no descriptor gets
\* free, and an error is set.
Idpc(error) ==
    \/ /\ ~error /\ NumWords < MaxWords /\ taken < MaxPackets
       /\ Link!Put
    \/ error /\ UNCHANGED link

ParseIdpc ==
    /\ Ready({"idpc"})
    /\ \/ /\ MayCall
          /\ \E error \in BOOLEAN :
                LET err == pending_error \/ error
                IN Idpc(error) /\ Answer(TRUE, StatusOf(err), <<>>, err)
       \/ /\ ~MayCall /\ UNCHANGED link
          /\ Answer(FALSE, StatusOf(pending_error), <<>>, pending_error)

\* assert(p - cbuf <= c->buf_max), with < for configure.
AssertHolds_Strict == Extent < BufMax
AssertHolds == IF Current.cmd = "configure" THEN Extent < BufMax ELSE Extent <= BufMax

\* The batch ends on a message that is not all there; an empty one is not sent.
NeedMore ==
    /\ stage = "scan"
    /\ NameArrived => Current.cmd # "unknown" /\ ~Complete /\ AssertHolds
    /\ stage' = IF cbuf > 0 THEN "send" ELSE "recv"
    /\ UNCHANGED <<startup, sockets, memory>> /\ NoTraffic

AssertFails ==
    /\ stage = "scan" /\ NameArrived
    /\ Current.cmd # "unknown" /\ ~Complete /\ ~AssertHolds
    /\ stage' = "aborted"
    /\ UNCHANGED <<startup, sockets, memory>> /\ NoTraffic

\* goto error: the replies of the batch are not sent.
ProtocolError ==
    /\ stage = "scan" /\ NameArrived /\ Current.cmd = "unknown"
    /\ stage' = "close"
    /\ UNCHANGED <<startup, sockets, memory>> /\ NoTraffic

-----------------------------------------------------------------------------
(* read_packet: after a batch.  There is no flush callback. *)

\* read_more.
ReadMore_KeepReplies == cbuf' = 0 /\ parsed' = 0 /\ reply_buf' = reply_buf
ReadMore == cbuf' = 0 /\ parsed' = 0 /\ reply_buf' = <<>>

\* send_packet and consume_packet.  The batch ended with fill set, so recv comes
\* next, whatever is left in the buffer.
Send ==
    /\ stage = "send" /\ peer \in {"up", "fin"}
    /\ peer' \in {peer} \cup (IF peer = "fin" THEN {"broken"} ELSE {})
    /\ delivered' = delivered \o reply_buf
    /\ stream' = SubSeq(stream, parsed + 1, Len(stream))
    /\ buf_len' = buf_len - cbuf
    /\ ReadMore
    /\ stage' = "recv"
    /\ UNCHANGED <<startup, sockets, memory, wire, pending_error, before, link>>

SendFails ==
    /\ stage = "send" /\ peer \in {"broken", "reset"}
    /\ stage' = "close"
    /\ UNCHANGED <<startup, sockets, memory>> /\ NoTraffic

\* SIGPIPE, where it is not ignored.
SendKilled ==
    /\ stage = "send" /\ peer = "broken"
    /\ stage' = "exited"
    /\ UNCHANGED <<startup, sockets, memory>> /\ NoTraffic

Room == BufMax - buf_len

Recv ==
    /\ stage = "recv" /\ peer # "reset"
    /\ \E n \in 1..BufMax :
          /\ n <= wire /\ n <= Room
          /\ wire' = wire - n /\ buf_len' = buf_len + n
    /\ ReadMore
    /\ stage' = "scan"
    /\ UNCHANGED <<startup, sockets, memory, peer, stream, pending_error, client,
                   link>>

\* recv returns 0 at the end of the stream, or when asked for no bytes.
RecvEnd ==
    /\ stage = "recv"
    /\ \/ peer \in {"fin", "broken"} /\ wire = 0
       \/ peer # "reset" /\ Room = 0
    /\ stage' = "close"
    /\ UNCHANGED <<startup, sockets, memory>> /\ NoTraffic

RecvFails ==
    /\ stage = "recv" /\ peer = "reset"
    /\ stage' = "close"
    /\ UNCHANGED <<startup, sockets, memory>> /\ NoTraffic

-----------------------------------------------------------------------------
(* The client, and the channel. *)

Issued == Len(delivered) + Len(stream)

ClientWrite ==
    /\ stage \in Serving /\ peer = "up" /\ Issued < MaxRequests
    /\ \E r \in Requests :
          stream' = Append(stream, r) /\ wire' = wire + Bytes(r)
    /\ UNCHANGED <<stage, startup, sockets, memory, peer, buf_len, batch,
                   pending_error, client, link>>

ClientClose ==
    /\ stage \in Serving /\ peer = "up"
    /\ peer' \in {"fin", "reset"}
    /\ UNCHANGED <<stage, startup, sockets, memory, input, batch, pending_error,
                   client, link>>

\* An error of the DMA.
LinkLoses ==
    /\ stage \in Serving /\ Link!Lose /\ queue' # queue
    /\ UNCHANGED <<stage, startup, sockets, memory, peer, input, batch,
                   pending_error, client>>

-----------------------------------------------------------------------------
StartUp == ParseUrl \/ Resolve \/ TryAddress \/ HostName
Listen == Accept \/ AcceptFails \/ AcceptNoPeer \/ MapFails
Parse == \/ ParseQuery \/ ParseConfigure \/ ParseError \/ ParseEdpc \/ ParseIdpc
         \/ NeedMore \/ AssertFails \/ ProtocolError
Transfer == \/ Send \/ SendFails \/ SendKilled \/ Recv \/ RecvEnd \/ RecvFails
            \/ CloseConnection
Environment == ClientWrite \/ ClientClose \/ LinkLoses

\* The process is gone, or no client connects any more.
Stopped ==
    /\ \/ stage \in {"returned", "exited", "aborted"}
       \/ stage = "accept" /\ conns = MaxConns
    /\ UNCHANGED vars

Next == StartUp \/ Listen \/ Parse \/ Transfer \/ Environment \/ Stopped

\* The server is one thread that blocks only in accept and recv.
Fairness == WF_vars(Parse \/ Transfer)

Spec == Init /\ [][Next]_vars /\ Fairness

-----------------------------------------------------------------------------
\* Everything answered in this connection, sent or not.
History == delivered \o reply_buf

\* This engine too makes of every connection the session its requests determine,
\* whatever TCP does with their bytes and numbers: replies in order, one each,
\* a status byte to every configure:, edpc: and idpc:.
Plain(replies) == [i \in DOMAIN replies |->
    [cmd |-> replies[i].cmd, ran |-> replies[i].ran, status |-> replies[i].status]]
Session == INSTANCE XvcSession WITH
    Calling <- {"edpc", "idpc"},
    Terse   <- {},
    up      <- stage \in Serving,
    todo    <- IF stage \in Serving
               THEN SubSeq(stream, parsed + 1, Len(stream)) ELSE <<>>,
    outbox  <- IF stage \in Serving THEN Plain(reply_buf) ELSE <<>>,
    inbox   <- Plain(delivered),
    err     <- stage \in Serving /\ pending_error,
    held    <- FALSE
ImplementsSession == Session!Spec

\* The parser stands at the end of a message: a number cut anywhere by TCP never
\* makes it take a message for complete or for longer or shorter than it is.
Total(s) == LET Upto[i \in 0..Len(s)] == IF i = 0 THEN 0 ELSE Upto[i - 1] + Bytes(s[i])
            IN Upto[Len(s)]
FramingExact ==
    stage \in Serving =>
        /\ buf_len + wire = Total(stream)
        /\ cbuf = Total(SubSeq(stream, 1, parsed))
        /\ cbuf <= buf_len

\* The assertions on the length of an incomplete message fail for messages only
\* that do not fit the buffer (that fill it, in the case of configure:), though
\* they may be evaluated with part of a number.
AbortsOnlyForLength ==
    stage = "aborted" =>
        Bytes(Current) > BufMax - (IF Current.cmd = "configure" THEN 1 ELSE 0)

\* A packet was taken for each idpc: answered "ok" and no other, and the
\* responses taken from the channel are in the replies, once and in order.
Responses(replies) == FlattenSeq([i \in DOMAIN replies |-> replies[i].response])
LinkHonest ==
    stage \in Serving =>
        /\ taken - before.taken =
              Cardinality({i \in DOMAIN History :
                              History[i].cmd = "idpc" /\ History[i].status = "ok"})
        /\ Responses(History) = SubSeq(got, before.got + 1, Len(got))

\* One socket listens while there is a loop to accept from it, none after the
\* server has returned; besides those a failed getpeername leaves behind there
\* is one accepted socket and one handle in a connection and none outside.
SocketsTidy ==
    /\ stage \in Serving \cup {"name", "accept"} => listeners = 1
    /\ stage \in {"url", "resolve", "listen", "returned"} => listeners = 0
    /\ stage \in Serving => fds = strays + 1 /\ hsdp = 1
    /\ stage \in {"accept", "returned"} => fds = strays /\ hsdp = 0

\* The assertion of mmap_buffer, mmap_buffer_count < MAX_MMAP_BUFFERS, holds
\* through all connections, and both regions are mapped in each of them.
MappedOnce == maps <= 2 /\ (stage \in Serving => maps = 2)

\* Every request a connected client has written is answered, unless the
\* connection or the process ends.
AnsweredEventually ==
    \A k \in 1..MaxRequests :
        (stage \in Serving /\ Issued >= k) ~>
            (Len(delivered) >= k \/ stage \notin Serving)

=============================================================================
