------------------------------ MODULE JtagServer ------------------------------
(***************************************************************************)
(* xvcServer.c of jtag/zynqMP (the one of jtag/zynq7000 has the same loop):*)
(* one thread, a select loop over the listening socket and the clients,    *)
(* and handle_data, which reads with blocking calls and goes on with the   *)
(* same client after a shift: until that client has sent getinfo: or       *)
(* settck:, the JTAG state machine may be anywhere and nobody else is      *)
(* served.  settck: is served like getinfo: and not told apart from it;    *)
(* where the code merely leaves the JTAG state as it is, the sequence of   *)
(* shifts that is tracked here ends.                                       *)
(*                                                                         *)
(* Clients and TCP are the environment.  A request is two pieces, the two  *)
(* bytes handle_data looks at first and the rest of it; TCP may deliver    *)
(* them apart, and sread hides every other cut.                            *)
(***************************************************************************)
EXTENDS Integers, Sequences, FiniteSets, FiniteSetsExt

CONSTANTS Fds,           \* descriptors of the process, but for fd_ioctl
          Listener,      \* s
          Requested,     \* kinds of request the clients make
          MaxConns,      \* bound: clients that connect
          MaxRequests    \* bound: requests of all of them

\* "big" is a shift of more bits than the buffer holds.
Kinds == {"getinfo", "shift", "big", "bad"}
Name == [k \in Kinds |-> CASE k = "getinfo" -> "ge" [] k = "bad" -> "?" [] OTHER -> "sh"]
Pieces == Kinds \cup {"ge", "sh", "?"}

ASSUME JtagAssumption ==
    /\ Fds \subseteq Nat /\ IsFiniteSet(Fds) /\ Listener \in Fds
    /\ Requested \subseteq Kinds
    /\ MaxConns \in Nat /\ MaxRequests \in Nat

ClientFds == Fds \ {Listener}
Nobody == -1

VARIABLES
    conn, maxfd,     \* the descriptors select looks at
    ready, except,   \* of those it found, the ones the scan has not come to
    pc, fd,          \* where the server is, and the client it handles
    attempts,        \* clients that have connected
    asked,           \* requests made
    waiting,         \* of these, not accepted yet
    peer,            \* of each descriptor: "none" (not open), "up", "fin",
                     \*   "broken" (closed and has refused a reply)
    stream,          \* pieces written and not read
    half,            \* clients that have written half a request
    urgent,          \* clients that have sent out-of-band data
    owed, replies,   \* requests not answered, number of those answered
    jtag             \* whose sequence of shifts is unfinished

loop == <<conn, maxfd, ready, except, pc, fd>>
clients == <<attempts, asked, waiting, peer, stream, half, urgent, owed, replies>>
vars == <<loop, clients, jtag>>

Init ==
    /\ conn = {Listener} /\ maxfd = Listener
    /\ ready = {} /\ except = {} /\ pc = "select" /\ fd = Nobody
    /\ attempts = 0 /\ asked = 0 /\ waiting = 0
    /\ peer = [f \in ClientFds |-> "none"]
    /\ stream = [f \in ClientFds |-> <<>>] /\ half = {} /\ urgent = {}
    /\ owed = [f \in ClientFds |-> <<>>]
    /\ replies = [f \in ClientFds |-> 0]
    /\ jtag = Nobody

-----------------------------------------------------------------------------
(* The loop of main. *)

\* Descriptors below the first argument of select.
Watched_Short == {f \in conn : f < maxfd}
Watched == {f \in conn : f <= maxfd}

Readable(f) == IF f = Listener THEN waiting > 0
               ELSE stream[f] # <<>> \/ peer[f] \in {"fin", "broken"}

\* select blocks until there is something.
Select ==
    /\ pc = "select"
    /\ ready' = {f \in Watched : Readable(f)}
    /\ except' = Watched \cap urgent
    /\ ready' \cup except' # {}
    /\ pc' = "scan"
    /\ UNCHANGED <<conn, maxfd, fd, clients, jtag>>

\* The loop ends and main returns.
SelectFails ==
    /\ pc = "select"
    /\ pc' = "returned"
    /\ UNCHANGED <<conn, maxfd, ready, except, fd, clients, jtag>>

\* The scan has come to f; Passed: it is through with it.
Found(f) == pc = "scan" /\ ready \cup except # {} /\ f = Min(ready \cup except)
Passed(f) == /\ ready' = ready \ {f} /\ except' = except \ {f}
             /\ pc' = "scan" /\ fd' = Nobody

ScanEnd ==
    /\ pc = "scan" /\ ready \cup except = {}
    /\ pc' = "select"
    /\ UNCHANGED <<conn, maxfd, ready, except, fd, clients, jtag>>

Raised_Forgotten(newfd) == maxfd
Raised(newfd) == IF newfd > maxfd THEN newfd ELSE maxfd

\* accept gives the lowest descriptor that is free.
Accept ==
    /\ Found(Listener)
    /\ \E f \in ClientFds : peer[f] = "none"
    /\ LET newfd == Min({f \in ClientFds : peer[f] = "none"}) IN
          /\ conn' = conn \cup {newfd} /\ maxfd' = Raised(newfd)
          /\ peer' = [peer EXCEPT ![newfd] = "up"]
    /\ waiting' = waiting - 1
    /\ Passed(Listener)
    /\ UNCHANGED <<attempts, asked, stream, half, urgent, owed, replies, jtag>>

\* The loop goes on.
AcceptFails ==
    /\ Found(Listener)
    /\ \A f \in ClientFds : peer[f] # "none"
    /\ Passed(Listener)
    /\ UNCHANGED <<conn, maxfd, clients, jtag>>

\* close and FD_CLR.
CloseFd(f) ==
    /\ conn' = conn \ {f}
    /\ peer' = [peer EXCEPT ![f] = "none"]
    /\ stream' = [stream EXCEPT ![f] = <<>>]
    /\ half' = half \ {f} /\ urgent' = urgent \ {f}
    /\ owed' = [owed EXCEPT ![f] = <<>>] /\ replies' = [replies EXCEPT ![f] = 0]
    /\ jtag' = IF jtag = f THEN Nobody ELSE jtag
    /\ Passed(f)
    /\ UNCHANGED <<maxfd, attempts, asked, waiting>>

\* Of a client: a listening socket has no exceptional condition.
Abort == \E f \in except \ ready : Found(f) /\ CloseFd(f)

-----------------------------------------------------------------------------
(* handle_data, for the client fd. *)

HandleData ==
    /\ \E f \in ready \ {Listener} : Found(f) /\ fd' = f
    /\ pc' = "name"
    /\ UNCHANGED <<conn, maxfd, ready, except, clients, jtag>>

\* sread: the next piece is there, or will never be.
Piece(from, p) == pc = from /\ stream[fd] # <<>> /\ Head(stream[fd]) \in p
EndOfFile == /\ pc \in {"name", "rest"}
             /\ stream[fd] = <<>> /\ peer[fd] \in {"fin", "broken"}

Read(to) ==
    /\ stream' = [stream EXCEPT ![fd] = Tail(stream[fd])]
    /\ pc' = to
    /\ UNCHANGED <<conn, maxfd, ready, except, fd, attempts, asked, waiting,
                   peer, half, urgent, owed, replies, jtag>>

ReadName == Piece("name", {"sh", "ge"}) /\ Read("rest")

\* The arguments of a getinfo: or settck: are read, or a shift within bounds.
ReadRest_Left ==
    /\ Piece("rest", {"getinfo"})
    /\ pc' = "answer"
    /\ UNCHANGED <<conn, maxfd, ready, except, fd, clients, jtag>>
ReadRest == Piece("rest", {"getinfo"}) /\ Read("answer")
ReadShift == Piece("rest", {"shift"}) /\ Read("shift")

\* Every other end of handle_data that returns 1 before it answers.
HangUp ==
    /\ \/ EndOfFile
       \/ Piece("name", Pieces \ {"sh", "ge"})
       \/ Piece("rest", {"big"})
    /\ CloseFd(fd)

\* The ioctl, or the loop over the registers.
Shift ==
    /\ pc = "shift"
    /\ jtag' = fd
    /\ pc' = "tdo"
    /\ UNCHANGED <<conn, maxfd, ready, except, fd, clients>>

ShiftFails == pc = "shift" /\ CloseFd(fd)

\* write.
Write ==
    /\ peer[fd] \in {"up", "fin"}
    /\ \E p \in {peer[fd]} \cup (IF peer[fd] = "fin" THEN {"broken"} ELSE {}) :
          peer' = [peer EXCEPT ![fd] = p]
    /\ owed' = [owed EXCEPT ![fd] = Tail(owed[fd])]
    /\ replies' = [replies EXCEPT ![fd] = replies[fd] + 1]
    /\ UNCHANGED <<conn, maxfd, attempts, asked, waiting, stream, half, urgent>>

\* After a shift the loop of handle_data goes on; otherwise it is left.
ReplyShift_Return == pc = "tdo" /\ Write /\ Passed(fd) /\ UNCHANGED jtag
ReplyShift == pc = "tdo" /\ Write /\ pc' = "name" /\ UNCHANGED <<ready, except, fd, jtag>>
Reply == /\ pc = "answer" /\ Write /\ Passed(fd)
         /\ jtag' = IF jtag = fd THEN Nobody ELSE jtag

\* write to a broken connection: SIGPIPE, or an error where whoever started the
\* server has it ignored.
Refused == pc \in {"answer", "tdo"} /\ peer[fd] = "broken"
WriteFails == Refused /\ CloseFd(fd)
Killed ==
    /\ Refused
    /\ pc' = "killed"
    /\ UNCHANGED <<conn, maxfd, ready, except, fd, clients, jtag>>

-----------------------------------------------------------------------------
(* The clients. *)

Connect ==
    /\ attempts < MaxConns
    /\ attempts' = attempts + 1 /\ waiting' = waiting + 1
    /\ UNCHANGED <<loop, asked, peer, stream, half, urgent, owed, replies, jtag>>

Asked(f) == replies[f] + Len(owed[f])

BeginRequest(f) ==
    /\ peer[f] = "up" /\ f \notin half /\ asked < MaxRequests
    /\ asked' = asked + 1
    /\ \E k \in Requested :
          /\ owed' = [owed EXCEPT ![f] = Append(owed[f], k)]
          /\ stream' = [stream EXCEPT ![f] = Append(stream[f], Name[k])]
    /\ half' = half \cup {f}
    /\ UNCHANGED <<loop, attempts, waiting, peer, urgent, replies, jtag>>

FinishRequest(f) ==
    /\ peer[f] = "up" /\ f \in half
    /\ stream' = [stream EXCEPT ![f] = Append(stream[f], owed[f][Len(owed[f])])]
    /\ half' = half \ {f}
    /\ UNCHANGED <<loop, attempts, asked, waiting, peer, urgent, owed, replies, jtag>>

Close(f) ==
    /\ peer[f] = "up"
    /\ peer' = [peer EXCEPT ![f] = "fin"]
    /\ UNCHANGED <<loop, attempts, asked, waiting, stream, half, urgent, owed, replies, jtag>>

Urge(f) ==
    /\ peer[f] = "up"
    /\ urgent' = urgent \cup {f}
    /\ UNCHANGED <<loop, attempts, asked, waiting, peer, stream, half, owed, replies, jtag>>

-----------------------------------------------------------------------------
Main == Select \/ ScanEnd \/ Accept \/ AcceptFails \/ Abort
Handle == \/ HandleData \/ ReadName \/ ReadRest \/ ReadShift \/ HangUp
          \/ Shift \/ ShiftFails \/ ReplyShift \/ Reply \/ WriteFails \/ Killed
Talk(f) == BeginRequest(f) \/ FinishRequest(f) \/ Close(f)

Next == Main \/ SelectFails \/ Handle \/ Connect \/ \E f \in ClientFds : Talk(f) \/ Urge(f)

\* The server stops by itself only where select fails or SIGPIPE kills it, and
\* has no time-out: a client it waits for is taken to go on or to close.
Awaited(f) == fd = f /\ pc \in {"name", "rest"}
Fairness == /\ WF_vars(Main \/ Handle)
            /\ \A f \in ClientFds : WF_vars(Awaited(f) /\ Talk(f))

Spec == Init /\ [][Next]_vars /\ Fairness

-----------------------------------------------------------------------------
(* Properties. *)

\* Types.  A descriptor is watched exactly while it is open, and maxfd is no
\* less than any of them (xvcServer.c:408-411, 419-420).
TypeOK ==
    /\ conn = {Listener} \cup {f \in ClientFds : peer[f] # "none"}
    /\ \A f \in conn : f <= maxfd
    /\ ready \subseteq conn /\ except \subseteq conn
    /\ pc \in {"select", "scan", "name", "rest", "shift", "tdo", "answer",
              "killed", "returned"}
    /\ fd = Nobody <=> pc \in {"select", "scan", "returned"}
    /\ fd # Nobody => fd \in conn \ {Listener}
    /\ attempts \in 0..MaxConns /\ asked \in 0..MaxRequests /\ waiting \in 0..attempts
    /\ peer \in [ClientFds -> {"none", "up", "fin", "broken"}]
    /\ stream \in [ClientFds -> Seq(Pieces)]
    /\ half \subseteq ClientFds /\ urgent \subseteq ClientFds
    /\ owed \in [ClientFds -> Seq(Kinds)] /\ replies \in [ClientFds -> Nat]
    /\ jtag \in ClientFds \cup {Nobody}

\* "until then no exit is allowed" (xvcServer.c:253): from a client's shift to
\* its next getinfo: or settck:, or the end of its connection, no other client
\* shifts.
ShiftsUndisturbed == [][jtag # Nobody => jtag' \in {jtag, Nobody}]_vars

\* A client is hung up on for a reason: the request it has no answer to is
\* none, or too long, or its shift failed, or it sent urgent data.
HungUpForCause ==
    [][\A f \in ClientFds :
         peer[f] = "up" /\ peer'[f] = "none" =>
            \/ f \in urgent
            \/ /\ owed[f] # <<>>
               /\ \/ Head(owed[f]) \in {"bad", "big"}
                  \/ Head(owed[f]) = "shift" /\ pc = "shift"]_vars

\* Whoever connects is accepted, as long as the loop of main runs and not every
\* descriptor is taken, and provided that whoever is being handled goes on and
\* stops in the end: a client that sends half a request, or shifts and then
\* idles, keeps the server in sread (xvcServer.c:114) and everybody else waiting
\* for as long as it likes.
AcceptedEventually ==
    \A k \in 1..MaxConns :
        attempts >= k ~> \/ attempts - waiting >= k \/ pc \in {"killed", "returned"}
                         \/ \A f \in ClientFds : peer[f] # "none"

\* Under the same provision every request is answered or its connection ends,
\* as long as the loop of main runs; a client that shifts on and on keeps the
\* others waiting no longer than it goes on.
ServedEventually ==
    \A f \in ClientFds, k \in 1..MaxRequests :
        Asked(f) >= k /\ f \notin half
            ~> replies[f] >= k \/ peer[f] = "none" \/ pc \in {"killed", "returned"}
=============================================================================
