--------------------------- MODULE XvcServerProofs ---------------------------
(***************************************************************************)
(* Theorems about XvcServer for every set of requests, every table of      *)
(* callbacks and every buffer size.                                        *)
(***************************************************************************)
EXTENDS XvcServer, SequenceTheorems, WellFoundedInduction, TLAPS

Statuses == {"none", "ok", "err"}

\* What a branch of the parser may do with the current request: whether the
\* callback ran, the status byte and the client structure after it.
QueryKind(ran, status, c2) ==
    /\ Current.cmd \in {"getinfo", "capabilities"}
    /\ ~ran /\ status = "none" /\ c2 = c
ConfigureKind(ran, status, c2) ==
    /\ Current.cmd = "configure"
    /\ ~ran /\ status = StatusAfter(c2)
    /\ c.pending_error => c2 = c
    /\ c2.locked = c.locked
ErrorKind(ran, status, c2) ==
    /\ Current.cmd = "error"
    /\ ~ran /\ status = "none" /\ c2 = [c EXCEPT !.pending_error = FALSE]
WorkKind(ran, status, c2) ==
    /\ Current.cmd \in Calling \ {"lock", "unlock"}
    /\ ran = MayCall /\ c2 \in AfterCallback(c) /\ (~MayCall => c2 = c)
    /\ \/ status = StatusAfter(c2)
       \/ Current.cmd \in {"shift", "settck"} /\ status = "none"
LockKind(ran, status, c2) ==
    /\ Current.cmd = "lock" /\ ~HoldsReplies
    /\ ran = MayLock /\ status = StatusAfter(c2)
    /\ c2 = Fail \/ (MayLock /\ c2 = [c EXCEPT !.locked = TRUE])
UnlockKind(ran, status, c2) ==
    /\ Current.cmd = "unlock"
    /\ ran = MayUnlock /\ status = StatusAfter(c2)
    /\ c2 = Fail \/ (MayUnlock /\ c2 = [c EXCEPT !.locked = FALSE])

Kind(ran, status, c2) ==
    \/ QueryKind(ran, status, c2) \/ ConfigureKind(ran, status, c2)
    \/ ErrorKind(ran, status, c2) \/ WorkKind(ran, status, c2)
    \/ LockKind(ran, status, c2) \/ UnlockKind(ran, status, c2)

\* What every branch that answers a request does.
AnswerWith(ran, status, c2) ==
    /\ stage = "scan" /\ InBuffer(Current.len)
    /\ Answer(ran, status, c2)
    /\ deferred' \in BOOLEAN
    /\ deferred' => deferred \/ MayDefer
    /\ Current.cmd = "unlock" /\ ran => ~deferred'
    /\ Kind(ran, status, c2)

AnswerStep ==
    \E ran \in BOOLEAN, status \in Statuses, c2 \in ClientState :
        AnswerWith(ran, status, c2)

Answering == \/ ParseQuery \/ ParseConfigure \/ ParseError \/ ParseLock
             \/ ParseUnlock \/ ParseShift \/ ParseSetTck
             \/ ParseRegisterShift \/ ParseState \/ ParseMrd \/ ParseMwr

-----------------------------------------------------------------------------
\* TypeOK is not inductive: the buffer length stays natural because the parser
\* never runs past it, and fds because a served connection holds a socket.
\* The last two say that a batch without progress has no reply, so that
\* read_more drops none.
TypeInv ==
    /\ TypeOK
    /\ cbuf <= buf_len
    /\ parsed <= Len(stream)
    /\ stage \in Serving => fds >= 1
    /\ cbuf = 0 => reply_buf = <<>>
    /\ stage = "recv" => cbuf = 0

\* The client structure is well typed when it is cleared and when an error is set.
LEMMA ClientStates == /\ FreshClient \in ClientState
                      /\ c \in ClientState => Fail \in ClientState
BY DEF FreshClient, ClientState, Fail

\* The status byte says whether an error waits.
LEMMA StatusFacts ==
    ASSUME NEW c2 \in ClientState
    PROVE  /\ StatusAfter(c2) \in Statuses /\ StatusAfter(c2) # "none"
           /\ StatusAfter(c2) = "err" <=> c2.pending_error
           /\ StatusAfter(c2) = "ok" <=> ~c2.pending_error
  BY DEF StatusAfter, Statuses, ClientState

\* Every branch of the parser that answers has the one shape AnswerStep.
LEMMA AnswersAreAnswerSteps ==
    ASSUME TypeOK, Answering
    PROVE  AnswerStep
<1>0. /\ c \in ClientState /\ Fail \in ClientState
      /\ deferred \in BOOLEAN /\ MayCall \in BOOLEAN
      /\ MayLock \in BOOLEAN /\ MayUnlock \in BOOLEAN /\ MayDefer \in BOOLEAN
  BY ClientStates DEF TypeOK, ClientState, MayCall, MayLock, MayUnlock, MayDefer
<1>1. CASE ParseQuery
  <2>1. AnswerWith(FALSE, "none", c)
    BY <1>0, <1>1 DEF ParseQuery, Ready, AnswerWith, Kind, QueryKind
  <2> QED  BY <1>0, <2>1 DEF AnswerStep, Statuses
<1>2. CASE ParseConfigure
  <2> DEFINE c2 == IF c.pending_error THEN c ELSE Configured(Current.opts)
  <2>1. /\ c2 \in ClientState
        /\ c.pending_error => c2 = c
        /\ c2.locked = c.locked
    <3> DEFINE d == Configured(Current.opts)
    <3>1. PICK a, b, e \in BOOLEAN :
              d = [c EXCEPT !.enable_locking = a, !.enable_status = b,
                            !.pending_error = e]
      <4>1. /\ c.enable_locking \in BOOLEAN /\ c.enable_status \in BOOLEAN
        BY <1>0 DEF ClientState
      <4> QED  BY <4>1, Zenon DEF Configured
    <3> HIDE DEF d
    <3>2. d \in ClientState /\ d.locked = c.locked
      BY <1>0, <3>1 DEF ClientState
    <3> QED  BY <1>0, <3>2 DEF d
  <2>2. /\ Answer(FALSE, StatusAfter(c2), c2) /\ deferred' = deferred
        /\ stage = "scan" /\ InBuffer(Current.len) /\ Current.cmd = "configure"
    BY <1>2 DEF ParseConfigure, Ready
  <2> HIDE DEF c2
  <2>3. AnswerWith(FALSE, StatusAfter(c2), c2)
    BY <1>0, <2>1, <2>2 DEF AnswerWith, Kind, ConfigureKind
  <2> QED  BY <2>1, <2>3, StatusFacts, Zenon DEF AnswerStep
<1>3. CASE ParseError
  <2> DEFINE c2 == [c EXCEPT !.pending_error = FALSE]
  <2>1. c2 \in ClientState
    BY <1>0 DEF ClientState
  <2>2. AnswerWith(FALSE, "none", c2)
    BY <1>0, <1>3 DEF ParseError, Ready, AnswerWith, Kind, ErrorKind
  <2> HIDE DEF c2
  <2> QED  BY <2>1, <2>2 DEF AnswerStep, Statuses
<1>4. CASE ParseLock
  <2>1. PICK c2 \in (IF MayLock THEN AfterCallback([c EXCEPT !.locked = TRUE])
                     ELSE {Fail}) :
           Answer(MayLock, StatusAfter(c2), c2)
    BY <1>4 DEF ParseLock
  <2>2. /\ c2 = Fail \/ (MayLock /\ c2 = [c EXCEPT !.locked = TRUE])
        /\ c2 \in ClientState
    BY <1>0, <2>1 DEF AfterCallback, ClientState
  <2>3. AnswerWith(MayLock, StatusAfter(c2), c2)
    BY <1>0, <1>4, <2>1, <2>2 DEF ParseLock, Ready, AnswerWith, Kind, LockKind
  <2> QED  BY <1>0, <2>2, <2>3, StatusFacts DEF AnswerStep
<1>5. CASE ParseUnlock
  <2>1. PICK c2 \in (IF MayUnlock
                     THEN AfterCallback([c EXCEPT !.locked = FALSE])
                     ELSE {Fail}) :
           Answer(MayUnlock, StatusAfter(c2), c2)
    BY <1>5 DEF ParseUnlock
  <2>2. /\ c2 = Fail \/ (MayUnlock /\ c2 = [c EXCEPT !.locked = FALSE])
        /\ c2 \in ClientState
    BY <1>0, <2>1 DEF AfterCallback, ClientState
  <2>3. AnswerWith(MayUnlock, StatusAfter(c2), c2)
    BY <1>0, <1>5, <2>1, <2>2 DEF ParseUnlock, Ready, AnswerWith, Kind, UnlockKind
  <2> QED  BY <1>0, <2>2, <2>3, StatusFacts DEF AnswerStep
<1>6. ASSUME NEW optional \in BOOLEAN, Ready,
             Current.cmd \in Calling \ {"lock", "unlock"},
             optional => Current.cmd \in {"shift", "settck"},
             Work(optional)
      PROVE  AnswerStep
  <2>1. PICK c2 \in (IF MayCall THEN AfterCallback(c) ELSE {c}) :
           Answer(MayCall, StatusOf(optional, c2), c2)
    BY <1>6 DEF Work
  <2>2. c2 \in AfterCallback(c) /\ (~MayCall => c2 = c) /\ c2 \in ClientState
    BY <1>0, <2>1 DEF AfterCallback
  <2>3. \/ StatusOf(optional, c2) = StatusAfter(c2)
        \/ Current.cmd \in {"shift", "settck"} /\ StatusOf(optional, c2) = "none"
    BY <1>6 DEF StatusOf
  <2>4. AnswerWith(MayCall, StatusOf(optional, c2), c2)
    <3>1. deferred' \in BOOLEAN /\ (deferred' => deferred \/ MayDefer)
      BY <1>0, <1>6 DEF Work
    <3>2. WorkKind(MayCall, StatusOf(optional, c2), c2)
      BY <1>6, <2>2, <2>3 DEF WorkKind
    <3> QED  BY <1>6, <2>1, <3>1, <3>2 DEF AnswerWith, Ready, Kind
  <2>5. StatusOf(optional, c2) \in Statuses
    BY <2>2, <2>3, StatusFacts DEF Statuses
  <2> QED  BY <1>0, <2>2, <2>4, <2>5 DEF AnswerStep
<1>7. CASE ParseShift \/ ParseSetTck
  BY <1>6, <1>7 DEF ParseShift, ParseSetTck, Calling
<1>8. CASE ParseRegisterShift \/ ParseState \/ ParseMrd \/ ParseMwr
  BY <1>6, <1>8 DEF ParseRegisterShift, ParseState, ParseMrd, ParseMwr, Calling
<1> QED  BY <1>1, <1>2, <1>3, <1>4, <1>5, <1>7, <1>8 DEF Answering

\* No branch calls a callback while an error waits, and each leaves the error
\* to "error:".
LEMMA KindFacts ==
    ASSUME TypeOK, NEW ran \in BOOLEAN, NEW status \in Statuses,
           NEW c2 \in ClientState, Kind(ran, status, c2)
    PROVE  /\ ran => ~c.pending_error
           /\ status = "err" => c2.pending_error
           /\ c.pending_error /\ Current.cmd # "error" => c2.pending_error
           /\ Current.cmd \in Calling /\ status = "ok" => ran
<1>0. c \in ClientState /\ Fail.pending_error = TRUE
  BY DEF TypeOK, Fail, ClientState
<1>1. CASE QueryKind(ran, status, c2) \/ ErrorKind(ran, status, c2)
  BY <1>0, <1>1 DEF QueryKind, ErrorKind, Calling
<1>2. CASE ConfigureKind(ran, status, c2)
  BY <1>0, <1>2, StatusFacts DEF ConfigureKind, Calling
<1>3. CASE WorkKind(ran, status, c2)
  BY <1>0, <1>3, StatusFacts DEF WorkKind, MayCall, AfterCallback, ClientState
<1>4. CASE LockKind(ran, status, c2)
  BY <1>0, <1>4, StatusFacts DEF LockKind, MayLock, ClientState
<1>5. CASE UnlockKind(ran, status, c2)
  BY <1>0, <1>5, StatusFacts DEF UnlockKind, MayUnlock, ClientState
<1> QED  BY <1>1, <1>2, <1>3, <1>4, <1>5 DEF Kind

-----------------------------------------------------------------------------
\* The other steps, by what they touch.
LEMMA Empty == /\ <<>> \in Seq(Requests) /\ <<>> \in Seq(Replies)
               /\ Len(<<>>) = 0
BY EmptySeq

\* TypeInv holds when the server starts,
LEMMA TypeInvInit == ASSUME Init PROVE TypeInv
<1>1. fill \in BOOLEAN /\ deferred \in BOOLEAN
  BY DEF Init
<1>2. c \in ClientState
  BY ClientStates DEF Init
<1>3. conns \in 0..MaxConns /\ fds \in Nat /\ wire \in Nat /\ buf_len \in Nat
      /\ cbuf \in Nat /\ parsed \in Nat /\ reply_len \in Nat /\ cbuf <= buf_len
  BY BoundsAssumption DEF Init
<1>4. stream \in Seq(Requests) /\ reply_buf \in Seq(Replies)
      /\ sent \in Seq(Replies) /\ parsed <= Len(stream) /\ reply_buf = <<>>
  BY Empty DEF Init
<1>5. chain \in {"free", "held", "left"} /\ stage \in Stages /\ peer \in {"up", "fin", "broken", "reset"} /\ stage \notin Serving
      /\ stage # "recv"
  BY DEF Init, Stages, Serving
<1> QED  BY <1>1, <1>2, <1>3, <1>4, <1>5 DEF TypeInv, TypeOK

\* is kept by accept and what may fail behind it,
LEMMA TypeInvListen == ASSUME TypeInv, Listen PROVE TypeInv'
<1> USE BoundsAssumption, ClientStates DEF TypeInv, TypeOK, Attempt, ClearClient,
                             Stages, Serving, conn
<1>1. CASE Accept
  <2>1. fill' \in BOOLEAN /\ deferred' \in BOOLEAN
    BY <1>1 DEF Accept
  <2>2. /\ stream' \in Seq(Requests) /\ reply_buf' \in Seq(Replies)
        /\ sent' \in Seq(Replies) /\ parsed' <= Len(stream') /\ reply_buf' = <<>>
    BY <1>1, Empty DEF Accept
  <2>3. c' \in ClientState
    BY <1>1 DEF Accept
  <2>4. /\ conns' \in 0..MaxConns /\ fds' \in Nat /\ wire' \in Nat
        /\ buf_len' \in Nat /\ cbuf' = 0 /\ parsed' \in Nat
        /\ reply_len' \in Nat /\ cbuf' <= buf_len' /\ fds' >= 1
    BY <1>1 DEF Accept
  <2>5. /\ stage' \in Stages /\ peer' \in {"up", "fin", "broken", "reset"}
        /\ chain' \in {"free", "held", "left"}
    BY <1>1 DEF Accept
  <2> QED  BY <2>1, <2>2, <2>3, <2>4, <2>5
<1>2. CASE AcceptNoPeer   BY <1>2 DEF AcceptNoPeer
<1>3. CASE AcceptRefused  BY <1>3 DEF AcceptRefused
<1>4. CASE AcceptFails    BY <1>4 DEF AcceptFails
<1> QED  BY <1>1, <1>2, <1>3, <1>4 DEF Listen

\* by an answer, whichever the message,
LEMMA TypeInvAnswer == ASSUME TypeInv, AnswerStep PROVE TypeInv'
<1>1. PICK ran \in BOOLEAN, status \in Statuses, c2 \in ClientState :
         /\ stage = "scan" /\ InBuffer(Current.len)
         /\ Answer(ran, status, c2)
         /\ deferred' \in BOOLEAN
  BY DEF AnswerStep, AnswerWith
<1>2. parsed + 1 \in 1..Len(stream) /\ Current \in Requests
  BY <1>1 DEF InBuffer, Current, TypeInv, TypeOK
<1>3. /\ Current \in RequestType
      /\ Current.cmd \in Commands /\ Current.len \in Nat \ {0} /\ Current.out \in Nat
  BY <1>2, RequestsAssumption DEF RequestType
<1> DEFINE a == [cmd |-> Current.cmd, ran |-> ran, status |-> status]
<1>4. a \in Replies
  BY <1>1, <1>3 DEF Replies, Statuses
<1> HIDE DEF a
<1>5. reply_buf' \in Seq(Replies)
  BY <1>1, <1>4, AppendProperties DEF Answer, a, TypeInv, TypeOK
<1>6. reply_len' \in Nat /\ cbuf' \in Nat /\ parsed' \in Nat /\ cbuf' <= buf_len'
      /\ parsed' <= Len(stream') /\ cbuf' # 0
  <2> DEFINE len == Current.len
             out == Current.out
  <2>1. len <= buf_len - cbuf
    BY <1>1 DEF InBuffer, Available
  <2>2. /\ cbuf' = cbuf + len /\ buf_len' = buf_len
        /\ parsed' = parsed + 1 /\ stream' = stream
        /\ \/ reply_len' = reply_len + out + 0
           \/ reply_len' = reply_len + out + 1
    BY <1>1 DEF Answer
  <2>3. /\ cbuf \in Nat /\ buf_len \in Nat /\ parsed \in Nat /\ reply_len \in Nat
        /\ Len(stream) \in Nat
    BY LenProperties DEF TypeInv, TypeOK
  <2>4. len \in Nat \ {0} /\ out \in Nat /\ parsed + 1 <= Len(stream)
    BY <1>2, <1>3
  <2> HIDE DEF len, out
  <2> QED  BY <2>1, <2>2, <2>3, <2>4
<1>7. fill' \in BOOLEAN /\ deferred' \in BOOLEAN /\ c' \in ClientState
  BY <1>1 DEF Answer, TypeInv, TypeOK
<1>8. /\ stage' \in Stages /\ stage' # "recv" /\ peer' \in {"up", "fin", "broken", "reset"}
      /\ stage' \in Serving => fds' >= 1
      /\ conns' \in 0..MaxConns /\ fds' \in Nat /\ wire' \in Nat /\ buf_len' \in Nat
      /\ stream' \in Seq(Requests) /\ sent' \in Seq(Replies)
  BY <1>1 DEF Answer, TypeInv, TypeOK, Serving
<1>9. chain' \in {"free", "held", "left"}
  BY <1>1 DEF Answer, Chained, TypeInv, TypeOK
<1> QED  BY <1>5, <1>6, <1>7, <1>8, <1>9 DEF TypeInv, TypeOK

\* by all of the parser,
LEMMA TypeInvParse == ASSUME TypeInv, Parse PROVE TypeInv'
<1>1. CASE LockBreak \/ NeedMore \/ AssertFails \/ ProtocolError
  BY <1>1 DEF LockBreak, NeedMore, AssertFails, ProtocolError, Ready, Partial,
              TypeInv, TypeOK, Stages, Serving, conn
<1>2. CASE AnswerStep  BY <1>2, TypeInvAnswer
<1> QED  BY <1>1, <1>2, AnswersAreAnswerSteps DEF Parse, Answering, TypeInv

\* by send_packet with consume_packet,
LEMMA TypeInvSend == ASSUME TypeInv, Send PROVE TypeInv'
<1>1. sent' \in Seq(Replies)
  BY ConcatProperties DEF TypeInv, TypeOK, Send
<1>2. stream' \in Seq(Requests) /\ 0 <= Len(stream')
  <2>1. parsed + 1 \in 1..(Len(stream) + 1) /\ Len(stream) \in Nat
    BY DEF TypeInv, TypeOK
  <2>2. SubSeq(stream, parsed + 1, Len(stream)) \in Seq(Requests)
    BY <2>1, SubSeqProperties DEF TypeInv, TypeOK
  <2>3. Len(stream') \in Nat
    BY <2>2, LenProperties DEF Send
  <2> QED  BY <2>2, <2>3 DEF Send
<1>3. buf_len' \in Nat
  BY DEF TypeInv, TypeOK, Send, Consume
<1>4. fill' \in BOOLEAN /\ deferred' \in BOOLEAN
  BY DEF TypeInv, TypeOK, Send, ReadMore
<1>5. /\ reply_buf' \in Seq(Replies) /\ reply_len' \in Nat /\ cbuf' = 0 /\ parsed' = 0
      /\ reply_buf' = <<>>
      /\ c' \in ClientState /\ conns' \in 0..MaxConns /\ wire' \in Nat
      /\ chain' \in {"free", "held", "left"}
  BY Empty DEF TypeInv, TypeOK, Send, ReadMore
<1>6. /\ stage' \in {"scan", "recv"} /\ peer' \in {"up", "fin", "broken", "reset"}
      /\ fds' \in Nat /\ fds' >= 1
  BY DEF TypeInv, TypeOK, Send, ReadMore, Serving
<1> QED  BY <1>1, <1>2, <1>3, <1>4, <1>5, <1>6 DEF TypeInv, TypeOK, Stages

\* by flush, send, recv and the end of a connection,
LEMMA TypeInvTransfer == ASSUME TypeInv, Transfer PROVE TypeInv'
<1> USE DEF TypeInv, TypeOK, Stages, Serving, conn
<1>1. CASE NoProgress       BY <1>1 DEF NoProgress
<1>2. CASE Flush            BY <1>2, ClientStates DEF Flush, AfterCallback
<1>3. CASE FlushFails       BY <1>3 DEF FlushFails
<1>4. CASE Send             BY <1>4, TypeInvSend
<1>5. CASE SendFails        BY <1>5 DEF SendFails
<1>6. CASE Recv
  <2>1. fill' \in BOOLEAN /\ deferred' \in BOOLEAN
    BY <1>6 DEF Recv, ReadMore
  <2>2. /\ stream' \in Seq(Requests) /\ reply_buf' \in Seq(Replies)
        /\ sent' \in Seq(Replies) /\ 0 <= Len(stream') /\ reply_buf' = <<>>
    BY <1>6, Empty, LenProperties DEF Recv, ReadMore
  <2>3. wire' \in Nat /\ buf_len' \in Nat
    BY <1>6, BoundsAssumption DEF Recv
  <2>4. /\ cbuf' = 0 /\ parsed' = 0 /\ reply_len' = 0 /\ c' \in ClientState
        /\ conns' \in 0..MaxConns /\ fds' \in Nat /\ fds' >= 1
        /\ stage' \in Stages /\ peer' \in {"up", "fin", "broken", "reset"}
        /\ chain' \in {"free", "held", "left"}
    BY <1>6 DEF Recv, ReadMore
  <2> QED  BY <2>1, <2>2, <2>3, <2>4
<1>7. CASE RecvEnd          BY <1>7 DEF RecvEnd
<1>8. CASE RecvFails        BY <1>8 DEF RecvFails
<1>9. CASE CloseConnection  BY <1>9 DEF CloseConnection
<1>10. CASE SendKilled      BY <1>10 DEF SendKilled, PipeBreaks
<1> QED  BY <1>1, <1>2, <1>3, <1>4, <1>5, <1>6, <1>7, <1>8, <1>9, <1>10 DEF Transfer

\* by what a client does,
LEMMA TypeInvClient == ASSUME TypeInv, Client PROVE TypeInv'
<1>1. CASE ClientWrite
  <2>1. PICK r \in Requests : stream' = Append(stream, r)
                              /\ wire' = wire + r.len
    BY <1>1 DEF ClientWrite
  <2>2. r.len \in Nat
    BY RequestsAssumption DEF RequestType
  <2>3. stream' \in Seq(Requests) /\ Len(stream') = Len(stream) + 1
    BY <2>1, AppendProperties DEF TypeInv, TypeOK
  <2>4. wire' \in Nat /\ parsed <= Len(stream')
    BY <2>1, <2>2, <2>3 DEF TypeInv, TypeOK
  <2>5. UNCHANGED <<stage, peer, conns, fds, buf_len, cbuf, parsed, fill, reply_buf,
                    reply_len, c, deferred, sent, chain>>
    BY <1>1 DEF ClientWrite
  <2> QED  BY <2>3, <2>4, <2>5 DEF TypeInv, TypeOK, Serving
<1>2. CASE ClientClose
  BY <1>2 DEF ClientClose, TypeInv, TypeOK, Serving, conn
<1> QED  BY <1>1, <1>2 DEF Client

\* and so by every step.
LEMMA TypeInvStep == ASSUME TypeInv, [Next]_vars PROVE TypeInv'
<1>1. CASE UNCHANGED vars
  BY <1>1 DEF vars, conn, TypeInv, TypeOK, Serving
<1> QED  BY <1>1, TypeInvListen, TypeInvParse, TypeInvTransfer, TypeInvClient
         DEF Next, Stopped

\* Every variable stays in its range: in particular the length of the receive
\* buffer and the count of sockets never go below zero.
THEOREM TypeCorrect == Spec => []TypeOK
<1>1. Init => TypeInv                     BY TypeInvInit
<1>2. TypeInv /\ [Next]_vars => TypeInv'  BY TypeInvStep
<1>3. TypeInv => TypeOK                   BY DEF TypeInv
<1> QED  BY <1>1, <1>2, <1>3, PTL DEF Spec

-----------------------------------------------------------------------------
(* What a step does to the history of replies and to the client structure. *)

\* The history is a sequence of replies.
LEMMA HistoryType == ASSUME TypeOK PROVE History \in Seq(Replies)
BY ConcatProperties DEF History, TypeOK

\* A connection begins with nothing; while it lasts, between two answers,
\* only flush touches the structure.
Begins == stage = "accept" /\ stage' \in Serving /\ History' = <<>> /\ c' = FreshClient
Leaves == stage' \notin Serving /\ History' = History
Stays  == /\ stage \in Serving /\ stage' \in Serving
          /\ History' = History
          /\ c' = c \/ (cbuf # 0 /\ c' = Fail)

\* The reply of the current request goes to the end of the history.
LEMMA AnswerAppends ==
    ASSUME TypeInv, NEW ran \in BOOLEAN, NEW status \in Statuses, NEW c2,
           InBuffer(Current.len), Answer(ran, status, c2)
    PROVE  LET a == [cmd |-> Current.cmd, ran |-> ran, status |-> status]
           IN /\ a \in Replies
              /\ reply_buf' = Append(reply_buf, a) /\ sent' = sent
              /\ History' = Append(History, a)
<1> DEFINE a == [cmd |-> Current.cmd, ran |-> ran, status |-> status]
<1>1. a \in Replies
  <2>1. Current \in Requests
    BY DEF InBuffer, Current, TypeInv, TypeOK
  <2>2. Current.cmd \in Commands
    BY <2>1, RequestsAssumption DEF RequestType
  <2> QED  BY <2>2 DEF Replies, Statuses
<1>2. sent' = sent /\ reply_buf' = Append(reply_buf, a)
  BY DEF Answer
<1> HIDE DEF a
<1>3. sent \in Seq(Replies) /\ reply_buf \in Seq(Replies)
  BY DEF TypeInv, TypeOK
<1>4. /\ Append(reply_buf, a) = reply_buf \o <<a>>
      /\ Append(History, a) = History \o <<a>>
      /\ <<a>> \in Seq(Replies)
  BY <1>1, <1>3, AppendIsConcat, HistoryType DEF TypeInv
<1>5. sent \o (reply_buf \o <<a>>) = (sent \o reply_buf) \o <<a>>
  BY <1>3, <1>4, ConcatAssociative
<1>6. History' = Append(History, a)
  BY <1>2, <1>4, <1>5 DEF History
<1> QED  BY <1>1, <1>2, <1>6 DEF a

\* Every step answers a request or is one of the three.
LEMMA StepOfHistory ==
    ASSUME TypeInv, [Next]_vars
    PROVE  AnswerStep \/ Begins \/ Leaves \/ Stays
<1> DEFINE Same == sent' = sent /\ reply_buf' = reply_buf
<1>1. Same => History' = History
  BY DEF History
<1>2. CASE Accept
  BY <1>2, ConcatEmptySeq, Empty DEF Accept, Attempt, ClearClient, History, Begins, Serving
<1>3. CASE AcceptNoPeer \/ AcceptRefused \/ AcceptFails
  <2>1. Same /\ stage' \notin Serving
    BY <1>3 DEF AcceptNoPeer, AcceptRefused, AcceptFails, Attempt, Serving, conn
  <2> QED  BY <1>1, <2>1 DEF Leaves
<1>4. CASE LockBreak \/ NeedMore \/ ProtocolError
  BY <1>1, <1>4 DEF LockBreak, NeedMore, ProtocolError, Ready, Partial,
                    Serving, Stays, conn
<1>5. CASE AssertFails
  BY <1>1, <1>5 DEF AssertFails, Serving, Leaves, conn
<1>6. CASE Answering
  BY <1>6, AnswersAreAnswerSteps DEF TypeInv
<1>7. CASE Send
  <2>1. sent \in Seq(Replies) /\ reply_buf \in Seq(Replies)
    BY DEF TypeInv, TypeOK
  <2>2. sent \o reply_buf \in Seq(Replies)
    BY <2>1, ConcatProperties
  <2>3. History' = History
    BY <1>7, <2>2, ConcatEmptySeq DEF Send, ReadMore, History
  <2> QED  BY <1>7, <2>3 DEF Send, ReadMore, Serving, Stays
<1>8. CASE Recv
  <2>1. reply_buf = <<>>
    BY <1>8 DEF Recv, TypeInv
  <2> QED  BY <1>1, <1>8, <2>1 DEF Recv, ReadMore, Serving, Stays
<1>9. CASE Flush
  <2>1. stage \in Serving /\ stage' \in Serving /\ Same /\ cbuf > 0
    BY <1>9 DEF Flush, Serving
  <2>2. c' = c \/ c' = Fail
    BY <1>9 DEF Flush, AfterCallback
  <2> QED  BY <1>1, <2>1, <2>2 DEF Stays, TypeInv, TypeOK
<1>10. CASE NoProgress \/ FlushFails \/ SendFails \/ RecvEnd \/ RecvFails
  BY <1>1, <1>10 DEF NoProgress, FlushFails, SendFails, RecvEnd, RecvFails, Serving,
                    Stays, conn
<1>11. CASE CloseConnection \/ SendKilled
  BY <1>1, <1>11 DEF CloseConnection, SendKilled, Serving, Leaves, conn
<1>12. CASE Client \/ Stopped \/ UNCHANGED vars
  <2>1. Same /\ c' = c /\ stage' = stage
    BY <1>12 DEF Client, ClientWrite, ClientClose, Stopped, vars, conn
  <2> QED  BY <1>1, <2>1 DEF Stays, Leaves
<1> QED
  BY <1>2, <1>3, <1>4, <1>5, <1>6, <1>7, <1>8, <1>9, <1>10, <1>11, <1>12
  DEF Next, Listen, Parse, Answering, Transfer

-----------------------------------------------------------------------------
(* Errors.  The invariant adds to ErrorLatched what links the history of    *)
(* replies to the flag: an error that was reported and not collected is     *)
(* still pending.                                                           *)

Latched(h) ==
    \A i, j \in DOMAIN h :
        /\ i < j
        /\ h[i].status = "err"
        /\ \A k \in i..j : h[k].cmd # "error"
        => ~h[j].ran

Honest(h) ==
    \A i \in DOMAIN h :
        h[i].cmd \in Calling /\ h[i].status = "ok" => h[i].ran

Uncollected(h) ==
    \E i \in DOMAIN h :
        /\ h[i].status = "err"
        /\ \A k \in i..Len(h) : h[k].cmd # "error"

ErrorInv ==
    /\ Latched(History) /\ Honest(History)
    /\ stage \in Serving => (Uncollected(History) => c.pending_error)

\* Appending a reply keeps the latch: one that ran found no error waiting.
LEMMA AppendHistory ==
    ASSUME NEW h \in Seq(Replies), NEW a \in Replies, NEW pending \in BOOLEAN,
           Latched(h), Honest(h), Uncollected(h) => pending,
           a.ran => ~pending,
           a.cmd \in Calling /\ a.status = "ok" => a.ran
    PROVE  /\ Latched(Append(h, a)) /\ Honest(Append(h, a))
           /\ Uncollected(Append(h, a)) =>
                 a.status = "err" \/ (pending /\ a.cmd # "error")
<1> DEFINE g == Append(h, a)
           n == Len(h)
<1>1. /\ n \in Nat /\ Len(g) = n + 1 /\ DOMAIN g = 1..(n + 1) /\ DOMAIN h = 1..n
      /\ \A i \in 1..n : g[i] = h[i]
      /\ g[n + 1] = a
  BY AppendProperties, LenProperties
<1> HIDE DEF g, n
<1>2. Honest(g)
  BY <1>1 DEF Honest
<1>3. ASSUME NEW i \in 1..n, h[i].status = "err",
             \A k \in i..n : g[k].cmd # "error"
      PROVE  pending
  BY <1>1, <1>3 DEF Uncollected, n
<1>4. Latched(g)
  <2> SUFFICES ASSUME NEW i \in 1..(n + 1), NEW j \in 1..(n + 1), i < j,
                      g[i].status = "err", \A k \in i..j : g[k].cmd # "error"
               PROVE  ~g[j].ran
    BY <1>1 DEF Latched
  <2>1. CASE j = n + 1
    BY <1>1, <1>3, <2>1
  <2>2. CASE j # n + 1
    BY <1>1, <2>2 DEF Latched
  <2> QED  BY <2>1, <2>2
<1>5. ASSUME Uncollected(g), a.status # "err"
      PROVE  pending /\ a.cmd # "error"
  <2>1. PICK i \in 1..(n + 1) : /\ g[i].status = "err"
                               /\ \A k \in i..(n + 1) : g[k].cmd # "error"
    BY <1>1, <1>5 DEF Uncollected
  <2>2. i \in 1..n /\ n + 1 \in i..(n + 1)
    BY <1>1, <1>5, <2>1
  <2>3. h[i].status = "err" /\ \A k \in i..n : g[k].cmd # "error"
    BY <1>1, <2>1, <2>2
  <2> QED  BY <1>1, <1>3, <2>1, <2>2, <2>3
<1> QED  BY <1>2, <1>4, <1>5 DEF g

\* ErrorInv holds when the server starts,
LEMMA ErrorInvInit == ASSUME Init PROVE ErrorInv
<1>1. History = <<>>
  BY ConcatEmptySeq, Empty DEF Init, History
<1>2. DOMAIN History = {} /\ stage \notin Serving
  BY <1>1 DEF Init, Serving
<1> QED  BY <1>2 DEF ErrorInv, Latched, Honest

\* is kept by an answer,
LEMMA ErrorInvAnswer == ASSUME TypeInv, ErrorInv, AnswerStep PROVE ErrorInv'
<1>1. PICK ran \in BOOLEAN, status \in Statuses, c2 \in ClientState :
         /\ stage = "scan" /\ InBuffer(Current.len)
         /\ Answer(ran, status, c2)
         /\ ran => ~c.pending_error
         /\ status = "err" => c2.pending_error
         /\ c.pending_error /\ Current.cmd # "error" => c2.pending_error
         /\ Current.cmd \in Calling /\ status = "ok" => ran
  BY KindFacts DEF AnswerStep, AnswerWith, TypeInv
<1> DEFINE a == [cmd |-> Current.cmd, ran |-> ran, status |-> status]
<1>2. a \in Replies /\ History' = Append(History, a)
  BY <1>1, AnswerAppends
<1>3. /\ a.ran => ~c.pending_error
      /\ a.status = "err" => c'.pending_error
      /\ c.pending_error /\ a.cmd # "error" => c'.pending_error
      /\ a.cmd \in Calling /\ a.status = "ok" => a.ran
  BY <1>1 DEF Answer
<1> HIDE DEF a
<1>5. c.pending_error \in BOOLEAN /\ stage \in Serving
  BY <1>1 DEF TypeInv, TypeOK, ClientState, Serving
<1>6. History \in Seq(Replies)
  BY HistoryType DEF TypeInv
<1>7. /\ Latched(Append(History, a)) /\ Honest(Append(History, a))
      /\ Uncollected(Append(History, a)) =>
            a.status = "err" \/ (c.pending_error /\ a.cmd # "error")
  BY <1>2, <1>3, <1>5, <1>6, AppendHistory DEF ErrorInv
<1> QED  BY <1>2, <1>3, <1>7 DEF ErrorInv, Latched, Honest, Uncollected

\* and by every step.
LEMMA ErrorInvStep == ASSUME TypeInv, ErrorInv, [Next]_vars PROVE ErrorInv'
<1> USE DEF ErrorInv, Latched, Honest, Uncollected
<1>1. CASE AnswerStep  BY <1>1, ErrorInvAnswer
<1>2. CASE Begins
  <2>1. History' = <<>> /\ DOMAIN <<>> = {}
    BY <1>2 DEF Begins
  <2> QED  BY <2>1
<1>3. CASE Leaves      BY <1>3 DEF Leaves
<1>4. CASE Stays
  <2>1. c.pending_error => c'.pending_error
    BY <1>4 DEF Stays, Fail, TypeInv, TypeOK, ClientState
  <2> QED  BY <1>4, <2>1 DEF Stays
<1> QED  BY <1>1, <1>2, <1>3, <1>4, StepOfHistory

\* An error that a status byte has reported stops every callback until
\* "error:" collects it, however the requests are cut into batches.
THEOREM ErrorsLatch == Spec => []ErrorLatched
<1>1. Init => TypeInv /\ ErrorInv
  BY TypeInvInit, ErrorInvInit
<1>2. TypeInv /\ ErrorInv /\ [Next]_vars => (TypeInv /\ ErrorInv)'
  BY TypeInvStep, ErrorInvStep
<1>3. ErrorInv => ErrorLatched
  BY DEF ErrorInv, Latched, ErrorLatched
<1> QED  BY <1>1, <1>2, <1>3, PTL DEF Spec

\* A zero status byte means that the callback of the command was called.
THEOREM StatusIsHonest == Spec => []StatusHonest
<1>1. Init => TypeInv /\ ErrorInv
  BY TypeInvInit, ErrorInvInit
<1>2. TypeInv /\ ErrorInv /\ [Next]_vars => (TypeInv /\ ErrorInv)'
  BY TypeInvStep, ErrorInvStep
<1>3. ErrorInv => StatusHonest
  BY DEF ErrorInv, Honest, StatusHonest
<1> QED  BY <1>1, <1>2, <1>3, PTL DEF Spec

-----------------------------------------------------------------------------
(* The lock.  A client that holds it has been told so.                      *)

Told(h) == \E i \in DOMAIN h : Locks(h[i])

LockInv == stage \in Serving /\ c.locked => Told(History)

\* Only a status 0 of lock and unlock moves the flag, to the other side.  Their
\* callbacks run only on the side they leave.
LEMMA KindLocks ==
    ASSUME TypeOK, NEW ran \in BOOLEAN, NEW status \in Statuses,
           NEW c2 \in ClientState, Kind(ran, status, c2), NEW a \in Replies,
           a.cmd = Current.cmd, a.ran = ran, a.status = status
    PROVE  /\ a.cmd = "lock" /\ a.ran => ~c.locked
           /\ a.cmd = "unlock" /\ a.ran => c.locked
           /\ c2.locked <=> Locks(a) \/ (c.locked /\ ~Unlocks(a))
<1>0. /\ c \in ClientState /\ c.locked \in BOOLEAN
      /\ Fail.pending_error = TRUE /\ Fail.locked = c.locked
  BY DEF TypeOK, Fail, ClientState
<1>1. CASE QueryKind(ran, status, c2) \/ ErrorKind(ran, status, c2)
           \/ ConfigureKind(ran, status, c2)
  BY <1>0, <1>1 DEF QueryKind, ErrorKind, ConfigureKind, Locks, Unlocks, ClientState
<1>2. CASE WorkKind(ran, status, c2)
  BY <1>0, <1>2 DEF WorkKind, AfterCallback, Locks, Unlocks
<1>3. CASE LockKind(ran, status, c2)
  <2>0. ran => ~c.locked
    BY <1>3 DEF LockKind, MayLock
  <2>1. CASE c2 = Fail
    BY <1>0, <1>3, <2>0, <2>1, StatusFacts DEF LockKind, Locks, Unlocks
  <2>2. CASE MayLock /\ c2 = [c EXCEPT !.locked = TRUE]
    <3>1. ~c.locked /\ c2.locked /\ ~c2.pending_error
      BY <1>0, <2>2 DEF MayLock, ClientState
    <3> QED  BY <1>3, <2>2, <3>1, StatusFacts DEF LockKind, Locks, Unlocks
  <2> QED  BY <1>3, <2>1, <2>2 DEF LockKind
<1>4. CASE UnlockKind(ran, status, c2)
  <2>0. ran => c.locked
    BY <1>4 DEF UnlockKind, MayUnlock
  <2>1. CASE c2 = Fail
    BY <1>0, <1>4, <2>0, <2>1, StatusFacts DEF UnlockKind, Locks, Unlocks
  <2>2. CASE MayUnlock /\ c2 = [c EXCEPT !.locked = FALSE]
    <3>1. c.locked /\ ~c2.locked /\ ~c2.pending_error
      BY <1>0, <2>2 DEF MayUnlock, ClientState
    <3> QED  BY <1>4, <2>2, <3>1, StatusFacts DEF UnlockKind, Locks, Unlocks
  <2> QED  BY <1>4, <2>1, <2>2 DEF UnlockKind
<1> QED  BY <1>1, <1>2, <1>3, <1>4 DEF Kind

\* LockInv holds when the server starts,
LEMMA LockInvInit == ASSUME Init PROVE LockInv
BY DEF Init, LockInv, Serving

\* and is kept by every step.
LEMMA LockInvStep == ASSUME TypeInv, LockInv, [Next]_vars PROVE LockInv'
<1>1. CASE AnswerStep
  <2>1. PICK ran \in BOOLEAN, status \in Statuses, c2 \in ClientState :
           AnswerWith(ran, status, c2)
    BY <1>1 DEF AnswerStep
  <2>2. /\ stage \in Serving /\ InBuffer(Current.len)
        /\ Answer(ran, status, c2) /\ c' = c2 /\ Kind(ran, status, c2)
    BY <2>1 DEF AnswerWith, Answer, Serving
  <2> DEFINE a == [cmd |-> Current.cmd, ran |-> ran, status |-> status]
             n == Len(History)
  <2>3. a \in Replies /\ History' = Append(History, a)
    BY <2>2, AnswerAppends
  <2>4. c'.locked <=> Locks(a) \/ (c.locked /\ ~Unlocks(a))
    <3>1. a.cmd = Current.cmd /\ a.ran = ran /\ a.status = status
      OBVIOUS
    <3> HIDE DEF a
    <3> QED  BY <2>2, <2>3, <3>1, KindLocks DEF TypeInv
  <2> HIDE DEF a
  <2>5. /\ n \in Nat /\ DOMAIN History = 1..n /\ DOMAIN History' = 1..(n + 1)
        /\ \A i \in 1..n : History'[i] = History[i]
        /\ History'[n + 1] = a
    BY <2>3, HistoryType, AppendProperties, LenProperties DEF TypeInv
  <2> HIDE DEF n
  <2>6. n + 1 \in 1..(n + 1) /\ 1..n \subseteq 1..(n + 1)
    BY <2>5
  <2> QED  BY <2>2, <2>4, <2>5, <2>6 DEF LockInv, Told, Locks
<1>2. CASE Begins
  BY <1>2 DEF Begins, FreshClient, LockInv
<1>3. CASE Leaves
  BY <1>3 DEF Leaves, LockInv
<1>4. CASE Stays
  <2>1. c'.locked = c.locked
    BY <1>4 DEF Stays, Fail, TypeInv, TypeOK, ClientState
  <2> QED  BY <1>4, <2>1 DEF Stays, LockInv, Told, Locks
<1> QED  BY <1>1, <1>2, <1>3, <1>4, StepOfHistory

-----------------------------------------------------------------------------
(* What a batch holds, and what its callbacks still owe.                    *)

Silent(h) == \A i \in DOMAIN h : h[i].cmd = "shift" /\ h[i].status = "none"

\* Only shifts of no bits, without a status byte, leave a batch without a byte
\* to send.
BatchInv ==
    /\ cbuf = 0 => parsed = 0 /\ reply_len = 0
    /\ stage \in Serving /\ cbuf # 0 => reply_buf # <<>>
    /\ stage = "send" => cbuf # 0
    /\ reply_len = 0 => Silent(reply_buf)

\* Work is put off for a reply of the batch, and flush() completes it before the
\* batch is sent; where there is no flush() it is put off only under the lock.
DeferInv ==
    stage \in Serving /\ deferred =>
        IF "flush" \in Handlers
        THEN stage # "send" /\ (stage # "close" => reply_len > 0)
        ELSE "unlock" \in Handlers /\ c.locked

\* The commands that may be answered without a status byte.
LEMMA KindStatus ==
    ASSUME NEW ran \in BOOLEAN, NEW status \in Statuses,
           NEW c2 \in ClientState, Kind(ran, status, c2), status = "none"
    PROVE  Current.cmd \in {"getinfo", "capabilities", "error", "settck", "shift"}
<1>1. status # StatusAfter(c2)
  BY StatusFacts
<1> QED  BY <1>1 DEF Kind, QueryKind, ConfigureKind, ErrorKind, WorkKind,
                     LockKind, UnlockKind

\* What an answer adds to the batch.
LEMMA AnswerGrows ==
    ASSUME TypeInv, AnswerStep
    PROVE  /\ stage = "scan" /\ stage' = "scan"
           /\ cbuf' # 0 /\ parsed' = parsed + 1 /\ reply_buf' # <<>>
           /\ reply_len' >= reply_len
           /\ deferred' => \/ deferred
                           \/ /\ reply_len' > 0
                              /\ \/ "flush" \in Handlers
                                 \/ "unlock" \in Handlers /\ c.locked
           /\ deferred' /\ c.locked => c'.locked
           /\ Silent(reply_buf) /\ reply_len' = 0 => Silent(reply_buf')
<1>1. PICK ran \in BOOLEAN, status \in Statuses, c2 \in ClientState :
         AnswerWith(ran, status, c2)
  BY DEF AnswerStep
<1>2. /\ stage = "scan" /\ stage' = "scan"
      /\ cbuf' = cbuf + Current.len /\ parsed' = parsed + 1
      /\ InBuffer(Current.len) /\ Answer(ran, status, c2)
      /\ Kind(ran, status, c2) /\ (deferred' => deferred \/ MayDefer)
      /\ Current.cmd = "unlock" /\ ran => ~deferred'
      /\ c' = c2
  BY <1>1 DEF AnswerWith, Answer
<1> DEFINE a == [cmd |-> Current.cmd, ran |-> ran, status |-> status]
           out == Current.out
           len == Current.len
           add == IF status = "none" THEN 0 ELSE 1
<1>3. /\ reply_buf' = Append(reply_buf, a) /\ a \in Replies
      /\ a.cmd = Current.cmd /\ a.ran = ran /\ a.status = status
  BY <1>2, AnswerAppends
<1>4. Current \in Requests
  BY <1>2 DEF InBuffer, Current, TypeInv, TypeOK
<1>5. out \in Nat /\ len \in Nat \ {0}
  BY <1>4, RequestsAssumption DEF RequestType
<1>6. status = "none" => Current.cmd = "shift" \/ out > 0
  BY <1>2, <1>4, KindStatus, RepliesAssumption
<1>7. MayDefer => /\ out > 0 \/ status # "none"
                  /\ \/ "flush" \in Handlers
                     \/ "unlock" \in Handlers /\ c.locked
  BY <1>2, KindStatus DEF MayDefer
<1>8. add \in {0, 1} /\ (add = 0 <=> status = "none")
  OBVIOUS
<1>9. reply_len' = reply_len + out + add
  BY <1>2 DEF Answer
<1>10. /\ cbuf \in Nat /\ reply_len \in Nat /\ reply_buf \in Seq(Replies)
       /\ cbuf' = cbuf + len
  BY <1>2 DEF TypeInv, TypeOK
<1> HIDE DEF a, out, len, add
<1>11. reply_len' >= reply_len /\ cbuf' # 0
       /\ (out > 0 => reply_len' > 0) /\ (add = 1 => reply_len' > 0)
  BY <1>5, <1>8, <1>9, <1>10
<1>12. /\ Len(reply_buf') = Len(reply_buf) + 1 /\ Len(reply_buf) \in Nat
       /\ DOMAIN reply_buf' = 1..(Len(reply_buf) + 1)
       /\ DOMAIN reply_buf = 1..Len(reply_buf)
       /\ \A i \in 1..Len(reply_buf) : reply_buf'[i] = reply_buf[i]
       /\ reply_buf'[Len(reply_buf) + 1] = a
  BY <1>3, <1>10, AppendProperties, LenProperties
<1>13. reply_buf' # <<>>
  BY <1>12
<1>14. ASSUME Silent(reply_buf), reply_len' = 0 PROVE Silent(reply_buf')
  <2>1. a.cmd = "shift" /\ a.status = "none"
    BY <1>3, <1>6, <1>8, <1>11, <1>14
  <2> QED  BY <1>12, <1>14, <2>1 DEF Silent
<1>15. deferred' => \/ deferred
                    \/ /\ reply_len' > 0
                       /\ \/ "flush" \in Handlers
                          \/ "unlock" \in Handlers /\ c.locked
  BY <1>2, <1>7, <1>8, <1>11
<1>16. deferred' /\ c.locked => c'.locked
  BY <1>2, <1>3, KindLocks DEF TypeInv, Unlocks
<1> QED  BY <1>2, <1>11, <1>13, <1>14, <1>15, <1>16

\* Both hold when the server starts,
LEMMA BatchInvInit == ASSUME Init PROVE BatchInv /\ DeferInv
<1>1. DOMAIN reply_buf = {}
  BY Empty DEF Init
<1> QED  BY <1>1 DEF Init, BatchInv, DeferInv, Silent, Serving

\* read_more keeps them when nothing is owed,
LEMMA BatchInvEmpty ==
    ASSUME cbuf' = 0, parsed' = 0, reply_buf' = <<>>, reply_len' = 0,
           stage' # "send",
           deferred' => /\ "flush" \notin Handlers /\ "unlock" \in Handlers
                        /\ c'.locked
    PROVE  (BatchInv /\ DeferInv)'
BY DEF BatchInv, DeferInv, Silent

\* and so does every step.
LEMMA BatchInvStep ==
    ASSUME TypeInv, BatchInv, DeferInv, [Next]_vars
    PROVE  (BatchInv /\ DeferInv)'
<1> DEFINE Same == /\ cbuf' = cbuf /\ parsed' = parsed /\ reply_len' = reply_len
                   /\ reply_buf' = reply_buf /\ deferred' = deferred
                   /\ c' = c
<1>1. ASSUME Same, stage' # "send",
             stage' \in Serving => stage \in Serving \ {"close"} \/ stage' = stage
      PROVE  (BatchInv /\ DeferInv)'
  BY <1>1 DEF BatchInv, DeferInv, Silent, Serving
<1>2. CASE AnswerStep
  <2>1. /\ reply_len \in Nat /\ reply_len' \in Nat /\ reply_len' >= reply_len
        /\ stage \in Serving \ {"close"}
    BY <1>2, AnswerGrows, TypeInvAnswer DEF TypeInv, TypeOK, Serving
  <2>2. (reply_len' = 0 => reply_len = 0) /\ (reply_len > 0 => reply_len' > 0)
    BY <2>1
  <2>3. deferred => IF "flush" \in Handlers THEN reply_len' > 0
                    ELSE "unlock" \in Handlers /\ c.locked
    <3>1. deferred => IF "flush" \in Handlers THEN reply_len > 0
                      ELSE "unlock" \in Handlers /\ c.locked
      BY <2>1 DEF DeferInv
    <3> QED  BY <2>2, <3>1
  <2>4. BatchInv'
    BY <1>2, <2>2, AnswerGrows DEF BatchInv, Silent
  <2>5. DeferInv'
    BY <1>2, <2>3, AnswerGrows DEF DeferInv, Serving
  <2> QED  BY <2>4, <2>5
<1>3. CASE Accept
  BY <1>3, BatchInvEmpty DEF Accept
<1>4. CASE AcceptNoPeer \/ AcceptRefused \/ AcceptFails
  <2>1. CASE AcceptRefused
    BY <2>1 DEF AcceptRefused, Attempt, BatchInv, DeferInv, Silent, Serving
  <2>2. CASE AcceptNoPeer \/ AcceptFails
    BY <1>1, <2>2 DEF AcceptNoPeer, AcceptFails, Attempt, Serving, conn
  <2> QED  BY <1>4, <2>1, <2>2
<1>5. CASE LockBreak \/ NeedMore \/ AssertFails \/ ProtocolError
  BY <1>1, <1>5 DEF LockBreak, NeedMore, AssertFails, ProtocolError, Ready, Partial,
                    Serving, conn
<1>6. CASE NoProgress \/ FlushFails \/ SendFails \/ SendKilled \/ RecvEnd
           \/ RecvFails \/ CloseConnection
  BY <1>1, <1>6 DEF NoProgress, FlushFails, SendFails, SendKilled, PipeBreaks,
                    RecvEnd, RecvFails, CloseConnection, Serving, conn
<1>7. CASE Flush
  <2>1. /\ stage = "flush" /\ stage' = "send" /\ cbuf > 0
        /\ cbuf' = cbuf /\ parsed' = parsed /\ reply_len' = reply_len
        /\ reply_buf' = reply_buf
    BY <1>7 DEF Flush
  <2>2. IF "flush" \in Handlers THEN ~deferred'
        ELSE deferred' = deferred /\ c' = c
    BY <1>7, <2>1 DEF Flush
  <2> QED  BY <2>1, <2>2 DEF BatchInv, DeferInv, Silent, Serving, TypeInv, TypeOK
<1>8. CASE Send
  BY <1>8, BatchInvEmpty DEF Send, ReadMore, DeferInv, Serving
<1>9. CASE Recv
  <2>1. stage = "recv" /\ cbuf = 0 /\ reply_len = 0
    BY <1>9 DEF Recv, TypeInv, BatchInv
  <2>2. deferred => "flush" \notin Handlers /\ "unlock" \in Handlers /\ c.locked
    BY <2>1 DEF DeferInv, Serving
  <2> QED  BY <1>9, <2>2, BatchInvEmpty DEF Recv, ReadMore
<1>10. CASE Client \/ Stopped \/ UNCHANGED vars
  <2>1. Same /\ stage' = stage
    BY <1>10 DEF Client, ClientWrite, ClientClose, Stopped, vars, conn
  <2> QED  BY <2>1 DEF BatchInv, DeferInv, Silent, Serving
<1> QED
  BY <1>2, <1>3, <1>4, <1>5, <1>6, <1>7, <1>8, <1>9, <1>10, AnswersAreAnswerSteps
  DEF Next, Listen, Parse, Answering, Transfer, TypeInv

\* Outside an answer the parser's position stays or starts again, and only
\* send_packet adds to what was sent.
LEMMA StepOfBatch ==
    ASSUME TypeInv, [Next]_vars
    PROVE  \/ AnswerStep
           \/ /\ parsed' = parsed \/ parsed' = 0
              /\ sent' = sent \/ sent' = <<>> \/ stage = "send"
<1>1. CASE Listen
  BY <1>1 DEF Listen, Accept, AcceptNoPeer, AcceptRefused, AcceptFails, conn
<1>2. CASE Parse
  BY <1>2, AnswersAreAnswerSteps
  DEF Parse, Answering, LockBreak, NeedMore, AssertFails, ProtocolError, conn, TypeInv
<1>3. CASE Transfer
  BY <1>3 DEF Transfer, NoProgress, Flush, FlushFails, Send, SendFails, SendKilled,
              Recv, RecvEnd, RecvFails, CloseConnection, ReadMore, conn
<1>4. CASE Client \/ Stopped \/ UNCHANGED vars
  BY <1>4 DEF Client, ClientWrite, ClientClose, Stopped, vars, conn
<1> QED  BY <1>1, <1>2, <1>3, <1>4 DEF Next

\* send_packet never sends a reply whose data a callback has put off: flush()
\* has been called for it, or there is no unlock() it could wait for.  With an
\* unlock callback and no flush callback it does.
THEOREM SentIsComplete ==
    ASSUME "flush" \in Handlers \/ "unlock" \notin Handlers
    PROVE  Spec => SentComplete
<1>1. Init => TypeInv /\ BatchInv /\ DeferInv
  BY TypeInvInit, BatchInvInit
<1>2. TypeInv /\ BatchInv /\ DeferInv /\ [Next]_vars
         => (TypeInv /\ BatchInv /\ DeferInv)'
  BY TypeInvStep, BatchInvStep
<1>3. ASSUME TypeInv, DeferInv, [Next]_vars
      PROVE  [Len(sent') > Len(sent) => ~deferred]_vars
  <2>1. Len(sent) \in Nat
    BY <1>3, LenProperties DEF TypeInv, TypeOK
  <2>2. sent' = sent \/ sent' = <<>> \/ stage = "send"
    BY <1>3, StepOfBatch DEF AnswerStep, AnswerWith, Answer
  <2>3. CASE sent' = sent \/ sent' = <<>>
    BY <2>1, <2>3, Empty
  <2>4. CASE stage = "send"
    BY <1>3, <2>4 DEF DeferInv, Serving
  <2> QED  BY <2>2, <2>3, <2>4
<1> QED  BY <1>1, <1>2, <1>3, PTL DEF Spec, SentComplete

-----------------------------------------------------------------------------
(* The scan chain.  The flag of the client that is served stands for its    *)
(* lock; behind accept nobody holds the chain.                              *)

ChainInv ==
    /\ stage \in Serving => (c.locked <=> chain = "held")
    /\ stage = "accept" => chain # "held"

\* A callback of lock or unlock is called by the answer to that command, on the
\* side of the lock it leaves, and lock only when replies are not held back.
LEMMA CallsOfAnswer ==
    ASSUME TypeInv, AnswerStep
    PROVE  /\ LockRuns => ~c.locked /\ reply_len = 0
           /\ UnlockRuns => c.locked
           /\ (c.locked <=> chain = "held") => (c'.locked <=> chain' = "held")
           /\ stage = "scan" /\ stage' = "scan"
<1>1. PICK ran \in BOOLEAN, status \in Statuses, c2 \in ClientState :
         AnswerWith(ran, status, c2)
  BY DEF AnswerStep
<1>2. /\ InBuffer(Current.len) /\ Answer(ran, status, c2)
      /\ Kind(ran, status, c2) /\ c' = c2
      /\ stage = "scan" /\ stage' = "scan" /\ parsed' = parsed + 1
  BY <1>1 DEF AnswerWith, Answer
<1> DEFINE a == [cmd |-> Current.cmd, ran |-> ran, status |-> status]
<1>3. a \in Replies /\ reply_buf' = Append(reply_buf, a)
  BY <1>2, AnswerAppends
<1>4. a.cmd = Current.cmd /\ a.ran = ran /\ a.status = status
  OBVIOUS
<1> HIDE DEF a
<1>5. Last(reply_buf') = a /\ parsed' > parsed
  BY <1>2, <1>3, AppendProperties DEF Last, TypeInv, TypeOK
<1>6. /\ a.cmd = "lock" /\ a.ran => ~c.locked
      /\ a.cmd = "unlock" /\ a.ran => c.locked
      /\ c2.locked <=> Locks(a) \/ (c.locked /\ ~Unlocks(a))
  BY <1>2, <1>3, <1>4, KindLocks DEF TypeInv
<1>7. Current.cmd = "lock" => reply_len = 0
  BY <1>2 DEF Kind, QueryKind, ConfigureKind, ErrorKind, WorkKind, LockKind,
              UnlockKind, HoldsReplies, Calling, TypeInv, TypeOK
<1>8. /\ chain' = Chained(a)
      /\ ~(Locks(a) /\ Unlocks(a))
  BY <1>2, <1>4 DEF Answer, a, Locks, Unlocks
<1>9. (c.locked <=> chain = "held") => (c'.locked <=> chain' = "held")
  BY <1>2, <1>6, <1>8 DEF Chained
<1> QED  BY <1>2, <1>4, <1>5, <1>6, <1>7, <1>9 DEF LockRuns, UnlockRuns, Calls

\* Only an answer calls lock or unlock.
LEMMA OtherCalls ==
    ASSUME TypeInv, [Next]_vars
    PROVE  AnswerStep \/ (~LockRuns /\ ~UnlockRuns)
<1>1. CASE parsed' = parsed \/ parsed' = 0
  BY <1>1 DEF LockRuns, UnlockRuns, Calls, TypeInv, TypeOK
<1> QED  BY <1>1, StepOfBatch

\* Outside an answer only the close of a connection touches the chain, and only
\* it brings the server back to accept.
LEMMA ChainStays ==
    ASSUME TypeInv, [Next]_vars
    PROVE  \/ AnswerStep \/ CloseConnection
           \/ chain' = chain /\ (stage' = "accept" => stage = "accept")
<1>1. CASE Listen \/ Client \/ Stopped \/ UNCHANGED vars
  BY <1>1 DEF Listen, Accept, AcceptNoPeer, AcceptRefused, AcceptFails, Attempt,
              Client, ClientWrite, ClientClose, Stopped, vars, conn
<1>2. CASE Parse
  BY <1>2, AnswersAreAnswerSteps
  DEF Parse, Answering, LockBreak, NeedMore, AssertFails, ProtocolError, conn, TypeInv
<1>3. CASE Transfer
  BY <1>3 DEF Transfer, NoProgress, Flush, FlushFails, Send, SendFails, SendKilled,
              Recv, RecvEnd, RecvFails, ReadMore, conn
<1> QED  BY <1>1, <1>2, <1>3 DEF Next

\* ChainInv is kept by every step.
LEMMA ChainInvStep ==
    ASSUME TypeInv, ChainInv, [Next]_vars
    PROVE  ChainInv'
<1>1. CASE AnswerStep
  BY <1>1, CallsOfAnswer DEF ChainInv, Serving
<1>2. CASE CloseConnection
  BY <1>2 DEF ChainInv, CloseConnection, Serving
<1>3. CASE /\ ~AnswerStep
           /\ chain' = chain /\ (stage' = "accept" => stage = "accept")
  <2>1. CASE Begins
    BY <1>3, <2>1 DEF Begins, FreshClient, ChainInv, Serving
  <2>2. CASE Leaves
    BY <1>3, <2>2 DEF Leaves, ChainInv
  <2>3. CASE Stays
    <3>1. c'.locked = c.locked
      BY <2>3 DEF Stays, Fail, TypeInv, TypeOK, ClientState
    <3> QED  BY <1>3, <2>3, <3>1 DEF Stays, ChainInv
  <2> QED  BY <1>3, <2>1, <2>2, <2>3, StepOfHistory
<1> QED  BY <1>1, <1>2, <1>3, ChainStays

\* Whatever the client sends and however its connections end, lock() never runs
\* under a lock of the client that is served, and unlock() only under one: the
\* structure that is cleared at accept never stands for another client's lock.
THEOREM LocksArePaired == Spec => LockPaired
<1>1. Init => TypeInv /\ ChainInv
  BY TypeInvInit DEF ChainInv, Init, Serving
<1>2. TypeInv /\ ChainInv /\ [Next]_vars => (TypeInv /\ ChainInv)'
  BY TypeInvStep, ChainInvStep
<1>3. ASSUME TypeInv, ChainInv, [Next]_vars
      PROVE  [/\ LockRuns => chain # "held"
              /\ UnlockRuns => chain = "held"]_vars
  <2>1. CASE AnswerStep
    BY <1>3, <2>1, CallsOfAnswer DEF ChainInv, Serving
  <2>2. CASE ~AnswerStep
    BY <1>3, <2>2, OtherCalls
  <2> QED  BY <2>1, <2>2
<1> QED  BY <1>1, <1>2, <1>3, PTL DEF Spec, LockPaired

\* For every table of handlers lock() is entered with no work put off: a batch
\* that holds some has been flushed, and what waits for unlock() waits under the
\* lock.
THEOREM LockHoldsNothing == Spec => LockOwesNothing
<1>1. Init => TypeInv /\ BatchInv /\ DeferInv
  BY TypeInvInit, BatchInvInit
<1>2. TypeInv /\ BatchInv /\ DeferInv /\ [Next]_vars
         => (TypeInv /\ BatchInv /\ DeferInv)'
  BY TypeInvStep, BatchInvStep
<1>3. ASSUME TypeInv, DeferInv, [Next]_vars
      PROVE  [LockRuns => ~deferred]_vars
  <2>1. CASE AnswerStep
    <3>1. LockRuns => ~c.locked /\ reply_len = 0 /\ stage = "scan"
      BY <1>3, <2>1, CallsOfAnswer
    <3> QED  BY <1>3, <3>1 DEF DeferInv, Serving
  <2>2. CASE ~AnswerStep
    BY <1>3, <2>2, OtherCalls
  <2> QED  BY <2>1, <2>2
<1> QED  BY <1>1, <1>2, <1>3, PTL DEF Spec, LockOwesNothing

-----------------------------------------------------------------------------
(* What a connection starts with.                                           *)

\* The settings and the error come from requests answered in this connection.
SettingsInv ==
    stage \in Serving =>
        /\ c.enable_locking \/ c.enable_status =>
              \E i \in DOMAIN History : History[i].cmd = "configure"
        /\ c.pending_error => History # <<>>

\* Only configure changes a setting.
LEMMA KindSettings ==
    ASSUME TypeOK, NEW ran, NEW status, NEW c2, Kind(ran, status, c2),
           Current.cmd # "configure"
    PROVE  c2.enable_locking = c.enable_locking /\ c2.enable_status = c.enable_status
BY DEF TypeOK, ClientState, Kind, QueryKind, ConfigureKind, ErrorKind, WorkKind,
       LockKind, UnlockKind, AfterCallback, Fail

\* SettingsInv is kept by every step.
LEMMA SettingsInvStep ==
    ASSUME TypeInv, BatchInv, SettingsInv, [Next]_vars
    PROVE  SettingsInv'
<1>0. History \in Seq(Replies)
  BY HistoryType DEF TypeInv
<1>1. CASE AnswerStep
  <2>1. PICK ran \in BOOLEAN, status \in Statuses, c2 \in ClientState :
           AnswerWith(ran, status, c2)
    BY <1>1 DEF AnswerStep
  <2>2. /\ InBuffer(Current.len) /\ Answer(ran, status, c2) /\ c' = c2
        /\ stage \in Serving /\ Kind(ran, status, c2)
    BY <2>1 DEF AnswerWith, Answer, Serving
  <2> DEFINE a == [cmd |-> Current.cmd, ran |-> ran, status |-> status]
             n == Len(History)
  <2>3. a \in Replies /\ History' = Append(History, a) /\ a.cmd = Current.cmd
    BY <2>2, AnswerAppends
  <2> HIDE DEF a
  <2>4. /\ n \in Nat /\ DOMAIN History = 1..n /\ DOMAIN History' = 1..(n + 1)
        /\ \A i \in 1..n : History'[i] = History[i]
        /\ History'[n + 1] = a /\ Len(History') = n + 1
    BY <1>0, <2>3, AppendProperties, LenProperties
  <2> HIDE DEF n
  <2>5. History' # <<>> /\ n + 1 \in 1..(n + 1)
    BY <2>4, Empty
  <2>6. CASE Current.cmd = "configure"
    BY <2>3, <2>4, <2>5, <2>6 DEF SettingsInv
  <2>7. CASE Current.cmd # "configure"
    <3>1. c'.enable_locking = c.enable_locking /\ c'.enable_status = c.enable_status
      BY <2>2, <2>7, KindSettings DEF TypeInv
    <3>2. c.enable_locking \/ c.enable_status =>
             \E i \in 1..n : History'[i].cmd = "configure"
      BY <2>2, <2>4 DEF SettingsInv
    <3>3. 1..n \subseteq 1..(n + 1)
      BY <2>4
    <3> QED  BY <2>4, <2>5, <3>1, <3>2, <3>3 DEF SettingsInv
  <2> QED  BY <2>6, <2>7
<1>2. CASE Begins
  BY <1>2 DEF Begins, FreshClient, SettingsInv
<1>3. CASE Leaves
  BY <1>3 DEF Leaves, SettingsInv
<1>4. CASE Stays
  <2>1. /\ c'.enable_locking = c.enable_locking
        /\ c'.enable_status = c.enable_status
    BY <1>4 DEF Stays, Fail, TypeInv, TypeOK, ClientState
  <2>2. cbuf # 0 => History # <<>>
    <3>1. cbuf # 0 => reply_buf # <<>>
      BY <1>4 DEF Stays, BatchInv
    <3>2. sent \in Seq(Replies) /\ reply_buf \in Seq(Replies)
      BY DEF TypeInv, TypeOK
    <3>3. Len(History) = Len(sent) + Len(reply_buf) /\ Len(sent) \in Nat
          /\ Len(reply_buf) \in Nat
      BY <3>2, ConcatProperties, LenProperties DEF History
    <3>4. reply_buf # <<>> => Len(reply_buf) # 0
      BY <3>2, EmptySeq
    <3> QED  BY <3>1, <3>3, <3>4, Empty
  <2> QED  BY <1>4, <2>1, <2>2 DEF Stays, SettingsInv
<1> QED  BY <1>1, <1>2, <1>3, <1>4, StepOfHistory

\* memset(c, 0, sizeof *c) is enough: a connection begins without lock,
\* settings or error, and comes by them only through what it is answered.
THEOREM NothingIsInherited == Spec => []NothingInherited
<1>1. Init => TypeInv /\ LockInv /\ BatchInv /\ DeferInv /\ SettingsInv
  <2>1. Init => SettingsInv
    BY DEF Init, SettingsInv, Serving
  <2> QED  BY <2>1, TypeInvInit, LockInvInit, BatchInvInit
<1>2. TypeInv /\ LockInv /\ BatchInv /\ DeferInv /\ SettingsInv /\ [Next]_vars
         => (TypeInv /\ LockInv /\ BatchInv /\ DeferInv /\ SettingsInv)'
  BY TypeInvStep, LockInvStep, BatchInvStep, SettingsInvStep
<1>3. LockInv /\ SettingsInv => NothingInherited
  BY DEF LockInv, Told, SettingsInv, NothingInherited
<1> QED  BY <1>1, <1>2, <1>3, PTL DEF Spec

-----------------------------------------------------------------------------
(* The bytes of requests, from one request to another.                      *)

\* Bytes of the first i requests of s, as the LET of Bytes.
Upto(s) == CHOOSE u : u = [i \in 0..Len(s) |-> IF i = 0 THEN 0 ELSE u[i - 1] + s[i].len]
Sums(s, n) == {u \in [0..n -> Nat] :
                 \A i \in 0..n : u[i] = IF i = 0 THEN 0 ELSE u[i - 1] + s[i].len}

\* A claim about naturals that fails has a least natural where it fails.
LEMMA LeastNatural ==
    ASSUME NEW S \in SUBSET Nat, S # {}
    PROVE  \E x \in S : \A y \in S : x <= y
<1>1. PICK x \in S : \A y \in S : <<y, x>> \notin OpToRel(<, Nat)
  BY NatLessThanWellFounded, WFMin
<1>2. \A y \in S : ~ (y < x)
  BY <1>1, Zenon DEF OpToRel
<1> QED  BY <1>2

\* The sums exist, so Upto is what its definition says.
LEMMA UptoSums ==
    ASSUME NEW s \in Seq(Requests)
    PROVE  Upto(s) \in Sums(s, Len(s)) /\ Bytes(s) = Upto(s)[Len(s)]
<1> DEFINE Bad == {n \in 0..Len(s) : Sums(s, n) = {}}
<1>1. Len(s) \in Nat /\ \A i \in 1..Len(s) : s[i].len \in Nat
  <2>1. \A q \in Requests : q.len \in Nat
    BY RequestsAssumption DEF RequestType
  <2> QED  BY <2>1
<1>2. ASSUME Bad # {}
      PROVE  FALSE
  <2>1. PICK n \in Bad : \A m \in Bad : n <= m
    <3>1. Bad \in SUBSET Nat
      OBVIOUS
    <3> HIDE DEF Bad
    <3> QED  BY <1>2, <3>1, LeastNatural
  <2>2. n \in 0..Len(s) /\ Sums(s, n) = {}
    BY <2>1
  <2>3. CASE n = 0
    <3>1. [i \in 0..0 |-> 0] \in Sums(s, 0)
      BY DEF Sums
    <3> QED  BY <2>2, <2>3, <3>1
  <2>4. CASE n # 0
    <3>1. n - 1 \in 0..Len(s) /\ n - 1 \notin Bad /\ n - 1 \in Nat
      BY <1>1, <2>1, <2>2, <2>4
    <3>2. PICK u \in Sums(s, n - 1) : TRUE
      BY <3>1
    <3> DEFINE v == [i \in 0..n |-> IF i = n THEN u[n - 1] + s[n].len ELSE u[i]]
    <3>3. u \in [0..(n - 1) -> Nat]
          /\ \A i \in 0..(n - 1) : u[i] = IF i = 0 THEN 0 ELSE u[i - 1] + s[i].len
      BY <3>2 DEF Sums
    <3>4. s[n].len \in Nat
      BY <1>1, <2>2, <2>4
    <3>5. v \in [0..n -> Nat]
      BY <2>2, <3>1, <3>3, <3>4
    <3>6. \A i \in 0..n : v[i] = IF i = 0 THEN 0 ELSE v[i - 1] + s[i].len
      BY <2>2, <2>4, <3>1, <3>3
    <3>7. v \in Sums(s, n)
      BY <3>5, <3>6 DEF Sums
    <3> QED  BY <2>2, <3>7
  <2> QED  BY <2>3, <2>4
<1>3. PICK u \in Sums(s, Len(s)) : TRUE
  BY <1>1, <1>2
<1>4. u = [i \in 0..Len(s) |-> IF i = 0 THEN 0 ELSE u[i - 1] + s[i].len]
  BY <1>3 DEF Sums
<1>5. Upto(s) = [i \in 0..Len(s) |-> IF i = 0 THEN 0 ELSE Upto(s)[i - 1] + s[i].len]
  BY <1>4 DEF Upto
<1> DEFINE U == Upto(s)
<1> HIDE DEF U
<1>6. /\ U = [i \in 0..Len(s) |-> IF i = 0 THEN 0 ELSE U[i - 1] + s[i].len]
  BY <1>5 DEF U
<1>7. U \in Sums(s, Len(s))
  <2> DEFINE Wrong == {n \in 0..Len(s) : U[n] \notin Nat}
  <2>1. ASSUME Wrong # {}
        PROVE  FALSE
    <3>1. PICK n \in Wrong : \A m \in Wrong : n <= m
      <4>1. Wrong \in SUBSET Nat
        OBVIOUS
      <4> HIDE DEF Wrong
      <4> QED  BY <2>1, <4>1, LeastNatural
    <3>2. n \in 0..Len(s) /\ U[n] \notin Nat
      BY <3>1
    <3>3. n # 0
      BY <1>6, <3>2
    <3>4. n - 1 \in 0..Len(s) /\ n - 1 \notin Wrong
      BY <1>1, <3>1, <3>2, <3>3
    <3>5. U[n - 1] \in Nat /\ s[n].len \in Nat /\ U[n] = U[n - 1] + s[n].len
      BY <1>1, <1>6, <3>2, <3>3, <3>4
    <3> QED  BY <3>2, <3>5
  <2>2. \A i \in 0..Len(s) : U[i] = IF i = 0 THEN 0 ELSE U[i - 1] + s[i].len
    BY <1>6
  <2>3. U \in [0..Len(s) -> Nat]
    BY <1>6, <2>1
  <2> QED  BY <2>2, <2>3 DEF Sums
<1>8. Bytes(s) = U[Len(s)]
  BY DEF Bytes, Upto, U
<1> QED  BY <1>7, <1>8 DEF U

\* What the sums are made of.
LEMMA UptoFacts ==
    ASSUME NEW s \in Seq(Requests)
    PROVE  /\ Upto(s)[0] = 0
           /\ \A i \in 0..Len(s) : Upto(s)[i] \in Nat
           /\ \A i \in 1..Len(s) : Upto(s)[i] = Upto(s)[i - 1] + s[i].len
<1> DEFINE U == Upto(s)
<1>1. /\ U \in [0..Len(s) -> Nat] /\ Len(s) \in Nat
      /\ \A i \in 0..Len(s) : U[i] = IF i = 0 THEN 0 ELSE U[i - 1] + s[i].len
  BY UptoSums DEF Sums
<1> HIDE DEF U
<1>2. U[0] = 0 /\ \A i \in 0..Len(s) : U[i] \in Nat
  BY <1>1
<1>3. ASSUME NEW i \in 1..Len(s)
      PROVE  U[i] = U[i - 1] + s[i].len
  BY <1>1
<1> QED  BY <1>2, <1>3 DEF U

\* The bytes of a part of s are a difference of two sums of s.
LEMMA BytesOfPart ==
    ASSUME NEW s \in Seq(Requests), NEW t \in Seq(Requests), NEW k \in Nat,
           k + Len(t) <= Len(s), \A i \in 1..Len(t) : t[i] = s[k + i]
    PROVE  Bytes(t) = Upto(s)[k + Len(t)] - Upto(s)[k]
<1> DEFINE U == Upto(s)
           V == Upto(t)
           Wrong == {n \in 0..Len(t) : V[n] # U[k + n] - U[k]}
<1>1. /\ U[0] = 0 /\ \A i \in 0..Len(s) : U[i] \in Nat
      /\ \A i \in 1..Len(s) : U[i] = U[i - 1] + s[i].len
      /\ V[0] = 0 /\ \A i \in 0..Len(t) : V[i] \in Nat
      /\ \A i \in 1..Len(t) : V[i] = V[i - 1] + t[i].len
      /\ Bytes(t) = V[Len(t)] /\ Len(t) \in Nat /\ Len(s) \in Nat
  BY UptoFacts, UptoSums
<1> HIDE DEF U, V
<1>0. \A i \in 1..Len(t) : t[i].len \in Nat
  <2>1. \A q \in Requests : q.len \in Nat
    BY RequestsAssumption DEF RequestType
  <2> QED  BY <2>1
<1>2. ASSUME Wrong # {}
      PROVE  FALSE
  <2>1. PICK n \in Wrong : \A m \in Wrong : n <= m
    <3>1. Wrong \in SUBSET Nat
      OBVIOUS
    <3> HIDE DEF Wrong
    <3> QED  BY <1>2, <3>1, LeastNatural
  <2>2. n \in 0..Len(t) /\ V[n] # U[k + n] - U[k]
    BY <2>1
  <2>3. n # 0
    <3>1. k \in 0..Len(s) /\ U[k] \in Nat /\ k + 0 = k
      BY <1>1
    <3> QED  BY <1>1, <2>2, <3>1
  <2>4. n - 1 \in 0..Len(t) /\ n - 1 \notin Wrong
    BY <1>1, <2>1, <2>2, <2>3
  <2>5. V[n - 1] = U[k + (n - 1)] - U[k] /\ V[n] = V[n - 1] + t[n].len
    BY <1>1, <2>2, <2>3, <2>4
  <2>6. k + n \in 1..Len(s) /\ (k + n) - 1 = k + (n - 1) /\ t[n] = s[k + n]
    <3>1. n \in 1..Len(t)
      BY <1>1, <2>2, <2>3
    <3> QED  BY <1>1, <3>1
  <2>7. U[k + n] = U[k + (n - 1)] + t[n].len
    BY <1>1, <2>6
  <2>8. U[k + (n - 1)] \in Nat /\ U[k] \in Nat /\ t[n].len \in Nat
    <3>1. k + (n - 1) \in 0..Len(s) /\ k \in 0..Len(s)
      BY <1>1, <2>2, <2>3
    <3>2. n \in 1..Len(t)
      BY <1>1, <2>2, <2>3
    <3> QED  BY <1>0, <1>1, <3>1, <3>2
  <2> DEFINE x == U[k + (n - 1)]
             y == U[k]
             z == t[n].len
  <2>9. /\ x \in Nat /\ y \in Nat /\ z \in Nat
        /\ V[n] = (x - y) + z /\ U[k + n] = x + z
    BY <2>5, <2>7, <2>8, Zenon
  <2>10. U[k + n] - y # V[n]
    BY <2>2, Zenon
  <2> HIDE DEF x, y, z
  <2> QED  BY <2>9, <2>10
<1>3. \A n \in 0..Len(t) : V[n] = U[k + n] - U[k]
  BY <1>2
<1>4. Len(t) \in 0..Len(t)
  BY <1>1
<1> QED  BY <1>1, <1>3, <1>4 DEF U

\* The bytes of requests that a batch, or the client, moves.
LEMMA BytesParts ==
    ASSUME NEW s \in Seq(Requests), NEW n \in 0..Len(s)
    PROVE  /\ Bytes(s) \in Nat /\ Bytes(s) = Upto(s)[Len(s)]
           /\ Bytes(SubSeq(s, 1, n)) = Upto(s)[n] /\ Upto(s)[n] \in Nat
           /\ Bytes(SubSeq(s, n + 1, Len(s))) = Bytes(s) - Upto(s)[n]
           /\ Upto(s)[n] <= Bytes(s)
           /\ n < Len(s) => Upto(s)[n + 1] = Upto(s)[n] + s[n + 1].len
<1>1. /\ Upto(s)[0] = 0 /\ \A i \in 0..Len(s) : Upto(s)[i] \in Nat
      /\ \A i \in 1..Len(s) : Upto(s)[i] = Upto(s)[i - 1] + s[i].len
      /\ Bytes(s) = Upto(s)[Len(s)] /\ Len(s) \in Nat
  BY UptoFacts, UptoSums
<1> DEFINE a == SubSeq(s, 1, n)
           b == SubSeq(s, n + 1, Len(s))
<1>2. a \in Seq(Requests) /\ Len(a) = n /\ \A i \in 1..Len(a) : a[i] = s[0 + i]
  OBVIOUS
<1>3. /\ b \in Seq(Requests) /\ Len(b) = Len(s) - n
      /\ \A i \in 1..Len(b) : b[i] = s[n + i]
  OBVIOUS
<1> HIDE DEF a, b
<1>4. Bytes(a) = Upto(s)[n] - 0
  <2>0. 0 \in Nat /\ 0 + Len(a) <= Len(s)
    BY <1>1, <1>2
  <2>1. Bytes(a) = Upto(s)[0 + Len(a)] - Upto(s)[0]
    BY <1>2, <2>0, BytesOfPart
  <2>2. 0 + Len(a) = n
    BY <1>2
  <2> QED  BY <1>1, <2>1, <2>2
<1>5. Bytes(b) = Bytes(s) - Upto(s)[n]
  <2>1. n + Len(b) = Len(s) /\ n + Len(b) <= Len(s) /\ n \in Nat
    BY <1>1, <1>3
  <2>2. Bytes(b) = Upto(s)[n + Len(b)] - Upto(s)[n]
    BY <1>3, <2>1, BytesOfPart
  <2> QED  BY <1>1, <2>1, <2>2
<1>6. Bytes(b) \in Nat
  BY <1>3, UptoSums, UptoFacts
<1>7. Upto(s)[n] \in Nat /\ Bytes(s) \in Nat
  BY <1>1
<1>8. n < Len(s) => Upto(s)[n + 1] = Upto(s)[n] + s[n + 1].len
  <2> SUFFICES ASSUME n < Len(s) PROVE Upto(s)[n + 1] = Upto(s)[n] + s[n + 1].len
    OBVIOUS
  <2>1. n + 1 \in 1..Len(s) /\ (n + 1) - 1 = n
    BY <1>1
  <2> QED  BY <1>1, <2>1
<1> QED  BY <1>1, <1>4, <1>5, <1>6, <1>7, <1>8 DEF a, b

\* The bytes of a stream to which a client appends a request.
LEMMA BytesAppend ==
    ASSUME NEW s \in Seq(Requests), NEW r \in Requests, NEW n \in 0..Len(s)
    PROVE  /\ Bytes(Append(s, r)) = Bytes(s) + r.len
           /\ Upto(Append(s, r))[n] = Upto(s)[n]
<1> DEFINE t == Append(s, r)
           a == SubSeq(s, 1, n)
<1>1. /\ t \in Seq(Requests) /\ Len(t) = Len(s) + 1 /\ t[Len(s) + 1] = r
      /\ \A i \in 1..Len(s) : t[i] = s[i]
  OBVIOUS
<1>2. a \in Seq(Requests) /\ Len(a) = n /\ \A i \in 1..Len(a) : a[i] = s[i]
  OBVIOUS
<1>3. Len(s) \in Nat
  OBVIOUS
<1> HIDE DEF t, a
<1>4. Upto(t)[0] = 0 /\ \A i \in 0..Len(t) : Upto(t)[i] \in Nat
  BY <1>1, UptoFacts
<1>5. Bytes(s) = Upto(t)[Len(s)]
  <2>1. \A i \in 1..Len(s) : s[i] = t[0 + i]
    BY <1>1
  <2>0. 0 \in Nat /\ 0 + Len(s) <= Len(t)
    BY <1>1, <1>3
  <2>2. Bytes(s) = Upto(t)[0 + Len(s)] - Upto(t)[0]
    BY <1>1, <2>0, <2>1, BytesOfPart
  <2>3. 0 + Len(s) = Len(s) /\ Upto(t)[Len(s)] \in Nat
    BY <1>1, <1>3, <1>4
  <2> QED  BY <1>4, <2>2, <2>3
<1>6. Bytes(a) = Upto(t)[n]
  <2>1. ASSUME NEW i \in 1..Len(a)
        PROVE  a[i] = t[0 + i]
    <3>1. i \in 1..Len(s) /\ 0 + i = i
      BY <1>2, <1>3
    <3> QED  BY <1>1, <1>2, <3>1
  <2>0. 0 \in Nat /\ 0 + Len(a) <= Len(t)
    BY <1>1, <1>2, <1>3
  <2>2. Bytes(a) = Upto(t)[0 + Len(a)] - Upto(t)[0]
    BY <1>1, <1>2, <2>0, <2>1, BytesOfPart
  <2>3. 0 + Len(a) = n /\ Upto(t)[n] \in Nat
    BY <1>1, <1>2, <1>3, <1>4
  <2> QED  BY <1>4, <2>2, <2>3
<1>7. Bytes(a) = Upto(s)[n]
  BY BytesParts DEF a
<1>8. Bytes(t) = Upto(t)[Len(s)] + r.len
  <2>1. Len(s) \in 0..Len(t) /\ Len(s) < Len(t)
    BY <1>1, <1>3
  <2>2. Bytes(t) = Upto(t)[Len(t)] /\ Upto(t)[Len(s) + 1] = Upto(t)[Len(s)] + t[Len(s) + 1].len
    BY <1>1, <2>1, BytesParts
  <2> QED  BY <1>1, <2>2
<1> QED  BY <1>5, <1>6, <1>7, <1>8 DEF t

\* A message of which too little is in an empty buffer to know its length, or
\* whose length no assertion bounds, fits the buffer: the names, numbers and
\* other fields of constant length, against a max_packet_len of 10000.
HeadsFit ==
    \A r \in Requests :
        /\ r.hdr <= BufMax
        /\ r.cmd \notin {"configure", "shift", "rshift", "mwr"} => r.len = r.hdr

\* FramingExact, and what makes room for recv.
FramingInv ==
    /\ FramingExact
    /\ buf_len <= BufMax
    /\ stage = "flush" /\ cbuf = 0 => buf_len < BufMax

\* FramingExact in the sums of the stream.
LEMMA FramingSums ==
    ASSUME TypeInv
    PROVE  FramingExact <=>
             (stage \in Serving =>
                /\ buf_len + wire = Bytes(stream)
                /\ cbuf = Upto(stream)[parsed]
                /\ cbuf <= buf_len
                /\ stage = "recv" => buf_len < BufMax)
<1>1. stream \in Seq(Requests) /\ parsed \in 0..Len(stream)
  BY DEF TypeInv, TypeOK
<1>2. Bytes(SubSeq(stream, 1, parsed)) = Upto(stream)[parsed]
  BY <1>1, BytesParts
<1> QED  BY <1>2 DEF FramingExact

\* An answer moves the parser to the end of the request answered.
LEMMA FramingAnswer ==
    ASSUME TypeInv, FramingInv, AnswerStep
    PROVE  FramingInv'
<1>1. PICK ran \in BOOLEAN, status \in Statuses, c2 \in ClientState :
         AnswerWith(ran, status, c2)
  BY DEF AnswerStep
<1>2. /\ stage = "scan" /\ stage' = "scan" /\ InBuffer(Current.len)
      /\ cbuf' = cbuf + Current.len /\ parsed' = parsed + 1
      /\ UNCHANGED <<stream, wire, buf_len>>
  BY <1>1 DEF AnswerWith, Answer
<1>3. /\ stream \in Seq(Requests) /\ parsed \in 0..Len(stream) /\ parsed < Len(stream)
      /\ cbuf \in Nat /\ buf_len \in Nat
  BY <1>2 DEF TypeInv, TypeOK, InBuffer
<1>4. Upto(stream)[parsed + 1] = Upto(stream)[parsed] + Current.len
  BY <1>3, BytesParts DEF Current
<1>5. Current.len \in Nat /\ Current.len <= buf_len - cbuf
  BY <1>2, <1>3, RequestsAssumption DEF InBuffer, Current, Available, RequestType
<1>6. /\ buf_len + wire = Bytes(stream) /\ cbuf = Upto(stream)[parsed]
      /\ buf_len <= BufMax
  BY <1>2, FramingSums DEF FramingInv, Serving
<1>7. cbuf' = Upto(stream)[parsed + 1] /\ cbuf' <= buf_len
  BY <1>2, <1>3, <1>4, <1>5, <1>6
<1>8. TypeInv'
  BY TypeInvAnswer
<1>9. FramingExact'
  <2>1. /\ buf_len' + wire' = Bytes(stream)' /\ cbuf' = Upto(stream')[parsed']
        /\ cbuf' <= buf_len' /\ stage' # "recv"
    BY <1>2, <1>6, <1>7
  <2>2. Bytes(SubSeq(stream', 1, parsed')) = Upto(stream')[parsed']
    <3>1. stream' \in Seq(Requests) /\ parsed' \in 0..Len(stream')
      BY <1>8 DEF TypeInv, TypeOK
    <3> QED  BY <3>1, BytesParts
  <2> QED  BY <2>1, <2>2 DEF FramingExact
<1> QED  BY <1>2, <1>6, <1>9 DEF FramingInv

\* The parser asks for more, with an empty batch, only when the message it is at
\* leaves room in the buffer.
LEMMA FramingNeedMore ==
    ASSUME HeadsFit, TypeInv, BatchInv, FramingInv, NeedMore, cbuf = 0
    PROVE  buf_len < BufMax
<1>1. /\ stage = "scan" /\ parsed = 0 /\ buf_len + wire = Bytes(stream)
      /\ buf_len \in Nat /\ wire \in Nat /\ stream \in Seq(Requests)
      /\ BufMax \in Nat /\ BufMax > 0 /\ Available = buf_len
  BY FramingSums, BoundsAssumption
  DEF NeedMore, BatchInv, FramingInv, TypeInv, TypeOK, Serving, Available
<1>2. CASE Len(stream) = 0
  <2>1. Bytes(stream) = 0
    BY <1>1, <1>2, UptoFacts, UptoSums
  <2> QED  BY <1>1, <2>1
<1>3. CASE Len(stream) # 0
  <2>1. parsed < Len(stream) /\ Current \in Requests
    BY <1>1, <1>3 DEF Current
  <2> DEFINE r == Current
  <2>2. /\ r.name \in Nat /\ r.hdr \in Nat /\ r.len \in Nat
        /\ r.name <= r.hdr /\ r.hdr <= BufMax
        /\ r.cmd \notin {"configure", "shift", "rshift", "mwr"} => r.len = r.hdr
    BY <2>1, RequestsAssumption DEF HeadsFit, RequestType
  <2> HIDE DEF r
  <2>3. \A n : ~InBuffer(n) <=> ~(n <= buf_len)
    BY <1>1, <2>1 DEF InBuffer
  <2>4. CASE ~InBuffer(1)
    BY <1>1, <2>3, <2>4
  <2>5. CASE ~InBuffer(Current.name) \/ ~InBuffer(Current.hdr)
    BY <1>1, <2>2, <2>3, <2>5 DEF r
  <2>6. CASE Partial /\ AssertHolds(Current)
    <3>1. ~(r.len <= buf_len) /\ r.hdr <= buf_len
      BY <2>3, <2>6 DEF Partial, r
    <3>2. r.len <= BufMax
      <4>1. CASE r.cmd = "configure"
        BY <1>1, <2>2, <2>6, <4>1 DEF AssertHolds, r
      <4>2. CASE r.cmd \in {"shift", "rshift", "mwr"}
        BY <2>6, <4>2 DEF AssertHolds, r
      <4>3. CASE r.cmd \notin {"configure", "shift", "rshift", "mwr"}
        BY <2>2, <3>1, <4>3
      <4> QED  BY <4>1, <4>2, <4>3
    <3> QED  BY <1>1, <2>2, <3>1, <3>2
  <2> QED  BY <2>4, <2>5, <2>6 DEF NeedMore
<1> QED  BY <1>2, <1>3

\* Steps that leave the bytes where they are.
LEMMA FramingStays ==
    ASSUME TypeInv, FramingInv, UNCHANGED <<stream, wire, buf_len, cbuf, parsed>>,
           stage' \in Serving => stage \in Serving,
           stage' = "recv" => buf_len < BufMax,
           stage' = "flush" /\ cbuf = 0 => buf_len < BufMax
    PROVE  FramingInv'
  BY DEF FramingInv, FramingExact

\* Whatever chunks TCP makes of the requests, the parser stands between two of
\* them.
LEMMA FramingStep ==
    ASSUME HeadsFit, TypeInv, BatchInv, FramingInv, [Next]_vars
    PROVE  FramingInv'
<1>1. stream \in Seq(Requests) /\ parsed \in 0..Len(stream) /\ BufMax \in Nat /\ BufMax > 0
      /\ wire \in Nat /\ buf_len \in Nat /\ cbuf \in Nat /\ cbuf <= buf_len
  BY BoundsAssumption DEF TypeInv, TypeOK
<1>2. CASE AnswerStep
  BY <1>2, FramingAnswer
<1>3. CASE Accept
  <2>1. <<>> \in Seq(Requests) /\ SubSeq(<<>>, 1, 0) = <<>>
    OBVIOUS
  <2>2. Bytes(<<>>) = 0
    <3>1. Len(<<>>) = 0
      OBVIOUS
    <3> QED  BY <2>1, <3>1, UptoFacts, UptoSums
  <2>3. /\ stream' = <<>> /\ wire' = 0 /\ buf_len' = 0 /\ cbuf' = 0 /\ parsed' = 0
        /\ stage' = "scan"
    BY <1>3 DEF Accept
  <2>4. FramingExact'
    <3>1. buf_len' + wire' = 0 /\ cbuf' <= buf_len'
      BY <2>3
    <3>2. Bytes(stream') = 0 /\ Bytes(SubSeq(stream', 1, parsed')) = 0
      BY <2>1, <2>2, <2>3
    <3> QED  BY <2>3, <3>1, <3>2 DEF FramingExact
  <2> QED  BY <1>1, <2>3, <2>4 DEF FramingInv
<1>4. CASE \/ AcceptNoPeer \/ AcceptRefused \/ AcceptFails \/ AssertFails \/ ProtocolError
           \/ FlushFails \/ SendFails \/ SendKilled \/ RecvEnd \/ RecvFails
           \/ CloseConnection
  BY <1>4, FramingStays
  DEF AcceptNoPeer, AcceptRefused, AcceptFails, Attempt, AssertFails, ProtocolError, Partial,
      FlushFails, SendFails, SendKilled, PipeBreaks, RecvEnd, RecvFails,
      CloseConnection, Serving, conn
<1>5. CASE LockBreak
  <2>1. cbuf # 0
    BY <1>5 DEF LockBreak, HoldsReplies, BatchInv, TypeInv, TypeOK
  <2> QED  BY <1>5, <2>1, FramingStays DEF LockBreak, Ready, Serving, conn
<1>6. CASE NeedMore
  BY <1>6, FramingNeedMore, FramingStays DEF NeedMore, Serving
<1>7. CASE NoProgress \/ Flush
  BY <1>7, FramingStays DEF NoProgress, Flush, FramingInv, Serving, conn
<1>8. CASE Send
  <2>1. /\ stage = "send" /\ stage' \in {"scan", "recv"}
        /\ stream' = SubSeq(stream, parsed + 1, Len(stream))
        /\ buf_len' = buf_len - cbuf /\ wire' = wire /\ cbuf' = 0 /\ parsed' = 0
    BY <1>8 DEF Send, Consume, ReadMore
  <2>2. /\ buf_len + wire = Bytes(stream) /\ cbuf = Upto(stream)[parsed]
        /\ buf_len <= BufMax /\ cbuf # 0
    BY <2>1, FramingSums DEF FramingInv, BatchInv, Serving
  <2>3. /\ Bytes(stream') = Bytes(stream) - Upto(stream)[parsed]
        /\ Bytes(stream) \in Nat /\ Upto(stream)[parsed] \in Nat
    BY <1>1, <2>1, BytesParts
  <2>4. buf_len' + wire' = Bytes(stream')
    BY <1>1, <2>1, <2>2, <2>3
  <2>5. stream' \in Seq(Requests) /\ 0 \in 0..Len(stream')
    BY <1>1, <2>1
  <2>6. Bytes(SubSeq(stream', 1, 0)) = 0
    BY <2>5, BytesParts, UptoFacts
  <2>7. buf_len' < BufMax /\ buf_len' >= 0
    BY <1>1, <2>1, <2>2
  <2> QED  BY <1>1, <2>1, <2>4, <2>6, <2>7 DEF FramingInv, FramingExact
<1>9. CASE Recv
  <2>1. PICK n \in 1..BufMax :
           /\ n <= wire /\ n <= BufMax - buf_len
           /\ wire' = wire - n /\ buf_len' = buf_len + n
    BY <1>9 DEF Recv
  <2>2. /\ stage = "recv" /\ stage' = "scan" /\ stream' = stream /\ cbuf' = 0 /\ parsed' = 0
    BY <1>9 DEF Recv, ReadMore
  <2>3. buf_len + wire = Bytes(stream)
    BY <2>2, FramingSums DEF FramingInv, Serving
  <2>4. buf_len' + wire' = Bytes(stream) /\ buf_len' <= BufMax /\ 0 <= buf_len'
    BY <1>1, <2>1, <2>3
  <2>5. Bytes(SubSeq(stream, 1, 0)) = 0
    <3>1. 0 \in 0..Len(stream)
      BY <1>1
    <3> QED  BY <1>1, <3>1, BytesParts, UptoFacts
  <2> QED  BY <2>2, <2>4, <2>5 DEF FramingInv, FramingExact
<1>10. CASE ClientWrite
  <2>1. PICK r \in Requests : stream' = Append(stream, r) /\ wire' = wire + r.len
    BY <1>10 DEF ClientWrite
  <2>2. /\ stage \in Serving
        /\ UNCHANGED <<stage, buf_len, cbuf, parsed>>
    BY <1>10 DEF ClientWrite
  <2>3. r.len \in Nat
    BY RequestsAssumption DEF RequestType
  <2>4. /\ buf_len + wire = Bytes(stream) /\ cbuf = Upto(stream)[parsed]
        /\ cbuf <= buf_len /\ (stage = "recv" => buf_len < BufMax)
    BY <2>2, FramingSums DEF FramingInv
  <2>5. /\ Bytes(stream') = Bytes(stream) + r.len
        /\ Upto(stream')[parsed] = Upto(stream)[parsed]
    BY <1>1, <2>1, BytesAppend
  <2>6. buf_len' + wire' = Bytes(stream')
    BY <1>1, <2>1, <2>2, <2>3, <2>4, <2>5
  <2>7. Bytes(SubSeq(stream', 1, parsed)) = cbuf
    <3>1. stream' \in Seq(Requests) /\ parsed \in 0..Len(stream')
      BY <1>1, <2>1
    <3> QED  BY <2>4, <2>5, <3>1, BytesParts
  <2> QED  BY <2>2, <2>4, <2>6, <2>7 DEF FramingInv, FramingExact
<1>11. CASE ClientClose \/ Stopped \/ UNCHANGED vars
  <2>1. UNCHANGED <<stage, stream, wire, buf_len, cbuf, parsed>>
    BY <1>11 DEF ClientClose, Stopped, vars, conn
  <2> QED  BY <2>1 DEF FramingInv, FramingExact
<1> QED
  BY <1>2, <1>3, <1>4, <1>5, <1>6, <1>7, <1>8, <1>9, <1>10, <1>11, AnswersAreAnswerSteps
  DEF Next, Listen, Parse, Answering, Transfer, Client, TypeInv

\* However TCP cuts the requests and however many a client writes ahead, what is
\* buffered or on its way are the requests not consumed, to the byte; the parser
\* stands at the end of the last one answered, and recv always has room: a
\* message too long for the buffer ends in an assertion, never in a recv of no
\* bytes (xvcserver.c:185-232, 268-276).
THEOREM FramingIsExact ==
    ASSUME HeadsFit
    PROVE  Spec => []FramingExact
<1>1. Init => TypeInv /\ BatchInv /\ DeferInv /\ FramingInv
  <2> SUFFICES ASSUME Init PROVE TypeInv /\ BatchInv /\ DeferInv /\ FramingInv
    OBVIOUS
  <2>1. FramingInv
    BY BoundsAssumption DEF Init, FramingInv, FramingExact, Serving
  <2> QED  BY <2>1, TypeInvInit, BatchInvInit
<1>2. TypeInv /\ BatchInv /\ DeferInv /\ FramingInv /\ [Next]_vars
        => (TypeInv /\ BatchInv /\ DeferInv /\ FramingInv)'
  BY TypeInvStep, BatchInvStep, FramingStep
<1>3. FramingInv => FramingExact
  BY DEF FramingInv
<1> QED  BY <1>1, <1>2, <1>3, PTL DEF Spec
-----------------------------------------------------------------------------
(* The engine implements XvcSession.  What the mapping makes of the state:  *)

Up       == stage \in Serving
Todo     == IF Up THEN SubSeq(stream, parsed + 1, Len(stream)) ELSE <<>>
Outbox   == IF Up THEN reply_buf ELSE <<>>
Err      == Up /\ c.pending_error
HeldLock == Up /\ c.locked

\* While a client is served the flags are those of the structure.
LEMMA Flags ==
    ASSUME TypeOK, Up
    PROVE  /\ Err = c.pending_error /\ HeldLock = c.locked
           /\ Err \in BOOLEAN /\ HeldLock \in BOOLEAN
           /\ c.pending_error \in BOOLEAN /\ c.locked \in BOOLEAN
<1>1. c.pending_error \in BOOLEAN /\ c.locked \in BOOLEAN
  BY DEF TypeOK, ClientState
<1> QED  BY <1>1 DEF Err, HeldLock

\* A step that leaves all of it alone is a stutter.
LEMMA SessionStutters ==
    ASSUME Up' = Up, Todo' = Todo, Outbox' = Outbox, sent' = sent,
           Err' = Err, HeldLock' = HeldLock
    PROVE  UNCHANGED Session!vars
BY DEF Session!vars, Up, Todo, Outbox, Err, HeldLock

\* In particular one between two stages of the service.
LEMMA ServingStutters ==
    ASSUME Up, Up', stream' = stream, parsed' = parsed, reply_buf' = reply_buf,
           sent' = sent, c' = c
    PROVE  UNCHANGED Session!vars
<1>1. Todo' = Todo /\ Outbox' = Outbox
  BY DEF Todo, Outbox
<1>2. Err' = Err /\ HeldLock' = HeldLock
  BY DEF Err, HeldLock
<1>3. Up' = Up
  BY DEF Up
<1> QED  BY <1>1, <1>2, <1>3, SessionStutters

\* The next request to serve is the one behind the parser's position.
LEMMA NextRequest ==
    ASSUME TypeInv, Up, InBuffer(Current.len), parsed' = parsed + 1,
           stream' = stream, stage' = stage
    PROVE  /\ Todo # <<>> /\ Head(Todo) = Current
           /\ Todo' = Tail(Todo)
<1>1. /\ stream \in Seq(Requests) /\ Len(stream) \in Nat
      /\ parsed + 1 \in 1..Len(stream) /\ Len(stream) \in (parsed + 1)..Len(stream)
  BY LenProperties DEF InBuffer, TypeInv, TypeOK
<1>2. /\ Head(SubSeq(stream, parsed + 1, Len(stream))) = stream[parsed + 1]
      /\ Tail(SubSeq(stream, parsed + 1, Len(stream)))
           = SubSeq(stream, parsed + 1 + 1, Len(stream))
  BY <1>1, HeadTailOfSubSeq
<1>3. Len(SubSeq(stream, parsed + 1, Len(stream))) # 0
  BY <1>1, SubSeqProperties
<1> QED  BY <1>2, <1>3, Empty DEF Todo, Current, Up

\* An answer serves the next request as the session says.
LEMMA AnswerIsServe ==
    ASSUME TypeInv, BatchInv, AnswerStep
    PROVE  Session!Next
<1>1. PICK ran \in BOOLEAN, status \in Statuses, c2 \in ClientState :
         AnswerWith(ran, status, c2)
  BY DEF AnswerStep
<1>2. /\ InBuffer(Current.len) /\ Answer(ran, status, c2) /\ c' = c2
      /\ Up /\ Up' /\ Kind(ran, status, c2) /\ stage' = stage
      /\ parsed' = parsed + 1 /\ stream' = stream /\ sent' = sent
  BY <1>1 DEF AnswerWith, Answer, Serving, Up
<1>3. Todo # <<>> /\ Head(Todo) = Current /\ Todo' = Tail(Todo)
  BY <1>2, NextRequest
<1>4. /\ Err = c.pending_error /\ HeldLock = c.locked
      /\ Err \in BOOLEAN /\ HeldLock \in BOOLEAN
      /\ c.pending_error \in BOOLEAN /\ c.locked \in BOOLEAN
  BY <1>2, Flags DEF TypeInv
<1> DEFINE e == c2.pending_error
           h == c2.locked
<1>5. e \in BOOLEAN /\ h \in BOOLEAN
  BY DEF ClientState
<1>6. Session!Serve(ran, status, e, h)
  <2>1. Outbox' = Append(Outbox, [cmd |-> Head(Todo).cmd, ran |-> ran,
                                  status |-> status])
    BY <1>2, <1>3 DEF Outbox, Answer
  <2>2. Err' = e /\ HeldLock' = h
    BY <1>2, <1>5 DEF Err, HeldLock
  <2>3. Up' = Up
    BY <1>2 DEF Up
  <2> HIDE DEF e, h
  <2> QED  BY <1>2, <1>3, <2>1, <2>2, <2>3
           DEF Session!Serve, Up, Todo, Outbox, Err, HeldLock
<1> HIDE DEF e, h
<1>7. status = StatusAfter(c2) => status = Session!StatusOf(e)
  BY DEF StatusAfter, Session!StatusOf, e
<1>8. c2 = Fail => e /\ h = c.locked
  BY DEF Fail, e, h, TypeInv, TypeOK, ClientState
<1>9. c2 = c => e = c.pending_error /\ h = c.locked
  BY DEF e, h
<1>10. CASE QueryKind(ran, status, c2)
  <2>1. Session!Serve(FALSE, "none", Err, HeldLock)
    BY <1>4, <1>6, <1>9, <1>10 DEF QueryKind
  <2>2. Session!ServeQuery
    BY <1>3, <1>10, <2>1 DEF Session!ServeQuery, QueryKind, Todo, Err, HeldLock, Up
  <2> QED  BY <2>2 DEF Session!Next
<1>11. CASE ErrorKind(ran, status, c2)
  <2>1. e = FALSE /\ h = c.locked
    BY <1>11 DEF ErrorKind, e, h, TypeInv, TypeOK, ClientState
  <2>2. Session!Serve(FALSE, "none", FALSE, HeldLock)
    BY <1>4, <1>6, <1>11, <2>1 DEF ErrorKind
  <2>3. Session!ServeError
    BY <1>3, <1>11, <2>2 DEF Session!ServeError, ErrorKind, Todo, HeldLock, Up
  <2> QED  BY <2>3 DEF Session!Next
<1>12. CASE ConfigureKind(ran, status, c2)
  <2>1. (Err => e) /\ h = HeldLock /\ ran = FALSE
    BY <1>4, <1>9, <1>12 DEF ConfigureKind, h
  <2>2. Session!Serve(FALSE, Session!StatusOf(e), e, HeldLock)
    BY <1>6, <1>7, <1>12, <2>1 DEF ConfigureKind
  <2>3. Session!ServeConfigure
    BY <1>3, <1>5, <1>12, <2>1, <2>2
    DEF Session!ServeConfigure, ConfigureKind, Todo, Err, HeldLock, Up
  <2> QED  BY <2>3 DEF Session!Next
<1>13. CASE WorkKind(ran, status, c2)
  <2>1. (Err => e) /\ h = HeldLock /\ ran = ~Err
    <3>1. ran = ~Err
      BY <1>4, <1>13 DEF WorkKind, MayCall
    <3> QED  BY <1>4, <1>8, <1>9, <1>13, <3>1 DEF WorkKind, AfterCallback
  <2>2. status \in {Session!StatusOf(e)} \cup
                  (IF Head(Todo).cmd \in {"shift", "settck"} THEN {"none"} ELSE {})
    BY <1>3, <1>7, <1>13 DEF WorkKind
  <2>3. Session!Serve(~Err, status, e, HeldLock)
    BY <1>6, <2>1
  <2>4. Session!ServeWork
    BY <1>3, <1>5, <1>13, <2>1, <2>2, <2>3
    DEF Session!ServeWork, WorkKind, Todo, Err, HeldLock, Up
  <2> QED  BY <2>4 DEF Session!Next
<1>14. CASE LockKind(ran, status, c2)
  <2>1. /\ Err => e
        /\ ran => ~Err /\ ~HeldLock
        /\ ~ran => e
        /\ h = (HeldLock \/ ~e)
    <3>1. CASE c2 = Fail
      BY <1>4, <1>8, <1>14, <3>1 DEF LockKind, MayLock
    <3>2. CASE MayLock /\ c2 = [c EXCEPT !.locked = TRUE]
      <4>1. ~c.pending_error /\ ~c.locked /\ ran
        BY <1>14, <3>2 DEF LockKind, MayLock
      <4>2. e = c.pending_error /\ h = TRUE
        BY <3>2 DEF e, h, TypeInv, TypeOK, ClientState
      <4> QED  BY <1>4, <4>1, <4>2
    <3> QED  BY <1>14, <3>1, <3>2 DEF LockKind
  <2>2. Silent(reply_buf)
    <3>1. reply_len = 0
      BY <1>14 DEF LockKind, HoldsReplies, TypeInv, TypeOK
    <3> QED  BY <3>1 DEF BatchInv
  <2>3. \A i \in DOMAIN Outbox : Outbox[i].cmd = "shift" /\ Outbox[i].status = "none"
    BY <1>2, <2>2 DEF Outbox, Silent
  <2>4. Session!Serve(ran, Session!StatusOf(e), e, HeldLock \/ ~e)
    BY <1>6, <1>7, <1>14, <2>1 DEF LockKind
  <2>5. Session!ServeLock
    BY <1>3, <1>5, <1>14, <2>1, <2>3, <2>4
    DEF Session!ServeLock, LockKind, Todo, Outbox, Err, HeldLock, Up
  <2> QED  BY <2>5 DEF Session!Next
<1>15. CASE UnlockKind(ran, status, c2)
  <2>1. /\ Err => e
        /\ ran => ~Err /\ HeldLock
        /\ ~ran => e
        /\ h = (HeldLock /\ e)
    <3>1. CASE c2 = Fail
      BY <1>4, <1>8, <1>15, <3>1 DEF UnlockKind, MayUnlock
    <3>2. CASE MayUnlock /\ c2 = [c EXCEPT !.locked = FALSE]
      <4>1. ~c.pending_error /\ c.locked /\ ran
        BY <1>15, <3>2 DEF UnlockKind, MayUnlock
      <4>2. e = c.pending_error /\ h = FALSE
        BY <3>2 DEF e, h, TypeInv, TypeOK, ClientState
      <4> QED  BY <1>4, <4>1, <4>2
    <3> QED  BY <1>15, <3>1, <3>2 DEF UnlockKind
  <2>2. Session!Serve(ran, Session!StatusOf(e), e, HeldLock /\ e)
    BY <1>6, <1>7, <1>15, <2>1 DEF UnlockKind
  <2>3. Session!ServeUnlock
    BY <1>3, <1>5, <1>15, <2>1, <2>2
    DEF Session!ServeUnlock, UnlockKind, Todo, Err, HeldLock, Up
  <2> QED  BY <2>3 DEF Session!Next
<1> QED  BY <1>2, <1>10, <1>11, <1>12, <1>13, <1>14, <1>15 DEF Kind

\* A step that ends the service is a Disconnect.
LEMMA EndIsDisconnect ==
    ASSUME Up, ~Up', sent' = sent
    PROVE  Session!Next
<1>1. Todo' = <<>> /\ Outbox' = <<>>
  BY DEF Todo, Outbox
<1>2. Err' = FALSE /\ HeldLock' = FALSE /\ Up' = FALSE
  BY DEF Err, HeldLock, Up
<1>3. Session!Disconnect
  BY <1>1, <1>2 DEF Session!Disconnect, Up, Todo, Outbox, Err, HeldLock
<1> QED  BY <1>3 DEF Session!Next

\* send_packet delivers the batch.
LEMMA SendIsDeliver ==
    ASSUME TypeInv, BatchInv, Send
    PROVE  Session!Next
<1>1. Up /\ Up' /\ c' = c
  BY DEF Send, ReadMore, Serving, Up
<1>2. reply_buf # <<>>
  BY <1>1 DEF Send, BatchInv, Up
<1>3. stream' = SubSeq(stream, parsed + 1, Len(stream)) /\ parsed' = 0
      /\ sent' = sent \o reply_buf /\ reply_buf' = <<>>
  BY DEF Send, ReadMore
<1>4. Todo' = Todo
  <2>1. parsed + 1 \in Int /\ Len(stream) \in Int /\ parsed \in Nat
    BY LenProperties DEF TypeInv, TypeOK
  <2>2. \A i \in (parsed + 1)..Len(stream) : stream[i] \in Requests
    BY <2>1 DEF TypeInv, TypeOK
  <2>3. stream' \in Seq(Requests)
    BY <1>3, <2>1, <2>2, SubSeqProperties
  <2>4. SubSeq(stream', 1, Len(stream')) = stream'
    BY <2>3, SubSeqFull
  <2>5. Todo' = SubSeq(stream', parsed' + 1, Len(stream'))
    BY <1>1 DEF Todo
  <2>6. parsed' + 1 = 1
    BY <1>3
  <2>7. Todo = stream'
    BY <1>1, <1>3 DEF Todo
  <2> QED  BY <2>4, <2>5, <2>6, <2>7
<1>5. Err' = Err /\ HeldLock' = HeldLock /\ Up' = Up
  BY <1>1 DEF Err, HeldLock, Up
<1>6. Outbox = reply_buf /\ Outbox' = <<>>
  BY <1>1, <1>3 DEF Outbox
<1>7. Session!Deliver
  BY <1>1, <1>2, <1>3, <1>4, <1>5, <1>6
  DEF Session!Deliver, Up, Todo, Outbox, Err, HeldLock
<1> QED  BY <1>7 DEF Session!Next

\* What a client writes is issued behind what is not served yet.
LEMMA WriteIsIssue ==
    ASSUME TypeInv, ClientWrite
    PROVE  Session!Next
<1>1. PICK r \in Requests : stream' = Append(stream, r)
  BY DEF ClientWrite
<1>2. /\ Up /\ Up' /\ c' = c /\ reply_buf' = reply_buf /\ sent' = sent
      /\ parsed' = parsed
  BY DEF ClientWrite, Up
<1>3. Todo' = Append(Todo, r)
  <2> DEFINE n == Len(stream)
             old == SubSeq(stream, parsed + 1, n)
             new == SubSeq(stream', parsed + 1, n + 1)
  <2>1. /\ stream \in Seq(Requests) /\ n \in Nat /\ parsed \in Nat /\ parsed <= n
        /\ \A i \in 1..n : stream[i] \in Requests
    BY LenProperties DEF TypeInv, TypeOK
  <2>2. /\ stream' \in Seq(Requests) /\ Len(stream') = n + 1
        /\ \A i \in 1..n : stream'[i] = stream[i]
        /\ stream'[n + 1] = r
    BY <1>1, <2>1, AppendProperties
  <2> HIDE DEF n
  <2>3. \A i \in 1..(n + 1) : stream'[i] \in Requests
    BY <2>1, <2>2
  <2>4. old \in Seq(Requests) /\ Len(old) = n - parsed
        /\ \A i \in 1..(n - parsed) : old[i] = stream[parsed + i]
    <3>1. \A i \in (parsed + 1)..n : stream[i] \in Requests
      BY <2>1
    <3>2. /\ old \in Seq(Requests)
          /\ Len(old) = IF parsed + 1 <= n THEN n - (parsed + 1) + 1 ELSE 0
          /\ \A i \in 1..(n - (parsed + 1) + 1) : old[i] = stream[(parsed + 1) + i - 1]
      BY <2>1, <3>1, SubSeqProperties
    <3> QED  BY <2>1, <3>2
  <2>5. new \in Seq(Requests) /\ Len(new) = n + 1 - parsed
        /\ \A i \in 1..(n + 1 - parsed) : new[i] = stream'[parsed + i]
    <3>1. \A i \in (parsed + 1)..(n + 1) : stream'[i] \in Requests
      BY <2>1, <2>3
    <3>2. /\ new \in Seq(Requests)
          /\ Len(new) = IF parsed + 1 <= n + 1 THEN n + 1 - (parsed + 1) + 1 ELSE 0
          /\ \A i \in 1..(n + 1 - (parsed + 1) + 1) :
                new[i] = stream'[(parsed + 1) + i - 1]
      BY <2>1, <3>1, SubSeqProperties
    <3> QED  BY <2>1, <3>2
  <2> HIDE DEF old, new
  <2>6. /\ Append(old, r) \in Seq(Requests) /\ Len(Append(old, r)) = n + 1 - parsed
        /\ \A i \in 1..(n - parsed) : Append(old, r)[i] = old[i]
        /\ Append(old, r)[n - parsed + 1] = r
    BY <2>1, <2>4, AppendProperties
  <2>7. \A i \in 1..(n + 1 - parsed) : new[i] = Append(old, r)[i]
    <3> SUFFICES ASSUME NEW i \in 1..(n + 1 - parsed)
                 PROVE  new[i] = Append(old, r)[i]
      OBVIOUS
    <3>1. CASE i = n - parsed + 1
      <4>1. parsed + i = n + 1
        BY <2>1, <3>1
      <4> QED  BY <2>2, <2>5, <2>6, <3>1, <4>1
    <3>2. CASE i # n - parsed + 1
      <4>1. i \in 1..(n - parsed) /\ parsed + i \in 1..n
        BY <2>1, <3>2
      <4> QED  BY <2>2, <2>4, <2>5, <2>6, <4>1
    <3> QED  BY <3>1, <3>2
  <2>8. new = Append(old, r)
    BY <2>5, <2>6, <2>7, SeqEqual
  <2> QED  BY <1>2, <2>2, <2>8 DEF Todo, n, old, new
<1>4. Err' = Err /\ HeldLock' = HeldLock /\ Up' = Up /\ Outbox' = Outbox
  BY <1>2 DEF Err, HeldLock, Up, Outbox
<1>5. Session!Issue
  BY <1>2, <1>3, <1>4 DEF Session!Issue, Up, Todo, Outbox, Err, HeldLock
<1> QED  BY <1>5 DEF Session!Next

\* The server starts as a session does.
LEMMA SessionInit == ASSUME Init PROVE Session!Init
BY DEF Init, Session!Init, Serving

\* Every step is one of the session or a stutter.
LEMMA SessionStep ==
    ASSUME TypeInv, BatchInv, [Next]_vars
    PROVE  [Session!Next]_(Session!vars)
<1>1. CASE AnswerStep
  BY <1>1, AnswerIsServe
<1>2. CASE Accept
  <2>1. ~Up /\ Up' /\ parsed' = 0 /\ stream' = <<>> /\ reply_buf' = <<>>
        /\ sent' = <<>> /\ c' = FreshClient
    BY <1>2 DEF Accept, Attempt, ClearClient, Up, Serving
  <2>2. Todo' = <<>> /\ Outbox' = <<>>
    BY <2>1, SubSeqEmpty, Empty DEF Todo, Outbox
  <2>3. Err' = FALSE /\ HeldLock' = FALSE /\ Up' = TRUE
    BY <2>1 DEF Err, HeldLock, Up, FreshClient
  <2>4. Session!Connect
    BY <2>1, <2>2, <2>3 DEF Session!Connect, Up, Todo, Outbox, Err, HeldLock
  <2> QED  BY <2>4 DEF Session!Next
<1>3. CASE AcceptNoPeer \/ AcceptRefused \/ AcceptFails
  <2>1. ~Up /\ ~Up' /\ sent' = sent
    BY <1>3 DEF AcceptNoPeer, AcceptRefused, AcceptFails, Attempt, Up, Serving, conn
  <2>2. Todo' = Todo /\ Outbox' = Outbox /\ Err' = Err /\ HeldLock' = HeldLock
        /\ Up' = Up
    BY <2>1 DEF Todo, Outbox, Err, HeldLock, Up
  <2> QED  BY <2>1, <2>2, SessionStutters
<1>4. CASE LockBreak \/ NeedMore \/ ProtocolError
  BY <1>4, ServingStutters
  DEF LockBreak, NeedMore, ProtocolError, Ready, Partial, Up, Serving, conn
<1>5. CASE AssertFails
  BY <1>5, EndIsDisconnect DEF AssertFails, Partial, Up, Serving, conn
<1>6. CASE NoProgress \/ FlushFails \/ SendFails \/ RecvEnd \/ RecvFails
  BY <1>6, ServingStutters
  DEF NoProgress, FlushFails, SendFails, RecvEnd, RecvFails, Up, Serving, conn
<1>7. CASE Flush
  <2>1. /\ Up /\ Up' /\ stream' = stream /\ parsed' = parsed
        /\ reply_buf' = reply_buf /\ sent' = sent
        /\ c' = c \/ (c' = Fail /\ cbuf # 0)
    BY <1>7 DEF Flush, AfterCallback, Up, Serving, TypeInv, TypeOK
  <2>2. CASE c' = c
    BY <2>1, <2>2, ServingStutters
  <2>3. CASE c' = Fail /\ cbuf # 0
    <3>1. c'.pending_error = TRUE /\ c'.locked = c.locked
      BY <2>3 DEF Fail, TypeInv, TypeOK, ClientState
    <3>2. Err' = TRUE /\ HeldLock' = HeldLock /\ Up' = Up
      BY <2>1, <3>1 DEF Err, HeldLock, Up
    <3>3. Todo' = Todo /\ Outbox' = Outbox /\ Outbox # <<>>
      BY <2>1, <2>3 DEF Todo, Outbox, BatchInv, Up
    <3>4. Session!LateError
      BY <2>1, <3>2, <3>3 DEF Session!LateError, Up, Todo, Outbox, Err, HeldLock
    <3> QED  BY <3>4 DEF Session!Next
  <2> QED  BY <2>1, <2>2, <2>3
<1>8. CASE Send
  BY <1>8, SendIsDeliver
<1>9. CASE SendKilled
  BY <1>9, EndIsDisconnect DEF SendKilled, PipeBreaks, Up, Serving, conn
<1>10. CASE CloseConnection
  BY <1>10, EndIsDisconnect DEF CloseConnection, Up, Serving, conn
<1>11. CASE Recv
  <2>1. parsed = 0 /\ reply_buf = <<>>
    BY <1>11 DEF Recv, TypeInv, BatchInv
  <2> QED  BY <1>11, <2>1, ServingStutters DEF Recv, ReadMore, Up, Serving
<1>12. CASE ClientWrite
  BY <1>12, WriteIsIssue
<1>13. CASE ClientClose
  BY <1>13, ServingStutters DEF ClientClose, Up, conn
<1>14. CASE Stopped \/ UNCHANGED vars
  <2>1. Todo' = Todo /\ Outbox' = Outbox /\ Err' = Err /\ HeldLock' = HeldLock
        /\ Up' = Up /\ sent' = sent
    BY <1>14 DEF Stopped, vars, conn, Todo, Outbox, Err, HeldLock, Up
  <2> QED  BY <2>1, SessionStutters
<1> QED
  BY <1>1, <1>2, <1>3, <1>4, <1>5, <1>6, <1>7, <1>8, <1>9, <1>10, <1>11, <1>12,
     <1>13, <1>14, AnswersAreAnswerSteps
  DEF Next, Listen, Parse, Answering, Transfer, Client, TypeInv

\* The engine keeps the promise of XvcSession to its client, however TCP cuts
\* the requests, wherever a batch ends, and whatever the callbacks report.
THEOREM EngineIsASession == Spec => ImplementsSession
<1>1. Init => TypeInv /\ BatchInv /\ DeferInv /\ Session!Init
  BY TypeInvInit, BatchInvInit, SessionInit
<1>2. TypeInv /\ BatchInv /\ DeferInv /\ [Next]_vars
         => (TypeInv /\ BatchInv /\ DeferInv)' /\ [Session!Next]_(Session!vars)
  BY TypeInvStep, BatchInvStep, SessionStep
<1> QED  BY <1>1, <1>2, PTL DEF Spec, ImplementsSession, Session!Spec

=============================================================================
