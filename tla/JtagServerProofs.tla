-------------------------- MODULE JtagServerProofs --------------------------
(***************************************************************************)
(* Theorems about the select loop, for every set of descriptors, every     *)
(* place of the listening socket among them, and any number of clients and *)
(* requests: which descriptors are watched, that nobody shifts between the *)
(* shifts of another client, and for what a client is hung up on.          *)
(***************************************************************************)
EXTENDS JtagServer, WellFoundedInduction, TLAPS

\* The scan of what select found: the listening socket is there for a client
\* that waits, and the descriptors of except have urgent data.
ScanInv ==
    /\ Listener \in ready => waiting > 0
    /\ except \subseteq urgent

\* Pieces handle_data has read of the oldest request of f without an answer.
Taken(f) == IF fd # f \/ pc = "name" THEN 0 ELSE IF pc = "rest" THEN 1 ELSE 2

\* Pieces s are what is left of requests o, two each, but for the first t pieces
\* and, if h is 1, the last one.
Account(s, o, t, h) ==
    /\ Len(s) + t + h = Len(o) + Len(o)
    /\ \A k \in 1..Len(o) :
          /\ k + k - 1 - t \in 1..Len(s) => s[k + k - 1 - t] = Name[o[k]]
          /\ k + k - t \in 1..Len(s) => s[k + k - t] = o[k]

\* What a client has written and the server has not read is what is left of the
\* requests without an answer.
Half(f) == IF f \in half THEN 1 ELSE 0
Written(f) == Account(stream[f], owed[f], Taken(f), Half(f))

\* Where handle_data is tells which request it is at.
AtHand ==
    /\ pc = "rest" => owed[fd][1] \in {"getinfo", "shift", "big"}
    /\ pc \in {"shift", "tdo"} => owed[fd][1] = "shift"
    /\ pc = "answer" => owed[fd][1] = "getinfo"

\* An unfinished sequence of shifts is that of the client being handled.
JtagInv == jtag \in {fd, Nobody}

Inv ==
    /\ TypeOK /\ maxfd \in Nat
    /\ ScanInv
    /\ \A f \in ClientFds : Written(f)
    /\ AtHand
    /\ JtagInv

-----------------------------------------------------------------------------
\* The scan picks the least of the descriptors left (xvcServer.c:403), accept the
\* least that is free: there is one, as in every set of naturals but the empty
\* one.
LEMMA MinIsLeast ==
    ASSUME NEW S \in SUBSET Nat, S # {}
    PROVE  Min(S) \in S /\ \A y \in S : Min(S) <= y
<1>1. PICK x \in S : \A y \in S : <<y, x>> \notin OpToRel(<, Nat)
  BY NatLessThanWellFounded, WFMin
<1>2. \A y \in S : ~ (y < x)
  BY <1>1, Zenon DEF OpToRel
<1>3. \A y \in S : x <= y
  BY <1>2
<1> QED  BY <1>3 DEF Min

\* The constants: descriptors are naturals, and Nobody is none of them.
LEMMA FdFacts ==
    /\ Fds \subseteq Nat /\ ClientFds \subseteq Nat /\ Listener \in Nat
    /\ Listener \notin ClientFds /\ Nobody \notin Fds
    /\ \A f \in ClientFds : f # Nobody
  BY JtagAssumption DEF ClientFds, Nobody

\* The two names of a request handle_data knows are told from the others by
\* their first two bytes (xvcServer.c:286-290).
LEMMA Names ==
    /\ Name \in [Kinds -> Pieces]
    /\ \A k \in Kinds : /\ Name[k] \in {"sh", "ge"} <=> k \in {"getinfo", "shift", "big"}
                        /\ Name[k] \notin {"sh", "ge"} <=> k = "bad"
  BY DEF Name, Kinds, Pieces

\* The oldest request without an answer is the first.
LEMMA HeadIsFirst ==
    ASSUME NEW o \in Seq(Kinds), o # <<>>
    PROVE  Head(o) = o[1] /\ o[1] \in Kinds
  OBVIOUS

\* What a client has in hand: the first piece not read is the one the place of
\* the server in the request calls for.
LEMMA NextPiece ==
    ASSUME Inv, fd \in ClientFds
    PROVE  /\ pc = "name" /\ stream[fd] # <<>> =>
                 owed[fd] # <<>> /\ Head(stream[fd]) = Name[owed[fd][1]]
           /\ pc = "rest" => owed[fd] # <<>>
           /\ pc = "rest" /\ stream[fd] # <<>> => Head(stream[fd]) = owed[fd][1]
           /\ pc \in {"shift", "tdo", "answer", "killed"} => owed[fd] # <<>>
<1> DEFINE s == stream[fd]
           o == owed[fd]
           t == Taken(fd)
           h == Half(fd)
<1>1. s \in Seq(Pieces) /\ o \in Seq(Kinds) /\ Account(s, o, t, h)
  BY DEF Inv, TypeOK, Written
<1>2. t \in 0..2 /\ h \in 0..1
  BY DEF Taken, Half
<1>3. s # <<>> => Head(s) = s[1] /\ Len(s) > 0
  BY <1>1
<1>4. Len(s) > 0 \/ t > 0 => Len(o) > 0
  <2>1. Len(s) \in Nat /\ Len(o) \in Nat
    BY <1>1
  <2> HIDE DEF s, o, t, h
  <2> QED  BY <1>1, <1>2, <2>1 DEF Account
<1>5. Len(o) > 0 => o # <<>>
  BY <1>1
<1>6. ASSUME s # <<>>
      PROVE  /\ t = 0 => Head(s) = Name[o[1]]
             /\ t = 1 => Head(s) = o[1]
  <2>1. Len(s) \in Nat /\ Len(o) \in Nat /\ Len(s) > 0 /\ Len(o) > 0
    BY <1>1, <1>3, <1>4, <1>6
  <2>2. 1 \in 1..Len(o) /\ 1 \in 1..Len(s) /\ 1 + 1 - 1 - 0 = 1 /\ 1 + 1 - 1 = 1
    BY <2>1
  <2> HIDE DEF s, o, t, h
  <2>3. t = 0 => s[1] = Name[o[1]]
    BY <1>1, <2>2 DEF Account
  <2>4. t = 1 => s[1] = o[1]
    BY <1>1, <2>2 DEF Account
  <2> QED  BY <1>3, <1>6, <2>3, <2>4
<1>8. /\ pc = "name" => t = 0
      /\ pc = "rest" => t = 1
      /\ pc \in {"shift", "tdo", "answer", "killed"} => t = 2
  BY DEF Taken
<1> QED  BY <1>3, <1>4, <1>5, <1>6, <1>8

\* Who has written nothing is owed nothing.
LEMMA AccountNothing == Account(<<>>, <<>>, 0, 0)
<1>1. Len(<<>>) = 0 /\ 1..0 = {}
  OBVIOUS
<1> QED  BY <1>1 DEF Account

-----------------------------------------------------------------------------
\* At first only the listening socket is open.
LEMMA InvInit == Init => Inv
<1> SUFFICES ASSUME Init PROVE Inv
  OBVIOUS
<1>1. <<>> \in Seq(Pieces) /\ <<>> \in Seq(Kinds)
  OBVIOUS
<1>2. TypeOK /\ maxfd \in Nat
  BY <1>1, JtagAssumption, FdFacts DEF Init, TypeOK
<1>3. ScanInv /\ AtHand /\ JtagInv
  BY DEF Init, ScanInv, AtHand, JtagInv
<1>4. ASSUME NEW f \in ClientFds
      PROVE  Written(f)
  <2>1. stream[f] = <<>> /\ owed[f] = <<>> /\ Taken(f) = 0 /\ Half(f) = 0
    BY FdFacts DEF Init, Taken, Half
  <2> QED  BY <2>1, AccountNothing DEF Written
<1> QED  BY <1>2, <1>3, <1>4 DEF Inv

\* A client whose bytes, requests and place in handle_data stay keeps its account.
LEMMA WrittenKept ==
    ASSUME NEW f \in ClientFds, Written(f),
           stream'[f] = stream[f], owed'[f] = owed[f], Taken(f)' = Taken(f),
           f \in half' <=> f \in half
    PROVE  Written(f)'
  BY DEF Written, Half

\* One that has written nothing and is owed nothing has an account, too.
LEMMA WrittenNothing ==
    ASSUME NEW f \in ClientFds,
           stream'[f] = <<>>, owed'[f] = <<>>, f \notin half', Taken(f)' = 0
    PROVE  Written(f)'
<1>1. Half(f)' = 0
  BY DEF Half
<1> QED  BY <1>1, AccountNothing DEF Written

\* The account after a piece is read,
LEMMA AccountRead ==
    ASSUME NEW s \in Seq(Pieces), NEW o \in Seq(Kinds), NEW t \in 0..1, NEW h \in 0..1,
           Account(s, o, t, h), s # <<>>
    PROVE  Account(Tail(s), o, t + 1, h)
<1> DEFINE r == Tail(s)
<1>1. /\ Len(s) \in Nat /\ Len(o) \in Nat /\ Len(r) = Len(s) - 1
      /\ \A i \in 1..Len(r) : r[i] = s[i + 1]
  OBVIOUS
<1> HIDE DEF r
<1>2. ASSUME NEW k \in 1..Len(o), k + k - 1 - (t + 1) \in 1..Len(r)
      PROVE  r[k + k - 1 - (t + 1)] = Name[o[k]]
  <2>1. k + k - 1 - t \in 1..Len(s) /\ (k + k - 1 - (t + 1)) + 1 = k + k - 1 - t
    BY <1>1, <1>2
  <2> QED  BY <1>1, <1>2, <2>1 DEF Account
<1>3. ASSUME NEW k \in 1..Len(o), k + k - (t + 1) \in 1..Len(r)
      PROVE  r[k + k - (t + 1)] = o[k]
  <2>1. k + k - t \in 1..Len(s) /\ (k + k - (t + 1)) + 1 = k + k - t
    BY <1>1, <1>3
  <2> QED  BY <1>1, <1>3, <2>1 DEF Account
<1>4. Len(r) + (t + 1) + h = Len(o) + Len(o)
  BY <1>1 DEF Account
<1> QED  BY <1>2, <1>3, <1>4 DEF Account, r

\* after a request is answered,
LEMMA AccountAnswered ==
    ASSUME NEW s \in Seq(Pieces), NEW o \in Seq(Kinds), NEW h \in 0..1,
           Account(s, o, 2, h)
    PROVE  Account(s, Tail(o), 0, h)
<1> DEFINE q == Tail(o)
<1>1. Len(s) \in Nat /\ Len(o) \in Nat /\ Len(s) + 2 + h = Len(o) + Len(o)
  BY DEF Account
<1>2. o # <<>>
  BY <1>1
<1>3. Len(q) = Len(o) - 1 /\ \A i \in 1..Len(q) : q[i] = o[i + 1]
  BY <1>2
<1> HIDE DEF q
<1>4. ASSUME NEW k \in 1..Len(q)
      PROVE  /\ k + k - 1 - 0 \in 1..Len(s) => s[k + k - 1 - 0] = Name[q[k]]
             /\ k + k - 0 \in 1..Len(s) => s[k + k - 0] = q[k]
  <2>1. /\ k + 1 \in 1..Len(o) /\ q[k] = o[k + 1]
        /\ (k + 1) + (k + 1) - 1 - 2 = k + k - 1 - 0 /\ (k + 1) + (k + 1) - 2 = k + k - 0
    BY <1>1, <1>3
  <2> QED  BY <2>1 DEF Account
<1>5. Len(s) + 0 + h = Len(q) + Len(q)
  BY <1>1, <1>3
<1> QED  BY <1>4, <1>5 DEF Account, q

\* after one is begun,
LEMMA AccountBegun ==
    ASSUME NEW s \in Seq(Pieces), NEW o \in Seq(Kinds), NEW t \in 0..2, NEW kind \in Kinds,
           Account(s, o, t, 0)
    PROVE  Account(Append(s, Name[kind]), Append(o, kind), t, 1)
<1> DEFINE r == Append(s, Name[kind])
           q == Append(o, kind)
<1>1. Name[kind] \in Pieces
  BY Names
<1>2. /\ Len(s) \in Nat /\ Len(r) = Len(s) + 1 /\ r[Len(s) + 1] = Name[kind]
      /\ \A i \in 1..Len(s) : r[i] = s[i]
  BY <1>1
<1>3. /\ Len(o) \in Nat /\ Len(q) = Len(o) + 1 /\ q[Len(o) + 1] = kind
      /\ \A i \in 1..Len(o) : q[i] = o[i]
  OBVIOUS
<1>4. Len(s) + t = Len(o) + Len(o) /\ Len(s) \in Int /\ Len(o) \in Int /\ t \in Int
  BY <1>2, <1>3 DEF Account
<1> HIDE DEF r, q
<1>5. Len(r) + t + 1 = Len(q) + Len(q)
  <2>1. Len(r) = Len(s) + 1 /\ Len(q) = Len(o) + 1
    BY <1>2, <1>3
  <2> QED  BY <1>4, <2>1
<1>6. ASSUME NEW k \in 1..Len(o)
      PROVE  /\ k + k - 1 - t \in 1..Len(r) => r[k + k - 1 - t] = Name[q[k]]
             /\ k + k - t \in 1..Len(r) => r[k + k - t] = q[k]
  <2>1. k + k - 1 - t <= Len(s) /\ k + k - t <= Len(s)
    BY <1>2, <1>3, <1>4
  <2>2. /\ k + k - 1 - t \in 1..Len(r) => k + k - 1 - t \in 1..Len(s)
        /\ k + k - t \in 1..Len(r) => k + k - t \in 1..Len(s)
    BY <1>2, <2>1
  <2> QED  BY <1>2, <1>3, <2>2 DEF Account
<1>7. ASSUME NEW k \in 1..Len(q), k = Len(o) + 1
      PROVE  /\ k + k - 1 - t \in 1..Len(r) => r[k + k - 1 - t] = Name[q[k]]
             /\ k + k - t \in 1..Len(r) => r[k + k - t] = q[k]
  <2>1. k + k = Len(s) + t + 2 /\ k \in Int /\ t \in Int
    BY <1>4, <1>7
  <2>2. k + k - 1 - t = Len(s) + 1 /\ k + k - t = Len(s) + 2
    BY <1>2, <2>1
  <2>3. Len(s) + 2 \notin 1..Len(r)
    BY <1>2
  <2> QED  BY <1>2, <1>3, <1>7, <2>2, <2>3
<1>8. \A k \in 1..Len(q) : k \in 1..Len(o) \/ k = Len(o) + 1
  BY <1>3
<1> QED  BY <1>5, <1>6, <1>7, <1>8 DEF Account, r, q

\* and after it is finished.
LEMMA AccountFinished ==
    ASSUME NEW s \in Seq(Pieces), NEW o \in Seq(Kinds), NEW t \in 0..2,
           Account(s, o, t, 1)
    PROVE  Len(o) > 0 /\ Account(Append(s, o[Len(o)]), o, t, 0)
<1>1. Len(s) \in Nat /\ Len(o) \in Nat /\ Len(s) + t + 1 = Len(o) + Len(o)
  BY DEF Account
<1>2. Len(o) > 0 /\ o[Len(o)] \in Pieces
  BY <1>1 DEF Pieces
<1> DEFINE r == Append(s, o[Len(o)])
<1>3. /\ Len(r) = Len(s) + 1 /\ r[Len(s) + 1] = o[Len(o)]
      /\ \A i \in 1..Len(s) : r[i] = s[i]
  BY <1>2
<1> HIDE DEF r
<1>4. Len(r) + t + 0 = Len(o) + Len(o)
  BY <1>1, <1>3
<1>5. ASSUME NEW k \in 1..Len(o), k + k - 1 - t \in 1..Len(r)
      PROVE  r[k + k - 1 - t] = Name[o[k]]
  <2>1. k + k - 1 - t \in 1..Len(s)
    BY <1>1, <1>3, <1>5
  <2> QED  BY <1>3, <2>1 DEF Account
<1>6. ASSUME NEW k \in 1..Len(o), k + k - t \in 1..Len(r)
      PROVE  r[k + k - t] = o[k]
  <2>1. k \in Int /\ t \in Int /\ k <= Len(o)
    BY <1>1
  <2>2. k + k - t <= Len(s) + 1 /\ (k + k - t = Len(s) + 1 => k = Len(o))
    BY <1>1, <2>1
  <2>3. k + k - t \in 1..Len(s) \/ (k + k - t = Len(s) + 1 /\ k = Len(o))
    <3>1. k + k - t \in Int /\ k + k - t >= 1
      BY <1>6, <2>1
    <3> QED  BY <1>1, <2>2, <3>1
  <2> QED  BY <1>3, <2>3 DEF Account
<1> QED  BY <1>2, <1>4, <1>5, <1>6 DEF Account, r

-----------------------------------------------------------------------------
(* The loop of main keeps the invariant. *)

\* select finds open descriptors, the listening socket for a client that waits.
LEMMA SelectStep == Inv /\ Select => Inv'
<1> SUFFICES ASSUME Inv, Select PROVE Inv'
  OBVIOUS
<1> USE DEF Inv, Select, Watched, loop, clients
<1>1. TypeOK' /\ maxfd' \in Nat
  BY FdFacts DEF TypeOK
<1>2. ScanInv'
  BY FdFacts DEF ScanInv, Readable
<1>3. \A f \in ClientFds : Written(f)'
  <2> TAKE f \in ClientFds
  <2>1. Taken(f)' = Taken(f)
    BY FdFacts DEF Taken, TypeOK
  <2> QED  BY <2>1, WrittenKept
<1>4. AtHand' /\ JtagInv'
  BY DEF AtHand, JtagInv
<1> QED  BY <1>1, <1>2, <1>3, <1>4

\* The end of a scan leaves everything as it is.
LEMMA ScanEndStep == Inv /\ ScanEnd => Inv'
<1> SUFFICES ASSUME Inv, ScanEnd PROVE Inv'
  OBVIOUS
<1> USE DEF Inv, ScanEnd, loop, clients
<1>1. TypeOK' /\ maxfd' \in Nat
  BY DEF TypeOK
<1>2. ScanInv'
  BY DEF ScanInv
<1>3. \A f \in ClientFds : Written(f)'
  <2> TAKE f \in ClientFds
  <2>1. Taken(f)' = Taken(f)
    BY FdFacts DEF Taken, TypeOK
  <2> QED  BY <2>1, WrittenKept
<1>4. AtHand' /\ JtagInv'
  BY DEF AtHand, JtagInv
<1> QED  BY <1>1, <1>2, <1>3, <1>4

\* So does the end of the loop.
LEMMA SelectFailsStep == Inv /\ SelectFails => Inv'
<1> SUFFICES ASSUME Inv, SelectFails PROVE Inv'
  OBVIOUS
<1> USE DEF Inv, SelectFails, loop, clients
<1>1. TypeOK' /\ maxfd' \in Nat
  BY DEF TypeOK
<1>2. ScanInv'
  BY DEF ScanInv
<1>3. \A f \in ClientFds : Written(f)'
  <2> TAKE f \in ClientFds
  <2>1. Taken(f)' = Taken(f)
    BY FdFacts DEF Taken, TypeOK
  <2> QED  BY <2>1, WrittenKept
<1>4. AtHand' /\ JtagInv'
  BY DEF AtHand, JtagInv
<1> QED  BY <1>1, <1>2, <1>3, <1>4

\* The listening socket is found readable, never with urgent data, so a client
\* waits.
LEMMA ListenerFound ==
    ASSUME Inv, Found(Listener)
    PROVE  /\ waiting > 0
           /\ fd = Nobody /\ jtag = Nobody
<1>1. ready \cup except \in SUBSET Nat /\ ready \cup except # {}
  BY FdFacts DEF Inv, TypeOK, Found
<1>2. Listener \in ready \cup except
  BY <1>1, MinIsLeast DEF Found
<1>3. Listener \notin except
  BY FdFacts DEF Inv, TypeOK, ScanInv
<1> QED  BY <1>2, <1>3 DEF Inv, ScanInv, Found, TypeOK, JtagInv

\* A client is accepted on a descriptor that was free, and watched from now on.
LEMMA AcceptStep == Inv /\ Accept => Inv'
<1> SUFFICES ASSUME Inv, Accept PROVE Inv'
  OBVIOUS
<1> DEFINE free == {f \in ClientFds : peer[f] = "none"}
           newfd == Min(free)
<1>1. free \in SUBSET Nat /\ free # {}
  BY FdFacts DEF Accept
<1>2. newfd \in ClientFds /\ newfd \in Nat /\ peer[newfd] = "none"
  BY <1>1, MinIsLeast, FdFacts
<1>3. /\ conn' = conn \cup {newfd} /\ maxfd' = Raised(newfd)
      /\ peer' = [peer EXCEPT ![newfd] = "up"]
      /\ waiting' = waiting - 1 /\ Passed(Listener)
      /\ UNCHANGED <<attempts, asked, stream, half, urgent, owed, replies, jtag>>
  BY DEF Accept
<1> HIDE DEF free, newfd
<1>4. waiting > 0 /\ fd = Nobody /\ jtag = Nobody
  BY ListenerFound DEF Accept
<1>5. conn' = {Listener} \cup {f \in ClientFds : peer'[f] # "none"}
  BY <1>2, <1>3 DEF Inv, TypeOK
<1>6. maxfd' \in Nat /\ \A f \in conn' : f <= maxfd'
  <2>1. maxfd' \in Nat /\ newfd <= maxfd' /\ maxfd <= maxfd' /\ maxfd \in Nat
    BY <1>2, <1>3 DEF Raised, Inv
  <2>2. conn \in SUBSET Nat /\ \A f \in conn : f <= maxfd
    BY FdFacts DEF Inv, TypeOK
  <2> QED  BY <1>2, <1>3, <2>1, <2>2
<1>7. TypeOK'
  <2>1. ready' \subseteq conn' /\ except' \subseteq conn'
    BY <1>2, <1>3 DEF Inv, TypeOK, Passed
  <2> QED  BY <1>2, <1>3, <1>4, <1>5, <1>6, <2>1 DEF Inv, TypeOK, Passed, Nobody
<1>8. ScanInv'
  BY <1>3 DEF Inv, ScanInv, Passed
<1>9. \A f \in ClientFds : Written(f)'
  <2> TAKE f \in ClientFds
  <2>1. Taken(f)' = Taken(f)
    BY <1>3, <1>4, FdFacts DEF Taken, Passed
  <2> QED  BY <1>3, <2>1, WrittenKept DEF Inv
<1>10. AtHand' /\ JtagInv'
  BY <1>3, <1>4 DEF AtHand, JtagInv, Passed
<1> QED  BY <1>6, <1>7, <1>8, <1>9, <1>10 DEF Inv

\* accept fails, and the scan goes on.
LEMMA AcceptFailsStep == Inv /\ AcceptFails => Inv'
<1> SUFFICES ASSUME Inv, AcceptFails PROVE Inv'
  OBVIOUS
<1>1. fd = Nobody /\ jtag = Nobody
  BY ListenerFound DEF AcceptFails
<1> USE <1>1 DEF Inv, AcceptFails, Passed, clients
<1>2. TypeOK' /\ maxfd' \in Nat
  BY DEF TypeOK
<1>3. ScanInv'
  BY DEF ScanInv
<1>4. \A f \in ClientFds : Written(f)'
  <2> TAKE f \in ClientFds
  <2>1. Taken(f)' = Taken(f)
    BY FdFacts DEF Taken
  <2> QED  BY <2>1, WrittenKept
<1>5. AtHand' /\ JtagInv'
  BY DEF AtHand, JtagInv
<1> QED  BY <1>2, <1>3, <1>4, <1>5

\* close and FD_CLR go together: whoever is hung up on is watched no more, and
\* an unfinished sequence of shifts was its own.
LEMMA CloseStep ==
    ASSUME Inv, NEW f \in ClientFds, CloseFd(f), fd \in {f, Nobody}
    PROVE  Inv'
<1> USE DEF Inv, CloseFd, Passed
<1>1. conn' = {Listener} \cup {g \in ClientFds : peer'[g] # "none"}
  BY FdFacts DEF TypeOK
<1>2. TypeOK' /\ maxfd' \in Nat
  <2>1. <<>> \in Seq(Pieces) /\ <<>> \in Seq(Kinds)
    OBVIOUS
  <2>2. /\ stream' \in [ClientFds -> Seq(Pieces)] /\ owed' \in [ClientFds -> Seq(Kinds)]
        /\ replies' \in [ClientFds -> Nat]
        /\ peer' \in [ClientFds -> {"none", "up", "fin", "broken"}]
    BY <2>1 DEF TypeOK
  <2>3. conn' \subseteq conn /\ f \notin conn'
    BY FdFacts
  <2>4. ready' \subseteq conn' /\ except' \subseteq conn'
    BY DEF TypeOK
  <2>5. \A g \in conn' : g <= maxfd'
    BY <2>3 DEF TypeOK
  <2>6. fd' = Nobody /\ pc' = "scan" /\ jtag' \in ClientFds \cup {Nobody}
    BY DEF TypeOK
  <2> QED  BY <1>1, <2>2, <2>4, <2>5, <2>6 DEF TypeOK
<1>3. ScanInv'
  BY DEF ScanInv
<1>4. \A g \in ClientFds : Written(g)'
  <2> TAKE g \in ClientFds
  <2>1. CASE g = f
    <3>1. stream'[g] = <<>> /\ owed'[g] = <<>> /\ g \notin half' /\ Taken(g)' = 0
      BY <2>1, FdFacts DEF TypeOK, Taken
    <3> QED  BY <3>1, WrittenNothing
  <2>2. CASE g # f
    <3>1. /\ stream'[g] = stream[g] /\ owed'[g] = owed[g] /\ (g \in half' <=> g \in half)
          /\ Taken(g)' = Taken(g)
      BY <2>2, FdFacts DEF TypeOK, Taken
    <3> QED  BY <3>1, WrittenKept
  <2> QED  BY <2>1, <2>2
<1>5. AtHand' /\ JtagInv'
  BY DEF AtHand, JtagInv
<1> QED  BY <1>2, <1>3, <1>4, <1>5

-----------------------------------------------------------------------------
(* So does handle_data, and so do the clients. *)

\* The client the scan has come to is handled next.
LEMMA HandleDataStep == Inv /\ HandleData => Inv'
<1> SUFFICES ASSUME Inv, HandleData PROVE Inv'
  OBVIOUS
<1> USE DEF Inv, HandleData, clients, Found
<1>1. TypeOK' /\ maxfd' \in Nat
  BY FdFacts DEF TypeOK
<1>2. ScanInv'
  BY DEF ScanInv
<1>3. \A f \in ClientFds : Written(f)'
  <2> TAKE f \in ClientFds
  <2>1. Taken(f)' = Taken(f)
    BY FdFacts DEF Taken, TypeOK
  <2> QED  BY <2>1, WrittenKept
<1>4. AtHand' /\ JtagInv'
  BY DEF AtHand, JtagInv, TypeOK
<1> QED  BY <1>1, <1>2, <1>3, <1>4

\* A piece read is one piece less to read of the same request.
LEMMA ReadKeeps ==
    ASSUME Inv, fd \in ClientFds, stream[fd] # <<>>, NEW to, Read(to),
           \/ pc = "name" /\ to = "rest"
           \/ pc = "rest" /\ to \in {"answer", "shift"}
    PROVE  /\ TypeOK' /\ maxfd' \in Nat /\ ScanInv' /\ JtagInv'
           /\ \A f \in ClientFds : Written(f)'
<1>1. stream[fd] \in Seq(Pieces) /\ owed[fd] \in Seq(Kinds) /\ Half(fd) \in 0..1
  BY DEF Inv, TypeOK, Half
<1>2. Tail(stream[fd]) \in Seq(Pieces)
  BY <1>1
<1>3. stream' \in [ClientFds -> Seq(Pieces)]
  BY <1>2 DEF Inv, TypeOK, Read
<1>4. TypeOK' /\ maxfd' \in Nat
  BY <1>3 DEF Inv, TypeOK, Read, Nobody
<1>5. ScanInv' /\ JtagInv'
  BY DEF Inv, ScanInv, JtagInv, Read
<1>6. ASSUME NEW f \in ClientFds, f # fd
      PROVE  Written(f)'
  <2>1. stream'[f] = stream[f] /\ Taken(f)' = Taken(f)
    BY <1>6 DEF Inv, TypeOK, Taken, Read
  <2> QED  BY <2>1, WrittenKept DEF Inv, Read
<1>7. Written(fd)'
  <2>1. stream'[fd] = Tail(stream[fd]) /\ owed'[fd] = owed[fd] /\ fd' = fd
    BY DEF Inv, TypeOK, Read
  <2>2. Taken(fd) \in 0..1 /\ Taken(fd)' = Taken(fd) + 1 /\ Half(fd)' = Half(fd)
    BY DEF Taken, Half, Read
  <2>3. Account(stream[fd], owed[fd], Taken(fd), Half(fd))
    BY DEF Inv, Written
  <2>4. Account(Tail(stream[fd]), owed[fd], Taken(fd) + 1, Half(fd))
    BY <1>1, <2>2, <2>3, AccountRead
  <2> QED  BY <2>1, <2>2, <2>4 DEF Written
<1> QED  BY <1>4, <1>5, <1>6, <1>7 DEF Read

\* The name tells what to read, the rest what to do.
LEMMA ReadStep == Inv /\ (ReadName \/ ReadRest \/ ReadShift) => Inv'
<1> SUFFICES ASSUME Inv, ReadName \/ ReadRest \/ ReadShift PROVE Inv'
  OBVIOUS
<1>1. fd \in ClientFds
  BY FdFacts DEF Inv, TypeOK, ReadName, ReadRest, ReadShift, Piece
<1>2. owed[fd] # <<>> => owed[fd][1] \in Kinds
  BY <1>1 DEF Inv, TypeOK
<1>3. CASE ReadName
  <2>1. pc = "name" /\ stream[fd] # <<>> /\ Head(stream[fd]) \in {"sh", "ge"} /\ Read("rest")
    BY <1>3 DEF ReadName, Piece
  <2>2. owed[fd][1] \in {"getinfo", "shift", "big"}
    BY <1>1, <1>2, <2>1, NextPiece, Names
  <2>3. AtHand'
    BY <2>1, <2>2 DEF AtHand, Read
  <2> QED  BY <1>1, <2>1, <2>3, ReadKeeps DEF Inv
<1>4. CASE ReadRest
  <2>1. pc = "rest" /\ stream[fd] # <<>> /\ Head(stream[fd]) = "getinfo" /\ Read("answer")
    BY <1>4 DEF ReadRest, Piece
  <2>2. owed[fd][1] = "getinfo"
    BY <1>1, <2>1, NextPiece
  <2>3. AtHand'
    BY <2>1, <2>2 DEF AtHand, Read
  <2> QED  BY <1>1, <2>1, <2>3, ReadKeeps DEF Inv
<1>5. CASE ReadShift
  <2>1. pc = "rest" /\ stream[fd] # <<>> /\ Head(stream[fd]) = "shift" /\ Read("shift")
    BY <1>5 DEF ReadShift, Piece
  <2>2. owed[fd][1] = "shift"
    BY <1>1, <2>1, NextPiece
  <2>3. AtHand'
    BY <2>1, <2>2 DEF AtHand, Read
  <2> QED  BY <1>1, <2>1, <2>3, ReadKeeps DEF Inv
<1> QED  BY <1>3, <1>4, <1>5

\* The shift is in the JTAG machine, and the client the only one at it.
LEMMA ShiftStep == Inv /\ Shift => Inv'
<1> SUFFICES ASSUME Inv, Shift PROVE Inv'
  OBVIOUS
<1> USE DEF Inv, Shift, clients
<1>1. TypeOK' /\ maxfd' \in Nat
  BY FdFacts DEF TypeOK
<1>2. ScanInv' /\ AtHand' /\ JtagInv'
  BY DEF ScanInv, AtHand, JtagInv
<1>3. \A f \in ClientFds : Written(f)'
  <2> TAKE f \in ClientFds
  <2>1. Taken(f)' = Taken(f)
    BY DEF Taken
  <2> QED  BY <2>1, WrittenKept
<1> QED  BY <1>1, <1>2, <1>3

\* A reply leaves for the oldest request, which is not owed any more, whether
\* handle_data goes on with the client or not.
LEMMA WriteKeeps ==
    ASSUME Inv, pc \in {"answer", "tdo"}, Write, jtag' \in {fd', Nobody},
           \/ Passed(fd)
           \/ pc' = "name" /\ UNCHANGED <<ready, except, fd>>
    PROVE  Inv'
<1>1. fd \in ClientFds
  BY FdFacts DEF Inv, TypeOK
<1>2. /\ stream[fd] \in Seq(Pieces) /\ owed[fd] \in Seq(Kinds) /\ owed[fd] # <<>>
      /\ Half(fd) \in 0..1
  BY <1>1, NextPiece DEF Inv, TypeOK, Half
<1>3. /\ owed' = [owed EXCEPT ![fd] = Tail(owed[fd])]
      /\ replies' = [replies EXCEPT ![fd] = replies[fd] + 1]
      /\ UNCHANGED <<conn, maxfd, attempts, asked, waiting, stream, half, urgent>>
  BY DEF Write
<1>4. Tail(owed[fd]) \in Seq(Kinds)
  BY <1>2
<1>5. /\ owed' \in [ClientFds -> Seq(Kinds)] /\ replies' \in [ClientFds -> Nat]
      /\ owed'[fd] = Tail(owed[fd]) /\ \A f \in ClientFds \ {fd} : owed'[f] = owed[f]
  BY <1>1, <1>3, <1>4 DEF Inv, TypeOK
<1>6. PICK p \in {"up", "fin", "broken"} : peer' = [peer EXCEPT ![fd] = p]
  BY DEF Write
<1>7. /\ peer' \in [ClientFds -> {"none", "up", "fin", "broken"}]
      /\ \A f \in ClientFds : peer'[f] # "none" <=> peer[f] # "none"
  BY <1>1, <1>6, FdFacts DEF Inv, TypeOK, Write
<1>8. /\ ready' \subseteq ready /\ except' \subseteq except
      /\ (fd' = Nobody /\ pc' = "scan") \/ (fd' = fd /\ pc' = "name")
  BY DEF Passed
<1>9. TypeOK' /\ maxfd' \in Nat
  <2>1. conn' = {Listener} \cup {f \in ClientFds : peer'[f] # "none"}
    BY <1>3, <1>7 DEF Inv, TypeOK
  <2>2. ready' \subseteq conn' /\ except' \subseteq conn'
    BY <1>3, <1>8 DEF Inv, TypeOK
  <2>3. fd # Nobody /\ fd \in conn \ {Listener}
    BY <1>1, FdFacts DEF Inv, TypeOK
  <2>4. /\ pc' \in {"select", "scan", "name", "rest", "shift", "tdo", "answer",
                  "killed", "returned"}
        /\ fd' = Nobody <=> pc' \in {"select", "scan", "returned"}
        /\ fd' # Nobody => fd' \in conn' \ {Listener}
    BY <1>3, <1>8, <2>3
  <2>5. jtag' \in ClientFds \cup {Nobody}
    BY <1>1, <1>8
  <2> QED  BY <1>3, <1>5, <1>7, <2>1, <2>2, <2>4, <2>5 DEF Inv, TypeOK
<1>10. ScanInv' /\ AtHand' /\ JtagInv'
  BY <1>3, <1>8 DEF Inv, ScanInv, AtHand, JtagInv
<1>11. \A f \in ClientFds : Taken(f)' = IF f = fd THEN 0 ELSE Taken(f)
  BY <1>1, <1>8, FdFacts DEF Taken
<1>12. ASSUME NEW f \in ClientFds, f # fd
       PROVE  Written(f)'
  BY <1>3, <1>5, <1>11, <1>12, WrittenKept DEF Inv
<1>13. ASSUME NEW f \in ClientFds, f = fd
       PROVE  Written(f)'
  <2>1. Taken(f) = 2 /\ Half(f)' = Half(f)
    BY <1>3, <1>13 DEF Taken, Half
  <2>2. Account(stream[f], owed[f], 2, Half(f))
    BY <2>1 DEF Inv, Written
  <2>3. Account(stream[f], Tail(owed[f]), 0, Half(f))
    BY <1>2, <1>13, <2>2, AccountAnswered
  <2>4. stream'[f] = stream[f] /\ owed'[f] = Tail(owed[f]) /\ Taken(f)' = 0
    BY <1>3, <1>5, <1>11, <1>13
  <2> QED  BY <2>1, <2>3, <2>4 DEF Written
<1> QED  BY <1>9, <1>10, <1>12, <1>13 DEF Inv

\* SIGPIPE: nothing but the place of the server changes.
LEMMA KilledStep == Inv /\ Killed => Inv'
<1> SUFFICES ASSUME Inv, Killed PROVE Inv'
  OBVIOUS
<1> USE DEF Inv, Killed, Refused, clients
<1>1. TypeOK' /\ maxfd' \in Nat
  BY FdFacts DEF TypeOK
<1>2. ScanInv' /\ AtHand' /\ JtagInv'
  BY DEF ScanInv, AtHand, JtagInv
<1>3. \A f \in ClientFds : Written(f)'
  <2> TAKE f \in ClientFds
  <2>1. Taken(f)' = Taken(f)
    BY DEF Taken
  <2> QED  BY <2>1, WrittenKept
<1> QED  BY <1>1, <1>2, <1>3

\* Clients that connect, close or send urgent data write no requests.
LEMMA QuietStep ==
    ASSUME Inv,
           Connect \/ \E f \in ClientFds : Close(f) \/ Urge(f)
    PROVE  Inv'
<1>1. /\ UNCHANGED <<loop, asked, stream, half, owed, replies, jtag>>
      /\ waiting' \in Nat /\ waiting' >= waiting /\ urgent \subseteq urgent'
      /\ attempts' \in 0..MaxConns /\ waiting' <= attempts' /\ urgent' \subseteq ClientFds
  <2>1. /\ waiting \in Nat /\ attempts \in 0..MaxConns /\ waiting <= attempts
        /\ urgent \subseteq ClientFds /\ MaxConns \in Nat
    BY JtagAssumption DEF Inv, TypeOK
  <2>2. CASE Connect
    BY <2>1, <2>2 DEF Connect
  <2>3. CASE \E f \in ClientFds : Close(f) \/ Urge(f)
    BY <2>1, <2>3 DEF Close, Urge
  <2> QED  BY <2>2, <2>3
<1>2. /\ peer' \in [ClientFds -> {"none", "up", "fin", "broken"}]
      /\ \A f \in ClientFds : peer'[f] # "none" <=> peer[f] # "none"
  BY DEF Inv, TypeOK, Connect, Close, Urge
<1>3. TypeOK' /\ maxfd' \in Nat
  BY <1>1, <1>2 DEF Inv, TypeOK, loop
<1>4. ScanInv' /\ AtHand' /\ JtagInv'
  BY <1>1 DEF Inv, TypeOK, ScanInv, AtHand, JtagInv, loop
<1>5. \A f \in ClientFds : Written(f)'
  <2> TAKE f \in ClientFds
  <2>1. Taken(f)' = Taken(f)
    BY <1>1 DEF Taken, loop
  <2> QED  BY <1>1, <2>1, WrittenKept DEF Inv
<1> QED  BY <1>3, <1>4, <1>5 DEF Inv

\* A client writes half a request,
LEMMA BeginStep ==
    ASSUME Inv, NEW f \in ClientFds, BeginRequest(f)
    PROVE  Inv'
<1>1. PICK k \in Requested :
          /\ owed' = [owed EXCEPT ![f] = Append(owed[f], k)]
          /\ stream' = [stream EXCEPT ![f] = Append(stream[f], Name[k])]
  BY DEF BeginRequest
<1>2. /\ f \notin half /\ half' = half \cup {f} /\ asked' \in 0..MaxRequests
      /\ UNCHANGED <<loop, attempts, waiting, peer, urgent, replies, jtag>>
  BY JtagAssumption DEF Inv, TypeOK, BeginRequest
<1>3. k \in Kinds /\ Name[k] \in Pieces
  BY JtagAssumption, Names
<1>4. stream[f] \in Seq(Pieces) /\ owed[f] \in Seq(Kinds) /\ Taken(f) \in 0..2
  BY DEF Inv, TypeOK, Taken
<1>5. Append(owed[f], k) \in Seq(Kinds) /\ Append(stream[f], Name[k]) \in Seq(Pieces)
  BY <1>3, <1>4
<1>6. /\ owed' \in [ClientFds -> Seq(Kinds)] /\ stream' \in [ClientFds -> Seq(Pieces)]
      /\ owed'[f] = Append(owed[f], k) /\ stream'[f] = Append(stream[f], Name[k])
      /\ \A g \in ClientFds \ {f} : owed'[g] = owed[g] /\ stream'[g] = stream[g]
  BY <1>1, <1>5 DEF Inv, TypeOK
<1>7. TypeOK' /\ maxfd' \in Nat
  BY <1>2, <1>6 DEF Inv, TypeOK, loop
<1>8. ScanInv' /\ JtagInv'
  BY <1>2 DEF Inv, ScanInv, JtagInv, loop
<1>9. AtHand'
  <2>1. ASSUME pc \in {"rest", "shift", "tdo", "answer"}
        PROVE  owed'[fd][1] = owed[fd][1]
    <3>1. fd \in ClientFds
      BY <2>1 DEF Inv, TypeOK, ClientFds
    <3>2. owed[fd] # <<>> /\ owed[fd] \in Seq(Kinds)
      BY <2>1, <3>1, NextPiece DEF Inv, TypeOK
    <3>3. Append(owed[fd], k)[1] = owed[fd][1]
      BY <3>2
    <3> QED  BY <1>6, <3>1, <3>3
  <2> QED  BY <1>2, <2>1 DEF Inv, AtHand, loop
<1>10. \A g \in ClientFds : Taken(g)' = Taken(g)
  BY <1>2 DEF Taken, loop
<1>11. ASSUME NEW g \in ClientFds, g # f
       PROVE  Written(g)'
  BY <1>2, <1>6, <1>10, <1>11, WrittenKept DEF Inv
<1>12. Written(f)'
  <2>1. Half(f) = 0 /\ Half(f)' = 1
    BY <1>2 DEF Half
  <2>2. Account(stream[f], owed[f], Taken(f), 0)
    BY <2>1 DEF Inv, Written
  <2>3. Account(Append(stream[f], Name[k]), Append(owed[f], k), Taken(f), 1)
    BY <1>3, <1>4, <2>2, AccountBegun
  <2> QED  BY <1>6, <1>10, <2>1, <2>3 DEF Written
<1> QED  BY <1>7, <1>8, <1>9, <1>11, <1>12 DEF Inv

\* and the other half of the same request.
LEMMA FinishStep ==
    ASSUME Inv, NEW f \in ClientFds, FinishRequest(f)
    PROVE  Inv'
<1> DEFINE k == owed[f][Len(owed[f])]
<1>1. /\ f \in half /\ half' = half \ {f}
      /\ stream' = [stream EXCEPT ![f] = Append(stream[f], k)]
      /\ UNCHANGED <<loop, attempts, asked, waiting, peer, urgent, owed, replies, jtag>>
  BY DEF FinishRequest
<1>2. stream[f] \in Seq(Pieces) /\ owed[f] \in Seq(Kinds) /\ Taken(f) \in 0..2
  BY DEF Inv, TypeOK, Taken
<1>3. Len(owed[f]) > 0 /\ Account(Append(stream[f], k), owed[f], Taken(f), 0)
  <2>1. Half(f) = 1
    BY <1>1 DEF Half
  <2>2. Account(stream[f], owed[f], Taken(f), 1)
    BY <2>1 DEF Inv, Written
  <2> QED  BY <1>2, <2>2, AccountFinished
<1>4. Append(stream[f], k) \in Seq(Pieces)
  BY <1>2, <1>3 DEF Pieces
<1> HIDE DEF k
<1>5. /\ stream' \in [ClientFds -> Seq(Pieces)]
      /\ stream'[f] = Append(stream[f], k)
      /\ \A g \in ClientFds \ {f} : stream'[g] = stream[g]
  BY <1>1, <1>4 DEF Inv, TypeOK
<1>6. TypeOK' /\ maxfd' \in Nat
  BY <1>1, <1>5 DEF Inv, TypeOK, loop
<1>7. ScanInv' /\ AtHand' /\ JtagInv'
  BY <1>1 DEF Inv, ScanInv, AtHand, JtagInv, loop
<1>8. \A g \in ClientFds : Taken(g)' = Taken(g)
  BY <1>1 DEF Taken, loop
<1>9. ASSUME NEW g \in ClientFds, g # f
      PROVE  Written(g)'
  BY <1>1, <1>5, <1>8, <1>9, WrittenKept DEF Inv
<1>10. Written(f)'
  <2>1. Half(f)' = 0
    BY <1>1 DEF Half
  <2> QED  BY <1>1, <1>3, <1>5, <1>8, <2>1 DEF Written
<1> QED  BY <1>6, <1>7, <1>9, <1>10 DEF Inv

\* The four ways to close a client: urgent data, and the three of handle_data.
LEMMA ClosedByServer ==
    ASSUME Inv, Abort \/ HangUp \/ ShiftFails \/ WriteFails
    PROVE  \E f \in ClientFds :
              /\ CloseFd(f) /\ fd \in {f, Nobody}
              /\ f \in urgent \/ (fd = f /\ (HangUp \/ ShiftFails \/ WriteFails))
<1>1. CASE Abort
  <2>1. PICK f \in except \ ready : Found(f) /\ CloseFd(f)
    BY <1>1 DEF Abort
  <2>2. f \in ClientFds /\ f \in urgent /\ fd = Nobody
    BY <2>1 DEF Inv, TypeOK, ScanInv, Found
  <2> QED  BY <2>1, <2>2
<1>2. CASE HangUp \/ ShiftFails \/ WriteFails
  <2>1. CloseFd(fd) /\ pc \notin {"select", "scan", "returned"}
    BY <1>2 DEF HangUp, ShiftFails, WriteFails, EndOfFile, Piece, Refused
  <2>2. fd \in ClientFds
    BY <2>1, FdFacts DEF Inv, TypeOK
  <2> QED  BY <1>2, <2>1, <2>2
<1> QED  BY <1>1, <1>2

\* Every step keeps the invariant.
LEMMA InvStep == Inv /\ [Next]_vars => Inv'
<1> SUFFICES ASSUME Inv, [Next]_vars PROVE Inv'
  OBVIOUS
<1>1. CASE Select \/ SelectFails \/ ScanEnd \/ Accept \/ AcceptFails
  BY <1>1, SelectStep, SelectFailsStep, ScanEndStep, AcceptStep, AcceptFailsStep
<1>2. CASE Abort \/ HangUp \/ ShiftFails \/ WriteFails
  BY <1>2, ClosedByServer, CloseStep
<1>3. CASE HandleData \/ ReadName \/ ReadRest \/ ReadShift \/ Shift \/ Killed
  BY <1>3, HandleDataStep, ReadStep, ShiftStep, KilledStep
<1>4. CASE Reply
  <2>1. pc \in {"answer", "tdo"} /\ Write /\ Passed(fd) /\ jtag' = Nobody
    BY <1>4 DEF Reply, Inv, JtagInv
  <2> QED  BY <2>1, WriteKeeps
<1>5. CASE ReplyShift
  <2>1. /\ pc \in {"answer", "tdo"} /\ Write
        /\ pc' = "name" /\ UNCHANGED <<ready, except, fd>>
        /\ jtag' \in {fd', Nobody}
    BY <1>5 DEF ReplyShift, Inv, JtagInv
  <2> QED  BY <2>1, WriteKeeps
<1>6. CASE Connect \/ \E f \in ClientFds : Talk(f) \/ Urge(f)
  BY <1>6, QuietStep, BeginStep, FinishStep DEF Talk
<1>7. CASE UNCHANGED vars
  <2>1. TypeOK' /\ maxfd' \in Nat /\ ScanInv' /\ AtHand' /\ JtagInv'
    BY <1>7 DEF vars, loop, clients, Inv, TypeOK, ScanInv, AtHand, JtagInv
  <2>2. ASSUME NEW f \in ClientFds
        PROVE  Written(f)'
    <3>1. Taken(f)' = Taken(f)
      BY <1>7 DEF vars, loop, Taken
    <3> QED  BY <1>7, <3>1, WrittenKept DEF Inv, vars, clients
  <2> QED  BY <2>1, <2>2 DEF Inv
<1> QED
  BY <1>1, <1>2, <1>3, <1>4, <1>5, <1>6, <1>7 DEF Next, Main, Handle

\* The descriptors select looks at are the listening socket and the clients that
\* are connected, none above maxfd, and the scan comes to no other; accept and
\* close keep it so in any order (xvcServer.c:390-425).
THEOREM WatchedAreOpen == Spec => []TypeOK
<1>1. Inv => TypeOK
  BY DEF Inv
<1> QED  BY <1>1, InvInit, InvStep, PTL DEF Spec

\* From a client's first shift to its next getinfo: or settck:, or to the end of
\* its connection, nobody else's shift gets to the JTAG machine: handle_data is
\* not left in between (xvcServer.c:249-256).
THEOREM NobodyShiftsBetween == Spec => ShiftsUndisturbed
<1>1. Inv /\ [Next]_vars => [jtag # Nobody => jtag' \in {jtag, Nobody}]_vars
  <2> SUFFICES ASSUME Inv, Next, jtag # Nobody
               PROVE  jtag' \in {jtag, Nobody}
    OBVIOUS
  <2>1. jtag = fd
    BY DEF Inv, JtagInv
  <2>2. CASE Main \/ SelectFails \/ Connect
    BY <2>2 DEF Main, Select, SelectFails, ScanEnd, Accept, AcceptFails, Abort, CloseFd, Connect
  <2>3. CASE Handle
    BY <2>1, <2>3 DEF Handle, HandleData, ReadName, ReadRest, ReadShift, Read, HangUp,
       Shift, ShiftFails, ReplyShift, Reply, WriteFails, Killed, CloseFd
  <2>4. CASE \E f \in ClientFds : Talk(f) \/ Urge(f)
    BY <2>4 DEF Talk, BeginRequest, FinishRequest, Close, Urge
  <2> QED  BY <2>2, <2>3, <2>4 DEF Next
<1> QED  BY <1>1, InvInit, InvStep, PTL DEF Spec, ShiftsUndisturbed

\* A client that is still there is hung up on only for what it has done: urgent
\* data, a request that is none or too long, or a shift that fails; the server
\* never closes the descriptor of another, nor takes one request for another
\* (xvcServer.c:286-345, 416-421).
THEOREM HangsUpForCause == Spec => HungUpForCause
<1> DEFINE Cause(f) == \/ f \in urgent
                       \/ /\ owed[f] # <<>>
                          /\ \/ Head(owed[f]) \in {"bad", "big"}
                             \/ Head(owed[f]) = "shift" /\ pc = "shift"
<1>1. ASSUME Inv, Next, NEW f \in ClientFds, peer[f] = "up", peer'[f] = "none"
      PROVE  Cause(f)
  <2>1. CASE Abort \/ HangUp \/ ShiftFails \/ WriteFails
    <3>1. PICK g \in ClientFds :
              /\ CloseFd(g) /\ fd \in {g, Nobody}
              /\ g \in urgent \/ (fd = g /\ (HangUp \/ ShiftFails \/ WriteFails))
      BY <1>1, <2>1, ClosedByServer
    <3>2. g = f
      BY <1>1, <3>1 DEF CloseFd, Inv, TypeOK
    <3>3. CASE fd = f /\ HangUp
      <4>1. stream[f] # <<>>
            /\ \/ pc = "name" /\ Head(stream[f]) \notin {"sh", "ge"}
               \/ pc = "rest" /\ Head(stream[f]) = "big"
        BY <1>1, <3>3 DEF HangUp, EndOfFile, Piece
      <4>2. /\ owed[f] # <<>> /\ owed[f] \in Seq(Kinds) /\ owed[f][1] \in Kinds
            /\ Head(owed[f]) = owed[f][1]
        <5>1. owed[f] \in Seq(Kinds)
          BY <1>1 DEF Inv, TypeOK
        <5>2. owed[f] # <<>>
          BY <1>1, <3>3, <4>1, NextPiece
        <5> QED  BY <5>1, <5>2, HeadIsFirst
      <4>3. owed[f][1] \in {"bad", "big"}
        BY <1>1, <3>3, <4>1, <4>2, NextPiece, Names
      <4> QED  BY <4>2, <4>3
    <3>4. CASE fd = f /\ ShiftFails
      <4>1. pc = "shift" /\ owed[f][1] = "shift"
        BY <1>1, <3>4 DEF ShiftFails, Inv, AtHand
      <4>2. owed[f] # <<>> /\ Head(owed[f]) = owed[f][1]
        <5>1. owed[f] \in Seq(Kinds)
          BY <1>1 DEF Inv, TypeOK
        <5>2. owed[f] # <<>>
          BY <1>1, <3>4, <4>1, NextPiece
        <5> QED  BY <5>1, <5>2, HeadIsFirst
      <4> QED  BY <4>1, <4>2
    <3>5. CASE fd = f /\ WriteFails
      BY <1>1, <3>5 DEF WriteFails, Refused
    <3> QED  BY <3>1, <3>2, <3>3, <3>4, <3>5
  <2>2. CASE Select \/ SelectFails \/ ScanEnd \/ AcceptFails \/ HandleData \/ ReadName
             \/ ReadRest \/ ReadShift \/ Shift \/ Killed \/ Connect
    BY <1>1, <2>2 DEF Select, SelectFails, ScanEnd, AcceptFails, HandleData, ReadName, ReadRest,
       ReadShift, Read, Shift, Killed, Connect, clients
  <2>3. CASE Accept
    BY <1>1, <2>3 DEF Accept, Inv, TypeOK
  <2>4. CASE Reply \/ ReplyShift
    <3>1. fd \in ClientFds
      BY <1>1, <2>4, FdFacts DEF Reply, ReplyShift, Inv, TypeOK
    <3>2. PICK p \in {"up", "fin", "broken"} : peer' = [peer EXCEPT ![fd] = p]
      BY <2>4 DEF Reply, ReplyShift, Write
    <3>3. peer \in [ClientFds -> {"none", "up", "fin", "broken"}]
      BY <1>1 DEF Inv, TypeOK
    <3> QED  BY <1>1, <3>1, <3>2, <3>3
  <2>5. CASE \E g \in ClientFds : Talk(g) \/ Urge(g)
    BY <1>1, <2>5 DEF Talk, BeginRequest, FinishRequest, Close, Urge, Inv, TypeOK
  <2> QED  BY <1>1, <2>1, <2>2, <2>3, <2>4, <2>5 DEF Next, Main, Handle
<1>2. Inv /\ [Next]_vars =>
        [\A f \in ClientFds : peer[f] = "up" /\ peer'[f] = "none" => Cause(f)]_vars
  BY <1>1
<1> QED  BY <1>2, InvInit, InvStep, PTL DEF Spec, HungUpForCause
=============================================================================
