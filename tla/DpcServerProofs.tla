--------------------------- MODULE DpcServerProofs ---------------------------
(***************************************************************************)
(* Theorems about DpcServer, for any requests, buffer, number base, and    *)
(* any number of addresses, connections and packets: what is given back on *)
(* the ways through xvcserver_start, what the parser makes of numbers and  *)
(* messages that TCP cuts, that the engine is the session of XvcSession,   *)
(* and that its replies are true of the channel below it.                  *)
(***************************************************************************)
EXTENDS DpcServer, TLAPS, SequenceTheorems, FiniteSetTheorems, WellFoundedInduction

Starting == {"url", "resolve", "listen", "name"}

\* SocketsTidy and MappedOnce, with what they rest on: nothing is accepted or
\* mapped before the loop, and outside of a mapping that fails both regions are
\* mapped or none.
ResourceInv ==
    /\ SocketsTidy
    /\ strays \in Nat
    /\ stage \in Starting => fds = 0 /\ strays = 0 /\ hsdp = 0
    /\ maps \in 0..2
    /\ stage # "exited" => maps \in {0, 2}
    /\ stage \in Serving => maps = 2

\* Nothing is held at first,
LEMMA ResourceInit == Init => ResourceInv
  BY DEF Init, ResourceInv, SocketsTidy, Starting, Serving

\* A step that moves within a connection, or ends the process.
LEMMA ServingStep ==
    ASSUME ResourceInv, stage \in Serving,
           stage' \in Serving \cup {"aborted", "exited"},
           UNCHANGED <<startup, sockets, memory>>
    PROVE  ResourceInv'
  BY DEF ResourceInv, SocketsTidy, Starting, Serving, startup, sockets, memory

\* and every step keeps the accounts.
LEMMA ResourceStep == ResourceInv /\ [Next]_vars => ResourceInv'
<1> SUFFICES ASSUME ResourceInv, [Next]_vars PROVE ResourceInv'
  OBVIOUS
<1>1. CASE StartUp
  <2>1. CASE ParseUrl
    BY <2>1 DEF ParseUrl, Returns, ResourceInv, SocketsTidy, Starting, Serving,
       sockets, memory
  <2>2. CASE Resolve
    BY <2>2 DEF Resolve, Returns, ResourceInv, SocketsTidy, Starting, Serving,
       sockets, memory
  <2>3. CASE TryAddress
    BY <2>3 DEF TryAddress, Exhausted, Returns, ResourceInv, SocketsTidy, Starting,
       Serving, sockets, memory
  <2>4. CASE HostName
    BY <2>4 DEF HostName, Returns, ResourceInv, SocketsTidy, Starting, Serving,
       sockets, memory
  <2> QED  BY <1>1, <2>1, <2>2, <2>3, <2>4 DEF StartUp
<1>2. CASE Listen
  <2>1. CASE Accept
    BY <2>1 DEF Accept, Attempt, OpenPort, NeedsMapping, Regions, ResourceInv,
       SocketsTidy, Starting, Serving, startup
  <2>2. CASE AcceptFails
    BY <2>2 DEF AcceptFails, Attempt, Returns, ResourceInv, SocketsTidy, Starting,
       Serving, memory
  <2>3. CASE AcceptNoPeer
    BY <2>3 DEF AcceptNoPeer, Attempt, ResourceInv, SocketsTidy, Starting, Serving,
       startup, memory
  <2>4. CASE MapFails
    BY <2>4 DEF MapFails, Attempt, NeedsMapping, Regions, ResourceInv, SocketsTidy,
       Starting, Serving, startup
  <2> QED  BY <1>2, <2>1, <2>2, <2>3, <2>4 DEF Listen
<1>3. CASE Parse
  <2>1. CASE ParseQuery \/ ParseConfigure \/ ParseError \/ ParseEdpc \/ ParseIdpc
    <3>1. stage = "scan" /\ UNCHANGED <<stage, startup, sockets, memory>>
      BY <2>1 DEF ParseQuery, ParseConfigure, ParseError, ParseEdpc, ParseIdpc,
         Ready, Answer
    <3> QED  BY <3>1, ServingStep DEF Serving
  <2>2. CASE NeedMore \/ AssertFails \/ ProtocolError
    BY <2>2, ServingStep DEF NeedMore, AssertFails, ProtocolError, Serving
  <2> QED  BY <1>3, <2>1, <2>2 DEF Parse
<1>4. CASE Transfer
  <2>1. CASE Send \/ SendFails \/ SendKilled \/ Recv \/ RecvEnd \/ RecvFails
    BY <2>1, ServingStep
    DEF Send, SendFails, SendKilled, Recv, RecvEnd, RecvFails, Serving
  <2>2. CASE CloseConnection
    BY <2>2 DEF CloseConnection, ClosePort, ResourceInv, SocketsTidy, Starting,
       Serving, startup
  <2> QED  BY <1>4, <2>1, <2>2 DEF Transfer
<1>5. CASE Environment
  BY <1>5, ServingStep DEF Environment, ClientWrite, ClientClose, LinkLoses
<1>6. CASE Stopped \/ UNCHANGED vars
  BY <1>6 DEF Stopped, vars, startup, sockets, memory, ResourceInv, SocketsTidy
<1> QED  BY <1>1, <1>2, <1>3, <1>4, <1>5, <1>6 DEF Next

\* However often open_server tries, accept or getpeername fails and clients come
\* and go: one socket listens as long as something accepts from it, and the
\* accepted sockets and handles of past connections are given back, but for
\* those a failed getpeername leaves open (xvcserver.c:104-140 and 501-540).
THEOREM SocketsAreTidy == Spec => []SocketsTidy
<1>1. ResourceInv => SocketsTidy
  BY DEF ResourceInv
<1> QED  BY <1>1, ResourceInit, ResourceStep, PTL DEF Spec

\* The assertion of mmap_buffer never fails: no number of connections maps the
\* two regions again (hsdp_lib.c:56 and 149-154).
THEOREM RegionsMappedOnce == Spec => []MappedOnce
<1>1. ResourceInv => MappedOnce
  BY DEF ResourceInv, MappedOnce
<1> QED  BY <1>1, ResourceInit, ResourceStep, PTL DEF Spec
-----------------------------------------------------------------------------
(* Numbers.  There is no induction rule here that takes a predicate; what   *)
(* holds of all numbers is shown from the least one it could be false for.  *)

LEMMA LeastNatural ==
    ASSUME NEW S \in SUBSET Nat, S # {}
    PROVE  \E x \in S : \A y \in S : x <= y
<1>1. PICK x \in S : \A y \in S : <<y, x>> \notin OpToRel(<, Nat)
  BY NatLessThanWellFounded, WFMin
<1>2. \A y \in S : ~ (y < x)
  BY <1>1, Zenon DEF OpToRel
<1> QED  BY <1>2

\* The last digit of a number, and the number without it.
LEMMA DigitFacts ==
    ASSUME NEW v \in Nat
    PROVE  /\ v \div Radix \in Nat /\ v % Radix \in Nat /\ v % Radix < Radix
           /\ v = Radix * (v \div Radix) + (v % Radix)
           /\ v >= Radix => v \div Radix < v
           /\ v < Radix => v % Radix = v
           /\ (Radix + (v % Radix)) % Radix = v % Radix
<1>1. v \div Radix \in Nat /\ v % Radix \in Nat /\ v % Radix < Radix
  BY RadixAssumption
<1>2. v = Radix * (v \div Radix) + (v % Radix)
  BY RadixAssumption
<1>3. v >= Radix => v \div Radix < v
  BY RadixAssumption
<1>4. v < Radix => v % Radix = v
  BY RadixAssumption
<1>5. (Radix + (v % Radix)) % Radix = v % Radix
  BY RadixAssumption
<1> QED  BY <1>1, <1>2, <1>3, <1>4, <1>5

\* The encodings of the numbers up to n.
EncodingStep(f, v) ==
    IF v < Radix THEN <<v>> ELSE <<Radix + (v % Radix)>> \o f[v \div Radix]
Encodings(n) == {f \in [0..n -> Seq(Nat)] : \A v \in 0..n : f[v] = EncodingStep(f, v)}

LEMMA EncodingsExist == \A n \in Nat : Encodings(n) # {}
<1> DEFINE Bad == {n \in Nat : Encodings(n) = {}}
<1>1. ASSUME Bad # {}
      PROVE  FALSE
  <2>1. PICK n \in Bad : \A m \in Bad : n <= m
    <3>1. Bad \in SUBSET Nat
      OBVIOUS
    <3> HIDE DEF Bad
    <3> QED  BY <1>1, <3>1, LeastNatural
  <2>2. n \in Nat /\ Encodings(n) = {}
    BY <2>1
  <2>3. \E f \in [0..n -> Seq(Nat)] :
           /\ \A v \in 0..(n - 1) : f[v] = EncodingStep(f, v)
           /\ f[n] = EncodingStep(f, n)
    <3>1. CASE n = 0
      <4> DEFINE f == [v \in 0..n |-> <<0>>]
      <4>1. <<0>> \in Seq(Nat) /\ 0 < Radix
        BY RadixAssumption
      <4>2. f \in [0..n -> Seq(Nat)] /\ f[n] = <<n>>
        BY <3>1, <4>1
      <4>3. \A v \in 0..(n - 1) : FALSE
        BY <3>1
      <4>4. f[n] = EncodingStep(f, n)
        BY <3>1, <4>1, <4>2 DEF EncodingStep
      <4> HIDE DEF f
      <4> QED  BY <4>2, <4>3, <4>4
    <3>2. CASE n # 0
      <4>1. n - 1 \in Nat /\ n - 1 \notin Bad
        BY <2>1, <2>2, <3>2
      <4>2. PICK g \in Encodings(n - 1) : TRUE
        BY <4>1
      <4>3. /\ g \in [0..(n - 1) -> Seq(Nat)]
            /\ \A v \in 0..(n - 1) : g[v] = EncodingStep(g, v)
        BY <4>2 DEF Encodings
      <4> DEFINE last == EncodingStep(g, n)
                 f == [v \in 0..n |-> IF v = n THEN last ELSE g[v]]
      <4>4. last \in Seq(Nat)
        <5>1. CASE n < Radix
          <6>1. <<n>> \in Seq(Nat)
            BY <2>2
          <6> QED  BY <5>1, <6>1 DEF EncodingStep
        <5>2. CASE ~(n < Radix)
          <6>0. n >= Radix
            BY <2>2, <5>2, RadixAssumption
          <6>9. n \div Radix \in Nat /\ n \div Radix < n /\ n % Radix \in Nat
            BY <2>2, <6>0, DigitFacts
          <6>1. n \div Radix \in 0..(n - 1) /\ n % Radix \in Nat
            BY <2>2, <6>9
          <6>2. g[n \div Radix] \in Seq(Nat)
            BY <4>3, <6>1
          <6>3. <<Radix + (n % Radix)>> \in Seq(Nat)
            BY <6>1, RadixAssumption
          <6> QED  BY <5>2, <6>2, <6>3 DEF EncodingStep
        <5> QED  BY <5>1, <5>2
      <4> HIDE DEF last
      <4>5. f \in [0..n -> Seq(Nat)]
        BY <2>2, <4>3, <4>4
      <4>6. \A v \in 0..n : v >= Radix => v \div Radix \in 0..(n - 1)
        <5> SUFFICES ASSUME NEW v \in 0..n, v >= Radix
                     PROVE  v \div Radix \in 0..(n - 1)
          OBVIOUS
        <5>1. v \in Nat /\ v \div Radix \in Nat /\ v \div Radix < v /\ v <= n
          BY <2>2, DigitFacts
        <5> QED  BY <2>2, <5>1
      <4>7. \A v \in 0..n : EncodingStep(f, v) = EncodingStep(g, v)
        <5> SUFFICES ASSUME NEW v \in 0..n
                     PROVE  EncodingStep(f, v) = EncodingStep(g, v)
          OBVIOUS
        <5>1. CASE v < Radix
          BY <5>1 DEF EncodingStep
        <5>2. CASE ~(v < Radix)
          <6>1. v \div Radix \in 0..(n - 1)
            BY <2>2, <4>6, <5>2, RadixAssumption
          <6>2. f[v \div Radix] = g[v \div Radix]
            BY <2>2, <6>1
          <6> HIDE DEF f
          <6> QED  BY <5>2, <6>2 DEF EncodingStep
        <5> QED  BY <5>1, <5>2
      <4>8. f[n] = last /\ \A v \in 0..(n - 1) : v \in 0..n /\ f[v] = g[v]
        BY <2>2
      <4>9. \A v \in 0..(n - 1) : f[v] = EncodingStep(f, v)
        BY <4>3, <4>7, <4>8
      <4>10. f[n] = EncodingStep(f, n)
        BY <2>2, <4>7, <4>8 DEF last
      <4> HIDE DEF f
      <4> QED  BY <4>5, <4>9, <4>10
    <3> QED  BY <3>1, <3>2
  <2>4. PICK f \in [0..n -> Seq(Nat)] :
           /\ \A v \in 0..(n - 1) : f[v] = EncodingStep(f, v)
           /\ f[n] = EncodingStep(f, n)
    BY <2>3
  <2>5. \A v \in 0..n : v = n \/ v \in 0..(n - 1)
    BY <2>2
  <2>6. f \in Encodings(n)
    BY <2>4, <2>5 DEF Encodings
  <2> QED  BY <2>2, <2>6
<1> QED  BY <1>1

\* ... and agree with each other.
LEMMA EncodingsAgree ==
    ASSUME NEW n \in Nat, NEW m \in Nat, NEW f \in Encodings(n),
           NEW g \in Encodings(m), NEW v \in 0..n, v <= m
    PROVE  f[v] = g[v]
<1> DEFINE Bad == {u \in 0..v : f[u] # g[u]}
<1>1. /\ \A u \in 0..v : u \in 0..n /\ u \in 0..m /\ u \in Nat
      /\ v \in 0..v
  OBVIOUS
<1>2. /\ \A u \in 0..n : f[u] = EncodingStep(f, u)
      /\ \A u \in 0..m : g[u] = EncodingStep(g, u)
  BY DEF Encodings
<1>3. ASSUME Bad # {}
      PROVE  FALSE
  <2>1. PICK u \in Bad : \A w \in Bad : u <= w
    <3>1. Bad \in SUBSET Nat
      OBVIOUS
    <3> HIDE DEF Bad
    <3> QED  BY <1>3, <3>1, LeastNatural
  <2>2. u \in 0..v /\ f[u] # g[u]
    BY <2>1
  <2>3. f[u] = EncodingStep(f, u) /\ g[u] = EncodingStep(g, u) /\ u \in Nat
    BY <1>1, <1>2, <2>2
  <2>4. u >= Radix
    BY <2>2, <2>3, RadixAssumption DEF EncodingStep
  <2>5. u \div Radix \in 0..v /\ u \div Radix < u
    BY <2>2, <2>3, <2>4, DigitFacts
  <2>6. f[u \div Radix] = g[u \div Radix]
    BY <2>1, <2>2, <2>5
  <2>7. EncodingStep(f, u) = EncodingStep(g, u)
    BY <2>6 DEF EncodingStep
  <2> QED  BY <2>2, <2>3, <2>7
<1> QED  BY <1>1, <1>3

\* Encode is what its definition says.
LEMMA EncodeFacts ==
    ASSUME NEW v \in Nat
    PROVE  /\ Encode[v] \in Seq(Nat)
           /\ v < Radix => Encode[v] = <<v>>
           /\ v >= Radix => Encode[v] = <<Radix + (v % Radix)>> \o Encode[v \div Radix]
<1> DEFINE E == [u \in Nat |-> (CHOOSE f \in Encodings(u) : TRUE)[u]]
<1>1. ASSUME NEW n \in Nat, NEW f \in Encodings(n), NEW u \in 0..n
      PROVE  E[u] = f[u]
  <2>1. u \in Nat /\ u \in 0..u /\ u <= n
    OBVIOUS
  <2>2. (CHOOSE g \in Encodings(u) : TRUE) \in Encodings(u)
    BY <2>1, EncodingsExist
  <2>3. (CHOOSE g \in Encodings(u) : TRUE)[u] = f[u]
    BY <2>1, <2>2, EncodingsAgree
  <2> QED  BY <2>1, <2>3
<1> HIDE DEF E
<1>2. ASSUME NEW n \in Nat
      PROVE  E[n] \in Seq(Nat) /\ E[n] = EncodingStep(E, n)
  <2>1. PICK f \in Encodings(n) : TRUE
    BY EncodingsExist
  <2>2. /\ f \in [0..n -> Seq(Nat)] /\ n \in 0..n
        /\ f[n] = EncodingStep(f, n)
    BY <2>1 DEF Encodings
  <2>3. E[n] = f[n]
    BY <1>1, <2>2
  <2>4. n >= Radix => n \div Radix \in 0..n
    BY DigitFacts
  <2>5. n >= Radix => E[n \div Radix] = f[n \div Radix]
    BY <1>1, <2>4
  <2>6. EncodingStep(E, n) = EncodingStep(f, n)
    BY <2>5, RadixAssumption DEF EncodingStep
  <2> QED  BY <2>2, <2>3, <2>6
<1>3. E = [u \in Nat |-> IF u < Radix THEN <<u>>
                          ELSE <<Radix + (u % Radix)>> \o E[u \div Radix]]
  <2>1. \A u \in Nat : E[u] = IF u < Radix THEN <<u>>
                          ELSE <<Radix + (u % Radix)>> \o E[u \div Radix]
    BY <1>2 DEF EncodingStep
  <2>2. E = [u \in Nat |-> E[u]]
    BY DEF E
  <2> QED  BY <2>1, <2>2, Zenon
<1>4. Encode = [u \in Nat |-> IF u < Radix THEN <<u>>
                               ELSE <<Radix + (u % Radix)>> \o Encode[u \div Radix]]
  BY <1>3, Zenon DEF Encode
<1>5. ASSUME NEW f, f = [u \in Nat |-> IF u < Radix THEN <<u>>
                               ELSE <<Radix + (u % Radix)>> \o f[u \div Radix]]
      PROVE  \A n \in Nat : f[n] \in Seq(Nat)
  <2> DEFINE Bad == {n \in Nat : f[n] \notin Seq(Nat)}
  <2>1. ASSUME Bad # {}
        PROVE  FALSE
    <3>1. PICK n \in Bad : \A m \in Bad : n <= m
      <4>1. Bad \in SUBSET Nat
        OBVIOUS
      <4> HIDE DEF Bad
      <4> QED  BY <2>1, <4>1, LeastNatural
    <3>2. n \in Nat /\ f[n] \notin Seq(Nat)
      BY <3>1
    <3>3. f[n] = IF n < Radix THEN <<n>> ELSE <<Radix + (n % Radix)>> \o f[n \div Radix]
      BY <1>5, <3>2
    <3>4. <<n>> \in Seq(Nat)
      BY <3>2
    <3>5. n >= Radix
      BY <3>2, <3>3, <3>4, RadixAssumption
    <3>6. n \div Radix \in Nat /\ n \div Radix < n /\ n % Radix \in Nat
      BY <3>2, <3>5, DigitFacts
    <3>7. f[n \div Radix] \in Seq(Nat)
      BY <3>1, <3>2, <3>6
    <3>8. <<Radix + (n % Radix)>> \in Seq(Nat)
      BY <3>6, RadixAssumption
    <3> QED  BY <3>2, <3>3, <3>5, <3>7, <3>8, RadixAssumption
  <2> QED  BY <2>1
<1>6. Encode[v] = IF v < Radix THEN <<v>>
                  ELSE <<Radix + (v % Radix)>> \o Encode[v \div Radix]
  BY <1>4
<1>7. Encode[v] \in Seq(Nat)
  BY <1>4, <1>5
<1> QED  BY <1>6, <1>7, RadixAssumption

\* A number is digits of which all but the last are marked.
Number(d) == /\ d \in Seq(Nat) /\ Len(d) \in Nat /\ Len(d) >= 1
             /\ d[Len(d)] < Radix
             /\ \A j \in 1..(Len(d) - 1) : d[j] >= Radix

\* The encoding of a number with more than one digit.
LEMMA LongNumber ==
    ASSUME NEW v \in Nat, v >= Radix
    PROVE  LET d == Encode[v]
               e == Encode[v \div Radix]
           IN  /\ Len(d) = Len(e) + 1 /\ Len(e) \in Nat
               /\ d[1] = Radix + (v % Radix)
               /\ \A i \in 1..Len(e) : d[i + 1] = e[i]
<1> DEFINE d == Encode[v]
           e == Encode[v \div Radix]
           a == Radix + (v % Radix)
<1>1. v \div Radix \in Nat /\ v % Radix \in Nat
  BY DigitFacts
<1>2. e \in Seq(Nat) /\ d = <<a>> \o e /\ d \in Seq(Nat)
  BY <1>1, EncodeFacts
<1> HIDE DEF a, d, e
<1>3. <<a>> \in Seq({a}) /\ Len(<<a>>) = 1 /\ <<a>>[1] = a
  OBVIOUS
<1>4. Len(e) \in Nat /\ Len(d) = Len(e) + 1 /\ d[1] = a
      /\ \A i \in 1..Len(e) : d[i + 1] = e[i]
  BY <1>2, <1>3
<1> QED  BY <1>4 DEF a, d, e

LEMMA EncodesNumber == \A v \in Nat : Number(Encode[v])
<1> DEFINE Bad == {v \in Nat : ~Number(Encode[v])}
<1>1. ASSUME Bad # {}
      PROVE  FALSE
  <2>1. PICK v \in Bad : \A u \in Bad : v <= u
    <3>1. Bad \in SUBSET Nat
      OBVIOUS
    <3> HIDE DEF Bad
    <3> QED  BY <1>1, <3>1, LeastNatural
  <2>2. v \in Nat /\ ~Number(Encode[v])
    BY <2>1
  <2>3. CASE v < Radix
    <3>1. Encode[v] = <<v>> /\ <<v>> \in Seq(Nat) /\ Len(<<v>>) = 1 /\ <<v>>[1] = v
      BY <2>2, <2>3, EncodeFacts
    <3>2. \A j \in 1..(1 - 1) : FALSE
      OBVIOUS
    <3> QED  BY <2>2, <2>3, <3>1, <3>2 DEF Number
  <2>4. CASE v >= Radix
    <3> DEFINE d == Encode[v]
               e == Encode[v \div Radix]
    <3>1. v \div Radix \in Nat /\ v \div Radix < v /\ v % Radix \in Nat
      BY <2>2, <2>4, DigitFacts
    <3>2. Number(e)
      BY <2>1, <2>2, <3>1
    <3>3. /\ Len(d) = Len(e) + 1 /\ Len(e) \in Nat
          /\ d[1] = Radix + (v % Radix)
          /\ \A i \in 1..Len(e) : d[i + 1] = e[i]
      BY <2>2, <2>4, LongNumber
    <3>4. d \in Seq(Nat)
      BY <2>2, EncodeFacts
    <3> HIDE DEF d, e
    <3>5. d[Len(d)] < Radix
      BY <3>2, <3>3 DEF Number
    <3>6. ASSUME NEW j \in 1..(Len(d) - 1)
          PROVE  d[j] >= Radix
      <4>1. CASE j = 1
        BY <3>1, <3>3, <4>1, RadixAssumption
      <4>2. CASE j # 1
        <5>1. j - 1 \in 1..(Len(e) - 1) /\ j - 1 \in 1..Len(e) /\ (j - 1) + 1 = j
          BY <3>3, <4>2
        <5>2. d[j] = e[j - 1]
          BY <3>3, <5>1
        <5> QED  BY <3>2, <5>1, <5>2 DEF Number
      <4> QED  BY <4>1, <4>2
    <3>7. Number(d)
      BY <3>2, <3>3, <3>4, <3>5, <3>6 DEF Number
    <3> QED  BY <2>2, <3>7 DEF d
  <2> QED  BY <2>2, <2>3, <2>4, RadixAssumption
<1> QED  BY <1>1

\* get_uleb128 passes over the number, or over what has arrived of it and one
\* byte more.
LEMMA WidthOfNumber ==
    ASSUME NEW b \in Seq(Nat), NEW w \in 1..Len(b), b[w] < Radix,
           \A j \in 1..(w - 1) : b[j] >= Radix, NEW n \in Int
    PROVE  Width(b, n) = IF n >= w THEN w ELSE IF n < 1 THEN 1 ELSE n + 1
<1> DEFINE W == IF n >= w THEN w ELSE IF n < 1 THEN 1 ELSE n + 1
           Ends(i) == /\ i > n \/ b[i] < Radix
                      /\ \A j \in 1..(i - 1) : j <= n /\ b[j] >= Radix
<1>1. Len(b) \in Nat /\ w \in Nat /\ w <= Len(b) /\ w >= 1 /\ Radix \in Nat
      /\ \A j \in 1..Len(b) : b[j] \in Nat
  BY RadixAssumption
<1>2. W \in 1..(Len(b) + 1) /\ W <= w
  BY <1>1
<1>3. Ends(W)
  <2>1. W > n \/ W = w
    BY <1>1
  <2>2. ASSUME NEW j \in 1..(W - 1)
        PROVE  j <= n /\ b[j] >= Radix
    <3>1. j <= n /\ j \in 1..(w - 1)
      BY <1>1
    <3> QED  BY <3>1
  <2> HIDE DEF W
  <2> QED  BY <2>1, <2>2
<1>4. ASSUME NEW i \in 1..(Len(b) + 1), Ends(i)
      PROVE  i = W
  <2>1. CASE i < W
    <3>1. i \in 1..(w - 1) /\ i <= n
      BY <1>1, <2>1
    <3>2. b[i] >= Radix /\ b[i] \in Nat
      BY <1>1, <3>1
    <3> QED  BY <1>1, <1>4, <3>1, <3>2
  <2>2. CASE i > W
    <3>1. W \in 1..(i - 1)
      BY <1>1, <1>2, <2>2
    <3>2. W <= n /\ b[W] >= Radix
      BY <1>4, <3>1
    <3>3. W = w
      BY <1>1, <3>2
    <3> QED  BY <1>1, <3>2, <3>3
  <2> QED  BY <1>1, <1>2, <2>1, <2>2
<1> HIDE DEF W
<1>5. W = CHOOSE i \in 1..(Len(b) + 1) : Ends(i)
  <2> HIDE DEF Ends
  <2> QED  BY <1>2, <1>3, <1>4
<1> QED  BY <1>5 DEF Width, W

LEMMA WidthOfNothing ==
    ASSUME NEW b \in Seq(Nat), NEW n \in Int, n < 1
    PROVE  Width(b, n) = 1
<1> DEFINE Ends(i) == /\ i > n \/ b[i] < Radix
                      /\ \A j \in 1..(i - 1) : j <= n /\ b[j] >= Radix
<1>1. 1 \in 1..(Len(b) + 1) /\ \A j \in 1..(1 - 1) : FALSE
  OBVIOUS
<1>2. Ends(1)
  BY <1>1
<1>3. ASSUME NEW i \in 1..(Len(b) + 1), Ends(i)
      PROVE  i = 1
  <2>1. i # 1 => 1 \in 1..(i - 1)
    OBVIOUS
  <2> QED  BY <1>3, <2>1
<1>4. 1 = CHOOSE i \in 1..(Len(b) + 1) : Ends(i)
  <2> HIDE DEF Ends
  <2> QED  BY <1>1, <1>2, <1>3
<1> QED  BY <1>4 DEF Width

\* What get_uleb128 has read of the bytes from i on.
Reads(b, n, used, f) ==
    \A i \in 1..(used + 1) :
        f[i] = IF i > used \/ i > n THEN 0 ELSE (b[i] % Radix) + Radix * f[i + 1]

\* A function that reads the bytes tells the value.
LEMMA ValueIsRead ==
    ASSUME NEW b, NEW n \in Int, NEW used \in Nat, used >= 1, used = Width(b, n),
           NEW g \in [1..(used + 1) -> Nat], Reads(b, n, used, g)
    PROVE  Value(b, n) = g[1]
<1> DEFINE F == CHOOSE f : f = [i \in 1..(used + 1) |->
                     IF i > used \/ i > n THEN 0
                     ELSE (b[i] % Radix) + Radix * f[i + 1]]
<1>1. g = [i \in 1..(used + 1) |->
                     IF i > used \/ i > n THEN 0
                     ELSE (b[i] % Radix) + Radix * g[i + 1]]
  BY DEF Reads
<1>2. F = [i \in 1..(used + 1) |->
                     IF i > used \/ i > n THEN 0
                     ELSE (b[i] % Radix) + Radix * F[i + 1]]
  BY <1>1
<1> HIDE DEF F
<1> DEFINE Bad == {k \in 0..used : F[used + 1 - k] # g[used + 1 - k]}
<1>3. ASSUME Bad # {}
      PROVE  FALSE
  <2>1. PICK k \in Bad : \A m \in Bad : k <= m
    <3>1. Bad \in SUBSET Nat
      OBVIOUS
    <3> HIDE DEF Bad
    <3> QED  BY <1>3, <3>1, LeastNatural
  <2> DEFINE i == used + 1 - k
  <2>2. k \in 0..used /\ i \in 1..(used + 1) /\ F[i] # g[i]
    BY <2>1
  <2>3. ~(i > used \/ i > n)
    BY <1>1, <1>2, <2>2
  <2>4. k - 1 \in 0..used /\ used + 1 - (k - 1) = i + 1 /\ ~(k <= k - 1)
    BY <2>2, <2>3
  <2>5. k - 1 \notin Bad
    BY <2>1, <2>4
  <2>6. F[used + 1 - (k - 1)] = g[used + 1 - (k - 1)]
    BY <2>4, <2>5
  <2>7. F[i + 1] = g[i + 1]
    BY <2>4, <2>6
  <2> HIDE DEF i
  <2>8. /\ F[i] = (b[i] % Radix) + Radix * F[i + 1]
        /\ g[i] = (b[i] % Radix) + Radix * g[i + 1]
    BY <1>1, <1>2, <2>2, <2>3
  <2> QED  BY <2>2, <2>7, <2>8
<1>4. used \in 0..used /\ used + 1 - used = 1
  OBVIOUS
<1>5. F[1] = g[1]
  BY <1>3, <1>4
<1> QED  BY <1>5 DEF Value, F

LEMMA ValueOfNothing ==
    ASSUME NEW b \in Seq(Nat), NEW n \in Int, n < 1
    PROVE  Value(b, n) = 0
<1> DEFINE g == [i \in 1..(1 + 1) |-> 0]
<1>1. Width(b, n) = 1
  BY WidthOfNothing
<1>2. \A i \in 1..(1 + 1) : i > n
  OBVIOUS
<1>3. g \in [1..(1 + 1) -> Nat] /\ g[1] = 0 /\ \A i \in 1..(1 + 1) : g[i] = 0
  OBVIOUS
<1> HIDE DEF g
<1>4. Reads(b, n, 1, g)
  BY <1>2, <1>3 DEF Reads
<1>5. 1 \in Nat /\ 1 >= 1 /\ 1 = Width(b, n)
  BY <1>1
<1>6. Value(b, n) = g[1]
  BY <1>3, <1>4, <1>5, ValueIsRead
<1> QED  BY <1>3, <1>6

\* What can be read of the number v when n of its bytes have arrived: no more
\* than v, and v when it is all there.
Readings(v, n) ==
    {g \in [1..(Width(Encode[v], n) + 1) -> Nat] :
        /\ Reads(Encode[v], n, Width(Encode[v], n), g)
        /\ g[1] <= v
        /\ n >= Len(Encode[v]) => g[1] = v}

LEMMA ReadingsOfDigit ==
    ASSUME NEW v \in Nat, v < Radix, NEW n \in Int
    PROVE  Readings(v, n) # {}
<1> DEFINE x == IF 1 > n THEN 0 ELSE v
           g == [i \in 1..(1 + 1) |-> IF i = 1 THEN x ELSE 0]
<1>1. Encode[v] = <<v>> /\ Encode[v] \in Seq(Nat) /\ v % Radix = v /\ Radix \in Nat
  BY EncodeFacts, DigitFacts, RadixAssumption
<1>2. Len(Encode[v]) = 1 /\ Encode[v][1] = v
  BY <1>1
<1>3. Width(Encode[v], n) = 1
  <2>1. 1 \in 1..Len(Encode[v]) /\ Encode[v][1] < Radix
        /\ \A j \in 1..(1 - 1) : Encode[v][j] >= Radix
    BY <1>1, <1>2
  <2>2. Width(Encode[v], n) = IF n >= 1 THEN 1 ELSE IF n < 1 THEN 1 ELSE n + 1
    BY <1>1, <2>1, WidthOfNumber
  <2> QED  BY <2>2
<1>4. /\ g \in [1..(1 + 1) -> Nat] /\ g[1] = x /\ g[2] = 0
      /\ x <= v /\ (n >= 1 => x = v)
  OBVIOUS
<1> HIDE DEF g
<1>5. Reads(Encode[v], n, 1, g)
  <2> SUFFICES ASSUME NEW i \in 1..(1 + 1)
               PROVE  g[i] = IF i > 1 \/ i > n THEN 0
                             ELSE (Encode[v][i] % Radix) + Radix * g[i + 1]
    BY DEF Reads
  <2>1. CASE i = 1
    <3>1. (Encode[v][1] % Radix) + Radix * g[1 + 1] = v
      BY <1>1, <1>2, <1>4
    <3> QED  BY <1>4, <2>1, <3>1
  <2>2. CASE i = 2
    BY <1>4, <2>2
  <2> QED  BY <2>1, <2>2
<1>6. g \in Readings(v, n)
  BY <1>2, <1>3, <1>4, <1>5 DEF Readings
<1> QED  BY <1>6

LEMMA ReadingsOfLong ==
    ASSUME NEW v \in Nat, v >= Radix, NEW n \in Int,
           \A m \in Int : Readings(v \div Radix, m) # {}
    PROVE  Readings(v, n) # {}
<1> DEFINE u == v \div Radix
           r == v % Radix
           d == Encode[v]
           e == Encode[u]
<1>1. /\ u \in Nat /\ r \in Nat /\ Radix \in Nat /\ v = Radix * u + r
      /\ (Radix + r) % Radix = r
  BY DigitFacts, RadixAssumption
<1>2. /\ Len(d) = Len(e) + 1 /\ Len(e) \in Nat /\ d[1] = Radix + r
      /\ \A i \in 1..Len(e) : d[i + 1] = e[i]
  BY LongNumber
<1>3. Number(d) /\ Number(e)
  BY <1>1, EncodesNumber
<1> HIDE DEF u, r, d, e
<1> DEFINE L == Len(d)
<1>4. Width(d, n) = IF n >= L THEN L ELSE IF n < 1 THEN 1 ELSE n + 1
  <2>1. d \in Seq(Nat) /\ L \in 1..L /\ d[L] < Radix
        /\ \A j \in 1..(L - 1) : d[j] >= Radix
    BY <1>3 DEF Number
  <2> QED  BY <2>1, WidthOfNumber
<1>5. Width(e, n - 1) = IF n - 1 >= L - 1 THEN L - 1
                        ELSE IF n - 1 < 1 THEN 1 ELSE (n - 1) + 1
  <2>1. e \in Seq(Nat) /\ L - 1 \in 1..Len(e) /\ e[L - 1] < Radix
        /\ \A j \in 1..((L - 1) - 1) : e[j] >= Radix
    <3>1. L - 1 = Len(e)
      BY <1>2
    <3> QED  BY <1>3, <3>1 DEF Number
  <2>2. n - 1 \in Int
    OBVIOUS
  <2> HIDE DEF L
  <2> QED  BY <2>1, <2>2, WidthOfNumber
<1>6. L \in Nat /\ L >= 2
  BY <1>2, <1>3 DEF Number
<1> HIDE DEF L
<1>7. CASE n < 1
  <2> DEFINE g == [i \in 1..(1 + 1) |-> 0]
  <2>1. Width(d, n) = 1 /\ ~(n >= L) /\ v >= 0
    BY <1>4, <1>6, <1>7
  <2>2. g \in [1..(1 + 1) -> Nat] /\ g[1] = 0 /\ \A i \in 1..(1 + 1) : g[i] = 0 /\ i > n
    BY <1>7
  <2> HIDE DEF g
  <2>3. Reads(d, n, 1, g)
    BY <2>2 DEF Reads
  <2>4. g \in Readings(v, n)
    BY <2>1, <2>2, <2>3 DEF Readings, d, L
  <2> QED  BY <2>4
<1>8. CASE n >= 1
  <2> DEFINE W == Width(d, n)
             X == Width(e, n - 1)
  <2>1. W = X + 1 /\ X \in Nat /\ X >= 1 /\ X <= Len(e)
    BY <1>2, <1>4, <1>5, <1>6, <1>8 DEF L
  <2>2. PICK h \in Readings(u, n - 1) : TRUE
    BY DEF u
  <2>3. /\ h \in [1..(X + 1) -> Nat]
        /\ \A i \in 1..(X + 1) :
              h[i] = IF i > X \/ i > n - 1 THEN 0 ELSE (e[i] % Radix) + Radix * h[i + 1]
        /\ h[1] <= u
        /\ n - 1 >= Len(e) => h[1] = u
    BY <2>2 DEF Readings, Reads, e
  <2> HIDE DEF W, X
  <2> DEFINE x == r + Radix * h[1]
             g == [i \in 1..(W + 1) |-> IF i = 1 THEN x ELSE h[i - 1]]
  <2>4. h[1] \in Nat /\ x \in Nat
    <3>1. 1 \in 1..(X + 1)
      BY <2>1
    <3>2. h[1] \in Nat
      BY <2>3, <3>1
    <3> QED  BY <1>1, <3>2
  <2>5. x <= v /\ (h[1] = u => x = v)
    <3> DEFINE k == u - h[1]
    <3>0. h[1] <= u /\ h[1] \in Nat /\ u \in Nat
      BY <1>1, <2>3, <2>4
    <3>1. k \in Nat /\ u = h[1] + k /\ (h[1] = u => k = 0)
      BY <3>0
    <3> HIDE DEF k
    <3>2. Radix * u = Radix * h[1] + Radix * k /\ Radix * k >= 0
      BY <1>1, <2>4, <3>1
    <3> QED  BY <1>1, <2>4, <3>1, <3>2
  <2> HIDE DEF x
  <2>6. g \in [1..(W + 1) -> Nat]
    <3>1. ASSUME NEW i \in 1..(W + 1), i # 1
          PROVE  h[i - 1] \in Nat
      <4>1. i - 1 \in 1..(X + 1)
        BY <2>1, <3>1
      <4> QED  BY <2>3, <4>1
    <3> QED  BY <2>4, <3>1
  <2>7. g[1] = x /\ \A i \in 2..(W + 1) : g[i] = h[i - 1]
    BY <2>1
  <2> HIDE DEF g
  <2>8. Reads(d, n, W, g)
    <3> SUFFICES ASSUME NEW i \in 1..(W + 1)
                 PROVE  g[i] = IF i > W \/ i > n THEN 0
                               ELSE (d[i] % Radix) + Radix * g[i + 1]
      BY DEF Reads
    <3>1. CASE i = 1
      <4>1. ~(1 > W \/ 1 > n)
        BY <1>8, <2>1
      <4>2. g[1 + 1] = h[1]
        <5>1. 2 \in 2..(W + 1)
          BY <2>1
        <5>2. g[2] = h[2 - 1]
          BY <2>7, <5>1
        <5> QED  BY <5>2
      <4>3. d[1] % Radix = r
        BY <1>1, <1>2
      <4> QED  BY <2>7, <3>1, <4>1, <4>2, <4>3 DEF x
    <3>2. CASE i # 1
      <4> DEFINE j == i - 1
      <4>1. j \in 1..(X + 1) /\ i = j + 1 /\ i \in 2..(W + 1)
        BY <2>1, <3>2
      <4> HIDE DEF j
      <4>2. g[i] = h[j]
        <5>1. i - 1 = j
          BY <4>1
        <5> QED  BY <2>7, <4>1, <5>1
      <4>3. (i > W \/ i > n) <=> (j > X \/ j > n - 1)
        BY <2>1, <4>1
      <4>4. CASE j > X \/ j > n - 1
        BY <2>3, <4>1, <4>2, <4>3, <4>4
      <4>5. CASE ~(j > X \/ j > n - 1)
        <5>1. j \in 1..Len(e) /\ i + 1 \in 2..(W + 1) /\ (i + 1) - 1 = j + 1
          BY <1>2, <2>1, <4>1, <4>5
        <5>2. g[i + 1] = h[j + 1]
          BY <2>7, <5>1
        <5>3. d[i] = e[j]
          BY <1>2, <4>1, <5>1
        <5>4. h[j] = (e[j] % Radix) + Radix * h[j + 1]
          BY <2>3, <4>1, <4>5
        <5> QED  BY <4>2, <4>3, <4>5, <5>2, <5>3, <5>4
      <4> QED  BY <4>4, <4>5
    <3> QED  BY <3>1, <3>2
  <2>9. n >= L => g[1] = v
    <3>1. n >= L => n - 1 >= Len(e)
      BY <1>2 DEF L
    <3> QED  BY <2>3, <2>5, <2>7, <3>1
  <2>10. g \in Readings(v, n)
    BY <2>5, <2>6, <2>7, <2>8, <2>9 DEF Readings, W, d, L
  <2> QED  BY <2>10
<1> QED  BY <1>7, <1>8

LEMMA ReadingsExist == \A v \in Nat : \A n \in Int : Readings(v, n) # {}
<1> DEFINE Bad == {v \in Nat : ~(\A n \in Int : Readings(v, n) # {})}
<1>1. ASSUME Bad # {}
      PROVE  FALSE
  <2>1. PICK v \in Bad : \A u \in Bad : v <= u
    <3>1. Bad \in SUBSET Nat
      OBVIOUS
    <3> HIDE DEF Bad
    <3> QED  BY <1>1, <3>1, LeastNatural
  <2>2. v \in Nat /\ ~(\A n \in Int : Readings(v, n) # {})
    BY <2>1
  <2>3. v >= Radix
    BY <2>2, ReadingsOfDigit, RadixAssumption
  <2>4. v \div Radix \in Nat /\ v \div Radix < v
    BY <2>2, <2>3, DigitFacts
  <2>5. \A n \in Int : Readings(v \div Radix, n) # {}
    BY <2>1, <2>2, <2>4
  <2> QED  BY <2>2, <2>3, <2>5, ReadingsOfLong
<1> QED  BY <1>1

\* get_uleb128 returns the number that reply_uleb128, or a client, wrote; of one cut
\* off by TCP it returns no more than that (dpc/src/xvcserver.c:142-180).
THEOREM ValueOfNumber ==
    ASSUME NEW v \in Nat, NEW n \in Int
    PROVE  /\ Value(Encode[v], n) \in 0..v
           /\ n >= Len(Encode[v]) => Value(Encode[v], n) = v
<1> DEFINE d == Encode[v]
           W == Width(d, n)
<1>1. PICK g \in Readings(v, n) : TRUE
  BY ReadingsExist
<1>2. /\ g \in [1..(W + 1) -> Nat] /\ Reads(d, n, W, g)
      /\ g[1] <= v /\ (n >= Len(d) => g[1] = v)
  BY <1>1 DEF Readings
<1>3. W \in Nat /\ W >= 1
  <2>1. d \in Seq(Nat) /\ Len(d) \in 1..Len(d) /\ d[Len(d)] < Radix
        /\ \A j \in 1..(Len(d) - 1) : d[j] >= Radix /\ Len(d) \in Nat
    BY EncodesNumber DEF Number
  <2>2. W = IF n >= Len(d) THEN Len(d) ELSE IF n < 1 THEN 1 ELSE n + 1
    BY <2>1, WidthOfNumber
  <2> HIDE DEF d, W
  <2> QED  BY <2>1, <2>2
<1> HIDE DEF d, W
<1>4. Value(d, n) = g[1]
  BY <1>2, <1>3, ValueIsRead DEF W
<1>5. g[1] \in Nat
  <2>1. 1 \in 1..(W + 1)
    BY <1>3
  <2> QED  BY <1>2, <2>1
<1>6. g[1] \in 0..v
  BY <1>2, <1>5
<1> QED  BY <1>2, <1>4, <1>6 DEF d

-----------------------------------------------------------------------------
(* The length of a message *)

LEMMA FlattenOne ==
    ASSUME NEW a \in Seq(Nat), NEW s, s = <<a>>
    PROVE  FlattenSeq(s) = a
<1> DEFINE F == CHOOSE f : f = [i \in 1..Len(s) |->
                                  IF i = 1 THEN s[i] ELSE f[i - 1] \o s[i]]
           g == [i \in 1..1 |-> a]
<1>1. Len(s) = 1 /\ s[1] = a
  OBVIOUS
<1>2. g = [i \in 1..Len(s) |-> IF i = 1 THEN s[i] ELSE g[i - 1] \o s[i]]
  BY <1>1
<1>3. F = [i \in 1..Len(s) |-> IF i = 1 THEN s[i] ELSE F[i - 1] \o s[i]]
  BY <1>2
<1> HIDE DEF F
<1>4. F[1] = a
  BY <1>1, <1>3
<1> QED  BY <1>1, <1>4 DEF FlattenSeq, F

LEMMA FlattenTwo ==
    ASSUME NEW a \in Seq(Nat), NEW b \in Seq(Nat), NEW s, s = <<a, b>>
    PROVE  FlattenSeq(s) = a \o b
<1> DEFINE F == CHOOSE f : f = [i \in 1..Len(s) |->
                                  IF i = 1 THEN s[i] ELSE f[i - 1] \o s[i]]
           g == [i \in 1..2 |-> IF i = 1 THEN a ELSE a \o b]
<1>1. Len(s) = 2 /\ s[1] = a /\ s[2] = b
  OBVIOUS
<1>2. g = [i \in 1..Len(s) |-> IF i = 1 THEN s[i] ELSE g[i - 1] \o s[i]]
  <2> DEFINE h == [i \in 1..2 |-> IF i = 1 THEN s[i] ELSE g[i - 1] \o s[i]]
  <2>1. g[1] = a /\ 2 - 1 = 1 /\ 1 \in 1..2 /\ 2 \in 1..2 /\ 2 # 1
    OBVIOUS
  <2>2. ASSUME NEW i \in 1..2
        PROVE  (IF i = 1 THEN a ELSE a \o b) = IF i = 1 THEN s[i] ELSE g[i - 1] \o s[i]
    <3>1. i = 1 \/ i = 2
      OBVIOUS
    <3> HIDE DEF g
    <3> QED  BY <1>1, <2>1, <3>1
  <2>3. g = h
    BY <2>2, Zenon
  <2> QED  BY <1>1, <2>3, Zenon
<1>3. F = [i \in 1..Len(s) |-> IF i = 1 THEN s[i] ELSE F[i - 1] \o s[i]]
  BY <1>2, Zenon
<1> HIDE DEF F
<1>4. 1 \in 1..2 /\ 2 \in 1..2 /\ 2 - 1 = 1 /\ 2 # 1
  OBVIOUS
<1>5. F = [i \in 1..2 |-> IF i = 1 THEN s[i] ELSE F[i - 1] \o s[i]]
  BY <1>1, <1>3
<1>6. F[1] = s[1]
  BY <1>4, <1>5
<1>7. F[2] = F[2 - 1] \o s[2]
  BY <1>4, <1>5
<1>8. F[2] = a \o b
  BY <1>1, <1>4, <1>6, <1>7
<1>9. FlattenSeq(s) = F[Len(s)]
  BY <1>1 DEF FlattenSeq, F
<1> QED  BY <1>1, <1>8, <1>9

\* The digits of a request are those of its numbers.
LEMMA DigitsOf ==
    ASSUME NEW r \in Requests
    PROVE  /\ r.cmd \in Commands /\ r.name \in Nat /\ r.name > 0 /\ r.body \in Nat
           /\ r.cmd \in {"configure", "edpc"} =>
                 /\ r.nums[1] \in Nat /\ Digits[r] = Encode[r.nums[1]]
           /\ r.cmd = "configure" => r.body = r.nums[1]
           /\ r.cmd = "edpc" => r.body = 0
           /\ r.cmd = "idpc" =>
                 /\ r.nums[1] \in Nat /\ r.nums[2] \in Nat
                 /\ Digits[r] = Encode[r.nums[1]] \o Encode[r.nums[2]]
                 /\ r.body = r.nums[2] * WordBytes
           /\ r.cmd \notin {"configure", "edpc", "idpc"} =>
                 Digits[r] = <<>> /\ r.body = 0
<1> DEFINE s == [i \in DOMAIN r.nums |-> Encode[r.nums[i]]]
<1>1. /\ r.cmd \in Commands /\ r.name \in Nat /\ r.name > 0 /\ r.body \in Nat
      /\ r.nums \in Seq(Nat)
      /\ Len(r.nums) = (CASE r.cmd \in {"configure", "edpc"} -> 1
                          [] r.cmd = "idpc" -> 2
                          [] OTHER -> 0)
      /\ r.body = (CASE r.cmd = "configure" -> r.nums[1]
                     [] r.cmd = "idpc" -> r.nums[2] * WordBytes
                     [] OTHER -> 0)
  BY DpcServerAssumption DEF RequestType
<1>2. Digits[r] = FlattenSeq(s)
  BY DEF Digits
<1>3. DOMAIN r.nums = 1..Len(r.nums) /\ \A i \in 1..Len(r.nums) : r.nums[i] \in Nat
  BY <1>1
<1>4. CASE r.cmd \in {"configure", "edpc"}
  <2>1. Len(r.nums) = 1 /\ r.nums[1] \in Nat
    BY <1>1, <1>3, <1>4
  <2>2. s = <<Encode[r.nums[1]]>>
    BY <1>3, <2>1
  <2>3. Encode[r.nums[1]] \in Seq(Nat)
    BY <2>1, EncodeFacts
  <2> HIDE DEF s
  <2>4. FlattenSeq(s) = Encode[r.nums[1]]
    BY <2>2, <2>3, FlattenOne
  <2> QED  BY <1>1, <1>2, <1>4, <2>1, <2>4
<1>5. CASE r.cmd = "idpc"
  <2>1. Len(r.nums) = 2 /\ r.nums[1] \in Nat /\ r.nums[2] \in Nat
    BY <1>1, <1>3, <1>5
  <2>2. s = <<Encode[r.nums[1]], Encode[r.nums[2]]>>
    BY <1>3, <2>1
  <2>3. Encode[r.nums[1]] \in Seq(Nat) /\ Encode[r.nums[2]] \in Seq(Nat)
    BY <2>1, EncodeFacts
  <2> HIDE DEF s
  <2>4. FlattenSeq(s) = Encode[r.nums[1]] \o Encode[r.nums[2]]
    BY <2>2, <2>3, FlattenTwo
  <2> QED  BY <1>1, <1>2, <1>5, <2>1, <2>4
<1>6. CASE r.cmd \notin {"configure", "edpc", "idpc"}
  <2>1. Len(r.nums) = 0
    BY <1>1, <1>6
  <2>2. s = <<>> /\ Len(s) = 0
    BY <1>3, <2>1
  <2>3. FlattenSeq(s) = <<>>
    BY <2>2 DEF FlattenSeq
  <2> QED  BY <1>1, <1>2, <1>6, <2>3
<1> QED  BY <1>1, <1>4, <1>5, <1>6

LEMMA BytesType == \A r \in Requests : Bytes(r) \in Nat /\ Bytes(r) > 0
<1> SUFFICES ASSUME NEW r \in Requests PROVE Bytes(r) \in Nat /\ Bytes(r) > 0
  OBVIOUS
<1>1. r.cmd \in Commands /\ r.name \in Nat /\ r.name > 0 /\ r.body \in Nat
  BY DigitsOf
<1>2. Digits[r] \in Seq(Nat)
  <2>1. CASE r.cmd \in {"configure", "edpc"}
    BY <2>1, DigitsOf, EncodeFacts
  <2>2. CASE r.cmd = "idpc"
    <3>1. /\ Encode[r.nums[1]] \in Seq(Nat) /\ Encode[r.nums[2]] \in Seq(Nat)
          /\ Digits[r] = Encode[r.nums[1]] \o Encode[r.nums[2]]
      BY <2>2, DigitsOf, EncodeFacts
    <3> QED  BY <3>1
  <2>3. CASE r.cmd \notin {"configure", "edpc", "idpc"}
    <3>1. <<>> \in Seq(Nat)
      OBVIOUS
    <3> QED  BY <2>3, <3>1, DigitsOf
  <2> QED  BY <2>1, <2>2, <2>3
<1>3. Len(Digits[r]) \in Nat
  BY <1>2
<1> DEFINE L == Len(Digits[r])
<1>4. Bytes(r) = r.name + L + r.body /\ L \in Nat
  BY <1>3, Zenon DEF Bytes
<1> HIDE DEF L
<1> QED  BY <1>1, <1>4

\* What the parser makes of one number of which n bytes, or more, have arrived.
LEMMA NumberFacts ==
    ASSUME NEW v \in Nat, NEW n \in Int
    PROVE  LET d == Encode[v]
               L == Len(d)
           IN  /\ d \in Seq(Nat) /\ L \in Nat /\ L >= 1
               /\ n >= L => Width(d, n) = L /\ Value(d, n) = v
               /\ n < L => Width(d, n) = (IF n < 1 THEN 1 ELSE n + 1)
               /\ Value(d, n) \in Nat /\ Value(d, n) <= v
<1> DEFINE d == Encode[v]
           L == Len(d)
<1>1. Number(d)
  BY EncodesNumber
<1>2. /\ Value(d, n) \in 0..v
      /\ n >= L => Value(d, n) = v
  BY ValueOfNumber
<1> HIDE DEF d
<1>3. Width(d, n) = IF n >= L THEN L ELSE IF n < 1 THEN 1 ELSE n + 1
  <2>1. d \in Seq(Nat) /\ L \in 1..L /\ d[L] < Radix
        /\ \A j \in 1..(L - 1) : d[j] >= Radix
    BY <1>1 DEF Number
  <2> QED  BY <2>1, WidthOfNumber
<1>4. d \in Seq(Nat) /\ L \in Nat /\ L >= 1
  BY <1>1 DEF Number
<1> HIDE DEF L
<1>5. n < L => ~(n >= L)
  BY <1>4
<1>6. Value(d, n) \in Nat /\ Value(d, n) <= v
  BY <1>2
<1>7. /\ n >= L => Width(d, n) = L /\ Value(d, n) = v
      /\ n < L => Width(d, n) = (IF n < 1 THEN 1 ELSE n + 1)
  BY <1>2, <1>3, <1>5 DEF L
<1> QED  BY <1>4, <1>6, <1>7 DEF d, L

\* A first number with another behind it.
LEMMA TwoNumbers ==
    ASSUME NEW u \in Nat, NEW v \in Nat, NEW n \in Nat
    PROVE  LET a == Encode[u]
               b == Encode[v]
               d == a \o b
           IN  /\ d \in Seq(Nat) /\ Len(d) = Len(a) + Len(b)
               /\ n >= Len(a) => Width(d, n) = Len(a)
               /\ n < Len(a) => Width(d, n) = n + 1
               /\ SubSeq(d, Len(a) + 1, Len(d)) = b
<1> DEFINE a == Encode[u]
           b == Encode[v]
           d == a \o b
           L == Len(a)
<1>1. Number(a) /\ Number(b)
  BY EncodesNumber
<1> HIDE DEF a, b
<1>2. a \in Seq(Nat) /\ b \in Seq(Nat) /\ L \in Nat /\ L >= 1 /\ Len(b) \in Nat
      /\ a[L] < Radix /\ \A j \in 1..(L - 1) : a[j] >= Radix
  BY <1>1 DEF Number
<1>3. d \in Seq(Nat) /\ Len(d) = L + Len(b)
      /\ (\A j \in 1..L : d[j] = a[j])
      /\ (\A j \in 1..Len(b) : d[L + j] = b[j])
  BY <1>2
<1> HIDE DEF d, L
<1>4. Width(d, n) = IF n >= L THEN L ELSE IF n < 1 THEN 1 ELSE n + 1
  <2>0. L \in 1..L /\ L \in 1..Len(d) /\ \A j \in 1..(L - 1) : j \in 1..L
    BY <1>2, <1>3
  <2>1. L \in 1..Len(d) /\ d[L] < Radix
    BY <1>2, <1>3, <2>0
  <2>2. \A j \in 1..(L - 1) : d[j] >= Radix
    BY <1>2, <1>3, <2>0
  <2>3. n \in Int
    OBVIOUS
  <2> QED  BY <1>3, <2>0, <2>1, <2>2, <2>3, WidthOfNumber
<1>5. SubSeq(d, L + 1, Len(d)) = b
  <2> DEFINE t == SubSeq(d, L + 1, Len(d))
  <2>0. /\ L + 1 \in Int /\ Len(d) \in Int
        /\ \A i \in (L + 1)..Len(d) : d[i] \in Nat
    <3>1. \A i \in 1..Len(d) : d[i] \in Nat
      BY <1>3
    <3>2. \A i \in (L + 1)..Len(d) : i \in 1..Len(d)
      BY <1>2, <1>3
    <3> QED  BY <1>2, <1>3, <3>1, <3>2
  <2>4. /\ t \in Seq(Nat)
        /\ Len(t) = IF L + 1 <= Len(d) THEN Len(d) - (L + 1) + 1 ELSE 0
        /\ \A j \in 1..(Len(d) - (L + 1) + 1) : t[j] = d[(L + 1) + j - 1]
    BY <1>3, <2>0, SubSeqProperties, SMTT(20)
  <2> HIDE DEF t
  <2>1. t \in Seq(Nat) /\ Len(t) = Len(b) /\ \A j \in 1..Len(b) : t[j] = d[L + j]
    <3>1. Len(d) - (L + 1) + 1 = Len(b) /\ \A j \in 1..Len(b) : (L + 1) + j - 1 = L + j
      BY <1>2, <1>3
    <3>2. Len(t) = Len(b)
      BY <1>2, <1>3, <2>4
    <3>3. ASSUME NEW j \in 1..Len(b)
          PROVE  t[j] = d[L + j]
      <4>1. j \in 1..(Len(d) - (L + 1) + 1) /\ (L + 1) + j - 1 = L + j
        BY <3>1
      <4> QED  BY <2>4, <4>1
    <3> QED  BY <2>4, <3>2, <3>3
  <2>2. \A j \in 1..Len(b) : t[j] = b[j]
    BY <1>3, <2>1
  <2>3. t = b
    BY <1>2, <2>1, <2>2, SeqEqual
  <2> QED  BY <2>3 DEF t
<1>6. /\ n >= L => Width(d, n) = L
      /\ n < L => Width(d, n) = n + 1
  BY <1>2, <1>4
<1> QED  BY <1>3, <1>5, <1>6 DEF a, b, d, L

\* As soon as its name has arrived the parser knows of a message at least one
\* byte that is missing, or it knows the whole; it never asks for more than there
\* is.  A number cut off by TCP does not mislead it.
LEMMA ExtentFacts ==
    ASSUME Current \in Requests, Available \in Int, Current.name <= Available
    PROVE  /\ Extent \in Nat /\ Extent > 0
           /\ Bytes(Current) \in Nat /\ Extent <= Bytes(Current)
           /\ Available >= Bytes(Current) => Extent = Bytes(Current)
           /\ Available < Bytes(Current) => Extent > Available
<1> DEFINE m == Current.name
           n == Available - m
           D == Digits[Current]
<1>1. m \in Nat /\ m > 0 /\ Current.body \in Nat /\ Current.cmd \in Commands
  BY DigitsOf
<1>2. n \in Nat /\ n \in Int /\ Available = m + n
  BY <1>1
<1>3. Bytes(Current) = m + Len(D) + Current.body
  BY DEF Bytes
<1> HIDE DEF m, n, D
<1>4. CASE Current.cmd = "edpc"
  <2> DEFINE v == Current.nums[1]
             L == Len(D)
             W == Width(D, n)
  <2>1. v \in Nat /\ D = Encode[v] /\ Current.body = 0
    BY <1>4, DigitsOf DEF D
  <2>2. L \in Nat /\ L >= 1 /\ (n >= L => W = L)
        /\ (n < L => W = (IF n < 1 THEN 1 ELSE n + 1))
    BY <1>2, <2>1, NumberFacts
  <2>3. Extent = m + W /\ Bytes(Current) = m + L + 0
    BY <1>3, <1>4, <2>1 DEF Extent, FirstWidth, m, n, D
  <2> HIDE DEF v, L, W
  <2> QED  BY <1>1, <1>2, <2>2, <2>3
<1>5. CASE Current.cmd = "configure"
  <2> DEFINE v == Current.nums[1]
             L == Len(D)
             W == Width(D, n)
             x == Value(D, n)
  <2>1. v \in Nat /\ D = Encode[v] /\ Current.body = v
    BY <1>5, DigitsOf DEF D
  <2>2. L \in Nat /\ L >= 1 /\ (n >= L => W = L /\ x = v)
        /\ (n < L => W = (IF n < 1 THEN 1 ELSE n + 1))
        /\ x \in Nat /\ x <= v
    BY <1>2, <2>1, NumberFacts
  <2>3. Extent = m + (W + x) /\ Bytes(Current) = m + L + v
    BY <1>3, <1>5, <2>1 DEF Extent, FirstWidth, m, n, D
  <2> HIDE DEF L, W, x, v
  <2> QED  BY <1>1, <1>2, <2>1, <2>2, <2>3
<1>6. CASE Current.cmd = "idpc"
  <2> DEFINE u == Current.nums[1]
             v == Current.nums[2]
             a == Encode[u]
             b == Encode[v]
             K == Len(a)
             L == Len(b)
             W == Width(D, n)
             k == n - K
  <2>1. u \in Nat /\ v \in Nat /\ D = a \o b /\ Current.body = v * WordBytes
    BY <1>6, DigitsOf DEF D
  <2>2. /\ D \in Seq(Nat) /\ Len(D) = K + L
        /\ n >= K => W = K
        /\ n < K => W = n + 1
        /\ SubSeq(D, K + 1, Len(D)) = b
    <3> DEFINE Two(p, q) ==
                 /\ p \o q \in Seq(Nat) /\ Len(p \o q) = Len(p) + Len(q)
                 /\ n >= Len(p) => Width(p \o q, n) = Len(p)
                 /\ n < Len(p) => Width(p \o q, n) = n + 1
                 /\ SubSeq(p \o q, Len(p) + 1, Len(p \o q)) = q
    <3>0. \A i, j \in Nat : Two(Encode[i], Encode[j])
      BY <1>2, TwoNumbers
    <3>1. Two(a, b)
      <4> HIDE DEF Two
      <4> QED  BY <2>1, <3>0
    <3> HIDE DEF a, b
    <3> QED  BY <2>1, <3>1, Zenon
  <2>3. K \in Nat /\ K >= 1 /\ L \in Nat /\ L >= 1 /\ b \in Seq(Nat)
    BY <2>1, NumberFacts
  <2>4. /\ FirstWidth = W
        /\ SecondDigits = SubSeq(D, W + 1, Len(D))
        /\ SecondArrived = n - W
        /\ NumWords = Value(SecondDigits, SecondArrived)
        /\ Extent = m + (W + Width(SecondDigits, SecondArrived) + NumWords * WordBytes)
    BY <1>6 DEF FirstWidth, SecondDigits, SecondArrived, NumWords, Extent, m, n, D
  <2>5. Bytes(Current) = m + (K + L) + v * WordBytes
    BY <1>3, <2>1, <2>2
  <2> HIDE DEF W, K, L, k, u, v, a, b
  <2>6. WordBytes \in Nat /\ v * WordBytes \in Nat
    <3>1. WordBytes \in Nat
      BY DpcServerAssumption
    <3> QED  BY <2>1, <3>1
  <2>7. CASE n < K
    <3>1. W = n + 1 /\ SecondArrived = -1 /\ -1 \in Int /\ -1 < 1
      BY <1>2, <2>2, <2>4, <2>7
    <3>2. SecondDigits \in Seq(Nat)
      <4>1. W \in Nat /\ W + 1 \in Int /\ Len(D) \in Int
        BY <1>2, <2>2, <2>3, <3>1
      <4>2. \A i \in (W + 1)..Len(D) : i \in 1..Len(D)
        BY <4>1
      <4>3. \A i \in (W + 1)..Len(D) : D[i] \in Nat
        BY <2>2, <4>2
      <4> QED  BY <2>2, <2>4, <4>1, <4>3, SubSeqProperties
    <3>3. Width(SecondDigits, SecondArrived) = 1 /\ NumWords = 0
      BY <2>4, <3>1, <3>2, WidthOfNothing, ValueOfNothing
    <3>4. Extent = m + (n + 1 + 1 + 0 * WordBytes)
      BY <2>4, <3>1, <3>3
    <3>5. 0 * WordBytes = 0
      BY <2>6
    <3> QED  BY <1>1, <1>2, <2>3, <2>5, <2>6, <2>7, <3>4, <3>5
  <2>8. CASE n >= K
    <3> DEFINE X == Width(b, k)
               x == Value(b, k)
    <3>1. W = K /\ SecondArrived = k /\ SecondDigits = b /\ k \in Nat /\ k \in Int
          /\ NumWords = x
      <4>1. W = K /\ SecondArrived = k
        BY <2>2, <2>4, <2>8 DEF k
      <4>2. SecondDigits = b
        BY <2>2, <2>4, <4>1
      <4>3. k \in Nat /\ k \in Int
        BY <1>2, <2>3, <2>8 DEF k
      <4> QED  BY <2>4, <4>1, <4>2, <4>3
    <3>2. /\ k >= L => X = L /\ x = v
          /\ k < L => X = (IF k < 1 THEN 1 ELSE k + 1)
          /\ x \in Nat /\ x <= v
      BY <2>1, <3>1, NumberFacts DEF b, L
    <3>3. Extent = m + (K + X + x * WordBytes) /\ k = n - K
      BY <2>4, <3>1 DEF k
    <3> HIDE DEF X, x
    <3>4. x * WordBytes \in Nat /\ x * WordBytes <= v * WordBytes
      <4> DEFINE y == v - x
      <4>1. y \in Nat /\ v = x + y
        BY <2>1, <3>2
      <4> HIDE DEF y
      <4>2. v * WordBytes = x * WordBytes + y * WordBytes /\ y * WordBytes \in Nat
            /\ x * WordBytes \in Nat
        BY <2>6, <3>2, <4>1
      <4> QED  BY <4>2
    <3>5. k >= L => x * WordBytes = v * WordBytes
      BY <3>2
    <3> DEFINE p == x * WordBytes
               q == v * WordBytes
    <3>6. p \in Nat /\ q \in Nat /\ p <= q /\ (k >= L => p = q)
          /\ Extent = m + (K + X + p) /\ Bytes(Current) = m + (K + L) + q
      BY <2>5, <2>6, <3>3, <3>4, <3>5
    <3>7. /\ k \in Nat /\ k = n - K
          /\ k >= L => X = L
          /\ k < L => X = k + 1
      BY <3>1, <3>2, <3>3
    <3> HIDE DEF p, q
    <3>8. /\ m \in Nat /\ m > 0 /\ n \in Nat /\ Available = m + n
          /\ K \in Nat /\ K >= 1 /\ L \in Nat /\ L >= 1
      BY <1>1, <1>2, <2>3
    <3>9. CASE k >= L
      BY <3>6, <3>7, <3>8, <3>9
    <3>10. CASE k < L
      BY <3>6, <3>7, <3>8, <3>10
    <3> QED  BY <3>7, <3>8, <3>9, <3>10
  <2> QED  BY <1>2, <2>3, <2>7, <2>8
<1>7. CASE Current.cmd \notin {"configure", "edpc", "idpc"}
  <2>0. D = <<>> /\ Current.body = 0
    BY <1>7, DigitsOf DEF D
  <2>1. Len(D) = 0 /\ Current.body = 0
    BY <2>0
  <2>2. Extent = m + 0 /\ Bytes(Current) = m + 0 + 0
    BY <1>3, <1>7, <2>1 DEF Extent, m
  <2> QED  BY <1>1, <1>2, <2>2
<1> QED  BY <1>4, <1>5, <1>6, <1>7

-----------------------------------------------------------------------------
(* The state between two steps *)

Stages == Starting \cup Serving \cup {"accept", "returned", "exited", "aborted"}
Statuses == {"none", "ok", "err"}
Pairs == Nat \X Nat
Answers == [cmd : Commands, ran : BOOLEAN, status : Statuses, response : Seq(Pairs)]

LinkType == taken \in Nat /\ queue \in Seq(Pairs) /\ got \in Seq(Pairs)

\* The types of everything a connection works on, and that a batch is empty until
\* the parser has moved on, as it is when the server waits for more.
TypeInv ==
    /\ stage \in Stages
    /\ stream \in Seq(Requests) /\ parsed \in Nat /\ parsed <= Len(stream)
    /\ wire \in Nat /\ buf_len \in Nat /\ cbuf \in Nat /\ cbuf <= buf_len
    /\ reply_buf \in Seq(Answers) /\ delivered \in Seq(Answers)
    /\ pending_error \in BOOLEAN
    /\ LinkType
    /\ before \in [taken : Nat, got : Nat]
    /\ cbuf = 0 => parsed = 0 /\ reply_buf = <<>>
    /\ stage = "recv" => cbuf = 0

\* What a branch of the parser may answer the current request with, and what the
\* packet or response it is about does to the channel.
QueryKind(ran, status, response, e) ==
    /\ Current.cmd \in {"getinfo", "capabilities"}
    /\ ran = FALSE /\ status = "none" /\ response = <<>> /\ e = pending_error
    /\ UNCHANGED link
ErrorKind(ran, status, response, e) ==
    /\ Current.cmd = "error"
    /\ ran = FALSE /\ status = "none" /\ response = <<>> /\ e = FALSE
    /\ UNCHANGED link
ConfigureKind(ran, status, response, e) ==
    /\ Current.cmd = "configure"
    /\ ran = FALSE /\ status = StatusOf(e) /\ response = <<>>
    /\ pending_error => e
    /\ UNCHANGED link
EdpcKind(ran, status, response, e) ==
    /\ Current.cmd = "edpc"
    /\ ran = ~pending_error /\ status = StatusOf(e) /\ e = pending_error
    /\ \/ UNCHANGED link /\ response = <<>>
       \/ Link!Get /\ response = <<Head(queue)>>
IdpcKind(ran, status, response, e) ==
    /\ Current.cmd = "idpc"
    /\ ran = ~pending_error /\ status = StatusOf(e) /\ response = <<>>
    /\ pending_error => e
    /\ IF e THEN UNCHANGED link ELSE Link!Put
Kind(ran, status, response, e) ==
    \/ QueryKind(ran, status, response, e)
    \/ ErrorKind(ran, status, response, e)
    \/ ConfigureKind(ran, status, response, e)
    \/ EdpcKind(ran, status, response, e)
    \/ IdpcKind(ran, status, response, e)

AnswerWith(ran, status, response, e) ==
    /\ stage = "scan" /\ NameArrived /\ Complete
    /\ Answer(ran, status, response, e)
    /\ Kind(ran, status, response, e)
AnswerStep ==
    \E ran \in BOOLEAN, status \in Statuses, response \in Seq(Pairs), e \in BOOLEAN :
        AnswerWith(ran, status, response, e)
Answering == ParseQuery \/ ParseConfigure \/ ParseError \/ ParseEdpc \/ ParseIdpc

LEMMA StatusFacts == StatusOf(TRUE) = "err" /\ StatusOf(FALSE) = "ok"
BY DEF StatusOf

LEMMA EmptySeqs ==
    /\ <<>> \in Seq(Requests) /\ <<>> \in Seq(Answers) /\ <<>> \in Seq(Pairs)
    /\ Len(<<>>) = 0
OBVIOUS

\* Each branch of the parser that answers is one of these.
LEMMA AnswersAreAnswerSteps == TypeInv /\ Answering => AnswerStep
<1> SUFFICES ASSUME TypeInv, Answering PROVE AnswerStep
  OBVIOUS
<1>0. pending_error \in BOOLEAN /\ queue \in Seq(Pairs) /\ <<>> \in Seq(Pairs)
      /\ TRUE \in BOOLEAN /\ FALSE \in BOOLEAN
      /\ "none" \in Statuses /\ \A e \in BOOLEAN : StatusOf(e) \in Statuses
  BY EmptySeqs DEF TypeInv, LinkType, StatusOf, Statuses
<1>1. CASE ParseQuery
  <2>1. AnswerWith(FALSE, "none", <<>>, pending_error)
    BY <1>1 DEF ParseQuery, Ready, AnswerWith, Kind, QueryKind
  <2> QED  BY <1>0, <2>1 DEF AnswerStep
<1>2. CASE ParseError
  <2>1. AnswerWith(FALSE, "none", <<>>, FALSE)
    BY <1>2 DEF ParseError, Ready, AnswerWith, Kind, ErrorKind
  <2> QED  BY <1>0, <2>1 DEF AnswerStep
<1>3. CASE ParseConfigure
  <2> DEFINE e == pending_error \/ Current.bad
  <2>1. /\ stage = "scan" /\ NameArrived /\ Complete /\ Current.cmd = "configure"
        /\ Answer(FALSE, StatusOf(e), <<>>, e) /\ UNCHANGED link
    BY <1>3 DEF ParseConfigure, Ready
  <2>2. e \in BOOLEAN /\ (pending_error => e)
    BY <1>0
  <2> HIDE DEF e
  <2>3. AnswerWith(FALSE, StatusOf(e), <<>>, e)
    BY <2>1, <2>2 DEF AnswerWith, Kind, ConfigureKind
  <2> QED  BY <1>0, <2>2, <2>3 DEF AnswerStep
<1>4. CASE ParseEdpc
  <2>1. stage = "scan" /\ NameArrived /\ Complete /\ Current.cmd = "edpc"
    BY <1>4 DEF ParseEdpc, Ready
  <2>2. CASE MayCall
    <3>1. pending_error = FALSE
      BY <1>0, <2>2 DEF MayCall
    <3>2. PICK response \in {<<>>} \cup {<<q>> : q \in ToSet(queue)} :
              /\ Edpc(response)
              /\ Answer(TRUE, StatusOf(FALSE), response, FALSE)
      BY <1>4, <2>2, <3>1 DEF ParseEdpc
    <3>3. response \in Seq(Pairs)
      <4>1. \A q \in ToSet(queue) : q \in Pairs
        BY <1>0 DEF ToSet
      <4>2. \A q \in Pairs : <<q>> \in Seq(Pairs)
        OBVIOUS
      <4> QED  BY <1>0, <3>2, <4>1, <4>2
    <3>4. EdpcKind(TRUE, StatusOf(FALSE), response, FALSE)
      BY <2>1, <3>1, <3>2 DEF EdpcKind, Edpc
    <3>5. AnswerWith(TRUE, StatusOf(FALSE), response, FALSE)
      BY <2>1, <3>2, <3>4 DEF AnswerWith, Kind
    <3> QED  BY <1>0, <3>3, <3>5 DEF AnswerStep
  <2>3. CASE ~MayCall
    <3>1. pending_error = TRUE
      BY <1>0, <2>3 DEF MayCall
    <3>2. AnswerWith(FALSE, StatusOf(TRUE), <<>>, TRUE)
      BY <1>4, <2>1, <2>3, <3>1 DEF ParseEdpc, AnswerWith, Kind, EdpcKind
    <3> QED  BY <1>0, <3>2 DEF AnswerStep
  <2> QED  BY <2>2, <2>3
<1>5. CASE ParseIdpc
  <2>1. stage = "scan" /\ NameArrived /\ Complete /\ Current.cmd = "idpc"
    BY <1>5 DEF ParseIdpc, Ready
  <2>2. CASE MayCall
    <3>1. pending_error = FALSE
      BY <1>0, <2>2 DEF MayCall
    <3>2. PICK error \in BOOLEAN :
              Idpc(error) /\ Answer(TRUE, StatusOf(error), <<>>, error)
      BY <1>5, <2>2, <3>1 DEF ParseIdpc
    <3>3. IdpcKind(TRUE, StatusOf(error), <<>>, error)
      BY <2>1, <3>1, <3>2 DEF IdpcKind, Idpc
    <3>4. AnswerWith(TRUE, StatusOf(error), <<>>, error)
      BY <2>1, <3>2, <3>3 DEF AnswerWith, Kind
    <3> QED  BY <1>0, <3>4 DEF AnswerStep
  <2>3. CASE ~MayCall
    <3>1. pending_error = TRUE
      BY <1>0, <2>3 DEF MayCall
    <3>2. AnswerWith(FALSE, StatusOf(TRUE), <<>>, TRUE)
      BY <1>5, <2>1, <2>3, <3>1 DEF ParseIdpc, AnswerWith, Kind, IdpcKind
    <3> QED  BY <1>0, <3>2 DEF AnswerStep
  <2> QED  BY <2>2, <2>3
<1> QED  BY <1>1, <1>2, <1>3, <1>4, <1>5 DEF Answering

\* What is left of the channel's queue when some responses are lost.
Lefts(q, stays, n) ==
    {f \in [0..n -> Seq(Pairs)] :
        \A i \in 0..n : f[i] = IF i = 0 THEN <<>>
                               ELSE IF stays[i] THEN Append(f[i - 1], q[i])
                               ELSE f[i - 1]}

LEMMA LeftsExist ==
    ASSUME NEW q \in Seq(Pairs), NEW stays \in [DOMAIN q -> BOOLEAN]
    PROVE  \A n \in 0..Len(q) : Lefts(q, stays, n) # {}
<1> DEFINE Bad == {n \in 0..Len(q) : Lefts(q, stays, n) = {}}
<1>1. Len(q) \in Nat /\ \A i \in 1..Len(q) : q[i] \in Pairs
  OBVIOUS
<1>2. ASSUME Bad # {}
      PROVE  FALSE
  <2>1. PICK n \in Bad : \A m \in Bad : n <= m
    <3>1. Bad \in SUBSET Nat
      OBVIOUS
    <3> HIDE DEF Bad
    <3> QED  BY <1>2, <3>1, LeastNatural
  <2>2. n \in 0..Len(q) /\ Lefts(q, stays, n) = {}
    BY <2>1
  <2>3. CASE n = 0
    <3> DEFINE f == [i \in 0..0 |-> <<>>]
    <3>1. f \in [0..0 -> Seq(Pairs)] /\ \A i \in 0..0 : i = 0 /\ f[i] = <<>>
      BY EmptySeqs
    <3> HIDE DEF f
    <3>2. f \in Lefts(q, stays, 0)
      BY <3>1 DEF Lefts
    <3> QED  BY <2>2, <2>3, <3>2
  <2>4. CASE n # 0
    <3>1. n - 1 \in 0..Len(q) /\ n - 1 \notin Bad /\ n \in 1..Len(q)
      BY <1>1, <2>1, <2>2, <2>4
    <3>2. PICK g \in Lefts(q, stays, n - 1) : TRUE
      BY <3>1
    <3>3. /\ g \in [0..(n - 1) -> Seq(Pairs)]
          /\ \A i \in 0..(n - 1) : g[i] = IF i = 0 THEN <<>>
                               ELSE IF stays[i] THEN Append(g[i - 1], q[i])
                               ELSE g[i - 1]
      BY <3>2 DEF Lefts
    <3> DEFINE last == IF stays[n] THEN Append(g[n - 1], q[n]) ELSE g[n - 1]
               f == [i \in 0..n |-> IF i = n THEN last ELSE g[i]]
    <3>4. last \in Seq(Pairs)
      <4>1. g[n - 1] \in Seq(Pairs) /\ q[n] \in Pairs
        BY <1>1, <3>1, <3>3
      <4> QED  BY <4>1
    <3>5. n \in Nat /\ \A i \in 0..n : i = n \/ i \in 0..(n - 1)
      BY <3>1
    <3>6. f \in [0..n -> Seq(Pairs)]
      BY <3>3, <3>4, <3>5
    <3>7. f[n] = last /\ \A i \in 0..(n - 1) : f[i] = g[i]
      BY <3>5
    <3> HIDE DEF f
    <3>8. \A i \in 0..n : f[i] = IF i = 0 THEN <<>>
                               ELSE IF stays[i] THEN Append(f[i - 1], q[i])
                               ELSE f[i - 1]
      <4> SUFFICES ASSUME NEW i \in 0..n
                   PROVE  f[i] = IF i = 0 THEN <<>>
                               ELSE IF stays[i] THEN Append(f[i - 1], q[i])
                               ELSE f[i - 1]
        OBVIOUS
      <4>1. CASE i = n
        <5>1. n - 1 \in 0..(n - 1)
          BY <3>1
        <5>2. f[n - 1] = g[n - 1]
          BY <3>7, <5>1
        <5> QED  BY <2>4, <3>7, <4>1, <5>2
      <4>2. CASE i # n
        <5>1. i \in 0..(n - 1) /\ (i # 0 => i - 1 \in 0..(n - 1))
          BY <3>5, <4>2
        <5>2. f[i] = g[i] /\ (i # 0 => f[i - 1] = g[i - 1])
          BY <3>7, <5>1
        <5> QED  BY <3>3, <5>1, <5>2
      <4> QED  BY <4>1, <4>2
    <3>9. f \in Lefts(q, stays, n)
      BY <3>6, <3>8 DEF Lefts
    <3> QED  BY <2>2, <3>9
  <2> QED  BY <2>3, <2>4
<1> QED  BY <1>2

\* Losing responses keeps the channel a channel.
LEMMA LoseType == LinkType /\ Link!Lose => LinkType'
<1> SUFFICES ASSUME LinkType, Link!Lose PROVE LinkType'
  OBVIOUS
<1>1. PICK stays \in [DOMAIN queue -> BOOLEAN] :
         queue' = (LET Left[i \in 0..Len(queue)] ==
                     IF i = 0 THEN <<>>
                     ELSE IF stays[i] THEN Append(Left[i - 1], queue[i])
                     ELSE Left[i - 1]
                   IN Left[Len(queue)])
  BY Zenon DEF Link!Lose
<1> DEFINE F == CHOOSE f : f = [i \in 0..Len(queue) |->
                                 IF i = 0 THEN <<>>
                                 ELSE IF stays[i] THEN Append(f[i - 1], queue[i])
                                 ELSE f[i - 1]]
<1>2. queue \in Seq(Pairs) /\ Len(queue) \in Nat /\ Len(queue) \in 0..Len(queue)
      /\ \A i \in 1..Len(queue) : queue[i] \in Pairs
  BY DEF LinkType
<1>3. PICK g \in Lefts(queue, stays, Len(queue)) : TRUE
  BY <1>2, LeftsExist
<1>4. g = [i \in 0..Len(queue) |->
                                 IF i = 0 THEN <<>>
                                 ELSE IF stays[i] THEN Append(g[i - 1], queue[i])
                                 ELSE g[i - 1]]
  BY <1>3 DEF Lefts
<1>5. F = [i \in 0..Len(queue) |->
                                 IF i = 0 THEN <<>>
                                 ELSE IF stays[i] THEN Append(F[i - 1], queue[i])
                                 ELSE F[i - 1]]
  BY <1>4, Zenon
<1>6. queue' = F[Len(queue)]
  BY <1>1
<1> HIDE DEF F
<1> DEFINE Bad == {n \in 0..Len(queue) : F[n] \notin Seq(Pairs)}
<1>7. ASSUME Bad # {}
      PROVE  FALSE
  <2>1. PICK n \in Bad : \A m \in Bad : n <= m
    <3>1. Bad \in SUBSET Nat
      OBVIOUS
    <3> HIDE DEF Bad
    <3> QED  BY <1>7, <3>1, LeastNatural
  <2>2. n \in 0..Len(queue) /\ F[n] \notin Seq(Pairs) /\ n \in Nat
    BY <2>1
  <2>3. n # 0
    BY <1>5, <2>2, EmptySeqs
  <2>4. n - 1 \in 0..Len(queue) /\ n - 1 \notin Bad /\ n \in 1..Len(queue)
    BY <1>2, <2>1, <2>2, <2>3
  <2>5. F[n - 1] \in Seq(Pairs) /\ queue[n] \in Pairs
    BY <1>2, <2>4
  <2>6. F[n] \in {Append(F[n - 1], queue[n]), F[n - 1]}
    BY <1>5, <2>2, <2>3
  <2>7. \A t \in Seq(Pairs) : Append(t, queue[n]) \in Seq(Pairs)
    BY <2>5
  <2> QED  BY <2>2, <2>5, <2>6, <2>7
<1>8. queue' \in Seq(Pairs)
  BY <1>2, <1>6, <1>7
<1> QED  BY <1>8 DEF LinkType, Link!Lose

\* The request the parser is at, when its name has arrived.
LEMMA CurrentFacts ==
    ASSUME TypeInv, NameArrived
    PROVE  /\ Current \in Requests /\ Available \in Int /\ Current.name <= Available
           /\ parsed + 1 \in 1..Len(stream) /\ Len(stream) \in Nat
<1>1. parsed + 1 \in 1..Len(stream) /\ Len(stream) \in Nat
  BY DEF TypeInv, NameArrived
<1>2. stream[parsed + 1] \in Requests
  BY <1>1 DEF TypeInv
<1> QED  BY <1>1, <1>2 DEF TypeInv, NameArrived, Current, Available

\* The types of what no step but a few touches.
Idle == UNCHANGED <<input, batch, client, link, pending_error>>

LEMMA TypeInvIdle ==
    ASSUME TypeInv, Idle, stage' \in Stages, stage' = "recv" => cbuf = 0
    PROVE  TypeInv'
BY DEF TypeInv, Idle, LinkType, input, batch, client, link

LEMMA TypeInvInit == Init => TypeInv
<1> SUFFICES ASSUME Init PROVE TypeInv
  OBVIOUS
<1>1. LinkType
  BY EmptySeqs DEF Init, LinkType
<1>2. stage \in Stages /\ stage # "recv" /\ before \in [taken : Nat, got : Nat]
  BY DEF Init, Stages, Starting
<1>3. /\ stream = <<>> /\ parsed = 0 /\ wire = 0 /\ buf_len = 0 /\ cbuf = 0
      /\ reply_buf = <<>> /\ delivered = <<>> /\ pending_error = FALSE
  BY DEF Init
<1>4. 0 \in Nat /\ 0 <= 0 /\ Len(stream) = 0 /\ FALSE \in BOOLEAN
  BY <1>3, EmptySeqs
<1>5. /\ stream \in Seq(Requests) /\ reply_buf \in Seq(Answers)
      /\ delivered \in Seq(Answers)
  BY <1>3, EmptySeqs
<1> QED  BY <1>1, <1>2, <1>3, <1>4, <1>5 DEF TypeInv

LEMMA TypeInvAnswer == TypeInv /\ AnswerStep => TypeInv'
<1> SUFFICES ASSUME TypeInv, AnswerStep PROVE TypeInv'
  OBVIOUS
<1>1. PICK ran \in BOOLEAN, status \in Statuses, response \in Seq(Pairs),
           e \in BOOLEAN : AnswerWith(ran, status, response, e)
  BY DEF AnswerStep
<1> DEFINE a == [cmd |-> Current.cmd, ran |-> ran, status |-> status,
                 response |-> response]
<1>2. /\ stage = "scan" /\ NameArrived /\ Kind(ran, status, response, e)
      /\ reply_buf' = Append(reply_buf, a) /\ cbuf' = cbuf + Extent
      /\ parsed' = parsed + 1 /\ pending_error' = e
      /\ UNCHANGED <<stage, stream, wire, buf_len, delivered, before>>
  BY <1>1 DEF AnswerWith, Answer, input, client
<1>3. /\ Current \in Requests /\ parsed + 1 \in 1..Len(stream) /\ Len(stream) \in Nat
      /\ Extent \in Nat /\ Extent > 0
  BY <1>2, CurrentFacts, ExtentFacts
<1>4. a \in Answers
  BY <1>3, DigitsOf DEF Answers
<1> HIDE DEF a
<1>5. reply_buf' \in Seq(Answers) /\ reply_buf' # <<>>
  <2>1. reply_buf \in Seq(Answers) /\ reply_buf' = Append(reply_buf, a)
    BY <1>2 DEF TypeInv
  <2>2. /\ reply_buf' \in Seq(Answers) /\ Len(reply_buf') = Len(reply_buf) + 1
        /\ Len(reply_buf) \in Nat
    BY <1>4, <2>1, AppendProperties
  <2>3. Len(reply_buf') # 0
    BY <2>2
  <2> QED  BY <2>2, <2>3, EmptySeqs
<1>6. LinkType'
  <2>1. CASE UNCHANGED link
    BY <2>1 DEF TypeInv, LinkType, link
  <2>2. CASE Link!Get
    <3>1. queue \in Seq(Pairs) /\ got \in Seq(Pairs) /\ taken \in Nat /\ queue # <<>>
      BY <2>2 DEF TypeInv, LinkType, Link!Get
    <3>2. Head(queue) \in Pairs /\ Tail(queue) \in Seq(Pairs)
      BY <3>1
    <3>3. Append(got, Head(queue)) \in Seq(Pairs)
      BY <3>1, <3>2
    <3> QED  BY <2>2, <3>1, <3>2, <3>3 DEF LinkType, Link!Get
  <2>3. CASE Link!Put
    <3>1. queue \in Seq(Pairs) /\ taken + 1 \in Nat
      BY DEF TypeInv, LinkType
    <3>2. <<taken', taken'>> \in Pairs
      BY <2>3, <3>1 DEF Link!Put, Pairs
    <3>3. Append(queue, <<taken', taken'>>) \in Seq(Pairs)
      BY <3>1, <3>2
    <3> QED  BY <2>3, <3>1, <3>3 DEF TypeInv, LinkType, Link!Put
  <2> QED
    BY <1>2, <2>1, <2>2, <2>3
    DEF Kind, QueryKind, ErrorKind, ConfigureKind, EdpcKind, IdpcKind
<1>7. parsed' \in Nat /\ parsed' <= Len(stream)
  BY <1>2, <1>3 DEF TypeInv
<1>8. cbuf' \in Nat /\ cbuf' # 0 /\ cbuf' <= buf_len
  <2>1. Extent <= buf_len - cbuf
    BY <1>1 DEF AnswerWith, Complete, Available
  <2> QED  BY <1>2, <1>3, <2>1 DEF TypeInv
<1> QED  BY <1>2, <1>5, <1>6, <1>7, <1>8 DEF TypeInv

LEMMA TypeInvStep == TypeInv /\ [Next]_vars => TypeInv'
<1> SUFFICES ASSUME TypeInv, [Next]_vars PROVE TypeInv'
  OBVIOUS
<1> USE DEF Idle, Stages, Starting, Serving
<1>1. CASE StartUp
  <2>1. Idle /\ stage' \in Stages /\ stage' # "recv"
    BY <1>1 DEF StartUp, ParseUrl, Resolve, TryAddress, HostName, Exhausted,
       Returns, NoTraffic, TypeInv
  <2> QED  BY <2>1, TypeInvIdle
<1>2. CASE AcceptFails \/ AcceptNoPeer \/ MapFails
  <2>1. Idle /\ stage' \in Stages /\ stage' # "recv"
    BY <1>2 DEF AcceptFails, AcceptNoPeer, MapFails, Attempt, Returns, NoTraffic
  <2> QED  BY <2>1, TypeInvIdle
<1>3. CASE Accept
  <2>1. LinkType'
    BY <1>3, LoseType DEF Accept, OpenPort, TypeInv
  <2>2. Len(got) \in Nat /\ taken \in Nat
    BY DEF TypeInv, LinkType
  <2>3. /\ stage' = "scan" /\ stream' = <<>> /\ wire' = 0 /\ buf_len' = 0
        /\ cbuf' = 0 /\ parsed' = 0 /\ reply_buf' = <<>> /\ delivered' = <<>>
        /\ pending_error' = FALSE /\ before' = [taken |-> taken, got |-> Len(got)]
    BY <1>3 DEF Accept
  <2>4. before' \in [taken : Nat, got : Nat]
    BY <2>2, <2>3
  <2>5. /\ stream' \in Seq(Requests) /\ reply_buf' \in Seq(Answers)
        /\ delivered' \in Seq(Answers) /\ Len(stream') = 0
    BY <2>3, EmptySeqs
  <2>6. /\ parsed' \in Nat /\ parsed' <= Len(stream') /\ wire' \in Nat
        /\ buf_len' \in Nat /\ cbuf' \in Nat /\ cbuf' <= buf_len'
    BY <2>3, <2>5
  <2>7. /\ stage' \in Stages /\ stage' # "recv" /\ parsed' = 0 /\ reply_buf' = <<>>
        /\ pending_error' \in BOOLEAN
    BY <2>3
  <2> QED  BY <2>1, <2>4, <2>5, <2>6, <2>7 DEF TypeInv
<1>4. CASE Answering
  BY <1>4, AnswersAreAnswerSteps, TypeInvAnswer
<1>5. CASE NeedMore
  <2>1. Idle /\ stage' \in Stages /\ (stage' = "recv" => cbuf = 0)
    BY <1>5 DEF NeedMore, NoTraffic, TypeInv
  <2> QED  BY <2>1, TypeInvIdle
<1>6. CASE \/ AssertFails \/ ProtocolError \/ SendFails \/ SendKilled \/ RecvEnd
           \/ RecvFails \/ CloseConnection
  <2>1. Idle /\ stage' \in Stages /\ stage' # "recv"
    BY <1>6 DEF AssertFails, ProtocolError, SendFails, SendKilled, RecvEnd, RecvFails,
       CloseConnection, NoTraffic
  <2> QED  BY <2>1, TypeInvIdle
<1>7. CASE Send
  <2>1. /\ delivered' = delivered \o reply_buf
        /\ stream' = SubSeq(stream, parsed + 1, Len(stream))
        /\ buf_len' = buf_len - cbuf
        /\ cbuf' = 0 /\ parsed' = 0 /\ reply_buf' = <<>> /\ stage' = "recv"
        /\ UNCHANGED <<wire, pending_error, before, link>>
    BY <1>7 DEF Send, ReadMore
  <2>2. delivered' \in Seq(Answers)
    BY <2>1 DEF TypeInv
  <2>3. stream' \in Seq(Requests) /\ Len(stream') \in Nat
    BY <2>1, SubSeqProperties DEF TypeInv
  <2>4. buf_len' \in Nat /\ cbuf' <= buf_len' /\ 0 <= Len(stream')
    BY <2>1, <2>3 DEF TypeInv
  <2>5. LinkType'
    BY <2>1 DEF TypeInv, LinkType, link
  <2>6. /\ stage' \in Stages /\ wire' \in Nat /\ pending_error' \in BOOLEAN
        /\ before' \in [taken : Nat, got : Nat]
    BY <2>1 DEF TypeInv
  <2>7. /\ cbuf' = 0 /\ cbuf' \in Nat /\ parsed' = 0 /\ parsed' \in Nat
        /\ reply_buf' = <<>> /\ reply_buf' \in Seq(Answers)
    BY <2>1, EmptySeqs
  <2> QED  BY <2>2, <2>3, <2>4, <2>5, <2>6, <2>7 DEF TypeInv
<1>8. CASE Recv
  <2>1. PICK n \in 1..BufMax :
           n <= wire /\ wire' = wire - n /\ buf_len' = buf_len + n
    BY <1>8 DEF Recv
  <2>2. /\ cbuf' = 0 /\ parsed' = 0 /\ reply_buf' = <<>> /\ stage' = "scan"
        /\ UNCHANGED <<stream, pending_error, client, link>>
    BY <1>8 DEF Recv, ReadMore
  <2>3. wire' \in Nat /\ buf_len' \in Nat
    <3>1. n \in Nat
      BY DpcServerAssumption
    <3>2. wire \in Nat /\ buf_len \in Nat
      BY DEF TypeInv
    <3> QED  BY <2>1, <3>1, <3>2
  <2>4. Len(stream) \in Nat /\ 0 <= Len(stream)
    BY DEF TypeInv
  <2> QED  BY <2>2, <2>3, <2>4, EmptySeqs DEF TypeInv, LinkType, link, client
<1>9. CASE ClientWrite
  <2>1. PICK r \in Requests : stream' = Append(stream, r) /\ wire' = wire + Bytes(r)
    BY <1>9 DEF ClientWrite
  <2>2. UNCHANGED <<stage, buf_len, batch, pending_error, client, link>>
    BY <1>9 DEF ClientWrite
  <2>3. stream' \in Seq(Requests) /\ Len(stream') = Len(stream) + 1
        /\ Len(stream) \in Nat
    BY <2>1 DEF TypeInv
  <2>4. wire' \in Nat
    BY <2>1, BytesType DEF TypeInv
  <2>5. parsed <= Len(stream')
    BY <2>3 DEF TypeInv
  <2> QED  BY <2>2, <2>3, <2>4, <2>5 DEF TypeInv, LinkType, batch, client, link
<1>10. CASE ClientClose
  BY <1>10, TypeInvIdle DEF ClientClose, TypeInv
<1>11. CASE LinkLoses
  <2>1. LinkType'
    BY <1>11, LoseType DEF LinkLoses, TypeInv
  <2>2. UNCHANGED <<stage, input, batch, pending_error, client>>
    BY <1>11 DEF LinkLoses
  <2> QED  BY <2>1, <2>2 DEF TypeInv, input, batch, client
<1>12. CASE Stopped \/ UNCHANGED vars
  <2>1. Idle /\ stage' = stage
    BY <1>12 DEF Stopped, vars
  <2> QED  BY <2>1, TypeInvIdle DEF TypeInv
<1> QED
  BY <1>1, <1>2, <1>3, <1>4, <1>5, <1>6, <1>7, <1>8, <1>9, <1>10, <1>11, <1>12
  DEF Next, Listen, Parse, Transfer, Environment, Answering

-----------------------------------------------------------------------------
(* Framing *)

\* The bytes of the first i requests of s, for every i.
SumsOf(s) == {u \in [0..Len(s) -> Int] :
                 /\ u[0] = 0
                 /\ \A i \in 1..Len(s) : u[i] = u[i - 1] + Bytes(s[i])}

\* Such sums tell the bytes of all of s.
LEMMA TotalIs ==
    ASSUME NEW s \in Seq(Requests), NEW u \in SumsOf(s)
    PROVE  Total(s) = u[Len(s)]
<1> DEFINE F == CHOOSE f : f = [i \in 0..Len(s) |->
                                 IF i = 0 THEN 0 ELSE f[i - 1] + Bytes(s[i])]
<1>1. Len(s) \in Nat /\ Len(s) \in 0..Len(s)
  OBVIOUS
<1>2. /\ u \in [0..Len(s) -> Int] /\ u[0] = 0
      /\ \A i \in 1..Len(s) : u[i] = u[i - 1] + Bytes(s[i])
  BY DEF SumsOf
<1>3. u = [i \in 0..Len(s) |-> IF i = 0 THEN 0 ELSE u[i - 1] + Bytes(s[i])]
  <2>1. \A i \in 0..Len(s) : i = 0 \/ i \in 1..Len(s)
    BY <1>1
  <2> QED  BY <1>2, <2>1
<1>4. F = [i \in 0..Len(s) |-> IF i = 0 THEN 0 ELSE F[i - 1] + Bytes(s[i])]
  BY <1>3
<1>5. Total(s) = F[Len(s)]
  BY DEF Total
<1> HIDE DEF F
<1> DEFINE Bad == {n \in 0..Len(s) : F[n] # u[n]}
<1>6. ASSUME Bad # {}
      PROVE  FALSE
  <2>1. PICK n \in Bad : \A m \in Bad : n <= m
    <3>1. Bad \in SUBSET Nat
      OBVIOUS
    <3> HIDE DEF Bad
    <3> QED  BY <1>6, <3>1, LeastNatural
  <2>2. n \in 0..Len(s) /\ F[n] # u[n]
    BY <2>1
  <2>3. n # 0
    BY <1>3, <1>4, <2>2
  <2>4. n - 1 \in 0..Len(s) /\ ~(n <= n - 1)
    BY <1>1, <2>2, <2>3
  <2>5. F[n - 1] = u[n - 1]
    BY <2>1, <2>4
  <2>6. F[n] = F[n - 1] + Bytes(s[n]) /\ u[n] = u[n - 1] + Bytes(s[n])
    BY <1>3, <1>4, <2>2, <2>3
  <2> QED  BY <2>2, <2>5, <2>6
<1> QED  BY <1>1, <1>5, <1>6

\* FramingExact, with the sums it is about: the parser stands at one of them.
FramingInv ==
    stage \in Serving =>
        \E u \in SumsOf(stream) :
            buf_len + wire = u[Len(stream)] /\ cbuf = u[parsed]

LEMMA FramingIdle ==
    ASSUME FramingInv, stage' \in Serving => stage \in Serving,
           UNCHANGED <<stream, buf_len, wire, cbuf, parsed>>
    PROVE  FramingInv'
BY DEF FramingInv, SumsOf

\* A message is parsed when all of it, and nothing more, lies before the next.
LEMMA AnswersWhole ==
    ASSUME TypeInv, NameArrived, Complete
    PROVE  Extent = Bytes(Current)
<1>1. /\ Current \in Requests /\ Available \in Int /\ Current.name <= Available
  BY CurrentFacts
<1>2. /\ Extent \in Nat /\ Bytes(Current) \in Nat
      /\ Available >= Bytes(Current) => Extent = Bytes(Current)
      /\ Available < Bytes(Current) => Extent > Available
  BY <1>1, ExtentFacts
<1>3. Extent <= Available
  BY DEF Complete
<1> QED  BY <1>1, <1>2, <1>3

LEMMA FramingStep == TypeInv /\ FramingInv /\ [Next]_vars => FramingInv'
<1> SUFFICES ASSUME TypeInv, FramingInv, [Next]_vars PROVE FramingInv'
  OBVIOUS
<1> USE DEF Serving
<1>0. /\ stream \in Seq(Requests) /\ Len(stream) \in Nat /\ parsed \in Nat
      /\ parsed <= Len(stream) /\ buf_len \in Nat /\ wire \in Nat /\ cbuf \in Nat
  BY DEF TypeInv
<1>1. CASE StartUp \/ AcceptFails \/ AcceptNoPeer \/ MapFails
  <2>1. /\ stage' \notin Serving
        /\ UNCHANGED <<stream, buf_len, wire, cbuf, parsed>>
    BY <1>1 DEF StartUp, ParseUrl, Resolve, TryAddress, HostName, Exhausted,
       AcceptFails, AcceptNoPeer, MapFails, Attempt, Returns, NoTraffic, input, batch
  <2> QED  BY <2>1, FramingIdle
<1>2. CASE Accept
  <2>1. /\ stream' = <<>> /\ wire' = 0 /\ buf_len' = 0 /\ cbuf' = 0 /\ parsed' = 0
    BY <1>2 DEF Accept
  <2> DEFINE u == [i \in 0..0 |-> 0]
  <2>2. Len(stream') = 0 /\ \A i \in 1..0 : FALSE
    BY <2>1
  <2>3. u \in [0..0 -> Int] /\ u[0] = 0
    OBVIOUS
  <2> HIDE DEF u
  <2>4. u \in SumsOf(stream')
    BY <2>2, <2>3 DEF SumsOf
  <2>5. SumsOf(stream)' = SumsOf(stream')
    BY DEF SumsOf
  <2> QED  BY <2>1, <2>2, <2>3, <2>4, <2>5 DEF FramingInv
<1>3. CASE Answering
  <2>1. AnswerStep
    BY <1>3, AnswersAreAnswerSteps
  <2>2. /\ stage = "scan" /\ NameArrived /\ Complete
        /\ cbuf' = cbuf + Extent /\ parsed' = parsed + 1
        /\ UNCHANGED <<stage, stream, buf_len, wire>>
    BY <2>1 DEF AnswerStep, AnswerWith, Answer, input
  <2>3. Extent = Bytes(stream[parsed + 1]) /\ parsed + 1 \in 1..Len(stream)
    BY <2>2, AnswersWhole, CurrentFacts DEF Current
  <2>4. PICK u \in SumsOf(stream) :
           buf_len + wire = u[Len(stream)] /\ cbuf = u[parsed]
    BY <2>2 DEF FramingInv
  <2>5. u[parsed + 1] = u[(parsed + 1) - 1] + Bytes(stream[parsed + 1])
    BY <2>3, <2>4 DEF SumsOf
  <2>6. (parsed + 1) - 1 = parsed
    BY <1>0
  <2>7. cbuf' = u[parsed']
    BY <2>2, <2>3, <2>4, <2>5, <2>6
  <2>8. SumsOf(stream)' = SumsOf(stream)
    BY <2>2 DEF SumsOf
  <2> QED  BY <2>2, <2>4, <2>7, <2>8 DEF FramingInv
<1>4. CASE \/ NeedMore \/ AssertFails \/ ProtocolError \/ SendFails \/ SendKilled
           \/ RecvEnd \/ RecvFails \/ CloseConnection \/ ClientClose \/ LinkLoses
           \/ Stopped \/ UNCHANGED vars
  <2>1. /\ stage' \in Serving => stage \in Serving
        /\ UNCHANGED <<stream, buf_len, wire, cbuf, parsed>>
    BY <1>4 DEF NeedMore, AssertFails, ProtocolError, SendFails, SendKilled, RecvEnd,
       RecvFails, CloseConnection, ClientClose, LinkLoses, Stopped, vars, NoTraffic,
       input, batch
  <2> QED  BY <2>1, FramingIdle
<1>5. CASE Send
  <2>1. /\ stage \in Serving /\ parsed' = 0 /\ cbuf' = 0 /\ wire' = wire
        /\ stream' = SubSeq(stream, parsed + 1, Len(stream))
        /\ buf_len' = buf_len - cbuf
    BY <1>5 DEF Send, ReadMore
  <2>2. PICK u \in SumsOf(stream) :
           buf_len + wire = u[Len(stream)] /\ cbuf = u[parsed]
    BY <2>1 DEF FramingInv
  <2> DEFINE n == Len(stream)
             t == stream'
             v == [i \in 0..(n - parsed) |-> u[parsed + i] - u[parsed]]
  <2>3. Len(t) = n - parsed /\ \A i \in 1..(n - parsed) : t[i] = stream[parsed + i]
    <3>1. \A i \in (parsed + 1)..n : stream[i] \in Requests
      BY <1>0
    <3>2. /\ Len(t) = (IF parsed + 1 <= n THEN n - (parsed + 1) + 1 ELSE 0)
          /\ \A i \in 1..(n - (parsed + 1) + 1) : t[i] = stream[(parsed + 1) + i - 1]
      BY <1>0, <2>1, <3>1, SubSeqProperties
    <3> QED  BY <1>0, <3>2
  <2>4. /\ u \in [0..n -> Int] /\ u[0] = 0
        /\ \A i \in 1..n : u[i] = u[i - 1] + Bytes(stream[i])
    BY <2>2 DEF SumsOf
  <2> HIDE DEF n, t
  <2>5. n \in Nat /\ parsed <= n
    BY <1>0 DEF n
  <2>6. /\ v \in [0..(n - parsed) -> Int] /\ v[0] = 0
        /\ \A i \in 0..(n - parsed) : v[i] = u[parsed + i] - u[parsed]
    <3>1. \A i \in 0..(n - parsed) : parsed + i \in 0..n
      BY <1>0, <2>5
    <3>2. \A i \in 0..(n - parsed) : u[parsed + i] \in Int
      BY <2>4, <3>1
    <3>3. u[parsed] \in Int /\ parsed + 0 = parsed /\ 0 \in 0..(n - parsed)
      BY <1>0, <2>4, <2>5
    <3> QED  BY <3>2, <3>3
  <2> HIDE DEF v
  <2>7. \A i \in 1..(n - parsed) : v[i] = v[i - 1] + Bytes(t[i])
    <3> SUFFICES ASSUME NEW i \in 1..(n - parsed)
                 PROVE  v[i] = v[i - 1] + Bytes(t[i])
      OBVIOUS
    <3>1. /\ parsed + i \in 1..n /\ parsed + (i - 1) \in 0..n /\ parsed \in 0..n
          /\ (parsed + i) - 1 = parsed + (i - 1)
          /\ i \in 0..(n - parsed) /\ i - 1 \in 0..(n - parsed)
      BY <1>0, <2>5
    <3>2. u[parsed + i] = u[parsed + (i - 1)] + Bytes(stream[parsed + i])
      BY <2>4, <3>1
    <3>3. t[i] = stream[parsed + i] /\ stream[parsed + i] \in Requests
      BY <1>0, <2>3, <3>1 DEF n
    <3>4. Bytes(t[i]) \in Nat /\ Bytes(stream[parsed + i]) = Bytes(t[i])
      BY <3>3, BytesType
    <3>5. u[parsed + i] \in Int /\ u[parsed + (i - 1)] \in Int /\ u[parsed] \in Int
      BY <1>0, <2>4, <2>5, <3>1
    <3>6. v[i] = u[parsed + i] - u[parsed] /\ v[i - 1] = u[parsed + (i - 1)] - u[parsed]
      BY <2>6, <3>1
    <3> QED  BY <3>2, <3>4, <3>5, <3>6
  <2>8. v \in SumsOf(t)
    BY <2>3, <2>6, <2>7 DEF SumsOf
  <2>9. v[Len(t)] = buf_len' + wire'
    <3>1. n - parsed \in 0..(n - parsed) /\ parsed + (n - parsed) = n
      BY <1>0, <2>5
    <3>2. v[n - parsed] = u[n] - u[parsed]
      BY <2>6, <3>1
    <3>3. u[n] = buf_len + wire /\ u[parsed] = cbuf
      BY <2>2 DEF n
    <3> QED  BY <1>0, <2>1, <2>3, <3>2, <3>3
  <2>10. SumsOf(stream)' = SumsOf(t) /\ Len(stream)' = Len(t)
    BY DEF SumsOf, t
  <2> QED  BY <2>1, <2>6, <2>8, <2>9, <2>10 DEF FramingInv, t
<1>6. CASE Recv
  <2>1. PICK k \in 1..BufMax : wire' = wire - k /\ buf_len' = buf_len + k
    BY <1>6 DEF Recv
  <2>2. /\ stage \in Serving /\ parsed' = 0 /\ cbuf' = 0 /\ stream' = stream
    BY <1>6 DEF Recv, ReadMore
  <2>3. PICK u \in SumsOf(stream) : buf_len + wire = u[Len(stream)]
    BY <2>2 DEF FramingInv
  <2>4. buf_len' + wire' = buf_len + wire
    <3>1. k \in Nat
      BY DpcServerAssumption
    <3> QED  BY <1>0, <2>1, <3>1
  <2>5. u[0] = 0
    BY <2>3 DEF SumsOf
  <2>6. SumsOf(stream)' = SumsOf(stream)
    BY <2>2 DEF SumsOf
  <2> QED  BY <2>2, <2>3, <2>4, <2>5, <2>6 DEF FramingInv
<1>7. CASE ClientWrite
  <2>1. PICK r \in Requests : stream' = Append(stream, r) /\ wire' = wire + Bytes(r)
    BY <1>7 DEF ClientWrite
  <2>2. /\ stage \in Serving /\ UNCHANGED <<stage, buf_len, cbuf, parsed>>
    BY <1>7 DEF ClientWrite, batch
  <2>3. PICK u \in SumsOf(stream) :
           buf_len + wire = u[Len(stream)] /\ cbuf = u[parsed]
    BY <2>2 DEF FramingInv
  <2> DEFINE n == Len(stream)
             t == stream'
             v == [i \in 0..(n + 1) |-> IF i = n + 1 THEN u[n] + Bytes(r) ELSE u[i]]
  <2>4. /\ Len(t) = n + 1 /\ t[n + 1] = r /\ \A i \in 1..n : t[i] = stream[i]
    BY <1>0, <2>1
  <2>5. /\ u \in [0..n -> Int] /\ u[0] = 0
        /\ \A i \in 1..n : u[i] = u[i - 1] + Bytes(stream[i])
    BY <2>3 DEF SumsOf
  <2>6. Bytes(r) \in Nat
    BY BytesType
  <2> HIDE DEF n, t
  <2>7. n \in Nat /\ parsed <= n /\ n \in 0..n
    BY <1>0 DEF n
  <2>8. /\ v \in [0..(n + 1) -> Int]
        /\ v[n + 1] = u[n] + Bytes(r)
        /\ \A i \in 0..n : v[i] = u[i]
    <3>1. \A i \in 0..(n + 1) : i = n + 1 \/ i \in 0..n
      BY <2>7
    <3>2. u[n] + Bytes(r) \in Int
      BY <2>5, <2>6, <2>7
    <3>3. \A i \in 0..n : i \in 0..(n + 1) /\ i # n + 1
      BY <2>7
    <3>4. n + 1 \in 0..(n + 1)
      BY <2>7
    <3> QED  BY <2>5, <3>1, <3>2, <3>3, <3>4
  <2> HIDE DEF v
  <2>9. \A i \in 1..(n + 1) : v[i] = v[i - 1] + Bytes(t[i])
    <3> SUFFICES ASSUME NEW i \in 1..(n + 1)
                 PROVE  v[i] = v[i - 1] + Bytes(t[i])
      OBVIOUS
    <3>1. CASE i = n + 1
      <4>1. i - 1 = n
        BY <2>7, <3>1
      <4> QED  BY <2>4, <2>7, <2>8, <3>1, <4>1
    <3>2. CASE i # n + 1
      <4>1. i \in 1..n /\ i \in 0..n /\ i - 1 \in 0..n
        BY <2>7, <3>2
      <4> QED  BY <2>4, <2>5, <2>8, <4>1
    <3> QED  BY <3>1, <3>2
  <2>10. v[0] = 0 /\ v[parsed] = u[parsed]
    <3>1. 0 \in 0..n /\ parsed \in 0..n
      BY <1>0, <2>7
    <3> QED  BY <2>5, <2>8, <3>1
  <2>11. v \in SumsOf(t)
    BY <2>4, <2>8, <2>9, <2>10 DEF SumsOf
  <2>12. v[Len(t)] = buf_len' + wire'
    <3>1. u[n] = buf_len + wire
      BY <2>3 DEF n
    <3> QED  BY <1>0, <2>1, <2>2, <2>4, <2>6, <2>8, <3>1
  <2>13. SumsOf(stream)' = SumsOf(t) /\ Len(stream)' = Len(t)
    BY DEF SumsOf, t
  <2> QED  BY <2>2, <2>3, <2>10, <2>11, <2>12, <2>13 DEF FramingInv
<1> QED
  BY <1>1, <1>2, <1>3, <1>4, <1>5, <1>6, <1>7
  DEF Next, Listen, Parse, Transfer, Environment, Answering

\* Wherever TCP cuts the bytes of the requests, numbers included, the parser
\* stands at the end of one of them, and the bytes behind it are those of the
\* others (xvcserver.c:235-257, 287-291, 346-376).
THEOREM FramingIsExact == Spec => []FramingExact
<1>1. Init => TypeInv /\ FramingInv
  BY TypeInvInit DEF Init, FramingInv, Serving
<1>2. TypeInv /\ FramingInv /\ [Next]_vars => (TypeInv /\ FramingInv)'
  BY TypeInvStep, FramingStep
<1>3. TypeInv /\ FramingInv => FramingExact
  <2> SUFFICES ASSUME TypeInv, FramingInv, stage \in Serving
               PROVE  /\ buf_len + wire = Total(stream)
                      /\ cbuf = Total(SubSeq(stream, 1, parsed))
                      /\ cbuf <= buf_len
    BY DEF FramingExact
  <2>0. stream \in Seq(Requests) /\ Len(stream) \in Nat /\ parsed \in Nat
        /\ parsed <= Len(stream)
    BY DEF TypeInv
  <2>1. PICK u \in SumsOf(stream) :
           buf_len + wire = u[Len(stream)] /\ cbuf = u[parsed]
    BY DEF FramingInv
  <2>2. buf_len + wire = Total(stream)
    BY <2>0, <2>1, TotalIs
  <2> DEFINE t == SubSeq(stream, 1, parsed)
             v == [i \in 0..parsed |-> u[i]]
  <2>3. t \in Seq(Requests) /\ Len(t) = parsed /\ \A i \in 1..parsed : t[i] = stream[i]
    BY <2>0
  <2> HIDE DEF t
  <2>4. /\ u \in [0..Len(stream) -> Int] /\ u[0] = 0
        /\ \A i \in 1..Len(stream) : u[i] = u[i - 1] + Bytes(stream[i])
    BY <2>1 DEF SumsOf
  <2>5. \A i \in 0..parsed : i \in 0..Len(stream)
    BY <2>0
  <2>6. v \in [0..parsed -> Int] /\ \A i \in 0..parsed : v[i] = u[i]
    BY <2>4, <2>5
  <2> HIDE DEF v
  <2>7. 0 \in 0..parsed /\ parsed \in 0..parsed
        /\ \A i \in 1..parsed : i \in 1..Len(stream) /\ i \in 0..parsed /\ i - 1 \in 0..parsed
    BY <2>0
  <2>8. v[0] = 0 /\ \A i \in 1..parsed : v[i] = v[i - 1] + Bytes(t[i])
    BY <2>3, <2>4, <2>6, <2>7
  <2>9. v \in SumsOf(t)
    BY <2>3, <2>6, <2>8 DEF SumsOf
  <2>10. cbuf = Total(t)
    BY <2>1, <2>3, <2>6, <2>7, <2>9, TotalIs
  <2> QED  BY <2>2, <2>10 DEF t, TypeInv
<1> QED  BY <1>1, <1>2, <1>3, PTL DEF Spec
-----------------------------------------------------------------------------
(* The assertions on the length of a message *)

LEMMA AbortsStep ==
    TypeInv /\ AbortsOnlyForLength /\ [Next]_vars => AbortsOnlyForLength'
<1> SUFFICES ASSUME TypeInv, AbortsOnlyForLength, [Next]_vars, stage' = "aborted"
             PROVE  (Bytes(Current) > BufMax - (IF Current.cmd = "configure"
                                                THEN 1 ELSE 0))'
  BY DEF AbortsOnlyForLength
<1>1. CASE AssertFails
  <2>1. /\ NameArrived /\ ~AssertHolds /\ stream' = stream /\ parsed' = parsed
    BY <1>1 DEF AssertFails, NoTraffic, input, batch
  <2>2. /\ Extent \in Nat /\ Bytes(Current) \in Nat /\ Extent <= Bytes(Current)
    BY <2>1, CurrentFacts, ExtentFacts
  <2>3. BufMax \in Nat
    BY DpcServerAssumption
  <2>4. CASE Current.cmd = "configure"
    <3>1. ~(Extent < BufMax)
      BY <2>1, <2>4 DEF AssertHolds
    <3>2. Bytes(Current) > BufMax - 1
      BY <2>2, <2>3, <3>1
    <3> QED  BY <2>1, <2>4, <3>2 DEF Current
  <2>5. CASE Current.cmd # "configure"
    <3>1. ~(Extent <= BufMax)
      BY <2>1, <2>5 DEF AssertHolds
    <3>2. Bytes(Current) > BufMax - 0
      BY <2>2, <2>3, <3>1
    <3> QED  BY <2>1, <2>5, <3>2 DEF Current
  <2> QED  BY <2>4, <2>5
<1>2. CASE Stopped \/ UNCHANGED vars
  <2>1. stage = "aborted" /\ stream' = stream /\ parsed' = parsed
    BY <1>2 DEF Stopped, vars, input, batch
  <2> QED  BY <2>1 DEF AbortsOnlyForLength, Current
<1>3. CASE StartUp \/ Listen
  BY <1>3
  DEF StartUp, ParseUrl, Resolve, TryAddress, HostName, Exhausted, Returns, Listen,
      Accept, AcceptFails, AcceptNoPeer, MapFails, Attempt
<1>4. CASE Answering
  BY <1>4
  DEF Answering, ParseQuery, ParseError, ParseConfigure, ParseEdpc, ParseIdpc, Ready,
      Answer
<1>5. CASE NeedMore \/ ProtocolError \/ Transfer
  BY <1>5
  DEF NeedMore, ProtocolError, Transfer, Send, SendFails, SendKilled, Recv, RecvEnd,
      RecvFails, CloseConnection
<1>6. CASE Environment
  BY <1>6 DEF Environment, ClientWrite, ClientClose, LinkLoses, Serving
<1> QED
  BY <1>1, <1>2, <1>3, <1>4, <1>5, <1>6 DEF Next, Parse, Answering

\* An assertion on the length of an incomplete message fails only for a message
\* that has no room in the buffer: what the parser makes of the digits it has is
\* never more than the whole message (xvcserver.c:288, 351, 373).
THEOREM AbortsForLength == Spec => []AbortsOnlyForLength
<1>1. Init => TypeInv /\ AbortsOnlyForLength
  BY TypeInvInit DEF Init, AbortsOnlyForLength
<1>2. TypeInv /\ AbortsOnlyForLength /\ [Next]_vars
         => (TypeInv /\ AbortsOnlyForLength)'
  BY TypeInvStep, AbortsStep
<1> QED  BY <1>1, <1>2, PTL DEF Spec
-----------------------------------------------------------------------------
(* The engine implements XvcSession.  What the mapping makes of the state:  *)

Up     == stage \in Serving
Todo   == IF Up THEN SubSeq(stream, parsed + 1, Len(stream)) ELSE <<>>
Outbox == IF Up THEN Plain(reply_buf) ELSE <<>>
Inbox  == Plain(delivered)
Err    == Up /\ pending_error

\* A reply as the session knows it.
PlainOf(a) == [cmd |-> a.cmd, ran |-> a.ran, status |-> a.status]
Replies == [cmd : Commands, ran : BOOLEAN, status : Statuses]

LEMMA PlainFacts ==
    ASSUME NEW s \in Seq(Answers)
    PROVE  /\ Plain(s) \in Seq(Replies) /\ Len(Plain(s)) = Len(s)
           /\ \A i \in 1..Len(s) : Plain(s)[i] = PlainOf(s[i])
<1> DEFINE n == Len(s)
           P == [i \in 1..n |-> PlainOf(s[i])]
<1>1. n \in Nat /\ DOMAIN s = 1..n /\ \A i \in 1..n : s[i] \in Answers
  OBVIOUS
<1>2. Plain(s) = P
  BY <1>1 DEF Plain, PlainOf
<1>3. \A a \in Answers : PlainOf(a) \in Replies
  BY DEF Answers, Replies, PlainOf
<1> HIDE DEF n
<1>4. \A i \in 1..n : PlainOf(s[i]) \in Replies
  BY <1>1, <1>3
<1>5. P \in Seq(Replies) /\ Len(P) = n /\ \A i \in 1..n : P[i] = PlainOf(s[i])
  BY <1>1, <1>4
<1> QED  BY <1>2, <1>5 DEF n

LEMMA PlainEmpty == Plain(<<>>) = <<>>
<1>1. <<>> \in Seq(Answers)
  BY EmptySeqs
<1>2. Plain(<<>>) \in Seq(Replies) /\ Len(Plain(<<>>)) = 0
  BY <1>1, PlainFacts, EmptySeqs
<1> QED  BY <1>2, EmptySeq

LEMMA PlainAppend ==
    ASSUME NEW s \in Seq(Answers), NEW a \in Answers
    PROVE  Plain(Append(s, a)) = Append(Plain(s), PlainOf(a))
<1> DEFINE n == Len(s)
           t == Append(s, a)
           T == Plain(t)
           A == Append(Plain(s), PlainOf(a))
<1>1. t \in Seq(Answers) /\ Len(t) = n + 1 /\ n \in Nat
      /\ t[n + 1] = a /\ \A i \in 1..n : t[i] = s[i]
  OBVIOUS
<1>2. /\ Plain(s) \in Seq(Replies) /\ Len(Plain(s)) = n
      /\ \A i \in 1..n : Plain(s)[i] = PlainOf(s[i])
  BY PlainFacts
<1>3. PlainOf(a) \in Replies
  BY DEF Answers, Replies, PlainOf
<1> HIDE DEF n, t
<1>4. /\ T \in Seq(Replies) /\ Len(T) = n + 1
      /\ \A i \in 1..(n + 1) : T[i] = PlainOf(t[i])
  BY <1>1, PlainFacts
<1>5. /\ A \in Seq(Replies) /\ Len(A) = n + 1 /\ A[n + 1] = PlainOf(a)
      /\ \A i \in 1..n : A[i] = PlainOf(s[i])
  BY <1>1, <1>2, <1>3
<1> HIDE DEF T, A
<1>6. \A i \in 1..(n + 1) : T[i] = A[i]
  <2>1. \A i \in 1..(n + 1) : i = n + 1 \/ i \in 1..n
    BY <1>1
  <2>2. n + 1 \in 1..(n + 1)
    BY <1>1
  <2> QED  BY <1>1, <1>4, <1>5, <2>1, <2>2
<1>7. T = A
  BY <1>4, <1>5, <1>6, SeqEqual
<1> QED  BY <1>7 DEF T, A, t

LEMMA PlainConcat ==
    ASSUME NEW s \in Seq(Answers), NEW t \in Seq(Answers)
    PROVE  Plain(s \o t) = Plain(s) \o Plain(t)
<1> DEFINE n == Len(s)
           m == Len(t)
           u == s \o t
           U == Plain(u)
           P == Plain(s)
           Q == Plain(t)
           C == P \o Q
<1>1. /\ u \in Seq(Answers) /\ Len(u) = n + m /\ n \in Nat /\ m \in Nat
      /\ \A i \in 1..n : u[i] = s[i]
      /\ \A i \in (n + 1)..(n + m) : u[i] = t[i - n]
  OBVIOUS
<1>2. /\ P \in Seq(Replies) /\ Len(P) = n
      /\ \A i \in 1..n : P[i] = PlainOf(s[i])
  BY PlainFacts
<1>3. /\ Q \in Seq(Replies) /\ Len(Q) = m
      /\ \A i \in 1..m : Q[i] = PlainOf(t[i])
  BY PlainFacts
<1> HIDE DEF n, m, u, P, Q
<1>4. /\ C \in Seq(Replies) /\ Len(C) = n + m
      /\ \A i \in 1..n : C[i] = P[i]
      /\ \A i \in (n + 1)..(n + m) : C[i] = Q[i - n]
  <2>1. /\ C \in Seq(Replies) /\ Len(C) = Len(P) + Len(Q)
        /\ \A i \in 1 .. Len(P) + Len(Q) :
              C[i] = IF i <= Len(P) THEN P[i] ELSE Q[i - Len(P)]
    BY <1>2, <1>3, ConcatProperties
  <2> HIDE DEF C
  <2>2. \A i \in 1..n : i \in 1..(n + m) /\ i <= n
    BY <1>1
  <2>3. \A i \in (n + 1)..(n + m) : i \in 1..(n + m) /\ ~(i <= n)
    BY <1>1
  <2> QED  BY <1>2, <1>3, <2>1, <2>2, <2>3
<1>5. /\ U \in Seq(Replies) /\ Len(U) = n + m
      /\ \A i \in 1..(n + m) : U[i] = PlainOf(u[i])
  BY <1>1, PlainFacts
<1> HIDE DEF U, C
<1>6. \A i \in 1..(n + m) : U[i] = C[i]
  <2> SUFFICES ASSUME NEW i \in 1..(n + m) PROVE U[i] = C[i]
    OBVIOUS
  <2>1. CASE i \in 1..n
    BY <1>1, <1>2, <1>4, <1>5, <2>1
  <2>2. CASE i \in (n + 1)..(n + m)
    <3>1. i - n \in 1..m
      BY <1>1, <2>2
    <3> QED  BY <1>1, <1>3, <1>4, <1>5, <2>2, <3>1
  <2> QED  BY <1>1, <2>1, <2>2
<1>7. U = C
  BY <1>4, <1>5, <1>6, SeqEqual
<1> QED  BY <1>7 DEF U, C, P, Q, u

\* A step that leaves all of it alone is a stutter.
LEMMA SessionStutters ==
    ASSUME Up' = Up, Todo' = Todo, Outbox' = Outbox, Inbox' = Inbox, Err' = Err
    PROVE  UNCHANGED Session!vars
BY DEF Session!vars, Up, Todo, Outbox, Inbox, Err

\* In particular one between two stages of the service,
LEMMA ServingStutters ==
    ASSUME Up, Up',
           UNCHANGED <<stream, parsed, reply_buf, delivered, pending_error>>
    PROVE  UNCHANGED Session!vars
<1>1. Todo' = Todo
  BY DEF Todo
<1>2. Outbox' = Outbox /\ Inbox' = Inbox
  BY DEF Outbox, Inbox, Plain
<1>3. Err' = Err /\ Up' = Up
  BY DEF Err, Up
<1> QED  BY <1>1, <1>2, <1>3, SessionStutters

\* or one outside of it.
LEMMA OutsideStutters ==
    ASSUME ~Up, ~Up', delivered' = delivered
    PROVE  UNCHANGED Session!vars
<1>1. Todo' = Todo /\ Outbox' = Outbox
  BY DEF Todo, Outbox
<1>2. Inbox' = Inbox
  BY DEF Inbox, Plain
<1>3. Err' = Err /\ Up' = Up
  BY DEF Err, Up
<1> QED  BY <1>1, <1>2, <1>3, SessionStutters

\* The next request to serve is the one at the parser's position.
LEMMA NextRequest ==
    ASSUME TypeInv, Up, NameArrived, parsed' = parsed + 1, stream' = stream,
           stage' = stage
    PROVE  /\ Todo # <<>> /\ Head(Todo) = Current
           /\ Todo' = Tail(Todo)
<1>1. /\ stream \in Seq(Requests) /\ Len(stream) \in Nat
      /\ parsed + 1 \in 1..Len(stream) /\ Len(stream) \in (parsed + 1)..Len(stream)
  BY CurrentFacts DEF TypeInv
<1>2. /\ Head(SubSeq(stream, parsed + 1, Len(stream))) = stream[parsed + 1]
      /\ Tail(SubSeq(stream, parsed + 1, Len(stream)))
           = SubSeq(stream, parsed + 1 + 1, Len(stream))
  BY <1>1, HeadTailOfSubSeq
<1>3. Len(SubSeq(stream, parsed + 1, Len(stream))) # 0
  BY <1>1, SubSeqProperties
<1> QED  BY <1>2, <1>3, EmptySeqs DEF Todo, Current, Up

\* An answer serves the next request as the session says.
LEMMA AnswerIsServe ==
    ASSUME TypeInv, AnswerStep
    PROVE  Session!Next
<1>1. PICK ran \in BOOLEAN, status \in Statuses, response \in Seq(Pairs),
           e \in BOOLEAN : AnswerWith(ran, status, response, e)
  BY DEF AnswerStep
<1> DEFINE a == [cmd |-> Current.cmd, ran |-> ran, status |-> status,
                 response |-> response]
<1>2. /\ NameArrived /\ Up /\ Up' /\ Kind(ran, status, response, e)
      /\ reply_buf' = Append(reply_buf, a) /\ pending_error' = e
      /\ parsed' = parsed + 1
      /\ UNCHANGED <<stage, stream, delivered>>
  BY <1>1 DEF AnswerWith, Answer, input, client, Serving, Up
<1>3. Todo # <<>> /\ Head(Todo) = Current /\ Todo' = Tail(Todo)
  BY <1>2, NextRequest
<1>4. Err = pending_error /\ Err' = e /\ Up' = Up /\ pending_error \in BOOLEAN
  BY <1>2 DEF Err, Up, TypeInv
<1>5. Outbox' = Append(Outbox, [cmd |-> Head(Todo).cmd, ran |-> ran,
                                status |-> status])
  <2>1. a \in Answers
    BY <1>2, CurrentFacts, DigitsOf DEF Answers
  <2>2. PlainOf(a) = [cmd |-> Current.cmd, ran |-> ran, status |-> status]
    BY DEF PlainOf
  <2> HIDE DEF a
  <2>3. Plain(reply_buf') = Append(Plain(reply_buf), PlainOf(a))
    BY <1>2, <2>1, PlainAppend DEF TypeInv
  <2>4. Outbox' = Plain(reply_buf') /\ Outbox = Plain(reply_buf)
    BY <1>2 DEF Outbox, Plain
  <2> QED  BY <1>3, <2>2, <2>3, <2>4
<1>6. Inbox' = Inbox
  BY <1>2 DEF Inbox, Plain
<1>7. Session!Serve(ran, status, e, FALSE)
  BY <1>2, <1>3, <1>4, <1>5, <1>6
  DEF Session!Serve, Up, Todo, Outbox, Inbox, Err
<1>8. Session!StatusOf(e) = StatusOf(e)
  BY DEF Session!StatusOf, StatusOf
<1>9. CASE QueryKind(ran, status, response, e)
  <2>1. Session!Serve(FALSE, "none", Err, FALSE)
    BY <1>4, <1>7, <1>9 DEF QueryKind
  <2>2. Session!ServeQuery
    BY <1>3, <1>9, <2>1 DEF Session!ServeQuery, QueryKind, Todo, Err, Up
  <2> QED  BY <2>2 DEF Session!Next
<1>10. CASE ErrorKind(ran, status, response, e)
  <2>1. Session!Serve(FALSE, "none", FALSE, FALSE)
    BY <1>7, <1>10 DEF ErrorKind
  <2>2. Session!ServeError
    BY <1>3, <1>10, <2>1 DEF Session!ServeError, ErrorKind, Todo, Up
  <2> QED  BY <2>2 DEF Session!Next
<1>11. CASE ConfigureKind(ran, status, response, e)
  <2>1. (Err => e) /\ Session!Serve(FALSE, Session!StatusOf(e), e, FALSE)
    BY <1>4, <1>7, <1>8, <1>11 DEF ConfigureKind
  <2>2. Session!ServeConfigure
    BY <1>3, <1>11, <2>1 DEF Session!ServeConfigure, ConfigureKind, Todo, Err, Up
  <2> QED  BY <2>2 DEF Session!Next
<1>12. CASE EdpcKind(ran, status, response, e) \/ IdpcKind(ran, status, response, e)
  <2>1. /\ Err => e
        /\ Current.cmd \in {"edpc", "idpc"} \ {"lock", "unlock"}
        /\ ran = ~Err /\ status = Session!StatusOf(e)
    BY <1>4, <1>8, <1>12 DEF EdpcKind, IdpcKind
  <2>2. Session!Serve(~Err, Session!StatusOf(e), e, FALSE)
    BY <1>7, <2>1
  <2>3. Session!ServeWork
    BY <1>3, <2>1, <2>2 DEF Session!ServeWork, Todo, Err, Up
  <2> QED  BY <2>3 DEF Session!Next
<1> QED  BY <1>2, <1>9, <1>10, <1>11, <1>12 DEF Kind

\* A step that ends the service is a Disconnect.
LEMMA EndIsDisconnect ==
    ASSUME Up, ~Up', delivered' = delivered
    PROVE  Session!Next
<1>1. Todo' = <<>> /\ Outbox' = <<>> /\ Err' = FALSE /\ Up' = FALSE
  BY DEF Todo, Outbox, Err, Up
<1>2. Inbox' = Inbox
  BY DEF Inbox, Plain
<1>3. Session!Disconnect
  BY <1>1, <1>2 DEF Session!Disconnect, Up, Todo, Outbox, Inbox, Err
<1> QED  BY <1>3 DEF Session!Next

\* send_packet delivers the batch.
LEMMA SendIsDeliver ==
    ASSUME TypeInv, Send
    PROVE  [Session!Next]_(Session!vars)
<1>1. Up /\ Up' /\ pending_error' = pending_error
  BY DEF Send, ReadMore, Serving, Up
<1>2. /\ stream' = SubSeq(stream, parsed + 1, Len(stream)) /\ parsed' = 0
      /\ delivered' = delivered \o reply_buf /\ reply_buf' = <<>>
  BY DEF Send, ReadMore
<1>3. Todo' = Todo
  <2>1. /\ stream \in Seq(Requests) /\ parsed + 1 \in Int /\ Len(stream) \in Int
        /\ parsed \in Nat
    BY DEF TypeInv
  <2>2. \A i \in (parsed + 1)..Len(stream) : stream[i] \in Requests
    BY <2>1
  <2>3. stream' \in Seq(Requests)
    BY <1>2, <2>1, <2>2, SubSeqProperties
  <2>4. SubSeq(stream', 1, Len(stream')) = stream'
    BY <2>3, SubSeqFull
  <2>5. Todo' = SubSeq(stream', parsed' + 1, Len(stream'))
    BY <1>1 DEF Todo
  <2>6. parsed' + 1 = 1
    BY <1>2
  <2>7. Todo = stream'
    BY <1>1, <1>2 DEF Todo
  <2> QED  BY <2>4, <2>5, <2>6, <2>7
<1>4. Err' = Err /\ Up' = Up
  BY <1>1 DEF Err, Up
<1>5. Outbox = Plain(reply_buf) /\ Outbox' = <<>>
  <2>1. Outbox' = Plain(reply_buf')
    BY <1>1 DEF Outbox, Plain
  <2> QED  BY <1>1, <1>2, <2>1, PlainEmpty DEF Outbox
<1>6. Inbox' = Inbox \o Outbox
  <2>1. Inbox' = Plain(delivered')
    BY DEF Inbox, Plain
  <2>2. Plain(delivered') = Plain(delivered) \o Plain(reply_buf)
    BY <1>2, PlainConcat DEF TypeInv
  <2> QED  BY <1>5, <2>1, <2>2 DEF Inbox
<1>7. CASE Outbox # <<>>
  <2>1. Session!Deliver
    BY <1>1, <1>3, <1>4, <1>5, <1>6, <1>7
    DEF Session!Deliver, Up, Todo, Outbox, Inbox, Err
  <2> QED  BY <2>1 DEF Session!Next
<1>8. CASE Outbox = <<>>
  <2>1. Inbox \in Seq(Replies)
    BY PlainFacts DEF Inbox, TypeInv
  <2>2. Inbox' = Inbox
    BY <1>6, <1>8, <2>1, ConcatEmptySeq
  <2> QED  BY <1>3, <1>4, <1>5, <1>8, <2>2, SessionStutters
<1> QED  BY <1>7, <1>8

\* What is appended to a sequence is appended to the rest of it.
LEMMA SuffixAppend ==
    ASSUME NEW S, NEW s \in Seq(S), NEW r \in S, NEW k \in Nat, k <= Len(s)
    PROVE  SubSeq(Append(s, r), k + 1, Len(Append(s, r)))
             = Append(SubSeq(s, k + 1, Len(s)), r)
<1> DEFINE n == Len(s)
           t == Append(s, r)
           old == SubSeq(s, k + 1, n)
<1>1. n \in Nat /\ k <= n /\ \A i \in (k + 1)..n : s[i] \in S
  OBVIOUS
<1>2. t \in Seq(S) /\ Len(t) = n + 1 /\ t[n + 1] = r /\ t = s \o <<r>>
  BY AppendProperties, AppendIsConcat
<1>3. <<r>> \in Seq(S)
  OBVIOUS
<1> HIDE DEF n, t
<1>4. old \in Seq(S)
  BY <1>1, SubSeqProperties
<1>5. SubSeq(t, k + 1, n) = old
  <2>1. CASE k = n
    BY <1>1, <2>1, SubSeqEmpty
  <2>2. CASE k # n
    <3>1. k + 1 \in 1..n /\ n \in 1..n
      BY <1>1, <2>2
    <3> QED  BY <1>2, <1>3, <3>1, SubSeqOfConcat1 DEF n
  <2> QED  BY <2>1, <2>2
<1>6. SubSeq(t, k + 1, n + 1) = SubSeq(t, k + 1, (n + 1) - 1) \o <<t[n + 1]>>
  <2>1. k + 1 \in 1..Len(t) /\ n + 1 \in (k + 1)..Len(t)
    BY <1>1, <1>2
  <2> QED  BY <1>2, <2>1, SubSeqRecursiveSecond
<1>7. (n + 1) - 1 = n
  BY <1>1
<1> HIDE DEF old
<1>8. Append(old, r) = old \o <<r>>
  BY <1>4, AppendIsConcat
<1> QED  BY <1>2, <1>5, <1>6, <1>7, <1>8 DEF n, t, old

\* What a client writes is issued behind what is not served yet.
LEMMA WriteIsIssue ==
    ASSUME TypeInv, ClientWrite
    PROVE  Session!Next
<1>1. PICK r \in Requests : stream' = Append(stream, r)
  BY DEF ClientWrite
<1>2. /\ Up /\ Up'
      /\ UNCHANGED <<parsed, reply_buf, delivered, pending_error>>
  BY DEF ClientWrite, Up, batch, client
<1>3. Todo' = Append(Todo, r)
  <2>1. stream \in Seq(Requests) /\ parsed \in Nat /\ parsed <= Len(stream)
    BY DEF TypeInv
  <2>2. SubSeq(stream', parsed + 1, Len(stream'))
          = Append(SubSeq(stream, parsed + 1, Len(stream)), r)
    BY <1>1, <2>1, SuffixAppend
  <2> QED  BY <1>2, <2>2 DEF Todo
<1>4. Err' = Err /\ Up' = Up /\ Outbox' = Outbox /\ Inbox' = Inbox
  BY <1>2 DEF Err, Up, Outbox, Inbox, Plain
<1>5. Session!Issue
  BY <1>2, <1>3, <1>4 DEF Session!Issue, Up, Todo, Outbox, Inbox, Err
<1> QED  BY <1>5 DEF Session!Next

\* The server starts as a session does.
LEMMA SessionInit == ASSUME Init PROVE Session!Init
BY PlainEmpty DEF Init, Session!Init, Serving

\* Every step is one of the session or a stutter.
LEMMA SessionStep ==
    ASSUME TypeInv, [Next]_vars
    PROVE  [Session!Next]_(Session!vars)
<1>1. CASE Answering
  BY <1>1, AnswersAreAnswerSteps, AnswerIsServe
<1>2. CASE Accept
  <2>1. ~Up /\ Up' /\ parsed' = 0 /\ stream' = <<>> /\ reply_buf' = <<>>
        /\ delivered' = <<>> /\ pending_error' = FALSE
    BY <1>2 DEF Accept, Attempt, Up, Serving
  <2>2. Todo' = <<>>
    <3>1. Todo' = SubSeq(stream', parsed' + 1, Len(stream'))
      BY <2>1 DEF Todo
    <3> QED  BY <2>1, <3>1, SubSeqEmpty, EmptySeqs
  <2>3. Outbox' = <<>> /\ Inbox' = <<>>
    <3>1. Outbox' = Plain(reply_buf') /\ Inbox' = Plain(delivered')
      BY <2>1 DEF Outbox, Inbox, Plain
    <3> QED  BY <2>1, <3>1, PlainEmpty
  <2>4. Err' = FALSE /\ Up' = TRUE
    BY <2>1 DEF Err, Up
  <2>5. Session!Connect
    BY <2>1, <2>2, <2>3, <2>4 DEF Session!Connect, Up, Todo, Outbox, Inbox, Err
  <2> QED  BY <2>5 DEF Session!Next
<1>3. CASE StartUp \/ AcceptFails \/ AcceptNoPeer \/ MapFails
  <2>1. ~Up /\ ~Up' /\ delivered' = delivered
    BY <1>3
    DEF StartUp, ParseUrl, Resolve, TryAddress, HostName, Exhausted, Returns,
        AcceptFails, AcceptNoPeer, MapFails, Attempt, Up, Serving, NoTraffic, client
  <2> QED  BY <2>1, OutsideStutters
<1>4. CASE \/ NeedMore \/ ProtocolError \/ SendFails \/ RecvEnd \/ RecvFails
           \/ ClientClose \/ LinkLoses
  <2>1. /\ Up /\ Up'
        /\ UNCHANGED <<stream, parsed, reply_buf, delivered, pending_error>>
    BY <1>4
    DEF NeedMore, ProtocolError, SendFails, RecvEnd, RecvFails, ClientClose, LinkLoses,
        NoTraffic, input, batch, client, Up, Serving
  <2> QED  BY <2>1, ServingStutters
<1>5. CASE AssertFails \/ SendKilled \/ CloseConnection
  <2>1. Up /\ ~Up' /\ delivered' = delivered
    BY <1>5
    DEF AssertFails, SendKilled, CloseConnection, NoTraffic, client, Up, Serving
  <2> QED  BY <2>1, EndIsDisconnect
<1>6. CASE Send
  BY <1>6, SendIsDeliver
<1>7. CASE Recv
  <2>1. parsed = 0 /\ reply_buf = <<>>
    BY <1>7 DEF Recv, TypeInv
  <2>2. /\ Up /\ Up'
        /\ UNCHANGED <<stream, parsed, reply_buf, delivered, pending_error>>
    BY <1>7, <2>1 DEF Recv, ReadMore, client, Up, Serving
  <2> QED  BY <2>2, ServingStutters
<1>8. CASE ClientWrite
  BY <1>8, WriteIsIssue
<1>9. CASE Stopped \/ UNCHANGED vars
  <2>1. UNCHANGED <<stage, stream, parsed, reply_buf, delivered, pending_error>>
    BY <1>9 DEF Stopped, vars, input, batch, client
  <2>2. Up' = Up /\ Todo' = Todo /\ Outbox' = Outbox /\ Inbox' = Inbox /\ Err' = Err
    BY <2>1 DEF Up, Todo, Outbox, Inbox, Err, Plain
  <2> QED  BY <2>2, SessionStutters
<1> QED
  BY <1>1, <1>2, <1>3, <1>4, <1>5, <1>6, <1>7, <1>8, <1>9
  DEF Next, Listen, Parse, Answering, Transfer, Environment

\* This engine keeps the promise of XvcSession to its client as well, however TCP
\* cuts the requests and their numbers: a reply to each request, in order, an
\* error reported until "error:" collects it, and a callback run exactly when no
\* error waits (xvcserver.c:220-429).
THEOREM EngineIsASession == Spec => ImplementsSession
<1>1. Init => TypeInv /\ Session!Init
  BY TypeInvInit, SessionInit
<1>2. TypeInv /\ [Next]_vars => TypeInv' /\ [Session!Next]_(Session!vars)
  BY TypeInvStep, SessionStep
<1> QED  BY <1>1, <1>2, PTL DEF Spec, ImplementsSession, Session!Spec
-----------------------------------------------------------------------------
(* What the replies say of the channel *)

\* The first k members of s, one behind the other, for every k up to n.
Joins(s, n) == {f \in [1..n -> Seq(Pairs)] :
    \A i \in 1..n : f[i] = IF i = 1 THEN s[i] ELSE f[i - 1] \o s[i]}

LEMMA JoinsExist ==
    ASSUME NEW s \in Seq(Seq(Pairs))
    PROVE  \A n \in 0..Len(s) : Joins(s, n) # {}
<1> DEFINE Bad == {n \in 0..Len(s) : Joins(s, n) = {}}
<1>0. Len(s) \in Nat /\ \A i \in 1..Len(s) : s[i] \in Seq(Pairs)
  OBVIOUS
<1>1. ASSUME Bad # {}
      PROVE  FALSE
  <2>1. PICK n \in Bad : \A m \in Bad : n <= m
    <3>1. Bad \in SUBSET Nat
      BY <1>0
    <3> HIDE DEF Bad
    <3> QED  BY <1>1, <3>1, LeastNatural
  <2>2. n \in 0..Len(s) /\ n \in Nat /\ Joins(s, n) = {}
    BY <1>0, <2>1
  <2>3. CASE n = 0
    <3> DEFINE f == [i \in 1..n |-> <<>>]
    <3>1. 1..n = {}
      BY <2>3
    <3>2. f \in [1..n -> Seq(Pairs)]
      BY <3>1
    <3>3. \A i \in 1..n : f[i] = IF i = 1 THEN s[i] ELSE f[i - 1] \o s[i]
      BY <3>1
    <3> HIDE DEF f
    <3>4. f \in Joins(s, n)
      BY <3>2, <3>3 DEF Joins
    <3> QED  BY <2>2, <3>4
  <2>4. CASE n # 0
    <3>1. n - 1 \in 0..Len(s) /\ ~(n <= n - 1) /\ n \in 1..Len(s)
      BY <1>0, <2>2, <2>4
    <3>2. PICK g : g \in Joins(s, n - 1)
      BY <2>1, <3>1
    <3>3. /\ g \in [1..(n - 1) -> Seq(Pairs)]
          /\ \A i \in 1..(n - 1) : g[i] = IF i = 1 THEN s[i] ELSE g[i - 1] \o s[i]
      BY <3>2 DEF Joins
    <3> DEFINE last == IF n = 1 THEN s[n] ELSE g[n - 1] \o s[n]
               f == [i \in 1..n |-> IF i = n THEN last ELSE g[i]]
    <3>4. last \in Seq(Pairs)
      <4>1. s[n] \in Seq(Pairs)
        BY <1>0, <3>1
      <4>2. CASE n = 1
        BY <4>1, <4>2
      <4>3. CASE n # 1
        <5>1. n - 1 \in 1..(n - 1)
          BY <2>2, <2>4, <4>3
        <5>2. g[n - 1] \in Seq(Pairs)
          BY <3>3, <5>1
        <5>3. g[n - 1] \o s[n] \in Seq(Pairs)
          BY <4>1, <5>2, ConcatProperties
        <5> QED  BY <4>3, <5>3
      <4> QED  BY <4>2, <4>3
    <3>5. \A i \in 1..n : i = n \/ i \in 1..(n - 1)
      BY <2>2
    <3>6. f \in [1..n -> Seq(Pairs)]
      <4> HIDE DEF last
      <4> QED  BY <3>3, <3>4, <3>5
    <3>7. \A i \in 1..n : f[i] = IF i = 1 THEN s[i] ELSE f[i - 1] \o s[i]
      <4> SUFFICES ASSUME NEW i \in 1..n
                   PROVE  f[i] = IF i = 1 THEN s[i] ELSE f[i - 1] \o s[i]
        OBVIOUS
      <4>1. i # 1 => i - 1 \in 1..(n - 1) /\ i - 1 \in 1..n /\ i - 1 # n
        BY <2>2
      <4>2. i # 1 => f[i - 1] = g[i - 1]
        <5> HIDE DEF last
        <5> QED  BY <4>1
      <4>3. CASE i = n
        <5>1. f[i] = last
          BY <4>3
        <5> QED  BY <4>2, <4>3, <5>1
      <4>4. CASE i # n
        <5>1. i \in 1..(n - 1)
          BY <3>5, <4>4
        <5>2. f[i] = g[i]
          <6> HIDE DEF last
          <6> QED  BY <4>4
        <5>3. g[i] = IF i = 1 THEN s[i] ELSE g[i - 1] \o s[i]
          BY <3>3, <5>1
        <5> QED  BY <4>2, <5>2, <5>3
      <4> QED  BY <4>3, <4>4
    <3> HIDE DEF f
    <3>8. f \in Joins(s, n)
      BY <3>6, <3>7 DEF Joins
    <3> QED  BY <2>2, <3>8
  <2> QED  BY <2>3, <2>4
<1> QED  BY <1>1

\* FlattenSeq takes the last of them,
LEMMA FlattenIsJoin ==
    ASSUME NEW s \in Seq(Seq(Pairs)), s # <<>>
    PROVE  \E f \in Joins(s, Len(s)) : FlattenSeq(s) = f[Len(s)]
<1> DEFINE F == CHOOSE f : f = [i \in 1..Len(s) |->
                                  IF i = 1 THEN s[i] ELSE f[i - 1] \o s[i]]
<1>1. Len(s) \in Nat /\ Len(s) # 0 /\ Len(s) \in 0..Len(s)
  BY EmptySeq
<1>2. PICK f \in Joins(s, Len(s)) : TRUE
  BY <1>1, JoinsExist
<1>3. /\ f \in [1..Len(s) -> Seq(Pairs)]
      /\ \A i \in 1..Len(s) : f[i] = IF i = 1 THEN s[i] ELSE f[i - 1] \o s[i]
  BY <1>2 DEF Joins
<1>4. f = [i \in 1..Len(s) |-> IF i = 1 THEN s[i] ELSE f[i - 1] \o s[i]]
  <2> DEFINE h == [i \in 1..Len(s) |-> IF i = 1 THEN s[i] ELSE f[i - 1] \o s[i]]
  <2>1. \A i \in 1..Len(s) : h[i] = f[i]
    BY <1>3
  <2>2. DOMAIN h = 1..Len(s) /\ h = [i \in DOMAIN h |-> h[i]]
    OBVIOUS
  <2> HIDE DEF h
  <2>3. h = f
    BY <1>3, <2>1, <2>2, Zenon
  <2> QED  BY <2>3 DEF h
<1>5. F = [i \in 1..Len(s) |-> IF i = 1 THEN s[i] ELSE F[i - 1] \o s[i]]
  BY <1>4, Zenon
<1> HIDE DEF F
<1>6. FlattenSeq(s) = F[Len(s)]
  BY <1>1 DEF FlattenSeq, F
<1>7. \A i \in 1..Len(s) : F[i] = IF i = 1 THEN s[i] ELSE F[i - 1] \o s[i]
  BY <1>5
<1> DEFINE Bad == {n \in 1..Len(s) : F[n] # f[n]}
<1>8. ASSUME Bad # {}
      PROVE  FALSE
  <2>1. PICK n \in Bad : \A m \in Bad : n <= m
    <3>1. Bad \in SUBSET Nat
      OBVIOUS
    <3> HIDE DEF Bad
    <3> QED  BY <1>8, <3>1, LeastNatural
  <2>2. n \in 1..Len(s) /\ F[n] # f[n]
    BY <2>1
  <2>3. n # 1
    BY <1>3, <1>7, <2>2
  <2>4. n - 1 \in 1..Len(s) /\ ~(n <= n - 1)
    BY <1>1, <2>2, <2>3
  <2>5. F[n - 1] = f[n - 1]
    BY <2>1, <2>4
  <2>6. F[n] = F[n - 1] \o s[n] /\ f[n] = f[n - 1] \o s[n]
    BY <1>3, <1>7, <2>2, <2>3
  <2> QED  BY <2>2, <2>5, <2>6
<1>9. Len(s) \in 1..Len(s)
  BY <1>1
<1>10. F[Len(s)] = f[Len(s)]
  BY <1>8, <1>9
<1> QED  BY <1>6, <1>10

\* and two of them agree as far as both reach.
LEMMA JoinsAgree ==
    ASSUME NEW s, NEW t, NEW n \in Nat, NEW m \in Nat, n <= m,
           NEW f \in Joins(s, n), NEW g \in Joins(t, m),
           \A i \in 1..n : s[i] = t[i]
    PROVE  \A i \in 1..n : f[i] = g[i]
<1> DEFINE Bad == {i \in 1..n : f[i] # g[i]}
<1>1. ASSUME Bad # {}
      PROVE  FALSE
  <2>1. PICK k \in Bad : \A j \in Bad : k <= j
    <3>1. Bad \in SUBSET Nat
      OBVIOUS
    <3> HIDE DEF Bad
    <3> QED  BY <1>1, <3>1, LeastNatural
  <2>2. k \in 1..n /\ k \in 1..m /\ f[k] # g[k]
    BY <2>1
  <2>3. /\ \A i \in 1..n : f[i] = IF i = 1 THEN s[i] ELSE f[i - 1] \o s[i]
        /\ \A i \in 1..m : g[i] = IF i = 1 THEN t[i] ELSE g[i - 1] \o t[i]
    BY DEF Joins
  <2>4. s[k] = t[k]
    BY <2>2
  <2>5. k # 1
    BY <2>2, <2>3, <2>4
  <2>6. k - 1 \in 1..n /\ ~(k <= k - 1)
    BY <2>2, <2>5
  <2>7. f[k - 1] = g[k - 1]
    BY <2>1, <2>6
  <2>8. f[k] = f[k - 1] \o s[k] /\ g[k] = g[k - 1] \o t[k]
    BY <2>2, <2>3, <2>5
  <2> QED  BY <2>2, <2>4, <2>7, <2>8
<1> QED  BY <1>1

LEMMA FlattenAppend ==
    ASSUME NEW s \in Seq(Seq(Pairs)), NEW r \in Seq(Pairs)
    PROVE  FlattenSeq(Append(s, r)) = FlattenSeq(s) \o r
<1> DEFINE n == Len(s)
           t == Append(s, r)
<1>1. /\ n \in Nat /\ t \in Seq(Seq(Pairs)) /\ Len(t) = n + 1 /\ t[n + 1] = r
      /\ \A i \in 1..n : t[i] = s[i]
  BY AppendProperties
<1> HIDE DEF t
<1>2. t # <<>>
  BY <1>1, EmptySeqs
<1>3. PICK g \in Joins(t, n + 1) : FlattenSeq(t) = g[n + 1]
  BY <1>1, <1>2, FlattenIsJoin
<1>4. \A i \in 1..(n + 1) : g[i] = IF i = 1 THEN t[i] ELSE g[i - 1] \o t[i]
  BY <1>3 DEF Joins
<1>5. CASE n = 0
  <2>1. s = <<>>
    BY <1>5, EmptySeq
  <2>2. FlattenSeq(s) = <<>>
    BY <1>5, <2>1 DEF FlattenSeq
  <2>3. g[n + 1] = r
    BY <1>1, <1>4, <1>5
  <2>4. <<>> \o r = r
    BY ConcatEmptySeq
  <2> QED  BY <1>3, <2>2, <2>3, <2>4 DEF t
<1>6. CASE n # 0
  <2>1. s # <<>>
    BY <1>6, EmptySeqs
  <2>2. PICK f \in Joins(s, n) : FlattenSeq(s) = f[n]
    BY <2>1, FlattenIsJoin
  <2> HIDE DEF n
  <2>3. n \in 1..n /\ n <= n + 1 /\ n + 1 \in Nat /\ n + 1 \in 1..(n + 1)
        /\ n + 1 # 1 /\ (n + 1) - 1 = n
    BY <1>1, <1>6
  <2>4. \A i \in 1..n : f[i] = g[i]
    <3>1. \A i \in 1..n : s[i] = t[i]
      BY <1>1
    <3> DEFINE m == n + 1
    <3>2. n \in Nat /\ m \in Nat /\ n <= m /\ f \in Joins(s, n) /\ g \in Joins(t, m)
      BY <1>1, <1>3, <2>2, <2>3
    <3> HIDE DEF m
    <3> QED  BY <3>1, <3>2, JoinsAgree
  <2>5. g[n + 1] = g[(n + 1) - 1] \o t[n + 1]
    BY <1>4, <2>3
  <2> QED  BY <1>1, <1>3, <2>2, <2>3, <2>4, <2>5 DEF t
<1> QED  BY <1>5, <1>6

\* What one more reply adds to the responses and to the packets reported taken.
Taken(replies) == {i \in DOMAIN replies :
                      replies[i].cmd = "idpc" /\ replies[i].status = "ok"}

LEMMA ResponsesAppend ==
    ASSUME NEW s \in Seq(Answers), NEW a \in Answers
    PROVE  Responses(Append(s, a)) = Responses(s) \o a.response
<1> DEFINE n == Len(s)
           t == Append(s, a)
           R == [i \in 1..n |-> s[i].response]
           T == [i \in 1..(n + 1) |-> t[i].response]
           A == Append(R, a.response)
<1>1. /\ n \in Nat /\ \A i \in 1..n : s[i] \in Answers
      /\ t \in Seq(Answers) /\ Len(t) = n + 1 /\ t[n + 1] = a
      /\ \A i \in 1..n : t[i] = s[i]
  BY AppendProperties
<1>2. DOMAIN s = 1..n
  OBVIOUS
<1> HIDE DEF n, t
<1>3. DOMAIN t = 1..(n + 1) /\ \A i \in 1..(n + 1) : t[i] \in Answers
  BY <1>1
<1>4. \A b \in Answers : b.response \in Seq(Pairs)
  BY DEF Answers
<1>5. R \in Seq(Seq(Pairs)) /\ Len(R) = n /\ \A i \in 1..n : R[i] = s[i].response
  BY <1>1, <1>4
<1>6. /\ T \in Seq(Seq(Pairs)) /\ Len(T) = n + 1
      /\ \A i \in 1..(n + 1) : T[i] = t[i].response
  BY <1>1, <1>3, <1>4
<1> HIDE DEF R, T
<1>7. /\ A \in Seq(Seq(Pairs)) /\ Len(A) = n + 1 /\ A[n + 1] = a.response
      /\ \A i \in 1..n : A[i] = s[i].response
  <2>1. a.response \in Seq(Pairs)
    BY <1>4
  <2> QED  BY <1>5, <2>1, AppendProperties
<1> HIDE DEF A
<1>8. \A i \in 1..(n + 1) : T[i] = A[i]
  <2>1. \A i \in 1..(n + 1) : i = n + 1 \/ i \in 1..n
    BY <1>1
  <2>2. n + 1 \in 1..(n + 1)
    BY <1>1
  <2> QED  BY <1>1, <1>6, <1>7, <2>1, <2>2
<1>9. T = A
  BY <1>6, <1>7, <1>8, SeqEqual
<1>10. FlattenSeq(A) = FlattenSeq(R) \o a.response
  BY <1>4, <1>5, FlattenAppend DEF A
<1>11. Responses(t) = FlattenSeq(T) /\ Responses(s) = FlattenSeq(R)
  BY <1>2, <1>3 DEF Responses, T, R
<1> QED  BY <1>9, <1>10, <1>11 DEF t

LEMMA TakenAppend ==
    ASSUME NEW s \in Seq(Answers), NEW a \in Answers
    PROVE  /\ Cardinality(Taken(s)) \in Nat
           /\ Cardinality(Taken(Append(s, a))) = Cardinality(Taken(s))
                + (IF a.cmd = "idpc" /\ a.status = "ok" THEN 1 ELSE 0)
<1> DEFINE n == Len(s)
           t == Append(s, a)
<1>1. /\ n \in Nat /\ DOMAIN s = 1..n
      /\ t \in Seq(Answers) /\ Len(t) = n + 1 /\ t[n + 1] = a
      /\ \A i \in 1..n : t[i] = s[i]
  BY AppendProperties
<1> HIDE DEF n, t
<1>2. DOMAIN t = 1..(n + 1)
  BY <1>1
<1>3. IsFiniteSet(Taken(s))
  <2>1. IsFiniteSet(1..n)
    BY <1>1, FS_Interval
  <2> QED  BY <1>1, <2>1, FS_Subset DEF Taken
<1>4. n + 1 \notin Taken(s)
  BY <1>1 DEF Taken
<1>5. Taken(t) = IF a.cmd = "idpc" /\ a.status = "ok"
                 THEN Taken(s) \cup {n + 1} ELSE Taken(s)
  <2>1. \A i \in 1..(n + 1) : i = n + 1 \/ i \in 1..n
    BY <1>1
  <2>2. n + 1 \in 1..(n + 1) /\ \A i \in 1..n : i \in 1..(n + 1) /\ i # n + 1
    BY <1>1
  <2> QED  BY <1>1, <1>2, <2>1, <2>2 DEF Taken
<1>6. Cardinality(Taken(s)) \in Nat
  BY <1>3, FS_CardinalityType
<1>7. Cardinality(Taken(s) \cup {n + 1}) = Cardinality(Taken(s)) + 1
  BY <1>3, <1>4, FS_AddElement
<1> QED  BY <1>5, <1>6, <1>7 DEF t

LEMMA NothingTaken == Responses(<<>>) = <<>> /\ Cardinality(Taken(<<>>)) = 0
<1>1. DOMAIN <<>> = {} /\ Len(<<>>) = 0
  OBVIOUS
<1>2. [i \in {} |-> <<>>[i].response] = <<>>
  OBVIOUS
<1>3. Responses(<<>>) = <<>>
  BY <1>1, <1>2 DEF Responses, FlattenSeq
<1>4. Taken(<<>>) = {}
  BY <1>1 DEF Taken
<1> QED  BY <1>3, <1>4, FS_EmptySet

\* LinkHonest, where the connection began within what the channel has returned.
HonestInv ==
    stage \in Serving =>
        /\ before.got <= Len(got)
        /\ taken - before.taken = Cardinality(Taken(History))
        /\ Responses(History) = SubSeq(got, before.got + 1, Len(got))

LEMMA HonestIdle ==
    ASSUME HonestInv, stage' \in Serving => stage \in Serving,
           UNCHANGED <<delivered, reply_buf, taken, got, before>>
    PROVE  HonestInv'
BY DEF HonestInv, History, Taken, Responses

LEMMA HonestAnswer == TypeInv /\ HonestInv /\ AnswerStep => HonestInv'
<1> SUFFICES ASSUME TypeInv, HonestInv, AnswerStep PROVE HonestInv'
  OBVIOUS
<1>1. PICK ran \in BOOLEAN, status \in Statuses, response \in Seq(Pairs),
           e \in BOOLEAN : AnswerWith(ran, status, response, e)
  BY DEF AnswerStep
<1> DEFINE a == [cmd |-> Current.cmd, ran |-> ran, status |-> status,
                 response |-> response]
           H == History
<1>2. /\ stage = "scan" /\ NameArrived /\ Kind(ran, status, response, e)
      /\ reply_buf' = Append(reply_buf, a)
      /\ UNCHANGED <<delivered, before>>
  BY <1>1 DEF AnswerWith, Answer, client
<1>3. a \in Answers /\ a.cmd = Current.cmd /\ a.status = status
      /\ a.response = response
  BY <1>2, CurrentFacts, DigitsOf DEF Answers
<1> HIDE DEF a
<1>4. reply_buf \in Seq(Answers) /\ delivered \in Seq(Answers)
  BY DEF TypeInv
<1>5. H \in Seq(Answers)
  BY <1>4, ConcatProperties DEF History
<1>6. History' = Append(H, a)
  <2>1. <<a>> \in Seq(Answers)
    BY <1>3
  <2>2. reply_buf' = reply_buf \o <<a>>
    BY <1>2, <1>3, <1>4, AppendIsConcat
  <2>3. delivered \o (reply_buf \o <<a>>) = (delivered \o reply_buf) \o <<a>>
    BY <1>4, <2>1, ConcatAssociative
  <2>4. Append(H, a) = H \o <<a>>
    BY <1>3, <1>5, AppendIsConcat
  <2> QED  BY <1>2, <2>2, <2>3, <2>4 DEF History
<1> HIDE DEF H
<1>7. Responses(Append(H, a)) = Responses(H) \o response
  BY <1>3, <1>5, ResponsesAppend
<1>8. /\ Cardinality(Taken(H)) \in Nat
      /\ Cardinality(Taken(Append(H, a))) = Cardinality(Taken(H))
           + (IF Current.cmd = "idpc" /\ status = "ok" THEN 1 ELSE 0)
  BY <1>3, <1>5, TakenAppend
<1>9. /\ before.got <= Len(got) /\ before.got \in Nat /\ before.taken \in Nat
      /\ taken \in Nat /\ got \in Seq(Pairs) /\ queue \in Seq(Pairs)
      /\ Len(got) \in Nat
      /\ taken - before.taken = Cardinality(Taken(H))
      /\ Responses(H) = SubSeq(got, before.got + 1, Len(got))
  <2>1. /\ before.got \in Nat /\ before.taken \in Nat
        /\ taken \in Nat /\ got \in Seq(Pairs) /\ queue \in Seq(Pairs)
    BY DEF TypeInv, LinkType
  <2>2. /\ before.got <= Len(got)
        /\ taken - before.taken = Cardinality(Taken(H))
        /\ Responses(H) = SubSeq(got, before.got + 1, Len(got))
    BY <1>2 DEF HonestInv, Serving, H
  <2>3. Len(got) \in Nat
    BY <2>1
  <2> QED  BY <2>1, <2>2, <2>3
<1>10. Responses(H) \in Seq(Pairs)
  BY <1>9, SubSeqProperties
<1>11. /\ Responses(History)' = Responses(Append(H, a))
       /\ Cardinality(Taken(History))' = Cardinality(Taken(Append(H, a)))
  BY <1>6 DEF Responses, Taken
<1>12. CASE /\ UNCHANGED link /\ response = <<>>
            /\ ~(Current.cmd = "idpc" /\ status = "ok")
  <2>1. Responses(Append(H, a)) = Responses(H)
    BY <1>7, <1>10, <1>12, ConcatEmptySeq
  <2>2. Cardinality(Taken(Append(H, a))) = Cardinality(Taken(H))
    BY <1>8, <1>12
  <2>3. taken' = taken /\ got' = got /\ before' = before
    BY <1>2, <1>12 DEF link
  <2> QED  BY <1>9, <1>11, <2>1, <2>2, <2>3 DEF HonestInv
<1>13. CASE Link!Get /\ response = <<Head(queue)>> /\ Current.cmd = "edpc"
  <2>1. queue # <<>> /\ got' = Append(got, Head(queue)) /\ taken' = taken
    BY <1>13 DEF Link!Get
  <2>2. Head(queue) \in Pairs
    BY <1>9, <2>1
  <2>3. Responses(Append(H, a)) = Append(Responses(H), Head(queue))
    BY <1>7, <1>10, <1>13, <2>2, AppendIsConcat
  <2>4. SubSeq(got', before.got + 1, Len(got')) = Append(Responses(H), Head(queue))
    <3>1. SubSeq(Append(got, Head(queue)), before.got + 1,
                 Len(Append(got, Head(queue))))
            = Append(SubSeq(got, before.got + 1, Len(got)), Head(queue))
      BY <1>9, <2>2, SuffixAppend
    <3> QED  BY <1>9, <2>1, <3>1
  <2>5. Cardinality(Taken(Append(H, a))) = Cardinality(Taken(H))
    BY <1>8, <1>13
  <2>6. before.got <= Len(got')
    BY <1>9, <2>1, <2>2, AppendProperties
  <2> QED  BY <1>2, <1>9, <1>11, <2>1, <2>3, <2>4, <2>5, <2>6 DEF HonestInv
<1>14. CASE Link!Put /\ response = <<>> /\ Current.cmd = "idpc" /\ status = "ok"
  <2>1. taken' = taken + 1 /\ got' = got
    BY <1>14 DEF Link!Put
  <2>2. Responses(Append(H, a)) = Responses(H)
    BY <1>7, <1>10, <1>14, ConcatEmptySeq
  <2>3. Cardinality(Taken(Append(H, a))) = Cardinality(Taken(H)) + 1
    BY <1>8, <1>14
  <2>4. taken' - before.taken = Cardinality(Taken(Append(H, a)))
    <3> DEFINE x == Cardinality(Taken(H))
               y == Cardinality(Taken(Append(H, a)))
               b == before.taken
    <3>1. x \in Nat /\ b \in Nat /\ taken \in Nat /\ taken - b = x
          /\ y = x + 1 /\ taken' = taken + 1
      BY <1>8, <1>9, <2>1, <2>3
    <3> HIDE DEF x, y, b
    <3>2. taken' - b = y
      BY <3>1
    <3> QED  BY <3>2 DEF y, b
  <2> QED  BY <1>2, <1>9, <1>11, <2>1, <2>2, <2>4 DEF HonestInv
<1> QED
  BY <1>2, <1>12, <1>13, <1>14, StatusFacts
  DEF Kind, QueryKind, ErrorKind, ConfigureKind, EdpcKind, IdpcKind

LEMMA HonestStep == TypeInv /\ HonestInv /\ [Next]_vars => HonestInv'
<1> SUFFICES ASSUME TypeInv, HonestInv, [Next]_vars PROVE HonestInv'
  OBVIOUS
<1>1. CASE Answering
  BY <1>1, AnswersAreAnswerSteps, HonestAnswer
<1>2. CASE Accept
  <2>1. /\ delivered' = <<>> /\ reply_buf' = <<>> /\ taken' = taken /\ got' = got
        /\ before' = [taken |-> taken, got |-> Len(got)]
    BY <1>2 DEF Accept, OpenPort, Link!Lose
  <2>2. History' = <<>>
    <3>1. History' = <<>> \o <<>>
      BY <2>1 DEF History
    <3> QED  BY <3>1, EmptySeqs, ConcatEmptySeq
  <2>3. Responses(History)' = <<>> /\ Cardinality(Taken(History))' = 0
    BY <2>2, NothingTaken DEF Responses, Taken
  <2>4. taken \in Nat /\ got \in Seq(Pairs) /\ Len(got) \in Nat
    BY DEF TypeInv, LinkType
  <2>5. SubSeq(got, Len(got) + 1, Len(got)) = <<>>
    BY <2>4, SubSeqEmpty
  <2>6. before'.taken = taken /\ before'.got = Len(got)
    BY <2>1
  <2> QED  BY <2>1, <2>3, <2>4, <2>5, <2>6 DEF HonestInv
<1>3. CASE StartUp \/ AcceptFails \/ AcceptNoPeer \/ MapFails
  <2>1. stage' \notin Serving
    BY <1>3
    DEF StartUp, ParseUrl, Resolve, TryAddress, HostName, Exhausted, Returns,
        AcceptFails, AcceptNoPeer, MapFails, Attempt, Serving
  <2> QED  BY <2>1 DEF HonestInv
<1>4. CASE \/ NeedMore \/ AssertFails \/ ProtocolError \/ SendFails \/ SendKilled
           \/ RecvEnd \/ RecvFails \/ CloseConnection \/ ClientWrite \/ ClientClose
           \/ LinkLoses \/ Stopped \/ UNCHANGED vars
  <2>1. /\ stage' \in Serving => stage \in Serving
        /\ UNCHANGED <<delivered, reply_buf, taken, got, before>>
    BY <1>4
    DEF NeedMore, AssertFails, ProtocolError, SendFails, SendKilled, RecvEnd,
        RecvFails, CloseConnection, ClientWrite, ClientClose, LinkLoses, Link!Lose,
        Stopped, vars, NoTraffic, batch, client, link, Serving
  <2> QED  BY <2>1, HonestIdle
<1>5. CASE Send \/ Recv
  <2>1. /\ stage \in Serving /\ UNCHANGED <<taken, got, before>>
    BY <1>5 DEF Send, Recv, Serving, client, link
  <2>2. reply_buf \in Seq(Answers) /\ delivered \in Seq(Answers)
    BY DEF TypeInv
  <2>3. delivered \o reply_buf \in Seq(Answers)
    BY <2>2, ConcatProperties
  <2>4. CASE Send
    <3>1. delivered' = delivered \o reply_buf /\ reply_buf' = <<>>
      BY <2>4 DEF Send, ReadMore
    <3>2. (delivered \o reply_buf) \o <<>> = delivered \o reply_buf
      BY <2>3, ConcatEmptySeq
    <3>3. History' = History
      BY <3>1, <3>2 DEF History
    <3> QED  BY <2>1, <3>3 DEF HonestInv, Responses, Taken
  <2>5. CASE Recv
    <3>1. UNCHANGED <<delivered, reply_buf>>
      BY <2>5 DEF Recv, ReadMore, client, TypeInv
    <3> QED  BY <2>1, <3>1, HonestIdle
  <2> QED  BY <1>5, <2>4, <2>5
<1> QED
  BY <1>1, <1>2, <1>3, <1>4, <1>5
  DEF Next, Listen, Parse, Answering, Transfer, Environment

\* As many idpc: of a connection are answered "ok" as packets were taken in it,
\* and what its edpc: replies carry are the responses returned in it, each once
\* and in order, replies not sent yet included (xvc_dpc.c:93-141).
THEOREM LinkIsHonest == Spec => []LinkHonest
<1>1. Init => TypeInv /\ HonestInv
  BY TypeInvInit DEF Init, HonestInv, Serving
<1>2. TypeInv /\ HonestInv /\ [Next]_vars => (TypeInv /\ HonestInv)'
  BY TypeInvStep, HonestStep
<1>3. HonestInv => LinkHonest
  BY DEF HonestInv, LinkHonest, Taken
<1> QED  BY <1>1, <1>2, <1>3, PTL DEF Spec
=============================================================================
