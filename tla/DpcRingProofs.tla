---------------------------- MODULE DpcRingProofs ----------------------------
(***************************************************************************)
(* Theorems about the two descriptor rings, for every length of the rings, *)
(* every bound on the packets a client leaves unanswered and every fault   *)
(* of the DMA.                                                             *)
(***************************************************************************)
EXTENDS DpcRing, TLAPS

\* The slot j behind slot i in ring order, and how far behind i slot k is.
Plus(i, j) == IF i + j < N THEN i + j ELSE i + j - N
Dist(i, k) == IF i <= k THEN k - i ELSE k - i + N

\* The armed descriptors are the n from cur on, and next is the one behind them.
Armed(sts, cur, n, next) ==
    /\ cur \in Slots /\ n \in 0..N
    /\ next = Plus(cur, n)
    /\ \A k \in Slots : sts[k] = "armed" <=> Dist(cur, k) < n

\* Of those armed, the DMA may process the first n, up to tail: it waits when
\* there is none.
HandedOver(cur, tail, idle, n) ==
    /\ idle <=> n = 0
    /\ n > 0 => tail = Plus(cur, n - 1)

Statuses == {"done", "error", "armed"}

TypeInv ==
    /\ ists \in [Slots -> Statuses] /\ ests \in [Slots -> Statuses]
    /\ ilast \in Slots \cup {-1} /\ elast \in Slots
    /\ itail \in Slots /\ etail \in Slots
    /\ iidle \in BOOLEAN /\ eidle \in BOOLEAN /\ ebusy \in BOOLEAN
    /\ pc \in {"idle", "arm", "kick", "rearm", "copy"}

\* A descriptor is armed before its TAIL is written; until then the DMA must do
\* with the others.
Kicking == IF pc = "kick" THEN 1 ELSE 0
IngressInv ==
    \E n \in 0..N :
        /\ Armed(ists, icur, n + Kicking, Plus(Succ(ilast), Kicking))
        /\ HandedOver(icur, itail, iidle, n)
        /\ pc = "arm" => ists[Succ(ilast)] # "armed"
Rearming == IF pc = "rearm" THEN 1 ELSE 0
EgressInv ==
    /\ \E n \in 0..N :
        /\ Armed(ests, ecur, n + Rearming, Plus(Succ(elast), Rearming))
        /\ HandedOver(ecur, etail, eidle, n)
    /\ ebusy => ~eidle

Inv == TypeInv /\ IngressInv /\ EgressInv

-----------------------------------------------------------------------------
(* The rings *)

\* A slot has a successor, and the successor is the slot one behind it.
LEMMA SuccSlot ==
    /\ \A i \in Slots : Succ(i) \in Slots /\ Succ(i) = Plus(i, 1)
    /\ Succ(-1) \in Slots
    BY RingAssumption DEF Slots, Succ, Plus

\* The server arms the descriptor behind the last one armed, which is free: the
\* armed ones are still a stretch of the ring, one longer.
LEMMA RingPush ==
    ASSUME NEW sts \in [Slots -> Statuses], NEW cur, NEW n, NEW next,
           Armed(sts, cur, n, next), sts[next] # "armed"
    PROVE  Armed([sts EXCEPT ![next] = "armed"], cur, n + 1, Plus(next, 1))
    <1>1. /\ cur \in Nat /\ cur < N /\ n \in Nat /\ n <= N /\ N \in Nat /\ N > 0
          /\ next = Plus(cur, n)
        BY RingAssumption DEF Armed, Slots
    <1>2. next \in Slots /\ next \in Int
        BY <1>1 DEF Slots, Plus
    <1>3. ~(Dist(cur, next) < n)
        BY <1>2 DEF Armed
    <1>4. n < N /\ Dist(cur, next) = n
        BY <1>1, <1>3 DEF Plus, Dist
    <1>5. Plus(next, 1) = Plus(cur, n + 1)
        BY <1>1, <1>4 DEF Plus
    <1>6. ASSUME NEW k \in Slots
          PROVE  [sts EXCEPT ![next] = "armed"][k] = "armed" <=> Dist(cur, k) < n + 1
        <2>1. CASE k = next
            BY <2>1, <1>1, <1>2, <1>4
        <2>2. CASE k # next
            <3>1. Dist(cur, k) # n /\ Dist(cur, k) \in Int
                <4>1. k \in Int /\ 0 <= k /\ k < N
                    BY <1>1 DEF Slots
                <4> QED  BY <4>1, <1>1, <1>4, <2>2 DEF Plus, Dist
            <3>2. sts[k] = "armed" <=> Dist(cur, k) < n
                BY DEF Armed
            <3>3. Dist(cur, k) < n + 1 <=> Dist(cur, k) < n
                BY <3>1, <1>1
            <3>4. [sts EXCEPT ![next] = "armed"][k] = sts[k]
                BY <2>2
            <3> QED  BY <3>2, <3>3, <3>4
        <2> QED  BY <2>1, <2>2
    <1>7. cur \in Slots /\ n + 1 \in 0..N
        BY <1>1, <1>4 DEF Slots
    <1> QED  BY <1>5, <1>6, <1>7 DEF Armed

\* The DMA is through with the first armed descriptor: the armed ones are the
\* others, from its successor on.
LEMMA RingPop ==
    ASSUME NEW sts \in [Slots -> Statuses], NEW cur, NEW n, NEW next,
           NEW status \in {"done", "error"},
           Armed(sts, cur, n, next), n > 0
    PROVE  Armed([sts EXCEPT ![cur] = status], Succ(cur), n - 1, next)
    <1>1. /\ cur \in Nat /\ cur < N /\ n \in Nat /\ n <= N /\ N \in Nat /\ N > 0
          /\ next = Plus(cur, n) /\ cur \in Slots
        BY RingAssumption DEF Armed, Slots
    <1>2. Succ(cur) \in Slots
        BY <1>1, SuccSlot
    <1>3. next = Plus(Succ(cur), n - 1)
        BY <1>1 DEF Plus, Succ
    <1>4. ASSUME NEW k \in Slots
          PROVE  [sts EXCEPT ![cur] = status][k] = "armed"
                     <=> Dist(Succ(cur), k) < n - 1
        <2>0. k \in Int /\ 0 <= k /\ k < N
            BY <1>1 DEF Slots
        <2>1. CASE k = cur
            <3>1. [sts EXCEPT ![cur] = status][k] = status /\ status # "armed"
                BY <2>1, <1>1
            <3>2. ~(Dist(Succ(cur), k) < n - 1)
                BY <2>0, <2>1, <1>1 DEF Dist, Succ
            <3> QED  BY <3>1, <3>2
        <2>2. CASE k # cur
            <3>1. Dist(Succ(cur), k) = Dist(cur, k) - 1 /\ Dist(cur, k) \in Int
                BY <2>0, <2>2, <1>1 DEF Dist, Succ
            <3>2. sts[k] = "armed" <=> Dist(cur, k) < n
                BY DEF Armed
            <3>3. Dist(Succ(cur), k) < n - 1 <=> Dist(cur, k) < n
                BY <3>1, <1>1
            <3>4. [sts EXCEPT ![cur] = status][k] = sts[k]
                BY <2>2
            <3> QED  BY <3>2, <3>3, <3>4
        <2> QED  BY <2>1, <2>2
    <1>5. n - 1 \in 0..N
        BY <1>1
    <1> QED  BY <1>2, <1>3, <1>4, <1>5 DEF Armed

\* ... and it waits when the one it is through with is TAIL.
LEMMA HandedPop ==
    ASSUME NEW cur \in Slots, NEW tail, NEW idle, NEW n \in 0..N,
           HandedOver(cur, tail, idle, n), n > 0
    PROVE  HandedOver(Succ(cur), tail, (cur = tail), n - 1)
    <1>1. /\ cur \in Nat /\ cur < N /\ n \in Nat /\ n <= N /\ N \in Nat /\ N > 0
          /\ tail = Plus(cur, n - 1)
        BY RingAssumption DEF HandedOver, Slots
    <1>2. cur = tail <=> n - 1 = 0
        BY <1>1 DEF Plus
    <1>3. n - 1 > 0 => tail = Plus(Succ(cur), (n - 1) - 1)
        BY <1>1 DEF Plus, Succ
    <1> QED  BY <1>2, <1>3 DEF HandedOver

\* TAIL is written: the descriptor armed last is handed over with the others.
LEMMA HandedPush ==
    ASSUME NEW sts, NEW cur, NEW n \in 0..N, NEW tail \in Slots,
           Armed(sts, cur, n + 1, Plus(tail, 1))
    PROVE  n + 1 \in 0..N /\ HandedOver(cur, tail, FALSE, n + 1)
    <1>1. /\ cur \in Nat /\ cur < N /\ n \in Nat /\ n + 1 <= N /\ N \in Nat
          /\ tail \in Nat /\ tail < N /\ Plus(tail, 1) = Plus(cur, n + 1)
        BY RingAssumption DEF Armed, Slots
    <1>2. tail = Plus(cur, (n + 1) - 1)
        BY <1>1 DEF Plus
    <1>3. n + 1 > 0 /\ n + 1 # 0 /\ n + 1 \in 0..N
        BY <1>1
    <1> QED  BY <1>2, <1>3 DEF HandedOver

\* The descriptor the DMA is at is armed when it may process one.
LEMMA AtIsArmed ==
    ASSUME NEW sts, NEW cur, NEW m, NEW next, Armed(sts, cur, m, next), m > 0
    PROVE  cur \in Slots /\ sts[cur] = "armed"
    <1>1. cur \in Slots /\ cur \in Int
        BY RingAssumption DEF Armed, Slots
    <1>2. Dist(cur, cur) = 0
        BY <1>1 DEF Dist
    <1> QED  BY <1>1, <1>2 DEF Armed

\* When the descriptor behind the armed ones is armed too, all are.
LEMMA NextArmed ==
    ASSUME NEW sts, NEW cur, NEW m, NEW next,
           Armed(sts, cur, m, next), next \in Slots, sts[next] = "armed"
    PROVE  \A k \in Slots : sts[k] = "armed"
    <1>1. /\ cur \in Nat /\ cur < N /\ m \in Nat /\ m <= N /\ N \in Nat /\ N > 0
          /\ next = Plus(cur, m)
        BY RingAssumption DEF Armed, Slots
    <1>2. Dist(cur, next) < m
        BY DEF Armed
    <1>3. m = N
        BY <1>1, <1>2 DEF Plus, Dist
    <1>4. ASSUME NEW k \in Slots  PROVE Dist(cur, k) < m
        <2>1. k \in Int /\ 0 <= k /\ k < N
            BY <1>1 DEF Slots
        <2> QED  BY <2>1, <1>1, <1>3 DEF Dist
    <1> QED  BY <1>4 DEF Armed

\* The rings as hsdp_setup_dma leaves them.
LEMMA FreshRings ==
    /\ Armed(AllDone, 0, 0, 0) /\ HandedOver(0, N - 1, TRUE, 0)
    /\ Armed(AllArmed, 0, N, 0) /\ HandedOver(0, N - 1, FALSE, N)
    <1>1. N \in Nat /\ N > 0 /\ 0 \in Slots
        BY RingAssumption DEF Slots
    <1>2. Plus(0, 0) = 0 /\ Plus(0, N) = 0 /\ Plus(0, N - 1) = N - 1
        BY <1>1 DEF Plus
    <1>3. \A k \in Slots : Dist(0, k) < N /\ ~(Dist(0, k) < 0)
        BY <1>1 DEF Dist, Slots
    <1>4. 0 \in 0..N /\ N \in 0..N /\ N # 0 /\ ~(0 > 0)
        BY <1>1
    <1>5. \A k \in Slots : AllDone[k] = "done" /\ AllArmed[k] = "armed"
        BY DEF AllDone, AllArmed
    <1>6. Armed(AllDone, 0, 0, 0)
        BY <1>1, <1>2, <1>3, <1>4, <1>5 DEF Armed
    <1>7. Armed(AllArmed, 0, N, 0)
        BY <1>1, <1>2, <1>3, <1>4, <1>5 DEF Armed
    <1> QED  BY <1>2, <1>4, <1>6, <1>7 DEF HandedOver

-----------------------------------------------------------------------------
(* The invariant *)

\* The rings as the server finds them when it has armed no descriptor whose TAIL
\* is still to be written.
Fresh ==
    /\ ists = AllDone /\ ilast = -1 /\ itail = N - 1 /\ icur = 0 /\ iidle = TRUE
    /\ ests = AllArmed /\ elast = N - 1 /\ etail = N - 1 /\ ecur = 0
    /\ eidle = FALSE /\ ebusy = FALSE /\ pc = "idle"

LEMMA FreshInv == Fresh => Inv
    <1> SUFFICES ASSUME Fresh  PROVE Inv
        OBVIOUS
    <1> USE DEF Fresh
    <1>1. N \in Nat /\ N > 0 /\ N - 1 \in Slots /\ 0 \in Slots
        BY RingAssumption DEF Slots
    <1>2. TypeInv
        BY <1>1 DEF TypeInv, Statuses, AllDone, AllArmed
    <1>3. Succ(-1) = 0 /\ Succ(N - 1) = 0 /\ Plus(0, 0) = 0 /\ 0 + 0 = 0 /\ N + 0 = N
          /\ 0 \in 0..N /\ N \in 0..N
        BY <1>1 DEF Succ, Plus
    <1>4. IngressInv
        BY <1>3, FreshRings DEF IngressInv, Kicking
    <1>5. EgressInv
        BY <1>3, FreshRings DEF EgressInv, Rearming
    <1> QED  BY <1>2, <1>4, <1>5 DEF Inv

LEMMA InitInv == Init => Inv
    BY FreshInv DEF Init, Fresh

\* ... and as hsdp_open leaves them.
LEMMA ReopenInv == Fresh' => Inv'
    BY FreshInv, PTL

\* What a ring's part of the invariant rests on; a step that leaves it alone
\* leaves that part true.
LEMMA IngressStays ==
    ASSUME IngressInv, UNCHANGED <<ists, itail, ilast, icur, iidle>>,
           pc' = pc \/ {pc, pc'} \cap {"arm", "kick"} = {}
    PROVE  IngressInv'
    BY DEF IngressInv, Kicking, Armed, HandedOver

LEMMA EgressStays ==
    ASSUME EgressInv, UNCHANGED <<ests, etail, elast, ecur, eidle, ebusy>>,
           pc' = pc \/ {pc, pc'} \cap {"rearm"} = {}
    PROVE  EgressInv'
    BY DEF EgressInv, Rearming, Armed, HandedOver

LEMMA StepInv == Inv /\ [Next]_vars => Inv'
    <1> SUFFICES ASSUME Inv, [Next]_vars  PROVE Inv'
        OBVIOUS
    <1> USE DEF Inv
    <1>0. /\ N \in Nat /\ N > 0
          /\ Succ(ilast) \in Slots /\ Succ(elast) \in Slots
        BY RingAssumption, SuccSlot DEF TypeInv
    <1>1. ASSUME NEW n \in Sizes, SendFill(n)  PROVE Inv'
        <2>1. /\ ists[Succ(ilast)] # "armed" /\ pc = "idle" /\ pc' = "arm"
              /\ UNCHANGED <<ists, itail, ilast, icur, iidle>>
              /\ UNCHANGED <<ests, etail, elast, ecur, eidle, ebusy>>
            BY <1>1 DEF SendFill, Free
        <2>2. TypeInv'
            BY <2>1 DEF TypeInv
        <2>3. IngressInv'
            BY <2>1 DEF IngressInv, Kicking, Armed, HandedOver
        <2>4. EgressInv'
            BY <2>1, EgressStays
        <2> QED  BY <2>2, <2>3, <2>4
    <1>2. CASE SendArm
        <2>1. /\ pc = "arm" /\ pc' = "kick"
              /\ ists' = [ists EXCEPT ![Succ(ilast)] = "armed"]
              /\ UNCHANGED <<itail, ilast, icur, iidle>>
              /\ UNCHANGED <<ests, etail, elast, ecur, eidle, ebusy>>
            BY <1>2 DEF SendArm, egress
        <2>2. TypeInv'
            BY <2>1, <1>0 DEF TypeInv, Statuses
        <2>3. PICK n \in 0..N :
                  /\ Armed(ists, icur, n + 0, Plus(Succ(ilast), 0))
                  /\ HandedOver(icur, itail, iidle, n)
                  /\ ists[Succ(ilast)] # "armed"
            BY <2>1 DEF IngressInv, Kicking
        <2>4. n + 0 = n /\ Plus(Succ(ilast), 0) = Succ(ilast)
            BY <1>0 DEF Plus, Slots
        <2>5. Armed(ists', icur, n + 1, Plus(Succ(ilast), 1))
            BY <2>1, <2>3, <2>4, RingPush DEF TypeInv
        <2>6. IngressInv'
            BY <2>1, <2>3, <2>5 DEF IngressInv, Kicking
        <2>7. EgressInv'
            BY <2>1, EgressStays
        <2> QED  BY <2>2, <2>6, <2>7
    <1>3. CASE SendKick
        <2>1. /\ pc = "kick" /\ pc' = "idle"
              /\ itail' = Succ(ilast) /\ iidle' = FALSE /\ ilast' = Succ(ilast)
              /\ UNCHANGED <<ists, icur>>
              /\ UNCHANGED <<ests, etail, elast, ecur, eidle, ebusy>>
            BY <1>3 DEF SendKick, egress
        <2>2. TypeInv'
            BY <2>1, <1>0 DEF TypeInv
        <2>3. PICK n \in 0..N :
                  Armed(ists, icur, n + 1, Plus(Succ(ilast), 1))
            BY <2>1 DEF IngressInv, Kicking
        <2>4. n + 1 \in 0..N /\ HandedOver(icur, Succ(ilast), FALSE, n + 1)
            BY <2>3, <1>0, HandedPush
        <2>5. /\ (n + 1) + 0 = n + 1
              /\ Plus(Succ(Succ(ilast)), 0) = Plus(Succ(ilast), 1)
            BY <1>0, SuccSlot DEF Plus, Slots
        <2>6. IngressInv'
            BY <2>1, <2>3, <2>4, <2>5 DEF IngressInv, Kicking
        <2>7. EgressInv'
            BY <2>1, EgressStays
        <2> QED  BY <2>2, <2>6, <2>7
    <1>4. ASSUME NEW status \in {"done", "error"}, IngressEnds(status)  PROVE Inv'
        <2>1. /\ ists' = [ists EXCEPT ![icur] = status]
              /\ iidle' = (icur = itail) /\ icur' = Succ(icur) /\ ~iidle
              /\ UNCHANGED <<itail, ilast, pc>>
              /\ UNCHANGED <<ests, etail, elast, ecur, eidle, ebusy>>
            BY <1>4 DEF IngressEnds, egress, server
        <2>2. PICK n \in 0..N :
                  /\ Armed(ists, icur, n + Kicking, Plus(Succ(ilast), Kicking))
                  /\ HandedOver(icur, itail, iidle, n)
                  /\ pc = "arm" => ists[Succ(ilast)] # "armed"
            BY DEF IngressInv
        <2>3. n > 0 /\ n - 1 \in 0..N /\ Kicking \in 0..1
            BY <2>1, <2>2, <1>0 DEF HandedOver, Kicking
        <2>4. n + Kicking > 0 /\ (n + Kicking) - 1 = (n - 1) + Kicking
            BY <2>3
        <2>5. icur \in Slots
            BY <2>2 DEF Armed
        <2>6. TypeInv'
            BY <2>1, <2>5 DEF TypeInv, Statuses
        <2>7. Armed(ists', icur', (n - 1) + Kicking, Plus(Succ(ilast), Kicking))
            BY <2>1, <2>2, <2>4, RingPop DEF TypeInv
        <2>8. HandedOver(icur', itail, iidle', n - 1)
            BY <2>1, <2>2, <2>3, <2>5, HandedPop
        <2>9. pc = "arm" => ists'[Succ(ilast)] # "armed"
            BY <2>1, <2>2, <2>5, <1>0 DEF TypeInv
        <2>10. IngressInv'
            BY <2>1, <2>3, <2>7, <2>8, <2>9 DEF IngressInv, Kicking
        <2>11. EgressInv'
            BY <2>1, EgressStays
        <2> QED  BY <2>6, <2>10, <2>11
    <1>5. CASE PollTake \/ PollError
        <2>1. /\ pc = "idle" /\ pc' = "rearm" /\ ests[Succ(elast)] # "armed"
              /\ ests' = [ests EXCEPT ![Succ(elast)] = "armed"]
              /\ UNCHANGED <<ists, itail, ilast, icur, iidle>>
              /\ UNCHANGED <<etail, elast, ecur, eidle, ebusy>>
            BY <1>5 DEF PollTake, PollError, Polled, ingress
        <2>2. TypeInv'
            BY <2>1, <1>0 DEF TypeInv, Statuses
        <2>3. PICK n \in 0..N :
                  /\ Armed(ests, ecur, n + 0, Plus(Succ(elast), 0))
                  /\ HandedOver(ecur, etail, eidle, n)
            BY <2>1 DEF EgressInv, Rearming
        <2>4. n + 0 = n /\ Plus(Succ(elast), 0) = Succ(elast)
            BY <1>0 DEF Plus, Slots
        <2>5. Armed(ests', ecur, n + 1, Plus(Succ(elast), 1))
            BY <2>1, <2>3, <2>4, RingPush DEF TypeInv
        <2>6. EgressInv'
            BY <2>1, <2>3, <2>5 DEF EgressInv, Rearming
        <2>7. IngressInv'
            BY <2>1, IngressStays
        <2> QED  BY <2>2, <2>6, <2>7
    <1>6. CASE PollRearm
        <2>1. /\ pc = "rearm" /\ pc' \in {"idle", "copy"}
              /\ etail' = Succ(elast) /\ eidle' = FALSE /\ elast' = Succ(elast)
              /\ UNCHANGED <<ists, itail, ilast, icur, iidle>>
              /\ UNCHANGED <<ests, ecur, ebusy>>
            BY <1>6 DEF PollRearm, Polled, ingress
        <2>2. TypeInv'
            BY <2>1, <1>0 DEF TypeInv
        <2>3. PICK n \in 0..N :
                  Armed(ests, ecur, n + 1, Plus(Succ(elast), 1))
            BY <2>1 DEF EgressInv, Rearming
        <2>4. n + 1 \in 0..N /\ HandedOver(ecur, Succ(elast), FALSE, n + 1)
            BY <2>3, <1>0, HandedPush
        <2>5. /\ (n + 1) + 0 = n + 1
              /\ Plus(Succ(Succ(elast)), 0) = Plus(Succ(elast), 1)
            BY <1>0, SuccSlot DEF Plus, Slots
        <2>6. EgressInv'
            BY <2>1, <2>3, <2>4, <2>5 DEF EgressInv, Rearming
        <2>7. IngressInv'
            BY <2>1, IngressStays
        <2> QED  BY <2>2, <2>6, <2>7
    <1>7. CASE EgressBegin
        <2>1. /\ UNCHANGED <<ists, itail, ilast, icur, iidle>> /\ UNCHANGED pc
              /\ UNCHANGED <<ests, etail, elast, ecur, eidle>>
              /\ ~eidle /\ ebusy' = TRUE
            BY <1>7 DEF EgressBegin, ingress, server
        <2>2. TypeInv'
            BY <2>1 DEF TypeInv
        <2>3. IngressInv'
            BY <2>1, IngressStays
        <2>4. EgressInv'
            BY <2>1 DEF EgressInv, Rearming, Armed, HandedOver
        <2> QED  BY <2>2, <2>3, <2>4
    <1>8. ASSUME NEW status \in {"done", "error"}, EgressEnds(status)  PROVE Inv'
        <2>1. /\ ests' = [ests EXCEPT ![ecur] = status] /\ ebusy /\ ebusy' = FALSE
              /\ eidle' = (ecur = etail) /\ ecur' = Succ(ecur)
              /\ UNCHANGED <<etail, elast, pc>>
              /\ UNCHANGED <<ists, itail, ilast, icur, iidle>>
            BY <1>8 DEF EgressEnds, ingress, server
        <2>2. PICK n \in 0..N :
                  /\ Armed(ests, ecur, n + Rearming, Plus(Succ(elast), Rearming))
                  /\ HandedOver(ecur, etail, eidle, n)
            BY DEF EgressInv
        <2>3. n > 0 /\ n - 1 \in 0..N /\ Rearming \in 0..1
            BY <2>1, <2>2, <1>0 DEF EgressInv, HandedOver, Rearming
        <2>4. n + Rearming > 0 /\ (n + Rearming) - 1 = (n - 1) + Rearming
            BY <2>3
        <2>5. ecur \in Slots
            BY <2>2 DEF Armed
        <2>6. TypeInv'
            BY <2>1, <2>5 DEF TypeInv, Statuses
        <2>7. Armed(ests', ecur', (n - 1) + Rearming, Plus(Succ(elast), Rearming))
            BY <2>1, <2>2, <2>4, RingPop DEF TypeInv
        <2>8. HandedOver(ecur', etail, eidle', n - 1)
            BY <2>1, <2>2, <2>3, <2>5, HandedPop
        <2>9. EgressInv'
            BY <2>1, <2>3, <2>7, <2>8 DEF EgressInv, Rearming
        <2>10. IngressInv'
            BY <2>1, IngressStays
        <2> QED  BY <2>6, <2>9, <2>10
    <1>9. CASE Reopen
        BY <1>9, ReopenInv DEF Reopen, Fresh
    <1>10. CASE \/ CopyFirst \/ CopyLast \/ CollectError \/ UNCHANGED vars
                \/ \E n \in Sizes : SendTimeout(n) \/ IdpcRefused(n)
        <2>1. /\ UNCHANGED <<ists, itail, ilast, icur, iidle>>
              /\ UNCHANGED <<ests, etail, elast, ecur, eidle, ebusy>>
              /\ pc' = pc \/ (pc = "copy" /\ pc' = "idle")
            BY <1>10 DEF CopyFirst, CopyLast, CollectError, SendTimeout,
                         IdpcRefused, vars, ingress, egress, server
        <2>2. TypeInv'
            BY <2>1 DEF TypeInv
        <2>3. IngressInv'
            BY <2>1, IngressStays
        <2>4. EgressInv'
            BY <2>1, EgressStays
        <2> QED  BY <2>2, <2>3, <2>4
    <1> QED
        BY <1>1, <1>2, <1>3, <1>4, <1>5, <1>6, <1>7, <1>8, <1>9, <1>10
        DEF Next, Send, Poll, Reply, Refuse, DMA, Faults, IngressDone,
            IngressFails, EgressDone, EgressFails

\* The invariant holds of every behaviour.
LEMMA InvHolds == Spec => []Inv
    <1>1. Init => Inv
        BY InitInv
    <1>2. Inv /\ [Next]_vars => Inv'
        BY StepInv
    <1> QED  BY <1>1, <1>2, PTL DEF Spec

-----------------------------------------------------------------------------
(* The theorems *)

\* The DMA never comes to a descriptor that hsdp_send_packet and
\* hsdp_poll_fast_packet have not armed: STS is stored before TAIL, and the
\* server arms a slot only when the DMA is through with it.
THEOREM DmaFindsArmed == Spec => []NeverStale
    <1>1. Inv => NeverStale
        <2> SUFFICES ASSUME Inv  PROVE NeverStale
            OBVIOUS
        <2>1. ASSUME ~iidle  PROVE ists[icur] = "armed"
            <3>1. PICK n \in 0..N :
                      /\ Armed(ists, icur, n + Kicking, Plus(Succ(ilast), Kicking))
                      /\ HandedOver(icur, itail, iidle, n)
                BY DEF Inv, IngressInv
            <3>2. n + Kicking > 0
                BY <2>1, <3>1, RingAssumption DEF HandedOver, Kicking
            <3> QED  BY <3>1, <3>2, AtIsArmed
        <2>2. ASSUME ~eidle  PROVE ests[ecur] = "armed"
            <3>1. PICK n \in 0..N :
                      /\ Armed(ests, ecur, n + Rearming, Plus(Succ(elast), Rearming))
                      /\ HandedOver(ecur, etail, eidle, n)
                BY DEF Inv, EgressInv
            <3>2. n + Rearming > 0
                BY <2>2, <3>1, RingAssumption DEF HandedOver, Rearming
            <3> QED  BY <3>1, <3>2, AtIsArmed
        <2> QED  BY <2>1, <2>2 DEF NeverStale
    <1> QED  BY <1>1, InvHolds, PTL

\* Between two messages the descriptor that idpc: or edpc: looks at is free or
\* done unless every one of the ring is armed, so a send times out only on a full
\* ring and a poll finds nothing only when nothing waits.
THEOREM NextIsFirstFree == Spec => []RingsAligned
    <1>1. Inv => RingsAligned
        <2> SUFFICES ASSUME Inv, pc = "idle"
                     PROVE  /\ ists[Succ(ilast)] = "armed"
                                  => \A k \in Slots : ists[k] = "armed"
                            /\ ests[Succ(elast)] = "armed"
                                  => \A k \in Slots : ests[k] = "armed"
            BY DEF RingsAligned
        <2>0. \A i \in Slots : Plus(i, 0) = i
            BY RingAssumption DEF Plus, Slots
        <2>1. /\ Succ(ilast) \in Slots /\ Succ(elast) \in Slots
              /\ Plus(Succ(ilast), 0) = Succ(ilast)
              /\ Plus(Succ(elast), 0) = Succ(elast)
            BY <2>0, SuccSlot DEF Inv, TypeInv
        <2>2. PICK n \in 0..N : Armed(ists, icur, n + 0, Plus(Succ(ilast), 0))
            BY DEF Inv, IngressInv, Kicking
        <2>3. PICK m \in 0..N : Armed(ests, ecur, m + 0, Plus(Succ(elast), 0))
            BY DEF Inv, EgressInv, Rearming
        <2> QED  BY <2>1, <2>2, <2>3, NextArmed
    <1> QED  BY <1>1, InvHolds, PTL
=============================================================================
