------------------------------- MODULE DpcRing -------------------------------
(***************************************************************************)
(* dpc/src/hsdp.c under the idpc: and edpc: messages: two rings of N       *)
(* descriptors shared with the AXI DMA engine, one of packets to the Debug *)
(* Packet Controller (ingress), one of its responses (egress).  The server *)
(* is one thread; each of its steps here ends at a store that the DMA can  *)
(* see.  The DMA and the DPC are external: they are what the code takes    *)
(* them to be, a DMA that follows a ring up to the descriptor in TAIL,     *)
(* marks each done or failed, and starts again when TAIL is written, and a *)
(* DPC that answers each packet in order.  A packet is a number, and so is *)
(* each of the two words of its response.                                  *)
(***************************************************************************)
EXTENDS Integers, Sequences, FiniteSets, SequencesExt

CONSTANTS N,              \* MAX_EGRESS_PACKETS, the length of both rings
          SlotBytes,      \* DMA_PACKET_BUFF_SIZE_DEFAULT
          MaxPacketSize,  \* MAX_PACKET_SIZE
          Sizes,          \* values of <num words> in idpc:
          Window,         \* packets a client leaves unanswered
          MaxPackets      \* bound on the packets of a behaviour

ASSUME RingAssumption ==
    /\ N \in Nat \ {0} /\ SlotBytes \in Nat \ {0} /\ MaxPacketSize \in Nat
    /\ Sizes \subseteq Nat \ {0}
    /\ Window \in Nat /\ MaxPackets \in Nat

Slots == 0..(N - 1)

VARIABLES
    ists, ibuf, itail,  \* ingress: STS and buffer of each descriptor, TAIL
    ilast,              \* hsdp->idesc.last
    icur, iidle,        \* descriptor the DMA is at, and whether it waits
    ests, ebuf, etail,  \* egress: the same
    elast,
    ecur, eidle,
    ebusy,              \* the DMA has stored half a response in ebuf[ecur]
    dpc,                \* packets in the DPC
    pc,                 \* where the server is
    taken,              \* egress slot being read, -1 for none
    copied,             \* words of it already in reply_buf
    pending_error,
    sent, got           \* packets taken, responses returned

ingress == <<ists, ibuf, itail, ilast, icur, iidle>>
egress == <<ests, ebuf, etail, elast, ecur, eidle, ebusy>>
server == <<pc, taken, copied, pending_error>>
client == <<sent, got>>
vars == <<ingress, egress, dpc, server, client>>

\* HSDP_NEXT.
Succ(i) == IF i + 1 < N THEN i + 1 ELSE 0

\* Slots in ring order from s on.
RingFrom(s) == [i \in 1..N |-> IF s + i - 1 < N THEN s + i - 1 ELSE s + i - 1 - N]

\* The rings as hsdp_setup_dma leaves them: every ingress descriptor marked
\* done, every egress descriptor armed and handed over.
AllDone == [k \in Slots |-> "done"]
AllArmed == [k \in Slots |-> "armed"]

Init ==
    /\ ists = AllDone /\ ilast = -1 /\ itail = N - 1 /\ icur = 0 /\ iidle = TRUE
    /\ ibuf = [k \in Slots |-> 0]
    /\ ests = AllArmed /\ elast = N - 1 /\ etail = N - 1 /\ ecur = 0
    /\ eidle = FALSE /\ ebusy = FALSE
    /\ ebuf = [k \in Slots |-> <<0, 0>>]
    /\ dpc = <<>>
    /\ pc = "idle" /\ taken = -1 /\ copied = <<>> /\ pending_error = FALSE
    /\ sent = 0 /\ got = <<>>

-----------------------------------------------------------------------------
(* idpc: and hsdp_send_packet *)

\* Packets and responses in the rings and the DPC, between two messages, with
\* the failed responses the client has not asked for yet.
Unanswered == Cardinality({k \in Slots : ists[k] = "armed"}) + Len(dpc)
              + Cardinality({k \in Slots : ests[k] # "armed"})

\* Slots of ipkts, and of epkts behind it, that memcpy reaches past slot ii.
Overrun(ii, n) == {k \in (ii + 1)..(2 * N - 1) : (k - ii) * SlotBytes < 4 * n}

\* The descriptor is free: done, or failed.
Free(ii) == ists[ii] # "armed"

Admitted(n) == n < MaxPacketSize

\* memcpy and the buffer and size of the descriptor, which the DMA does not
\* look at before STS and TAIL are stored.
SendFill(n) ==
    LET ii == Succ(ilast) IN
    /\ pc = "idle" /\ ~pending_error
    /\ sent < MaxPackets /\ Unanswered < Window
    /\ Admitted(n)
    /\ Free(ii)
    /\ sent' = sent + 1
    /\ ibuf' = [k \in Slots |-> IF k = ii THEN sent'
                                ELSE IF k \in Overrun(ii, n) THEN 0 ELSE ibuf[k]]
    /\ ebuf' = [k \in Slots |-> IF N + k \in Overrun(ii, n) THEN <<0, 0>> ELSE ebuf[k]]
    /\ pc' = "arm"
    /\ UNCHANGED <<ists, itail, ilast, icur, iidle, ests, etail, elast, ecur,
                   eidle, ebusy, dpc, taken, copied, pending_error, got>>

\* STS = 0.
SendArm_Skipped ==
    /\ pc = "arm"
    /\ pc' = "kick"
    /\ UNCHANGED <<ists, ibuf, itail, ilast, icur, iidle, egress, dpc, taken, copied,
                   pending_error, client>>
SendArm ==
    /\ pc = "arm"
    /\ ists' = [ists EXCEPT ![Succ(ilast)] = "armed"]
    /\ pc' = "kick"
    /\ UNCHANGED <<ibuf, itail, ilast, icur, iidle, egress, dpc, taken, copied,
                   pending_error, client>>

\* TAIL; the message is over.
SendKick ==
    /\ pc = "kick"
    /\ itail' = Succ(ilast) /\ iidle' = FALSE
    /\ ilast' = Succ(ilast)
    /\ pc' = "idle"
    /\ UNCHANGED <<ists, ibuf, icur, egress, dpc, taken, copied, pending_error,
                   client>>

\* The status was still 0 at each of the max_polls reads.
SendTimeout(n) ==
    /\ pc = "idle" /\ ~pending_error
    /\ Admitted(n)
    /\ ists[Succ(ilast)] = "armed"
    /\ pending_error' = TRUE
    /\ UNCHANGED <<ingress, egress, dpc, pc, taken, copied, client>>

IdpcRefused(n) ==
    /\ pc = "idle" /\ ~pending_error
    /\ ~Admitted(n)
    /\ pending_error' = TRUE
    /\ UNCHANGED <<ingress, egress, dpc, pc, taken, copied, client>>

\* error:
CollectError_Kept ==
    /\ pc = "idle" /\ pending_error
    /\ pending_error' = pending_error
    /\ UNCHANGED <<ingress, egress, dpc, pc, taken, copied, client>>
CollectError ==
    /\ pc = "idle" /\ pending_error
    /\ pending_error' = FALSE
    /\ UNCHANGED <<ingress, egress, dpc, pc, taken, copied, client>>

-----------------------------------------------------------------------------
(* edpc: and hsdp_poll_fast_packet.  A descriptor still armed is answered   *)
(* with no words and changes nothing.                                       *)

Polled == Succ(elast)

\* The response is remembered by its place; STS = 0.
PollTake_NextSlot ==
    /\ pc = "idle" /\ ~pending_error
    /\ ests[Polled] = "done"
    /\ ests' = [ests EXCEPT ![Polled] = "armed"]
    /\ taken' = Succ(Polled)
    /\ pc' = "rearm"
    /\ UNCHANGED <<ingress, ebuf, etail, elast, ecur, eidle, ebusy, dpc, copied,
                   pending_error, client>>
PollTake ==
    /\ pc = "idle" /\ ~pending_error
    /\ ests[Polled] = "done"
    /\ ests' = [ests EXCEPT ![Polled] = "armed"]
    /\ taken' = Polled
    /\ pc' = "rearm"
    /\ UNCHANGED <<ingress, ebuf, etail, elast, ecur, eidle, ebusy, dpc, copied,
                   pending_error, client>>

\* A failed descriptor is armed again; the client is told there is nothing.
PollError ==
    /\ pc = "idle" /\ ~pending_error
    /\ ests[Polled] = "error"
    /\ ests' = [ests EXCEPT ![Polled] = "armed"]
    /\ pc' = "rearm"
    /\ UNCHANGED <<ingress, ebuf, etail, elast, ecur, eidle, ebusy, dpc, taken,
                   copied, pending_error, client>>

\* TAIL, epkts.last and edesc.last.
PollRearm_KeepLast ==
    /\ pc = "rearm"
    /\ etail' = Polled /\ eidle' = FALSE
    /\ pc' = IF taken = -1 THEN "idle" ELSE "copy"
    /\ UNCHANGED <<ingress, ests, ebuf, elast, ecur, ebusy, dpc, taken, copied,
                   pending_error, client>>
PollRearm ==
    /\ pc = "rearm"
    /\ etail' = Polled /\ eidle' = FALSE
    /\ elast' = Polled
    /\ pc' = IF taken = -1 THEN "idle" ELSE "copy"
    /\ UNCHANGED <<ingress, ests, ebuf, ecur, ebusy, dpc, taken, copied,
                   pending_error, client>>

\* memcpy to reply_buf, a word at a time.
CopyFirst ==
    /\ pc = "copy" /\ copied = <<>>
    /\ copied' = <<ebuf[taken][1]>>
    /\ UNCHANGED <<ingress, egress, dpc, pc, taken, pending_error, client>>

CopyLast ==
    /\ pc = "copy" /\ copied # <<>>
    /\ got' = Append(got, Append(copied, ebuf[taken][2]))
    /\ copied' = <<>> /\ taken' = -1 /\ pc' = "idle"
    /\ UNCHANGED <<ingress, egress, dpc, pending_error, sent>>

-----------------------------------------------------------------------------
\* The connection ends and another begins: hsdp_open resets the DMA and sets
\* both rings up again; the DPC keeps its packets, but for one being stored.
Reopen_KeepStatus ==
    /\ pc = "idle"
    /\ ists' = AllDone /\ ilast' = -1 /\ itail' = N - 1 /\ icur' = 0 /\ iidle' = TRUE
    /\ ests' = ests /\ elast' = N - 1 /\ etail' = N - 1 /\ ecur' = 0
    /\ eidle' = FALSE /\ ebusy' = FALSE
    /\ dpc' = IF ebusy THEN Tail(dpc) ELSE dpc
    /\ pending_error' = FALSE
    /\ UNCHANGED <<ibuf, ebuf, pc, taken, copied, client>>
Reopen ==
    /\ pc = "idle"
    /\ ists' = AllDone /\ ilast' = -1 /\ itail' = N - 1 /\ icur' = 0 /\ iidle' = TRUE
    /\ ests' = AllArmed /\ elast' = N - 1 /\ etail' = N - 1 /\ ecur' = 0
    /\ eidle' = FALSE /\ ebusy' = FALSE
    /\ dpc' = IF ebusy THEN Tail(dpc) ELSE dpc
    /\ pending_error' = FALSE
    /\ UNCHANGED <<ibuf, ebuf, pc, taken, copied, client>>

-----------------------------------------------------------------------------
(* The DMA engine and the DPC. *)

\* The DMA is through with the ingress descriptor it is at.
IngressEnds(status) ==
    /\ ~iidle /\ ists[icur] = "armed"
    /\ ists' = [ists EXCEPT ![icur] = status]
    /\ iidle' = (icur = itail)
    /\ icur' = Succ(icur)
    /\ UNCHANGED <<ibuf, itail, ilast, egress, server, client>>

IngressDone == IngressEnds("done") /\ dpc' = Append(dpc, ibuf[icur])
IngressFails == IngressEnds("error") /\ UNCHANGED dpc

\* It stores a response, in two parts.
EgressBegin ==
    /\ ~eidle /\ ests[ecur] = "armed" /\ ~ebusy /\ dpc # <<>>
    /\ ebuf' = [ebuf EXCEPT ![ecur][1] = Head(dpc)]
    /\ ebusy' = TRUE
    /\ UNCHANGED <<ingress, ests, etail, elast, ecur, eidle, dpc, server, client>>

EgressEnds(status) ==
    /\ ebusy
    /\ ests' = [ests EXCEPT ![ecur] = status]
    /\ ebusy' = FALSE
    /\ eidle' = (ecur = etail)
    /\ ecur' = Succ(ecur)
    /\ dpc' = Tail(dpc)
    /\ UNCHANGED <<ingress, etail, elast, server, client>>

EgressDone == EgressEnds("done") /\ ebuf' = [ebuf EXCEPT ![ecur][2] = Head(dpc)]
EgressFails == EgressEnds("error") /\ UNCHANGED ebuf

-----------------------------------------------------------------------------
Send == SendArm \/ SendKick \/ \E n \in Sizes : SendFill(n)
Poll == PollTake \/ PollError
Reply == PollRearm \/ CopyFirst \/ CopyLast
Refuse == \E n \in Sizes : SendTimeout(n) \/ IdpcRefused(n)
Faults == IngressFails \/ EgressFails \/ Reopen
DMA == IngressDone \/ EgressBegin \/ EgressDone

Next == Send \/ Poll \/ Reply \/ Refuse \/ CollectError \/ DMA \/ Faults

\* The server ends the message it is in, a client asks for responses again and
\* again and collects errors, and the DMA works while it may.
Fairness == /\ WF_vars(SendArm \/ SendKick \/ Reply)
            /\ SF_vars(Poll)
            /\ WF_vars(CollectError)
            /\ WF_vars(IngressDone) /\ WF_vars(EgressBegin) /\ WF_vars(EgressDone)

Spec == Init /\ [][Next]_vars /\ Fairness

-----------------------------------------------------------------------------
\* The DMA never comes to a descriptor the server has not armed, which it would
\* take for a stale one: STS is stored before TAIL, and no slot is used twice.
NeverStale == /\ ~iidle => ists[icur] = "armed"
              /\ ~eidle => ests[ecur] = "armed"

\* The one descriptor the server looks at is the next to be free or done: when
\* it is not, none is.  Otherwise idpc: would time out with room in the ring
\* and edpc: would find nothing with responses waiting.
RingsAligned ==
    pc = "idle" =>
        /\ ists[Succ(ilast)] = "armed" => \A k \in Slots : ists[k] = "armed"
        /\ ests[Succ(elast)] = "armed" => \A k \in Slots : ests[k] = "armed"

\* The responses owed, oldest first: the one being copied, those in the egress
\* ring, those of the DPC, and the packets in the ingress ring.
InHand == IF taken = -1 THEN <<>>
          ELSE <<IF copied = <<>> THEN ebuf[taken]
                 ELSE <<copied[1], ebuf[taken][2]>> >>
EgressDoneSlots == SelectSeq(RingFrom(Succ(elast)), LAMBDA k : ests[k] = "done")
IngressArmedSlots ==
    SelectSeq(RingFrom(icur), LAMBDA k : ists[k] = "armed")
        \o (IF pc = "arm" THEN <<Succ(ilast)>> ELSE <<>>)
Twice(p) == <<p, p>>
Owed == InHand
        \o [i \in DOMAIN EgressDoneSlots |-> ebuf[EgressDoneSlots[i]]]
        \o [i \in DOMAIN dpc |-> Twice(dpc[i])]
        \o [i \in DOMAIN IngressArmedSlots |-> Twice(ibuf[IngressArmedSlots[i]])]

\* The rings are a channel: with no more than N packets unanswered, every
\* response is returned whole, once and in order, and is lost only to a
\* reconnection or an error of the DMA.
Link == INSTANCE DpcLink WITH queue <- Owed
ImplementsLink == Link!Spec

\* Nothing but a reconnection or a failed descriptor loses a packet.
LostOnlyByFaults ==
    [][Len(Owed') < Len(Owed) => Len(got') > Len(got) \/ Faults]_vars

\* A client that keeps asking is not left waiting: a packet of the DPC is not
\* owed for ever.
Delivered ==
    \A p \in 1..MaxPackets :
        (\E i \in DOMAIN dpc : dpc[i] = p) ~> (\A i \in DOMAIN Owed : Owed[i] # Twice(p))

\* README: edpc: returns DPC payload data.
RepliesWhole == \A i \in DOMAIN got : got[i][1] = got[i][2]
=============================================================================
