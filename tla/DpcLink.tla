------------------------------- MODULE DpcLink -------------------------------
(***************************************************************************)
(* What idpc: and edpc: promise: a channel through the Debug Packet        *)
(* Controller.  Every packet taken is answered by one response; responses  *)
(* come whole, once and in order, and any may be lost with the connection  *)
(* or to a DMA error.  Packet p and its response are the pair <<p, p>>.    *)
(***************************************************************************)
EXTENDS Naturals, Sequences

VARIABLES sent,   \* packets taken so far
          queue,  \* responses owed, the packets that will cause them included
          got     \* responses returned to the client

Init == sent = 0 /\ queue = <<>> /\ got = <<>>

Put == /\ sent' = sent + 1
       /\ queue' = Append(queue, <<sent', sent'>>)
       /\ UNCHANGED got

Get == /\ queue # <<>>
       /\ got' = Append(got, Head(queue))
       /\ queue' = Tail(queue)
       /\ UNCHANGED sent

\* The responses that stay are a subsequence.
Lose == /\ \E stays \in [DOMAIN queue -> BOOLEAN] :
              LET Left[i \in 0..Len(queue)] ==
                    IF i = 0 THEN <<>>
                    ELSE IF stays[i] THEN Append(Left[i - 1], queue[i])
                    ELSE Left[i - 1]
              IN queue' = Left[Len(queue)]
        /\ UNCHANGED <<sent, got>>

Next == Put \/ Get \/ Lose

Spec == Init /\ [][Next]_<<sent, queue, got>>
=============================================================================
