---------------------------- MODULE PacketChannel ----------------------------
(***************************************************************************)
(* What comm/packet.c promises to the code on both ends of a serial line:  *)
(* packets arrive as they were sent, in the order they were sent, each at  *)
(* most once. Some may never arrive.                                       *)
(***************************************************************************)
EXTENDS Naturals, Sequences

CONSTANT Packets

VARIABLES sent,  \* the packets that were sent, in order
          last,  \* the place in sent of the packet delivered last
          got    \* the packets delivered by the last step

Init == sent = <<>> /\ last = 0 /\ got = <<>>

Send(p) ==
  /\ sent' = Append(sent, p)
  /\ got' = <<>>
  /\ UNCHANGED last

\* Deliver the packets at the places K, in this order.
Deliver(K) ==
  /\ got' = [i \in DOMAIN K |-> sent[K[i]]]
  /\ last' = IF K = <<>> THEN last ELSE K[Len(K)]
  /\ UNCHANGED sent

\* The increasing sequences of up to n places after the last delivery.
Places(n) ==
  {K \in UNION {[1..m -> last + 1..Len(sent)] : m \in 0..n} :
     \A i, j \in DOMAIN K : i < j => K[i] < K[j]}

Next ==
  \/ \E p \in Packets : Send(p)
  \/ \E K \in Places(Len(sent) - last) : Deliver(K)

Spec == Init /\ [][Next]_<<sent, last, got>>
=============================================================================
