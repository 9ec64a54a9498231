------------------------------ MODULE CanBuffer ------------------------------
(***************************************************************************)
(* How comm/comm_can.c carries packets that are longer than a CAN frame:   *)
(* comm_can_send_buffer cuts them into frames that fill a receive buffer   *)
(* of the other node and one that has it processed. The receiver finds the *)
(* buffer a frame belongs to by the offset the frame carries: frames name  *)
(* no sender and no packet.                                                *)
(*                                                                         *)
(* The frames of a thread arrive in order (TXFP, one mutex), those of      *)
(* different threads and nodes interleave, and any may be lost: the        *)
(* receiver's ring of 50 frames overflows, canTransmit gives up after 5 ms.*)
(***************************************************************************)
EXTENDS Integers, Sequences

CONSTANTS Senders,   \* threads that send packets to this node
          Packets,   \* packet contents
          Length,    \* the number of frames that fill a buffer with a packet
          BufNum,    \* RX_BUFFER_NUM, searched in this order
          None

ASSUME LengthAssumption == Length \in [Packets -> Nat] /\ \A p \in Packets : Length[p] > 0
ASSUME BufNumAssumption == BufNum \in Nat \ {0}
ASSUME PacketsAssumption == Packets # {} /\ None \notin Packets

VARIABLES
  rx,   \* rx_buffer: each the packets the fragments up to its offset are of
  snd,  \* per sender: the packet it sends and the fragments sent so far
  got,  \* the packet just processed, None at other times
  mixed \* a history variable: may a buffer hold what its packet is not?

vars == <<rx, snd, got, mixed>>

Buffers == 1..BufNum

Clean == (\A b \in Buffers : rx[b] = <<>>) /\ (\A s \in Senders : snd[s].next = 0)

Init ==
  /\ rx = [b \in Buffers |-> <<>>]
  /\ snd = [s \in Senders |-> [pkt |-> None, next |-> 0]]
  /\ got = None
  /\ mixed = FALSE

-----------------------------------------------------------------------------
(* comm_can_send_buffer *)

Start(s, p) ==
  /\ snd[s].pkt = None
  /\ snd' = [snd EXCEPT ![s] = [pkt |-> p, next |-> 0]]
  /\ got' = None
  /\ UNCHANGED <<rx, mixed>>

Filling(s) == snd[s].pkt # None /\ snd[s].next < Length[snd[s].pkt]
Closing(s) == snd[s].pkt # None /\ snd[s].next = Length[snd[s].pkt]
Sent(s) == snd' = [snd EXCEPT ![s] = IF Closing(s) THEN [pkt |-> None, next |-> 0]
                                     ELSE [pkt |-> snd[s].pkt, next |-> snd[s].next + 1]]

Lose(s) ==
  /\ snd[s].pkt # None
  /\ Sent(s)
  /\ got' = None
  /\ UNCHANGED rx
  /\ mixed' = ~Clean'

-----------------------------------------------------------------------------
(* decode_msg *)

\* The first buffer that is filled up to this offset, or to this length.
AtOffsetOrPast(n) == {b \in Buffers : Len(rx[b]) >= n}   \* mutant
AtOffset(n) == {b \in Buffers : Len(rx[b]) = n}
First(B) == CHOOSE b \in B : \A c \in B : b <= c

\* Mutants: appended wherever the buffer ended; the offset byte counted as data.
PutOver(b, n, p) == rx' = [rx EXCEPT ![b] = Append(@, p)]
PutHeader(b, n, p) == rx' = [rx EXCEPT ![b] = SubSeq(@, 1, n) \o <<p, None>>]
Put(b, n, p) == rx' = [rx EXCEPT ![b] = Append(SubSeq(@, 1, n), p)]

\* No other packet under way has come to the same offset, and there is a buffer for
\* one that begins.
Apart(s) ==
  LET n == snd[s].next
  IN  IF n = 0 THEN AtOffset(0) # {} ELSE \A t \in Senders \ {s} : snd[t].next # n

\* CAN_PACKET_FILL_RX_BUFFER: a first fragment that finds no empty buffer takes
\* the first one, any other is dropped.
Fill(s) ==
  LET n == snd[s].next
  IN  /\ Filling(s)
      /\ Sent(s)
      /\ got' = None
      /\ CASE AtOffset(n) # {}          -> Put(First(AtOffset(n)), n, snd[s].pkt)
           [] AtOffset(n) = {} /\ n = 0 -> Put(1, 0, snd[s].pkt)
           [] OTHER                     -> UNCHANGED rx
      /\ mixed' = ((mixed \/ ~Apart(s)) /\ ~Clean')

\* The CRC tells the packet from a buffer with a fragment of another in it.
CrcMatches(b, p) == rx[b] = [i \in 1..Length[p] |-> p]

\* CAN_PACKET_PROCESS_RX_BUFFER: no buffer of that length empties them all.
Process(s) ==
  LET p == snd[s].pkt
      found == AtOffset(Length[p])
      b == First(found)
  IN  /\ Closing(s)
      /\ Sent(s)
      /\ IF found = {} THEN rx' = [c \in Buffers |-> <<>>] /\ got' = None
         ELSE /\ rx' = [rx EXCEPT ![b] = <<>>]
              /\ got' = IF CrcMatches(b, p) THEN rx[b] ELSE None
      /\ mixed' = ((mixed \/ ~Apart(s)) /\ ~Clean')

-----------------------------------------------------------------------------
FrameStep(s) == Fill(s) \/ Process(s)

Next == \E s \in Senders : (\E p \in Packets : Start(s, p)) \/ FrameStep(s) \/ Lose(s)

Spec == Init /\ [][Next]_vars

\* A thread sends all of a packet it has begun to send.
FairSpec == Spec /\ \A s \in Senders : WF_vars(FrameStep(s))

-----------------------------------------------------------------------------
\* Every variable keeps its type; no buffer is filled beyond the longest packet.
TypeOK ==
  /\ rx \in [Buffers -> Seq(Packets)]
  /\ \A b \in Buffers : \E p \in Packets : Len(rx[b]) <= Length[p]
  /\ snd \in [Senders -> [pkt : Packets \cup {None}, next : Nat]]
  /\ \A s \in Senders : Filling(s) \/ Closing(s) \/ snd[s].next = 0
  /\ got \in Seq(Packets) \cup {None}
  /\ mixed \in BOOLEAN

Whole(p) == [i \in 1..Length[p] |-> p]

\* Packets whose frames interleave, from any number of threads and nodes, are told
\* apart by their offsets alone: as long as no two of them that are under way have
\* come to the same offset when the next frame of one arrives, no frame was lost and
\* a buffer was left for each, every packet is processed whole with its last frame,
\* each once. From buffers that were once mixed up it is promised again as soon as
\* they are all empty and no packet is under way; nothing is promised in between.
WholeWhenApart ==
  [][\A s \in Senders : Process(s) /\ ~mixed /\ Apart(s) => got' = Whole(snd[s].pkt)]_vars

\* From some time on s is the only one that sends, it sends p over and over, and
\* no frame is lost any more.
Alone(s, p) ==
  /\ <>[][Start(s, p) \/ FrameStep(s)]_vars
  /\ []<><<Start(s, p)>>_vars

\* The buffers heal: whatever fragments interleaved and unfinished packets left in
\* them, and at whatever offsets, a packet that is sent again and again without
\* disturbance is processed again and again.
GetsThrough == \A s \in Senders, p \in Packets : Alone(s, p) => []<>(got # None)
=============================================================================
