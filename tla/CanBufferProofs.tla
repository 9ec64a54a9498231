--------------------------- MODULE CanBufferProofs ---------------------------
(***************************************************************************)
(* Proofs about the reassembly of packets from CAN frames, for any number  *)
(* of senders and receive buffers and packets of any lengths.              *)
(***************************************************************************)
EXTENDS CanBuffer, SequenceTheorems, WellFoundedInduction, TLAPS

\* No buffer is longer than the longest packet.
Fits(seq) == \E p \in Packets : Len(seq) <= Length[p]

-----------------------------------------------------------------------------
\* Numbers have a least one.
LEMMA LeastNat ==
  ASSUME NEW B, B \subseteq Nat, B # {}
  PROVE  \E b \in B : \A c \in B : b <= c
<1>1. PICK b \in B : \A c \in B : ~ (<<c, b>> \in OpToRel(<, Nat))
  BY WFMin, NatLessThanWellFounded
<1>2. \A c \in B : ~ (c < b)
  BY <1>1 DEF OpToRel
<1>3. QED  BY <1>2

\* The search for a buffer finds one of those that it looks for.
LEMMA FirstIsOne ==
  ASSUME NEW B \in SUBSET Buffers, B # {}
  PROVE  First(B) \in B
<1>1. B \subseteq Nat
  BY BufNumAssumption DEF Buffers
<1>2. \E b \in B : \A c \in B : b <= c
  BY <1>1, LeastNat
<1>3. QED  BY <1>2 DEF First

-----------------------------------------------------------------------------
\* A fragment put at the end of a buffer, or into an empty one, leaves it within
\* the packet that the fragment is of.
LEMMA PutTypes ==
  ASSUME rx \in [Buffers -> Seq(Packets)], \A b \in Buffers : Fits(rx[b]),
         NEW b \in Buffers, NEW p \in Packets, NEW n \in Nat,
         n = 0 \/ n = Len(rx[b]), n < Length[p], Put(b, n, p)
  PROVE  rx' \in [Buffers -> Seq(Packets)] /\ \A c \in Buffers : Fits(rx'[c])
<1> DEFINE seq == Append(SubSeq(rx[b], 1, n), p)
<1>1. rx[b] \in Seq(Packets) /\ Len(rx[b]) \in Nat /\ n <= Len(rx[b])
  BY LenProperties
<1>2. \A i \in 1..n : rx[b][i] \in Packets
  BY <1>1, ElementOfSeq
<1>3. SubSeq(rx[b], 1, n) \in Seq(Packets) /\ Len(SubSeq(rx[b], 1, n)) = n
  BY <1>2, SubSeqProperties
<1>4. seq \in Seq(Packets) /\ Len(seq) = n + 1
  BY <1>3, AppendProperties
<1>5. Fits(seq)
  BY <1>4, LengthAssumption DEF Fits
<1>6. rx' = [rx EXCEPT ![b] = seq]
  BY DEF Put
<1> HIDE DEF seq
<1>7. QED  BY <1>4, <1>5, <1>6

\* Whatever the buffers hold, emptying one or all of them keeps their type.
LEMMA EmptyFits == <<>> \in Seq(Packets) /\ Fits(<<>>)
<1>1. PICK p \in Packets : TRUE
  BY PacketsAssumption
<1>2. Len(<<>>) = 0 /\ <<>> \in Seq(Packets)
  BY EmptySeq
<1>3. Len(<<>>) <= Length[p]
  BY <1>2, LengthAssumption
<1>4. QED  BY <1>2, <1>3 DEF Fits

-----------------------------------------------------------------------------
LEMMA InitInv == Init => TypeOK
<1> SUFFICES ASSUME Init PROVE TypeOK
  OBVIOUS
<1>1. rx \in [Buffers -> Seq(Packets)] /\ \A b \in Buffers : Fits(rx[b])
  BY EmptyFits DEF Init
<1>2. QED  BY <1>1 DEF Init, TypeOK, Fits, Filling, Closing

\* The sender's part of a step.
LEMMA SentTypes ==
  ASSUME TypeOK, NEW s \in Senders, Sent(s), Filling(s) \/ Closing(s)
  PROVE  /\ snd' \in [Senders -> [pkt : Packets \cup {None}, next : Nat]]
         /\ \A r \in Senders : (Filling(r) \/ Closing(r) \/ snd[r].next = 0)'
<1>1. snd[s].pkt \in Packets /\ snd[s].next \in Nat /\ Length[snd[s].pkt] \in Nat
  BY LengthAssumption DEF TypeOK, Filling, Closing
<1>2. CASE Closing(s)
  BY <1>1, <1>2 DEF TypeOK, Sent, Filling, Closing
<1>3. CASE Filling(s) /\ ~Closing(s)
  <2>1. snd' = [snd EXCEPT ![s] = [pkt |-> snd[s].pkt, next |-> snd[s].next + 1]]
    BY <1>3 DEF Sent
  <2>2. snd[s].next + 1 <= Length[snd[s].pkt]
    BY <1>1, <1>3 DEF Filling
  <2>3. snd' \in [Senders -> [pkt : Packets \cup {None}, next : Nat]]
    BY <1>1, <2>1 DEF TypeOK
  <2>4. snd'[s].pkt # None /\ snd'[s].next <= Length[snd'[s].pkt]
    BY <1>1, <2>1, <2>2, PacketsAssumption DEF TypeOK
  <2>5. (Filling(s) \/ Closing(s))'
    BY <1>1, <2>1, <2>2, <2>4, LengthAssumption DEF Filling, Closing, TypeOK
  <2>6. \A r \in Senders \ {s} : snd'[r] = snd[r]
    BY <2>1 DEF TypeOK
  <2>7. QED  BY <2>3, <2>5, <2>6 DEF TypeOK, Filling, Closing
<1>4. QED  BY <1>2, <1>3

LEMMA FillTypes ==
  ASSUME TypeOK, NEW s \in Senders, Fill(s)
  PROVE  TypeOK'
<1> DEFINE n == snd[s].next
           p == snd[s].pkt
<1>1. p \in Packets /\ n \in Nat /\ n < Length[p]
  BY DEF TypeOK, Fill, Filling
<1>2. rx \in [Buffers -> Seq(Packets)] /\ \A b \in Buffers : Fits(rx[b])
  BY DEF TypeOK, Fits
<1>3. rx' \in [Buffers -> Seq(Packets)] /\ \A b \in Buffers : Fits(rx'[b])
  <2>1. CASE AtOffset(n) # {}
    <3>1. AtOffset(n) \in SUBSET Buffers
      BY DEF AtOffset
    <3>2. First(AtOffset(n)) \in AtOffset(n)
      BY <2>1, <3>1, FirstIsOne
    <3>3. PICK b \in Buffers : b = First(AtOffset(n)) /\ Len(rx[b]) = n
      BY <3>2 DEF AtOffset
    <3>4. Put(b, n, p)
      BY <2>1, <3>3 DEF Fill
    <3>5. QED  BY <1>1, <1>2, <3>3, <3>4, PutTypes
  <2>2. CASE AtOffset(n) = {} /\ n = 0
    <3>1. 1 \in Buffers
      BY BufNumAssumption DEF Buffers
    <3>2. Put(1, 0, p)
      BY <2>2 DEF Fill
    <3>3. QED  BY <1>1, <1>2, <2>2, <3>1, <3>2, PutTypes
  <2>3. CASE AtOffset(n) = {} /\ n # 0
    BY <1>2, <2>3 DEF Fill
  <2>4. QED  BY <2>1, <2>2, <2>3
<1>4. Sent(s) /\ got' = None
  BY DEF Fill
<1>5. QED  BY <1>3, <1>4, SentTypes DEF TypeOK, Fits, Fill

\* What is processed is a buffer's contents, and that buffer is empty afterwards.
LEMMA ProcessTypes ==
  ASSUME TypeOK, NEW s \in Senders, Process(s)
  PROVE  TypeOK'
<1> DEFINE p == snd[s].pkt
           found == AtOffset(Length[p])
           b == First(found)
<1>1. p \in Packets
  BY DEF TypeOK, Process, Closing
<1>2. rx \in [Buffers -> Seq(Packets)] /\ \A c \in Buffers : Fits(rx[c])
  BY DEF TypeOK, Fits
<1>3. CASE found = {}
  <2>1. rx' = [c \in Buffers |-> <<>>] /\ got' = None
    BY <1>3 DEF Process
  <2>2. rx' \in [Buffers -> Seq(Packets)] /\ \A c \in Buffers : Fits(rx'[c])
    BY <2>1, EmptyFits
  <2>3. Sent(s) /\ Closing(s)
    BY DEF Process
  <2>4. mixed' \in BOOLEAN
    BY DEF Process
  <2>5. QED  BY <2>1, <2>2, <2>3, <2>4, SentTypes DEF TypeOK, Fits
<1>4. CASE found # {}
  <2>1. found \in SUBSET Buffers
    BY DEF AtOffset
  <2>2. b \in Buffers
    BY <1>4, <2>1, FirstIsOne
  <2>3. rx' = [rx EXCEPT ![b] = <<>>]
    BY <1>4 DEF Process
  <2>4. got' = IF CrcMatches(b, p) THEN rx[b] ELSE None
    BY <1>4 DEF Process
  <2>5. rx' \in [Buffers -> Seq(Packets)] /\ \A c \in Buffers : Fits(rx'[c])
    BY <1>2, <2>2, <2>3, EmptyFits
  <2>6. got' \in Seq(Packets) \cup {None}
    BY <1>2, <2>2, <2>4
  <2>8. Sent(s) /\ Closing(s)
    BY DEF Process
  <2>9. mixed' \in BOOLEAN
    BY DEF Process
  <2>10. QED  BY <2>5, <2>6, <2>8, <2>9, SentTypes DEF TypeOK, Fits
<1>5. QED  BY <1>3, <1>4

LEMMA NextInv ==
  ASSUME TypeOK, [Next]_vars
  PROVE  TypeOK'
<1>1. ASSUME NEW s \in Senders, NEW p \in Packets, Start(s, p)
      PROVE  TypeOK'
  <2>1. Length[p] \in Nat /\ Length[p] > 0 /\ p # None
    BY LengthAssumption, PacketsAssumption
  <2>2. QED  BY <1>1, <2>1 DEF Start, TypeOK, Filling, Closing
<1>2. ASSUME NEW s \in Senders, Fill(s)
      PROVE  TypeOK'
  BY <1>2, FillTypes
<1>3. ASSUME NEW s \in Senders, Process(s)
      PROVE  TypeOK'
  BY <1>3, ProcessTypes
<1>4. ASSUME NEW s \in Senders, Lose(s)
      PROVE  TypeOK'
  <2>1. Filling(s) \/ Closing(s)
    <3>1. snd[s].pkt \in Packets
      BY <1>4 DEF Lose, TypeOK
    <3>2. Length[snd[s].pkt] \in Nat /\ Length[snd[s].pkt] > 0
      BY <3>1, LengthAssumption
    <3>3. QED  BY <1>4, <3>2 DEF Lose, TypeOK, Filling, Closing
  <2>2. Sent(s) /\ rx' = rx /\ got' = None
    BY <1>4 DEF Lose
  <2>3. mixed' \in BOOLEAN
    BY <1>4 DEF Lose
  <2>4. QED  BY <2>1, <2>2, <2>3, SentTypes DEF TypeOK
<1>5. CASE UNCHANGED vars
  BY <1>5 DEF vars, TypeOK, Filling, Closing
<1>6. QED  BY <1>1, <1>2, <1>3, <1>4, <1>5 DEF Next, FrameStep

\* What a buffer holds and what a sender has sent keep their types, for any number
\* of buffers: no fragment is put beyond the longest packet.
THEOREM CanTypeCorrect == Spec => []TypeOK
<1>1. Init => TypeOK
  BY InitInv
<1>2. TypeOK /\ [Next]_vars => TypeOK'
  BY NextInv
<1>3. QED  BY <1>1, <1>2, PTL DEF Spec

-----------------------------------------------------------------------------
(* Which buffer is whose. *)

Under(s) == snd[s].next > 0
Part(s) == [i \in 1..snd[s].next |-> snd[s].pkt]

\* Every packet under way has a buffer of its own with its fragments so far, and no
\* buffer holds anything else.
Home(own) ==
  /\ own \in [Senders -> Buffers]
  /\ \A s \in Senders : Under(s) => rx[own[s]] = Part(s)
  /\ \A s, t \in Senders : Under(s) /\ Under(t) /\ s # t => own[s] # own[t]
  /\ \A b \in Buffers : rx[b] # <<>> => \E s \in Senders : Under(s) /\ own[s] = b

Inv == TypeOK /\ (mixed \/ \E own \in [Senders -> Buffers] : Home(own))

\* Clean buffers are nobody's.
LEMMA CleanHomes ==
  ASSUME Clean
  PROVE  \E own \in [Senders -> Buffers] : Home(own)
<1> DEFINE own == [s \in Senders |-> 1]
<1>1. own \in [Senders -> Buffers]
  BY BufNumAssumption DEF Buffers
<1>2. Home(own)
  BY <1>1 DEF Home, Clean, Under
<1>3. QED  BY <1>1, <1>2

\* The fragments of a packet under way are as many as it has sent.
LEMMA PartLen ==
  ASSUME TypeOK, NEW s \in Senders
  PROVE  Len(Part(s)) = snd[s].next
<1>1. snd[s].next \in Nat
  BY DEF TypeOK
<1>2. QED  BY <1>1 DEF Part

\* The frame of a packet that is at no other's offset finds its own buffer.
LEMMA FindsOwn ==
  ASSUME TypeOK, NEW own, Home(own), NEW s \in Senders, Under(s), Apart(s)
  PROVE  AtOffset(snd[s].next) = {own[s]}
<1>1. own[s] \in Buffers /\ Len(rx[own[s]]) = snd[s].next
  BY PartLen DEF Home
<1>2. ASSUME NEW b \in Buffers, Len(rx[b]) = snd[s].next
      PROVE  b = own[s]
  <2>1. rx[b] # <<>>
    BY <1>2 DEF Under
  <2>2. PICK t \in Senders : Under(t) /\ own[t] = b
    BY <2>1 DEF Home
  <2>3. Len(rx[b]) = snd[t].next
    BY <2>2, PartLen DEF Home
  <2>4. \A r \in Senders \ {s} : snd[r].next # snd[s].next
    <3>1. snd[s].next # 0
      BY DEF Under
    <3>2. QED  BY <3>1 DEF Apart
  <2>5. t = s
    BY <1>2, <2>3, <2>4
  <2>6. QED  BY <2>2, <2>5
<1>3. QED  BY <1>1, <1>2 DEF AtOffset

\* A set of one buffer has that one for its first.
LEMMA FirstOfOne ==
  ASSUME NEW b \in Buffers
  PROVE  First({b}) = b
<1>1. First({b}) \in {b}
  BY FirstIsOne
<1>2. QED  BY <1>1

\* A frame that fills a buffer when nothing is mixed adds to its own packet.
LEMMA FillHomes ==
  ASSUME TypeOK, NEW own, Home(own), NEW s \in Senders, Fill(s), Apart(s)
  PROVE  \E new \in [Senders -> Buffers] : Home(new)'
<1> DEFINE n == snd[s].next
           p == snd[s].pkt
<1>1. p \in Packets /\ n \in Nat /\ Length[p] \in Nat /\ n < Length[p] /\ p # None
  BY LengthAssumption DEF TypeOK, Fill, Filling
<1>2. snd' = [snd EXCEPT ![s] = [pkt |-> p, next |-> n + 1]]
  <2>1. ~Closing(s) /\ Sent(s)
    BY <1>1 DEF Fill, Closing
  <2>2. QED  BY <2>1 DEF Sent
<1>3. snd'[s].next = n + 1 /\ snd'[s].pkt = p /\ \A t \in Senders \ {s} : snd'[t] = snd[t]
  BY <1>2 DEF TypeOK
<1>4. \A t \in Senders \ {s} : (Under(t)' <=> Under(t)) /\ Part(t)' = Part(t)
  BY <1>3 DEF Under, Part
<1>5. Under(s)' /\ Part(s)' = [i \in 1..(n + 1) |-> p]
  BY <1>1, <1>3 DEF Under, Part
<1>6. rx \in [Buffers -> Seq(Packets)]
  BY DEF TypeOK
<1>7. ASSUME NEW b \in Buffers, rx[b] = [i \in 1..n |-> p], Put(b, n, p)
      PROVE  rx' = [rx EXCEPT ![b] = [i \in 1..(n + 1) |-> p]]
  <2>1. rx[b] \in Seq(Packets) /\ Len(rx[b]) = n /\ \A i \in 1..n : rx[b][i] = p
    BY <1>1, <1>6, <1>7
  <2> DEFINE seq == Append(SubSeq(rx[b], 1, n), p)
  <2>2. SubSeq(rx[b], 1, n) = rx[b]
    BY <1>1, <2>1
  <2>3. seq \in Seq(Packets) /\ Len(seq) = n + 1
    BY <1>1, <2>1, <2>2, AppendProperties
  <2>4. \A i \in 1..(n + 1) : seq[i] = p
    <3>1. p \in Packets /\ n + 1 \in Nat /\ \A i \in 1..(n + 1) : i \in 1..n \/ i = n + 1
      BY <1>1
    <3>2. seq = Append(rx[b], p) /\ rx[b] \in Seq(Packets) /\ Len(rx[b]) = n
      BY <2>1, <2>2
    <3>3. seq[n + 1] = p
      BY <3>1, <3>2, AppendProperties
    <3>4. \A i \in 1..n : seq[i] = rx[b][i]
      BY <3>1, <3>2, AppendProperties
    <3>5. QED  BY <2>1, <3>1, <3>3, <3>4
  <2>5. seq = [i \in 1..(n + 1) |-> p]
    <3>1. seq = [i \in 1..(n + 1) |-> seq[i]]
      BY <2>3
    <3>2. QED  BY <2>4, <3>1
  <2>6. rx' = [rx EXCEPT ![b] = seq]
    BY <1>7 DEF Put
  <2>7. QED  BY <2>5, <2>6
<1>8. CASE n = 0
  <2>1. AtOffset(0) # {}
    BY <1>8 DEF Apart
  <2>2. First(AtOffset(0)) \in AtOffset(0)
    BY <2>1, FirstIsOne DEF AtOffset
  <2>3. PICK b \in Buffers : b = First(AtOffset(0)) /\ Len(rx[b]) = 0
    BY <2>2 DEF AtOffset
  <2>4. rx[b] = <<>>
    BY <1>6, <2>3, EmptySeq
  <2>5. Put(b, n, p)
    BY <1>8, <2>1, <2>3 DEF Fill
  <2>6. rx[b] = [i \in 1..n |-> p]
    <3>1. 1..n = {}
      BY <1>8
    <3>2. [i \in 1..n |-> p] = <<>>
      BY <3>1
    <3>3. QED  BY <2>4, <3>2
  <2>7. rx' = [rx EXCEPT ![b] = [i \in 1..(n + 1) |-> p]]
    BY <1>7, <2>5, <2>6
  <2> DEFINE new == [own EXCEPT ![s] = b]
  <2>8. new \in [Senders -> Buffers] /\ new[s] = b /\ \A t \in Senders \ {s} : new[t] = own[t]
    BY DEF Home
  <2>9. \A t \in Senders \ {s} : Under(t) => own[t] # b
    <3>1. SUFFICES ASSUME NEW t \in Senders \ {s}, Under(t), own[t] = b PROVE FALSE
      OBVIOUS
    <3>2. Len(rx[b]) = snd[t].next
      BY <3>1, PartLen DEF Home
    <3>3. QED  BY <2>3, <3>1, <3>2 DEF Under
  <2>10. rx'[b] = Part(s)' /\ \A c \in Buffers \ {b} : rx'[c] = rx[c]
    BY <1>5, <1>6, <2>7
  <2>11. \A t \in Senders : Under(t)' => rx'[new[t]] = Part(t)'
    <3>1. ASSUME NEW t \in Senders \ {s}, Under(t)'
          PROVE  rx'[new[t]] = Part(t)'
      <4>1. own[t] \in Buffers \ {b} /\ rx[own[t]] = Part(t)
        BY <1>4, <2>9, <3>1 DEF Home
      <4>2. QED  BY <1>4, <2>8, <2>10, <4>1
    <3>2. QED  BY <2>8, <2>10, <3>1
  <2>12. \A t, u \in Senders : Under(t)' /\ Under(u)' /\ t # u => new[t] # new[u]
    BY <1>4, <2>8, <2>9 DEF Home
  <2>13. \A c \in Buffers : rx'[c] # <<>> => \E t \in Senders : Under(t)' /\ new[t] = c
    <3>1. ASSUME NEW c \in Buffers \ {b}, rx'[c] # <<>>
          PROVE  \E t \in Senders : Under(t)' /\ new[t] = c
      <4>1. PICK t \in Senders : Under(t) /\ own[t] = c
        BY <2>10, <3>1 DEF Home
      <4>2. t # s
        BY <1>8, <4>1 DEF Under
      <4>3. QED  BY <1>4, <2>8, <4>1, <4>2
    <3>2. QED  BY <1>5, <2>8, <3>1
  <2> HIDE DEF new
  <2>14. Home(new)'
    BY <2>8, <2>11, <2>12, <2>13 DEF Home
  <2>15. QED  BY <2>8, <2>14
<1>9. CASE n # 0
  <2>1. Under(s)
    BY <1>1, <1>9 DEF Under
  <2>2. PICK b \in Buffers : b = own[s]
    BY DEF Home
  <2>3. AtOffset(n) = {b}
    BY <2>1, <2>2, FindsOwn
  <2>4. First(AtOffset(n)) = b
    BY <2>3, FirstOfOne
  <2>5. Put(b, n, p)
    BY <2>3, <2>4 DEF Fill
  <2>6. rx[b] = [i \in 1..n |-> p]
    BY <2>1, <2>2 DEF Home, Part
  <2>7. rx' = [rx EXCEPT ![b] = [i \in 1..(n + 1) |-> p]]
    BY <1>7, <2>5, <2>6
  <2>8. rx'[b] = Part(s)' /\ \A c \in Buffers \ {b} : rx'[c] = rx[c]
    BY <1>5, <1>6, <2>7
  <2>9. \A t \in Senders : Under(t)' <=> Under(t)
    BY <1>4, <1>5, <2>1
  <2>10. \A t \in Senders : Under(t)' => rx'[own[t]] = Part(t)'
    <3>1. ASSUME NEW t \in Senders \ {s}, Under(t)'
          PROVE  rx'[own[t]] = Part(t)'
      <4>1. own[t] \in Buffers \ {b} /\ rx[own[t]] = Part(t)
        BY <1>4, <2>1, <2>2, <3>1 DEF Home
      <4>2. QED  BY <1>4, <2>8, <4>1
    <3>2. QED  BY <2>2, <2>8, <3>1
  <2>11. \A c \in Buffers : rx'[c] # <<>> => \E t \in Senders : Under(t)' /\ own[t] = c
    BY <2>1, <2>2, <2>8, <2>9 DEF Home
  <2>12. Home(own)'
    BY <2>9, <2>10, <2>11 DEF Home
  <2>13. QED  BY <2>12 DEF Home
<1>10. QED  BY <1>8, <1>9

\* The frame that closes a packet empties its own buffer, after the whole packet
\* has been processed from it.
LEMMA ProcessHomes ==
  ASSUME TypeOK, NEW own, Home(own), NEW s \in Senders, Process(s), Apart(s)
  PROVE  Home(own)' /\ got' = Whole(snd[s].pkt)
<1> DEFINE n == snd[s].next
           p == snd[s].pkt
<1>1. p \in Packets /\ n = Length[p] /\ n \in Nat /\ n > 0
  BY LengthAssumption DEF TypeOK, Process, Closing
<1>2. snd' = [snd EXCEPT ![s] = [pkt |-> None, next |-> 0]]
  BY DEF Process, Sent
<1>3. snd'[s].next = 0 /\ \A t \in Senders \ {s} : snd'[t] = snd[t]
  BY <1>2 DEF TypeOK
<1>4. Under(s) /\ ~Under(s)'
  BY <1>1, <1>3 DEF Under
<1>5. \A t \in Senders \ {s} : (Under(t)' <=> Under(t)) /\ Part(t)' = Part(t)
  BY <1>3 DEF Under, Part
<1>6. PICK b \in Buffers : b = own[s]
  BY DEF Home
<1>7. AtOffset(n) = {b}
  BY <1>4, <1>6, FindsOwn
<1>8. First(AtOffset(Length[p])) = b /\ AtOffset(Length[p]) # {}
  BY <1>1, <1>7, FirstOfOne
<1>9. rx' = [rx EXCEPT ![b] = <<>>] /\ got' = IF CrcMatches(b, p) THEN rx[b] ELSE None
  BY <1>8 DEF Process
<1>10. rx[b] = Whole(p)
  BY <1>1, <1>4, <1>6 DEF Home, Part, Whole
<1>11. CrcMatches(b, p)
  BY <1>10 DEF CrcMatches, Whole
<1>12. rx'[b] = <<>> /\ \A c \in Buffers \ {b} : rx'[c] = rx[c]
  BY <1>9 DEF TypeOK
<1>13. \A t \in Senders : Under(t)' => rx'[own[t]] = Part(t)'
  <2>1. SUFFICES ASSUME NEW t \in Senders, Under(t)' PROVE rx'[own[t]] = Part(t)'
    OBVIOUS
  <2>2. t # s /\ Under(t)
    BY <1>4, <1>5, <2>1
  <2>3. own[t] \in Buffers \ {b} /\ rx[own[t]] = Part(t)
    BY <1>4, <1>6, <2>2 DEF Home
  <2>4. QED  BY <1>5, <1>12, <2>2, <2>3
<1>14. \A t, u \in Senders : Under(t)' /\ Under(u)' /\ t # u => own[t] # own[u]
  BY <1>4, <1>5 DEF Home
<1>15. \A c \in Buffers : rx'[c] # <<>> => \E t \in Senders : Under(t)' /\ own[t] = c
  <2>1. SUFFICES ASSUME NEW c \in Buffers, rx'[c] # <<>>
                 PROVE  \E t \in Senders : Under(t)' /\ own[t] = c
    OBVIOUS
  <2>2. c # b /\ rx[c] # <<>>
    BY <1>12, <2>1
  <2>3. PICK t \in Senders : Under(t) /\ own[t] = c
    BY <2>2 DEF Home
  <2>4. QED  BY <1>5, <1>6, <2>2, <2>3
<1>16. Home(own)'
  BY <1>13, <1>14, <1>15 DEF Home
<1>17. QED  BY <1>9, <1>10, <1>11, <1>16

LEMMA NextHomes ==
  ASSUME Inv, [Next]_vars
  PROVE  Inv'
<1> DEFINE Homes == \E own \in [Senders -> Buffers] : Home(own)
<1>1. TypeOK /\ TypeOK'
  BY NextInv DEF Inv
<1>2. CASE Clean'
  BY <1>1, <1>2, CleanHomes, PTL DEF Inv
<1>3. CASE ~Clean'
  <2>1. ASSUME NEW s \in Senders, NEW p \in Packets, Start(s, p)
        PROVE  Inv'
    <3>1. CASE mixed
      BY <1>1, <2>1, <3>1 DEF Inv, Start
    <3>2. CASE ~mixed
      <4>1. PICK own \in [Senders -> Buffers] : Home(own)
        BY <3>2 DEF Inv
      <4>2. rx' = rx /\ snd' = [snd EXCEPT ![s] = [pkt |-> p, next |-> 0]] /\ snd[s].pkt = None
        BY <2>1 DEF Start
      <4>3. ~Under(s) /\ ~Under(s)'
        BY <1>1, <4>2 DEF TypeOK, Under, Filling, Closing
      <4>4. \A t \in Senders \ {s} : (Under(t)' <=> Under(t)) /\ Part(t)' = Part(t)
        BY <1>1, <4>2 DEF TypeOK, Under, Part
      <4>5. Home(own)'
        BY <4>1, <4>2, <4>3, <4>4 DEF Home
      <4>6. QED  BY <1>1, <4>1, <4>5 DEF Inv
    <3>3. QED  BY <3>1, <3>2
  <2>2. ASSUME NEW s \in Senders, FrameStep(s)
        PROVE  Inv'
    <3>1. mixed' = (mixed \/ ~Apart(s))
      BY <1>3, <2>2 DEF FrameStep, Fill, Process
    <3>2. CASE mixed \/ ~Apart(s)
      BY <1>1, <3>1, <3>2 DEF Inv
    <3>3. CASE ~mixed /\ Apart(s)
      <4>1. PICK own \in [Senders -> Buffers] : Home(own)
        BY <3>3 DEF Inv
      <4>2. CASE Fill(s)
        BY <1>1, <3>3, <4>1, <4>2, FillHomes DEF Inv
      <4>3. CASE Process(s)
        BY <1>1, <3>3, <4>1, <4>3, ProcessHomes DEF Inv
      <4>4. QED  BY <2>2, <4>2, <4>3 DEF FrameStep
    <3>4. QED  BY <3>2, <3>3
  <2>3. ASSUME NEW s \in Senders, Lose(s)
        PROVE  Inv'
    BY <1>1, <1>3, <2>3 DEF Inv, Lose
  <2>4. CASE UNCHANGED vars
    BY <1>1, <2>4 DEF Inv, vars, Home, Under, Part
  <2>5. QED  BY <2>1, <2>2, <2>3, <2>4 DEF Next
<1>4. QED  BY <1>2, <1>3

\* However the packets of any number of senders interleave, as long as no two under
\* way meet at an offset, none of their frames is lost and there is a buffer for
\* each, every one of them is processed whole with its last frame.
THEOREM WholeAsLongAsApart == Spec => WholeWhenApart
<1>1. Init => Inv
  <2>1. Init => Clean
    BY DEF Init, Clean
  <2>2. QED  BY <2>1, InitInv, CleanHomes DEF Inv
<1>2. Inv /\ [Next]_vars => Inv'
  BY NextHomes
<1>3. Inv => (\A s \in Senders : Process(s) /\ ~mixed /\ Apart(s) => got' = Whole(snd[s].pkt))
  <2>1. SUFFICES ASSUME Inv, NEW s \in Senders, Process(s), ~mixed, Apart(s)
                 PROVE  got' = Whole(snd[s].pkt)
    OBVIOUS
  <2>2. PICK own \in [Senders -> Buffers] : Home(own)
    BY <2>1 DEF Inv
  <2>3. QED  BY <2>1, <2>2, ProcessHomes DEF Inv
<1>4. QED  BY <1>1, <1>2, <1>3, PTL DEF Spec, WholeWhenApart
=============================================================================
