------------------------- MODULE PacketFramingProofs -------------------------
(***************************************************************************)
(* Proofs about the framing of packets on a serial line, for any packets,  *)
(* any number of values of a byte, any longest payload and any CRC bytes.  *)
(***************************************************************************)
EXTENDS PacketFraming, SequenceTheorems, WellFoundedInduction, TLAPS

Byte == [val : Nat, of : {None} \cup (Packets \X {1, 2}), id : Nat \X Nat]

-----------------------------------------------------------------------------
\* Numbers have a least one.
LEMMA LeastNat ==
  ASSUME NEW B, B \subseteq Nat, B # {}
  PROVE  \E b \in B : \A c \in B : b <= c
<1>1. PICK b \in B : \A c \in B : ~ (<<c, b>> \in OpToRel(<, Nat))
  BY WFMin, NatLessThanWellFounded
<1>2. \A c \in B : ~ (c < b)
  BY <1>1 DEF OpToRel
<1>3. QED  BY <1>2

-----------------------------------------------------------------------------
(* TryDecode *)

Start(buf, n) == buf[n + 1].val
LenOf(buf, n) == IF Start(buf, n) = 2 THEN buf[n + 2].val
                 ELSE buf[n + 2].val * Base + buf[n + 3].val
PayloadAt(buf, n) == Payload(buf, n, Start(buf, n), LenOf(buf, n))

\* The end of the payload; CRC and stop byte follow.
End(buf, n) == n + Start(buf, n) + LenOf(buf, n)

\* A packet is found at offset n: its stop byte and its CRC are right.
IsPacket(buf, n) ==
  /\ Start(buf, n) \in {2, 3}
  /\ HeaderFits(Start(buf, n), LenOf(buf, n))
  /\ n + Start(buf, n) <= Len(buf) /\ End(buf, n) + 3 <= Len(buf)
  /\ buf[End(buf, n) + 3].val = 3
  /\ CrcMatches(buf, End(buf, n), PayloadAt(buf, n))

\* The header is not there yet, or it fits and there are bytes missing.
IsShort(buf, n) ==
  /\ Start(buf, n) \in {2, 3}
  /\ n + Start(buf, n) <= Len(buf) => /\ HeaderFits(Start(buf, n), LenOf(buf, n))
                                      /\ End(buf, n) + 3 > Len(buf)
Wanted(buf, n) ==
  IF n + Start(buf, n) <= Len(buf) THEN End(buf, n) + 3 - Len(buf)
  ELSE n + Start(buf, n) - Len(buf)

LEMMA ByteTypes ==
  ASSUME NEW buf \in Seq(Byte), NEW n \in Nat, n < Len(buf)
  PROVE  /\ Len(buf) \in Nat /\ Start(buf, n) \in Nat
         /\ Start(buf, n) = 2 /\ n + 2 <= Len(buf) => LenOf(buf, n) \in Nat
         /\ Start(buf, n) = 3 /\ n + 3 <= Len(buf) => LenOf(buf, n) \in Nat
<1>1. Len(buf) \in Nat /\ \A i \in 1..Len(buf) : buf[i] \in Byte
  BY LenProperties, ElementOfSeq
<1>2. \A i \in 1..Len(buf) : buf[i].val \in Nat
  BY <1>1 DEF Byte
<1>3. \A a, b \in Nat : a * Base + b \in Nat
  BY BaseAssumption
<1>4. n + 1 \in 1..Len(buf) /\ Start(buf, n) \in Nat
  BY <1>1, <1>2 DEF Start
<1>5. Start(buf, n) = 2 /\ n + 2 <= Len(buf) => LenOf(buf, n) \in Nat
  <2> SUFFICES ASSUME Start(buf, n) = 2, n + 2 <= Len(buf) PROVE buf[n + 2].val \in Nat
    BY DEF LenOf
  <2>1. n + 2 \in 1..Len(buf)
    BY <1>1
  <2>2. QED  BY <1>2, <2>1
<1>6. Start(buf, n) = 3 /\ n + 3 <= Len(buf) => LenOf(buf, n) \in Nat
  <2> SUFFICES ASSUME Start(buf, n) = 3, n + 3 <= Len(buf)
               PROVE  buf[n + 2].val * Base + buf[n + 3].val \in Nat
    BY DEF LenOf
  <2>1. n + 2 \in 1..Len(buf) /\ n + 3 \in 1..Len(buf)
    BY <1>1
  <2>2. QED  BY <1>2, <1>3, <2>1
<1>7. QED  BY <1>1, <1>4, <1>5, <1>6

\* The three outcomes of TryDecode within the buffer.
LEMMA TryDecodeIs ==
  ASSUME NEW buf \in Seq(Byte), NEW n \in Nat, n < Len(buf)
  PROVE  TryDecode(buf, n) =
           IF IsShort(buf, n) THEN More(Wanted(buf, n))
           ELSE IF IsPacket(buf, n)
           THEN [res |-> Start(buf, n) + LenOf(buf, n) + 3, left |-> 0,
                 pkt |-> PayloadAt(buf, n),
                 id |-> buf[End(buf, n) + 1].id[1], stop |-> buf[End(buf, n) + 3].id]
           ELSE Invalid
<1> DEFINE in == Len(buf) - n
           start == Start(buf, n)
           len == LenOf(buf, n)
           end == End(buf, n)
           pay == PayloadAt(buf, n)
           missing == start + len + 3 - in
<1>1. in \in Nat /\ in > 0 /\ start \in Nat
  BY ByteTypes
<1>2. TryDecode(buf, n) =
        CASE in = 0                            -> More(1)
          [] in > 0 /\ start \notin {2, 3}     -> Invalid
          [] in > 0 /\ start \in {2, 3} /\ in < start -> More(start - in)
          [] OTHER ->
               CASE ~HeaderFits(start, len)  -> Invalid
                 [] HeaderFits(start, len) /\ Missing(start, len, in) > 0 ->
                      More(Missing(start, len, in))
                 [] OTHER ->
                      IF buf[end + 3].val = 3 /\ CrcMatches(buf, end, pay)
                      THEN [res |-> start + len + 3, left |-> 0, pkt |-> pay,
                            id |-> buf[end + 1].id[1], stop |-> buf[end + 3].id]
                      ELSE Invalid
  BY Zenon DEF TryDecode, Start, LenOf, PayloadAt, End
<1>3. CASE start \notin {2, 3}
  BY <1>1, <1>3, <1>2 DEF IsShort, IsPacket
<1>4. CASE start \in {2, 3} /\ in < start
  BY <1>1, <1>4, <1>2 DEF IsShort, Wanted
<1>5. CASE start \in {2, 3} /\ in >= start
  <2>1. len \in Nat /\ ~(in = 0) /\ ~(in < start)
    BY <1>1, <1>5, ByteTypes
  <2>2. CASE ~HeaderFits(start, len)
    <3>1. TryDecode(buf, n) = Invalid
      BY <1>1, <1>2, <1>5, <2>1, <2>2, Zenon
    <3>2. QED  BY <1>1, <1>5, <2>1, <2>2, <3>1 DEF IsShort, IsPacket
  <2>3. CASE HeaderFits(start, len) /\ Missing(start, len, in) > 0
    <3>1. TryDecode(buf, n) = More(Missing(start, len, in))
      BY <1>1, <1>2, <1>5, <2>1, <2>3, Zenon
    <3>2. n + start <= Len(buf) /\ start \in {2, 3}
      BY <1>1, <1>5, LenProperties
    <3>3. Missing(start, len, in) = missing /\ missing = end + 3 - Len(buf)
      BY <1>1, <2>1, LenProperties DEF End, Missing
    <3>4. end + 3 > Len(buf)
      BY <1>1, <2>1, <2>3, <3>3, LenProperties DEF End
    <3>5. IsShort(buf, n) /\ Wanted(buf, n) = Missing(start, len, in)
      BY <2>3, <3>2, <3>3, <3>4 DEF IsShort, Wanted
    <3>6. QED  BY <3>1, <3>5
  <2>4. CASE HeaderFits(start, len) /\ ~(Missing(start, len, in) > 0)
    <3>1. TryDecode(buf, n) =
            IF buf[end + 3].val = 3 /\ CrcMatches(buf, end, pay)
            THEN [res |-> start + len + 3, left |-> 0, pkt |-> pay,
                  id |-> buf[end + 1].id[1], stop |-> buf[end + 3].id]
            ELSE Invalid
      BY <1>1, <1>2, <1>5, <2>1, <2>4, Zenon
    <3>2. end + 3 <= Len(buf) /\ n + start <= Len(buf)
      BY <1>1, <1>5, <2>1, <2>4 DEF End, Missing
    <3>3. ~IsShort(buf, n)
      BY <1>1, <1>5, <2>1, <3>2 DEF IsShort, End
    <3>4. IsPacket(buf, n) <=> buf[end + 3].val = 3 /\ CrcMatches(buf, end, pay)
      BY <1>5, <2>4, <3>2 DEF IsPacket
    <3>5. QED  BY <3>1, <3>3, <3>4
  <2>5. QED  BY <2>1, <2>2, <2>3, <2>4
<1>6. QED  BY <1>1, <1>3, <1>4, <1>5

-----------------------------------------------------------------------------
(* The loop *)

PacketAt(buf, n) ==
  [res |-> Start(buf, n) + LenOf(buf, n) + 3, left |-> 0, pkt |-> PayloadAt(buf, n),
   id |-> buf[End(buf, n) + 1].id[1], stop |-> buf[End(buf, n) + 3].id]

\* What a packet that is found says of the numbers.
LEMMA PacketRange ==
  ASSUME NEW buf \in Seq(Byte), NEW n \in Nat, n < Len(buf), IsPacket(buf, n)
  PROVE  /\ Start(buf, n) \in {2, 3} /\ LenOf(buf, n) \in 1..MaxPl
         /\ End(buf, n) \in Nat /\ End(buf, n) >= n + 3 /\ End(buf, n) + 3 <= Len(buf)
         /\ PacketAt(buf, n).res \in Nat /\ PacketAt(buf, n).res > 0
         /\ n + PacketAt(buf, n).res = End(buf, n) + 3
<1>1. Start(buf, n) \in {2, 3} /\ HeaderFits(Start(buf, n), LenOf(buf, n))
      /\ n + Start(buf, n) <= Len(buf) /\ End(buf, n) + 3 <= Len(buf)
  BY DEF IsPacket
<1>2. LenOf(buf, n) \in Nat /\ Len(buf) \in Nat
  BY <1>1, ByteTypes
<1>3. LenOf(buf, n) \in 1..MaxPl
  BY <1>1, <1>2, BaseAssumption, BoundsAssumption DEF HeaderFits
<1> DEFINE start == Start(buf, n)
           len == LenOf(buf, n)
           res == PacketAt(buf, n).res
<1>4. len >= 1
  BY <1>3, BoundsAssumption
<1>5. res = start + len + 3 /\ End(buf, n) = n + start + len
  BY DEF PacketAt, End
<1>6. start \in {2, 3} /\ len \in Nat
  BY <1>1, <1>2
<1> HIDE DEF start, len, res
<1>7. End(buf, n) \in Nat /\ End(buf, n) >= n + 3 /\ n + res = End(buf, n) + 3
      /\ res \in Nat /\ res > 0
  BY <1>4, <1>5, <1>6
<1>8. QED  BY <1>1, <1>3, <1>7 DEF res

\* However much is missing, with what there is it fits the buffer.
LEMMA ShortRange ==
  ASSUME NEW buf \in Seq(Byte), NEW n \in Nat, n < Len(buf), IsShort(buf, n)
  PROVE  Wanted(buf, n) \in Nat /\ Wanted(buf, n) > 0
         /\ Len(buf) - n + Wanted(buf, n) <= MaxPl + 6
<1>1. Start(buf, n) \in {2, 3} /\ Len(buf) \in Nat
  BY LenProperties DEF IsShort
<1>2. CASE n + Start(buf, n) <= Len(buf)
  <2>1. HeaderFits(Start(buf, n), LenOf(buf, n)) /\ End(buf, n) + 3 > Len(buf)
    BY <1>2 DEF IsShort
  <2>2. LenOf(buf, n) \in Nat /\ LenOf(buf, n) <= MaxPl
    BY <1>1, <1>2, <2>1, ByteTypes DEF HeaderFits
  <2>3. QED  BY <1>1, <1>2, <2>1, <2>2, BoundsAssumption, SMTT(30) DEF Wanted, End
<1>3. CASE ~(n + Start(buf, n) <= Len(buf))
  BY <1>1, <1>3, BoundsAssumption DEF Wanted
<1>4. QED  BY <1>2, <1>3

LEMMA ShortIsNoPacket ==
  ASSUME NEW buf \in Seq(Byte), NEW n \in Nat, n < Len(buf), IsPacket(buf, n)
  PROVE  ~IsShort(buf, n)
BY PacketRange, LenProperties DEF IsPacket, IsShort

\* The cases of the loop: at the end, short of bytes, nothing here, and a packet.
LEMMA FoundEnd ==
  ASSUME NEW buf \in Seq(Byte), NEW restart, NEW f
  PROVE  Found(buf, restart, Len(buf), f) = [at |-> Len(buf), left |-> 1, pkts |-> <<>>]
<1> DEFINE t == TryDecode(buf, Len(buf))
<1>1. Len(buf) - Len(buf) = 0 /\ ~(Len(buf) - Len(buf) > 0)
  BY LenProperties
<1>2. t = More(1)
  BY <1>1, Zenon DEF TryDecode
<1>3. t.res = -2 /\ t.left = 1 /\ ~(t.res = -1) /\ ~(t.res > 0)
  BY <1>2 DEF More
<1>4. QED  BY <1>3, Zenon DEF Found

LEMMA FoundShort ==
  ASSUME NEW buf \in Seq(Byte), NEW restart, NEW f, NEW n \in Nat, n < Len(buf), IsShort(buf, n)
  PROVE  Found(buf, restart, n, f) = [at |-> n, left |-> Wanted(buf, n), pkts |-> <<>>]
<1> DEFINE t == TryDecode(buf, n)
<1>1. t = More(Wanted(buf, n))
  BY TryDecodeIs
<1>2. t.res = -2 /\ t.left = Wanted(buf, n) /\ ~(t.res = -1) /\ ~(t.res > 0)
  BY <1>1 DEF More
<1>3. QED  BY <1>2, Zenon DEF Found

LEMMA FoundNone ==
  ASSUME NEW buf \in Seq(Byte), NEW restart, NEW f, NEW n \in Nat, n < Len(buf),
         ~IsShort(buf, n), ~IsPacket(buf, n)
  PROVE  Found(buf, restart, n, f) = f[n + 1]
<1> DEFINE t == TryDecode(buf, n)
<1>1. t = Invalid
  BY TryDecodeIs
<1>2. t.res = -1 /\ ~(t.res = -2) /\ ~(t.res > 0)
  BY <1>1 DEF Invalid
<1>3. QED  BY <1>2, Zenon DEF Found, Skip

\* The packets of the rest of the loop behind one more.
Prepend(t, rest) == [rest EXCEPT !.pkts = <<t>> \o @]

LEMMA FoundPacket ==
  ASSUME NEW buf \in Seq(Byte), NEW f, NEW n \in Nat, n < Len(buf), IsPacket(buf, n)
  PROVE  /\ Found(buf, TRUE, n, f) =
              [at |-> Len(buf), left |-> 1, pkts |-> <<PacketAt(buf, n)>>]
         /\ Found(buf, FALSE, n, f) =
              Prepend(PacketAt(buf, n), f[End(buf, n) + 3])
<1> DEFINE t == TryDecode(buf, n)
<1>1. t = PacketAt(buf, n)
  BY TryDecodeIs, ShortIsNoPacket DEF PacketAt
<1>2. t.res > 0 /\ ~(t.res = -1) /\ ~(t.res = -2) /\ n + t.res = End(buf, n) + 3
  BY <1>1, PacketRange
<1>3. QED  BY <1>1, <1>2, Zenon DEF Found, Prepend

\* The rest of the loop is only asked for higher offsets.
LEMMA FoundLocal ==
  ASSUME NEW buf \in Seq(Byte), NEW restart \in BOOLEAN, NEW n \in 0..Len(buf), NEW f, NEW g,
         \A m \in n + 1..Len(buf) : f[m] = g[m]
  PROVE  Found(buf, restart, n, f) = Found(buf, restart, n, g)
<1>1. Len(buf) \in Nat /\ n \in Nat
  BY LenProperties
<1>2. CASE n = Len(buf)
  BY <1>2, FoundEnd
<1>3. CASE n < Len(buf) /\ IsShort(buf, n)
  BY <1>1, <1>3, FoundShort
<1>4. CASE n < Len(buf) /\ ~IsShort(buf, n) /\ ~IsPacket(buf, n)
  <2>1. f[n + 1] = g[n + 1]
    BY <1>1, <1>4
  <2>2. QED  BY <1>1, <1>4, <2>1, FoundNone
<1>5. CASE n < Len(buf) /\ IsPacket(buf, n)
  <2>1. f[End(buf, n) + 3] = g[End(buf, n) + 3]
    BY <1>1, <1>5, PacketRange
  <2>2. CASE restart = TRUE
    <3>1. /\ Found(buf, TRUE, n, f) =
               [at |-> Len(buf), left |-> 1, pkts |-> <<PacketAt(buf, n)>>]
          /\ Found(buf, TRUE, n, g) =
               [at |-> Len(buf), left |-> 1, pkts |-> <<PacketAt(buf, n)>>]
      BY <1>1, <1>5, FoundPacket, Zenon
    <3>2. QED  BY <2>2, <3>1, Zenon
  <2>3. CASE restart = FALSE
    <3>1. /\ Found(buf, FALSE, n, f) = Prepend(PacketAt(buf, n), f[End(buf, n) + 3])
          /\ Found(buf, FALSE, n, g) = Prepend(PacketAt(buf, n), g[End(buf, n) + 3])
      BY <1>1, <1>5, FoundPacket, Zenon
    <3>2. QED  BY <2>1, <2>3, <3>1, Zenon
  <2>4. QED  BY <2>2, <2>3
<1>6. QED  BY <1>1, <1>2, <1>3, <1>4, <1>5

LEMMA IntervalHead ==
  ASSUME NEW a \in Nat, NEW b \in Nat, a < b
  PROVE  /\ a \in a..b /\ \A n \in a..b : n = a \/ n \in a + 1..b
         /\ \A n \in a + 1..b : n \in a..b /\ n # a
OBVIOUS

\* The loop is well defined: there is a function that is its own rest.
LEMMA LoopIs ==
  ASSUME NEW buf \in Seq(Byte), NEW restart \in BOOLEAN
  PROVE  \A n \in 0..Len(buf) :
           Loop(buf, restart)[n] = Found(buf, restart, n, Loop(buf, restart))
<1> DEFINE L == Len(buf)
           From(g, k) == g = [n \in L - k..L |-> Found(buf, restart, n, g)]
           None0 == {k \in 0..L : ~\E g : From(g, k)}
<1>1. L \in Nat
  BY LenProperties
<1>2. \E g : From(g, 0)
  <2> DEFINE g == [n \in L..L |-> Found(buf, restart, n, <<>>)]
  <2>1. \A n \in L..L : Found(buf, restart, n, g) = Found(buf, restart, n, <<>>)
    BY <1>1, FoundEnd
  <2>2. g = [n \in L - 0..L |-> Found(buf, restart, n, g)]
    BY <1>1, <2>1
  <2>3. QED  BY <2>2
<1>3. ASSUME NEW k \in 0..L, k < L, NEW g, From(g, k)
      PROVE  \E h : From(h, k + 1)
  <2> DEFINE m == L - (k + 1)
             h == [n \in m..L |-> IF n = m THEN Found(buf, restart, m, g) ELSE g[n]]
  <2>1. m \in Nat /\ m < L /\ m + 1 = L - k
    BY <1>1, <1>3
  <2>2. \A n \in m + 1..L : h[n] = g[n] /\ g[n] = Found(buf, restart, n, g)
    <3>1. g = [n \in m + 1..L |-> Found(buf, restart, n, g)]
      BY <1>3, <2>1
    <3>2. \A n \in m + 1..L : g[n] = Found(buf, restart, n, g)
      BY <3>1, Zenon
    <3>3. \A n \in m + 1..L : n \in m..L /\ n # m
      BY <1>1, <2>1, IntervalHead, Zenon
    <3>4. \A n \in m + 1..L : h[n] = g[n]
      BY <3>3
    <3>5. QED  BY <3>2, <3>4
  <2>3. \A n \in m..L : Found(buf, restart, n, h) = Found(buf, restart, n, g)
    <3> HIDE DEF h
    <3> SUFFICES ASSUME NEW n \in m..L
                 PROVE  Found(buf, restart, n, h) = Found(buf, restart, n, g)
      OBVIOUS
    <3>1. n \in 0..Len(buf) /\ \A i \in n + 1..Len(buf) : h[i] = g[i]
      BY <1>1, <2>1, <2>2
    <3>2. QED  BY <3>1, FoundLocal
  <2>4. \A n \in m..L : h[n] = Found(buf, restart, n, h)
    <3>1. h[m] = Found(buf, restart, m, g)
      BY <1>1, <1>3, <2>1
    <3>2. m \in m..L /\ \A n \in m..L : n = m \/ n \in m + 1..L
      BY <1>1, <2>1, IntervalHead, Zenon
    <3> HIDE DEF h
    <3>3. QED  BY <2>2, <2>3, <3>1, <3>2
  <2>5. h = [n \in m..L |-> Found(buf, restart, n, h)]
    BY <2>4
  <2>6. QED  BY <2>5
<1> HIDE DEF From
<1>4. None0 = {}
  <2> SUFFICES ASSUME None0 # {} PROVE FALSE
    OBVIOUS
  <2>1. None0 \subseteq Nat
    BY <1>1
  <2>2. PICK k \in None0 : \A c \in None0 : k <= c
    BY <2>1, LeastNat
  <2>3. k # 0 /\ k \in 0..L /\ ~\E g : From(g, k)
    BY <1>2
  <2>4. k - 1 \in 0..L /\ k - 1 < L /\ k - 1 \notin None0 /\ (k - 1) + 1 = k
    BY <1>1, <2>2, <2>3
  <2>5. \E g : From(g, k - 1)
    BY <2>4
  <2>6. QED  BY <1>3, <2>3, <2>4, <2>5
<1>5. \E g : From(g, L)
  BY <1>1, <1>4
<1>6. \E g : g = [n \in 0..L |-> Found(buf, restart, n, g)]
  <2>1. L - L = 0
    BY <1>1
  <2>2. QED  BY <1>5, <2>1, Zenon DEF From
<1>7. Loop(buf, restart) = [n \in 0..L |-> Found(buf, restart, n, Loop(buf, restart))]
  BY <1>6, Zenon DEF Loop
<1>8. QED  BY <1>7, Zenon

\* A property of all offsets holds if each has it as soon as all higher ones do.
LEMMA Downwards ==
  ASSUME NEW L \in Nat, NEW G,
         \A n \in 0..L : (\A m \in n + 1..L : m \in G) => n \in G
  PROVE  \A n \in 0..L : n \in G
<1> DEFINE B == {k \in 0..L : L - k \notin G}
<1>1. B = {}
  <2> SUFFICES ASSUME B # {} PROVE FALSE
    OBVIOUS
  <2>0. B \subseteq Nat
    OBVIOUS
  <2>1. PICK k \in B : \A c \in B : k <= c
    BY <2>0, LeastNat
  <2>2. \A m \in L - k + 1..L : m \in G
    <3> SUFFICES ASSUME NEW m \in L - k + 1..L PROVE m \in G
      OBVIOUS
    <3>1. L - m \in 0..L /\ L - m < k /\ L - (L - m) = m
      BY <2>1
    <3>2. L - m \notin B
      BY <2>1, <3>1
    <3>3. QED  BY <3>1, <3>2
  <2>3. L - k \in 0..L /\ L - k \notin G
    BY <2>1
  <2>4. QED  BY <2>2, <2>3
<1>2. \A n \in 0..L : L - n \in 0..L /\ L - (L - n) = n
  OBVIOUS
<1>3. QED  BY <1>1, <1>2

-----------------------------------------------------------------------------
(* What the loop yields *)

Pkt == [res : Nat, left : Nat, pkt : Seq(Nat), id : Nat, stop : Nat \X Nat]

\* The CRC of packet t is at place c.
CrcAt(buf, c, t) ==
  buf[c].of = <<t.pkt, 1>> /\ buf[c + 1].of = <<t.pkt, 2>> /\ t.id = buf[c].id[1]

\* From offset n on: how far the loop comes, how many bytes it waits for, and that
\* each packet has its CRC in what was passed over, later packets later ones.
Yields(buf, n, d) ==
  /\ d \in [at : n..Len(buf), left : Nat, pkts : Seq(Pkt)]
  /\ d.left > 0 /\ Len(buf) - d.at + d.left <= MaxPl + 6
  /\ \A i \in 1..Len(d.pkts) : \E c \in n + 1..d.at : CrcAt(buf, c, d.pkts[i])
  /\ \A i, j \in 1..Len(d.pkts) : i < j => d.pkts[i].id < d.pkts[j].id

LEMMA PacketTypes ==
  ASSUME NEW buf \in Seq(Byte), NEW n \in Nat, n < Len(buf), IsPacket(buf, n)
  PROVE  /\ PacketAt(buf, n) \in Pkt
         /\ End(buf, n) + 1 \in n + 1..End(buf, n) + 3
         /\ CrcAt(buf, End(buf, n) + 1, PacketAt(buf, n))
<1> DEFINE end == End(buf, n)
           len == LenOf(buf, n)
<1>1. /\ Start(buf, n) \in {2, 3} /\ len \in 1..MaxPl
      /\ end \in Nat /\ end >= n + 3 /\ end + 3 <= Len(buf)
      /\ PacketAt(buf, n).res \in Nat /\ Len(buf) \in Nat
  BY PacketRange, LenProperties
<1>2. \A i \in 1..Len(buf) : buf[i].val \in Nat /\ buf[i].id \in Nat \X Nat
  <2>1. \A i \in 1..Len(buf) : buf[i] \in Byte
    BY ElementOfSeq
  <2>2. QED  BY <2>1 DEF Byte
<1>3. end = n + Start(buf, n) + len
  BY DEF End
<1>4. \A i \in 1..len : n + Start(buf, n) + i \in 1..Len(buf)
  BY <1>1, <1>3, BoundsAssumption, SMTT(30)
<1>5. PayloadAt(buf, n) \in [1..len -> Nat]
  BY <1>2, <1>4 DEF PayloadAt, Payload
<1>6. PayloadAt(buf, n) \in Seq(Nat)
  BY <1>1, <1>5, SeqDef, BoundsAssumption
<1>7. end + 1 \in 1..Len(buf) /\ end + 3 \in 1..Len(buf)
  BY <1>1
<1>8. buf[end + 1].id[1] \in Nat /\ buf[end + 3].id \in Nat \X Nat
  BY <1>2, <1>7
<1>9. PacketAt(buf, n) \in Pkt
  BY <1>1, <1>6, <1>8 DEF PacketAt, Pkt
<1>10. CrcAt(buf, end + 1, PacketAt(buf, n))
  <2>1. end + 1 + 1 = end + 2
    BY <1>1
  <2>2. CrcMatches(buf, end, PayloadAt(buf, n))
    BY DEF IsPacket
  <2>3. QED  BY <2>1, <2>2 DEF CrcMatches, CrcAt, PacketAt
<1>11. QED  BY <1>1, <1>9, <1>10

-----------------------------------------------------------------------------
(* The bytes of a frame *)

HeaderLen(p) == IF Len(p) < Base THEN 2 ELSE 3
Values(p) == Header(p) \o p \o CrcBytes \o <<3>>

LEMMA PacketIsSeq ==
  ASSUME NEW p \in Packets
  PROVE  /\ p \in Seq(Nat) /\ Len(p) \in Nat
         /\ Header(p) \in Seq(Nat) /\ Len(Header(p)) = HeaderLen(p)
<1>1. p \in Seq(0..Base - 1) /\ 0..Base - 1 \subseteq Nat
  BY PacketsAssumption, BaseAssumption
<1>2. p \in Seq(Nat) /\ Len(p) \in Nat
  BY <1>1, SeqMonotonic, LenProperties
<1>3. CASE Len(p) < Base
  BY <1>2, <1>3 DEF Header, HeaderLen
<1>4. CASE ~(Len(p) < Base)
  <2>1. Len(p) \div Base \in Nat /\ Len(p) % Base \in Nat
    BY <1>2, BaseAssumption
  <2>2. QED  BY <1>2, <1>4, <2>1 DEF Header, HeaderLen
<1>5. QED  BY <1>2, <1>3, <1>4

LEMMA ValuesAre ==
  ASSUME NEW p \in Packets
  PROVE  LET h == HeaderLen(p)
             n == h + Len(p)
         IN  /\ Values(p) \in Seq(Nat) /\ Len(Values(p)) = n + 3
             /\ \A i \in 1..h : Values(p)[i] = Header(p)[i]
             /\ \A i \in 1..Len(p) : Values(p)[h + i] = p[i]
             /\ Values(p)[n + 3] = 3
<1> DEFINE h == HeaderLen(p)
           n == h + Len(p)
           a == Header(p) \o p
           b == a \o CrcBytes
<1>1. /\ p \in Seq(Nat) /\ Len(p) \in Nat /\ Header(p) \in Seq(Nat) /\ Len(Header(p)) = h
      /\ h \in {2, 3}
  BY PacketIsSeq DEF HeaderLen
<1>2. CrcBytes \in Seq(Nat) /\ Len(CrcBytes) = 2
  <2>1. 0..Base - 1 \subseteq Nat
    BY BaseAssumption
  <2>2. QED  BY <2>1, BytesAssumption, SeqMonotonic
<1>3. <<3>> \in Seq(Nat) /\ Len(<<3>>) = 1 /\ <<3>>[1] = 3
  OBVIOUS
<1>4. /\ a \in Seq(Nat) /\ Len(a) = n
      /\ \A i \in 1..n : a[i] = IF i <= h THEN Header(p)[i] ELSE p[i - h]
  BY <1>1, ConcatProperties
<1>5. /\ b \in Seq(Nat) /\ Len(b) = n + 2
      /\ \A i \in 1..n + 2 : b[i] = IF i <= n THEN a[i] ELSE CrcBytes[i - n]
  <2> HIDE DEF a
  <2>1. /\ b \in Seq(Nat) /\ Len(b) = Len(a) + Len(CrcBytes)
        /\ \A i \in 1..Len(a) + Len(CrcBytes) :
             b[i] = IF i <= Len(a) THEN a[i] ELSE CrcBytes[i - Len(a)]
    BY <1>2, <1>4, ConcatProperties, Zenon
  <2>2. Len(a) = n /\ Len(CrcBytes) = 2
    BY <1>2, <1>4
  <2> HIDE DEF b, n
  <2>3. QED  BY <2>1, <2>2
<1>6. /\ Values(p) \in Seq(Nat) /\ Len(Values(p)) = n + 3
      /\ \A i \in 1..n + 3 : Values(p)[i] = IF i <= n + 2 THEN b[i] ELSE <<3>>[i - (n + 2)]
  <2>1. Values(p) = b \o <<3>>
    BY DEF Values
  <2> HIDE DEF b
  <2>2. n + 2 + 1 = n + 3
    BY <1>1
  <2>3. /\ Values(p) \in Seq(Nat) /\ Len(Values(p)) = Len(b) + Len(<<3>>)
        /\ \A i \in 1..Len(b) + Len(<<3>>) :
             Values(p)[i] = IF i <= Len(b) THEN b[i] ELSE <<3>>[i - Len(b)]
    <3> DEFINE c == <<3>>
    <3>1. b \in Seq(Nat) /\ c \in Seq(Nat) /\ Values(p) = b \o c
      BY <1>3, <1>5, <2>1
    <3> HIDE DEF c
    <3>2. /\ Values(p) \in Seq(Nat) /\ Len(Values(p)) = Len(b) + Len(c)
          /\ \A i \in 1..Len(b) + Len(c) :
               Values(p)[i] = IF i <= Len(b) THEN b[i] ELSE c[i - Len(b)]
      BY <3>1, ConcatProperties, ZenonT(40)
    <3>3. QED  BY <3>2 DEF c
  <2> HIDE DEF n
  <2>4. Len(b) = n + 2 /\ Len(b) + Len(<<3>>) = n + 3
    BY <1>3, <1>5, <2>2
  <2>5. QED  BY <2>3, <2>4, Zenon
<1>7. /\ n + 3 \in 1..n + 3 /\ ~(n + 3 <= n + 2) /\ n + 3 - (n + 2) = 1 /\ n \in Nat /\ h \in Nat
      /\ h <= n /\ n - h = Len(p)
  BY <1>1
<1> HIDE DEF a, b, n, h
<1>8. \A i \in 1..n : Values(p)[i] = IF i <= h THEN Header(p)[i] ELSE p[i - h]
  <2> SUFFICES ASSUME NEW i \in 1..n
               PROVE  Values(p)[i] = IF i <= h THEN Header(p)[i] ELSE p[i - h]
    OBVIOUS
  <2>1. i \in 1..n + 2 /\ i \in 1..n + 3 /\ i <= n + 2 /\ i <= n
    BY <1>7
  <2>2. Values(p)[i] = b[i] /\ b[i] = a[i]
    BY <1>5, <1>6, <2>1
  <2>3. QED  BY <1>4, <2>2
<1>9. \A i \in 1..h : Values(p)[i] = Header(p)[i]
  BY <1>7, <1>8
<1>10. \A i \in 1..Len(p) : Values(p)[h + i] = p[i]
  <2> SUFFICES ASSUME NEW i \in 1..Len(p) PROVE Values(p)[h + i] = p[i]
    OBVIOUS
  <2> DEFINE j == h + i
  <2>1. j \in 1..n /\ ~(j <= h) /\ j - h = i
    BY <1>1, <1>7
  <2> HIDE DEF j
  <2>2. Values(p)[j] = p[i]
    BY <1>8, <2>1
  <2>3. QED  BY <2>2 DEF j
<1>11. Values(p)[n + 3] = 3
  BY <1>3, <1>6, <1>7
<1>12. QED  BY <1>6, <1>9, <1>10, <1>11 DEF n, h

\* The bytes before the CRC.
BodyLen(p) == HeaderLen(p) + Len(p)

\* Where a byte of a frame was sent, and the two bytes that are its CRC.
LEMMA FrameIs ==
  ASSUME NEW p \in Packets, NEW k \in Nat
  PROVE  /\ BodyLen(p) \in Nat /\ Frame(p, k) \in Seq(Byte) /\ Len(Frame(p, k)) = BodyLen(p) + 3
         /\ \A i \in 1..BodyLen(p) + 3 :
              /\ Frame(p, k)[i].val = Values(p)[i] /\ Frame(p, k)[i].id = <<k, i>>
              /\ Frame(p, k)[i].of = IF i - BodyLen(p) \in 1..2 THEN <<p, i - BodyLen(p)>> ELSE None
         /\ Frame(p, k)[BodyLen(p) + 1].of = <<p, 1>>
         /\ Frame(p, k)[BodyLen(p) + 2].of = <<p, 2>>
<1> DEFINE n == HeaderLen(p) + Len(p)
           byte(i) == [val |-> Values(p)[i],
                       of  |-> IF i - n \in 1..2 THEN <<p, i - n>> ELSE None,
                       id  |-> <<k, i>>]
<1>1. n \in Nat /\ Values(p) \in Seq(Nat) /\ Len(Values(p)) = n + 3
  BY PacketIsSeq, ValuesAre DEF HeaderLen
<1>2. DOMAIN Values(p) = 1..n + 3 /\ \A i \in 1..n + 3 : Values(p)[i] \in Nat
  BY <1>1, LenProperties, ElementOfSeq
<1>3. Len(Header(p) \o p) = n
  BY PacketIsSeq, ConcatProperties
<1>4. Frame(p, k) = [i \in 1..n + 3 |-> byte(i)]
  BY <1>2, <1>3 DEF Frame, Values
<1>5. \A i \in 1..n + 3 : byte(i) \in Byte
  <2> SUFFICES ASSUME NEW i \in 1..n + 3 PROVE byte(i) \in Byte
    OBVIOUS
  <2>1. byte(i).of \in {None} \cup (Packets \X {1, 2})
    BY <1>1
  <2>2. QED  BY <1>1, <1>2, <2>1 DEF Byte
<1>6. Frame(p, k) \in [1..n + 3 -> Byte] /\ n + 3 \in Nat
  BY <1>1, <1>4, <1>5
<1>7. Frame(p, k) \in Seq(Byte) /\ Len(Frame(p, k)) = n + 3
  BY <1>6, SeqDef
<1>8. Frame(p, k)[n + 1].of = <<p, 1>> /\ Frame(p, k)[n + 2].of = <<p, 2>>
  <2>1. n + 1 \in 1..n + 3 /\ n + 2 \in 1..n + 3 /\ (n + 1) - n = 1 /\ (n + 2) - n = 2
    BY <1>1
  <2>2. Frame(p, k)[n + 1] = byte(n + 1) /\ Frame(p, k)[n + 2] = byte(n + 2)
    <3> HIDE DEF byte, n
    <3>1. QED  BY <1>4, <2>1
  <2>3. 1 \in 1..2 /\ 2 \in 1..2
    OBVIOUS
  <2>4. /\ Frame(p, k)[n + 1].of = IF (n + 1) - n \in 1..2 THEN <<p, (n + 1) - n>> ELSE None
        /\ Frame(p, k)[n + 2].of = IF (n + 2) - n \in 1..2 THEN <<p, (n + 2) - n>> ELSE None
    BY <2>2
  <2> HIDE DEF n
  <2>5. /\ Frame(p, k)[n + 1].of = IF 1 \in 1..2 THEN <<p, 1>> ELSE None
        /\ Frame(p, k)[n + 2].of = IF 2 \in 1..2 THEN <<p, 2>> ELSE None
    BY <2>1, <2>4, Zenon
  <2>6. QED  BY <2>3, <2>5
<1>9. \A i \in 1..n + 3 :
        /\ Frame(p, k)[i].val = Values(p)[i] /\ Frame(p, k)[i].id = <<k, i>>
        /\ Frame(p, k)[i].of = IF i - n \in 1..2 THEN <<p, i - n>> ELSE None
  BY <1>4
<1>10. n = BodyLen(p)
  BY DEF BodyLen
<1> HIDE DEF n
<1>11. QED  BY <1>1, <1>7, <1>8, <1>9, <1>10

-----------------------------------------------------------------------------
(* What is on the line *)

\* The first byte of a CRC.
Crc1(b) == b.of # None /\ b.of[2] = 1

\* The CRCs in the bytes s are of packets in q, after the first l of them, in order
\* and each there once.
Lined(s, q, l) ==
  /\ s \in Seq(Byte)
  /\ \A i \in 1..Len(s) :
       Crc1(s[i]) => s[i].id[1] \in l + 1..Len(q) /\ s[i].of[1] = q[s[i].id[1]]
  /\ \A i, j \in 1..Len(s) : i < j /\ Crc1(s[i]) /\ Crc1(s[j]) => s[i].id[1] < s[j].id[1]

\* The CRCs in t are above m, and f says where they are in s.
Picks(f, t, s, m) ==
  /\ \A i \in 1..Len(t) :
       Crc1(t[i]) => f[i] \in 1..Len(s) /\ t[i] = s[f[i]] /\ t[i].id[1] > m
  /\ \A i, j \in 1..Len(t) : i < j /\ Crc1(t[i]) /\ Crc1(t[j]) => f[i] < f[j]

LEMMA Thinned ==
  ASSUME NEW s, NEW q, NEW l, NEW m \in Nat, NEW t \in Seq(Byte), NEW f, Lined(s, q, l),
         q \in Seq(Packets), Picks(f, t, s, m)
  PROVE  Lined(t, q, m)
<1> USE DEF Picks
<1>1. \A i \in 1..Len(t) : Crc1(t[i]) => Crc1(s[f[i]])
  OBVIOUS
<1>2. \A i \in 1..Len(t) :
        Crc1(t[i]) => t[i].id[1] \in l + 1..Len(q) /\ t[i].of[1] = q[t[i].id[1]]
  BY <1>1 DEF Lined
<1>3. \A i \in 1..Len(t) :
        Crc1(t[i]) => t[i].id[1] \in m + 1..Len(q) /\ t[i].of[1] = q[t[i].id[1]]
  <2>1. \A i \in 1..Len(t) : t[i].id[1] \in Nat
    <3>1. \A i \in 1..Len(t) : t[i] \in Byte
      BY ElementOfSeq
    <3>2. QED  BY <3>1 DEF Byte
  <2>2. Len(q) \in Nat
    BY LenProperties
  <2>3. QED  BY <1>2, <2>1, <2>2
<1>4. \A i, j \in 1..Len(t) : i < j /\ Crc1(t[i]) /\ Crc1(t[j]) => t[i].id[1] < t[j].id[1]
  BY <1>1 DEF Lined
<1>5. QED  BY <1>3, <1>4 DEF Lined

\* A CRC found in the bytes is of the packet with its number.
LEMMA CrcOf ==
  ASSUME NEW buf, NEW q, NEW l, Lined(buf, q, l), NEW t \in Pkt,
         NEW c \in 1..Len(buf), CrcAt(buf, c, t)
  PROVE  Crc1(buf[c]) /\ t.id \in l + 1..Len(q) /\ t.pkt = q[t.id]
<1>1. <<t.pkt, 1>> \in Seq(Nat) \X {1, 2}
  BY DEF Pkt
<1>2. buf[c].of = <<t.pkt, 1>> /\ t.id = buf[c].id[1]
  BY DEF CrcAt
<1>3. Crc1(buf[c]) /\ buf[c].of[1] = t.pkt
  BY <1>1, <1>2, NoneAssumption DEF Crc1
<1>4. QED  BY <1>2, <1>3 DEF Lined

LEMMA YieldsLater ==
  ASSUME NEW buf \in Seq(Byte), NEW n \in Nat, NEW m \in Nat, n <= m, NEW d, Yields(buf, m, d)
  PROVE  Yields(buf, n, d)
<1>1. Len(buf) \in Nat
  BY LenProperties
<1>2. d \in [at : m..Len(buf), left : Nat, pkts : Seq(Pkt)]
  BY DEF Yields
<1>3. d \in [at : n..Len(buf), left : Nat, pkts : Seq(Pkt)]
  BY <1>1, <1>2
<1>4. m + 1..d.at \subseteq n + 1..d.at
  BY <1>2
<1>5. QED  BY <1>3, <1>4 DEF Yields

LEMMA YieldsPacket ==
  ASSUME NEW buf \in Seq(Byte), NEW q, NEW l, Lined(buf, q, l),
         NEW n \in Nat, n < Len(buf), IsPacket(buf, n), NEW d, Yields(buf, End(buf, n) + 3, d)
  PROVE  Yields(buf, n, Prepend(PacketAt(buf, n), d))
<1> DEFINE t == PacketAt(buf, n)
           e == End(buf, n)
           r == Prepend(t, d)
<1>1. /\ t \in Pkt /\ e + 1 \in n + 1..e + 3 /\ CrcAt(buf, e + 1, t)
      /\ e \in Nat /\ e >= n + 3 /\ e + 3 <= Len(buf) /\ Len(buf) \in Nat
  BY PacketTypes, PacketRange, LenProperties
<1> HIDE DEF t, e
<1>2. d \in [at : e + 3..Len(buf), left : Nat, pkts : Seq(Pkt)]
  BY DEF Yields, e
<1>3. /\ r.at = d.at /\ r.left = d.left /\ r.pkts = <<t>> \o d.pkts /\ r.pkts \in Seq(Pkt)
      /\ r \in [at : e + 3..Len(buf), left : Nat, pkts : Seq(Pkt)]
  <2>1. <<t>> \o d.pkts \in Seq(Pkt)
    BY <1>1, <1>2
  <2>2. QED  BY <1>2, <2>1 DEF Prepend
<1> HIDE DEF r
<1>4. /\ Len(r.pkts) = Len(d.pkts) + 1 /\ Len(d.pkts) \in Nat
      /\ r.pkts[1] = t /\ \A i \in 2..Len(r.pkts) : r.pkts[i] = d.pkts[i - 1]
  BY <1>1, <1>2, <1>3
<1>5. \A i \in 2..Len(r.pkts) : i - 1 \in 1..Len(d.pkts)
  BY <1>4
<1>6. \A i \in 2..Len(r.pkts) : \E c \in e + 3 + 1..d.at : CrcAt(buf, c, r.pkts[i])
  BY <1>4, <1>5 DEF Yields, e
<1>7. \A i \in 1..Len(r.pkts) : \E c \in n + 1..r.at : CrcAt(buf, c, r.pkts[i])
  <2>1. e + 1 \in n + 1..d.at /\ e + 3 + 1..d.at \subseteq n + 1..d.at
    BY <1>1, <1>2
  <2>2. QED  BY <1>1, <1>3, <1>4, <1>6, <2>1
<1>8. \A i \in 2..Len(r.pkts) : t.id < r.pkts[i].id
  <2> SUFFICES ASSUME NEW i \in 2..Len(r.pkts) PROVE t.id < r.pkts[i].id
    OBVIOUS
  <2>1. PICK c \in e + 3 + 1..d.at : CrcAt(buf, c, r.pkts[i])
    BY <1>6
  <2>2. r.pkts[i] \in Pkt
    <3>1. i \in 1..Len(r.pkts)
      BY <1>4
    <3>2. QED  BY <1>3, <3>1, ElementOfSeq
  <2>3. c \in 1..Len(buf) /\ e + 1 \in 1..Len(buf) /\ e + 1 < c
    BY <1>1, <1>2
  <2>4. Crc1(buf[c]) /\ Crc1(buf[e + 1])
    BY <1>1, <2>1, <2>2, <2>3, CrcOf
  <2>5. buf[e + 1].id[1] < buf[c].id[1]
    BY <2>3, <2>4 DEF Lined
  <2>6. QED  BY <1>1, <2>1, <2>5 DEF CrcAt
<1>9. \A i, j \in 1..Len(r.pkts) : i < j => r.pkts[i].id < r.pkts[j].id
  <2> SUFFICES ASSUME NEW i \in 1..Len(r.pkts), NEW j \in 1..Len(r.pkts), i < j
               PROVE  r.pkts[i].id < r.pkts[j].id
    OBVIOUS
  <2>1. CASE i = 1
    BY <1>4, <1>8, <2>1
  <2>2. CASE i # 1
    <3>1. i \in 2..Len(r.pkts) /\ j \in 2..Len(r.pkts) /\ i - 1 < j - 1
      BY <1>4, <2>2
    <3>2. i - 1 \in 1..Len(d.pkts) /\ j - 1 \in 1..Len(d.pkts)
      BY <1>5, <3>1
    <3>3. d.pkts[i - 1].id < d.pkts[j - 1].id
      BY <3>1, <3>2 DEF Yields
    <3>4. QED  BY <1>4, <3>1, <3>3
  <2>3. QED  BY <2>1, <2>2
<1>10. r \in [at : n..Len(buf), left : Nat, pkts : Seq(Pkt)]
  BY <1>1, <1>2, <1>3
<1>11. r.left > 0 /\ Len(buf) - r.at + r.left <= MaxPl + 6
  BY <1>3 DEF Yields
<1>12. Yields(buf, n, r)
  BY <1>7, <1>9, <1>10, <1>11 DEF Yields
<1>13. QED  BY <1>12 DEF r, t

LEMMA YieldsNothing ==
  ASSUME NEW buf \in Seq(Byte), NEW n \in 0..Len(buf), NEW w \in Nat, w > 0,
         Len(buf) - n + w <= MaxPl + 6
  PROVE  Yields(buf, n, [at |-> n, left |-> w, pkts |-> <<>>])
<1> DEFINE d == [at |-> n, left |-> w, pkts |-> <<>>]
<1>1. Len(buf) \in Nat /\ Len(d.pkts) = 0
  BY LenProperties
<1>2. d \in [at : n..Len(buf), left : Nat, pkts : Seq(Pkt)]
  BY <1>1
<1>3. QED  BY <1>1, <1>2 DEF Yields

\* Every offset of the loop yields packets that were sent, in order.
LEMMA LoopYields ==
  ASSUME NEW buf \in Seq(Byte), NEW q, NEW l, Lined(buf, q, l), NEW restart \in BOOLEAN
  PROVE  \A n \in 0..Len(buf) : Yields(buf, n, Loop(buf, restart)[n])
<1> DEFINE L == Len(buf)
           loop == Loop(buf, restart)
           G == {n \in 0..L : Yields(buf, n, loop[n])}
<1>1. L \in Nat
  BY LenProperties
<1> HIDE DEF loop
<1>2. ASSUME NEW n \in 0..L, \A m \in n + 1..L : Yields(buf, m, loop[m])
      PROVE  Yields(buf, n, loop[n])
  <2>1. loop[n] = Found(buf, restart, n, loop) /\ n \in Nat
    BY <1>1, <1>2, LoopIs DEF loop
  <2>2. CASE n = L
    <3>1. loop[n] = [at |-> n, left |-> 1, pkts |-> <<>>]
      BY <2>1, <2>2, FoundEnd
    <3>2. Len(buf) - n + 1 <= MaxPl + 6
      BY <1>1, <2>2, BoundsAssumption
    <3>3. QED  BY <1>2, <3>1, <3>2, YieldsNothing
  <2>3. CASE n < L /\ IsShort(buf, n)
    <3>1. loop[n] = [at |-> n, left |-> Wanted(buf, n), pkts |-> <<>>]
      BY <2>1, <2>3, FoundShort
    <3>2. /\ Wanted(buf, n) \in Nat /\ Wanted(buf, n) > 0
          /\ Len(buf) - n + Wanted(buf, n) <= MaxPl + 6
      BY <2>1, <2>3, ShortRange
    <3>3. QED  BY <1>2, <3>1, <3>2, YieldsNothing
  <2>4. CASE n < L /\ ~IsShort(buf, n) /\ ~IsPacket(buf, n)
    <3>1. loop[n] = loop[n + 1]
      BY <2>1, <2>4, FoundNone
    <3>2. n + 1 \in n + 1..L /\ n + 1 \in Nat /\ n <= n + 1
      BY <1>1, <2>1, <2>4
    <3>3. Yields(buf, n + 1, loop[n + 1])
      BY <1>2, <3>2
    <3>4. QED  BY <2>1, <3>1, <3>2, <3>3, YieldsLater
  <2>5. CASE n < L /\ IsPacket(buf, n)
    <3> DEFINE e == End(buf, n) + 3
               t == PacketAt(buf, n)
    <3>1. e \in n + 1..L /\ e \in Nat
      BY <1>1, <2>1, <2>5, PacketRange
    <3>2. CASE restart = FALSE
      <4>1. loop[n] = Prepend(t, loop[e])
        <5>1. Found(buf, FALSE, n, loop) = Prepend(t, loop[e])
          BY <2>1, <2>5, FoundPacket
        <5>2. QED  BY <2>1, <3>2, <5>1, Zenon
      <4>2. Yields(buf, e, loop[e])
        BY <1>2, <3>1
      <4>3. QED  BY <2>1, <2>5, <4>1, <4>2, YieldsPacket
    <3>3. CASE restart = TRUE
      <4> DEFINE d == [at |-> L, left |-> 1, pkts |-> <<t>>]
      <4>1. loop[n] = d
        <5>1. Found(buf, TRUE, n, loop) = d
          BY <2>1, <2>5, FoundPacket
        <5>2. QED  BY <2>1, <3>3, <5>1, Zenon
      <4>2. /\ t \in Pkt /\ End(buf, n) + 1 \in n + 1..End(buf, n) + 3
            /\ CrcAt(buf, End(buf, n) + 1, t) /\ End(buf, n) \in Nat
        BY <2>1, <2>5, PacketTypes, PacketRange
      <4> HIDE DEF t
      <4>3. d \in [at : n..L, left : Nat, pkts : Seq(Pkt)]
        BY <1>1, <2>1, <2>5, <4>2
      <4>4. Len(d.pkts) = 1 /\ d.pkts[1] = t
        OBVIOUS
      <4>5. End(buf, n) + 1 \in n + 1..d.at
        BY <1>1, <3>1, <4>2
      <4>6. d.left > 0 /\ L - d.at + d.left <= MaxPl + 6
        BY <1>1, BoundsAssumption
      <4> HIDE DEF d
      <4>7. \A i \in 1..Len(d.pkts) : i = 1
        BY <4>4
      <4>8. QED  BY <4>1, <4>2, <4>3, <4>4, <4>5, <4>6, <4>7 DEF Yields
    <3>4. QED  BY <3>2, <3>3
  <2>6. QED  BY <1>1, <1>2, <2>1, <2>2, <2>3, <2>4, <2>5
<1>3. \A n \in 0..L : (\A m \in n + 1..L : m \in G) => n \in G
  BY <1>2
<1>4. \A n \in 0..L : n \in G
  <2> HIDE DEF G
  <2>1. QED  BY <1>1, <1>3, Downwards
<1>5. QED  BY <1>4 DEF loop

\* What the receiver takes out of its bytes: packets that were sent after the one
\* delivered last, in the order they were sent.
LEMMA DecodeIs ==
  ASSUME NEW buf, NEW q \in Seq(Packets), NEW l \in Nat, Lined(buf, q, l), NEW restart \in BOOLEAN
  PROVE  LET d == Decode(buf, restart)
         IN  /\ d \in [at : 0..Len(buf), left : Nat, pkts : Seq(Pkt)]
             /\ d.left > 0 /\ Len(buf) - d.at + d.left <= MaxPl + 6
             /\ \A i \in 1..Len(d.pkts) : /\ d.pkts[i].id \in l + 1..Len(q)
                                          /\ d.pkts[i].pkt = q[d.pkts[i].id]
             /\ \A i, j \in 1..Len(d.pkts) : i < j => d.pkts[i].id < d.pkts[j].id
             /\ \A i \in 1..Len(d.pkts) : \E c \in 1..d.at : CrcAt(buf, c, d.pkts[i])
<1> DEFINE d == Decode(buf, restart)
<1>1. buf \in Seq(Byte) /\ Len(buf) \in Nat
  BY LenProperties DEF Lined
<1>2. Yields(buf, 0, d)
  <2>1. 0 \in 0..Len(buf)
    BY <1>1
  <2>2. QED  BY <1>1, <2>1, LoopYields DEF Decode
<1> HIDE DEF d
<1>3. /\ d \in [at : 0..Len(buf), left : Nat, pkts : Seq(Pkt)]
      /\ d.left > 0 /\ Len(buf) - d.at + d.left <= MaxPl + 6
      /\ \A i, j \in 1..Len(d.pkts) : i < j => d.pkts[i].id < d.pkts[j].id
  BY <1>2 DEF Yields
<1>4. ASSUME NEW i \in 1..Len(d.pkts)
      PROVE  /\ d.pkts[i].id \in l + 1..Len(q) /\ d.pkts[i].pkt = q[d.pkts[i].id]
             /\ \E c \in 1..d.at : CrcAt(buf, c, d.pkts[i])
  <2>1. d.pkts[i] \in Pkt
    BY <1>3, <1>4, ElementOfSeq
  <2>2. PICK c \in 1..d.at : CrcAt(buf, c, d.pkts[i])
    BY <1>2, <1>4 DEF Yields
  <2>3. c \in 1..Len(buf)
    BY <1>1, <1>3
  <2>4. d.pkts[i].id \in l + 1..Len(q) /\ d.pkts[i].pkt = q[d.pkts[i].id]
    BY <2>1, <2>2, <2>3, CrcOf
  <2>5. QED  BY <2>2, <2>4
<1>5. QED  BY <1>3, <1>4 DEF d

-----------------------------------------------------------------------------
(* What the actions do to the bytes in the buffer and on the line *)

LEMMA LineIs ==
  ASSUME NEW r \in Seq(Byte), NEW w \in Seq(Byte)
  PROVE  /\ Len(r) \in Nat /\ Len(w) \in Nat
         /\ r \o w \in Seq(Byte) /\ Len(r \o w) = Len(r) + Len(w)
         /\ \A i \in 1..Len(r) + Len(w) :
              /\ i <= Len(r) => (r \o w)[i] = r[i]
              /\ i > Len(r) => (r \o w)[i] = w[i - Len(r)]
BY ConcatProperties, LenProperties

LEMMA LineShift ==
  ASSUME NEW r \in Seq(Byte), NEW w \in Seq(Byte), w # <<>>
  PROVE  /\ Head(w) \in Byte /\ Tail(w) \in Seq(Byte) /\ Append(r, Head(w)) \in Seq(Byte)
         /\ Len(Append(r, Head(w))) = Len(r) + 1
         /\ Append(r, Head(w)) \o Tail(w) = r \o w
<1> DEFINE b == Head(w)
           v == Tail(w)
           a == Append(r, b)
<1>1. /\ b \in Byte /\ v \in Seq(Byte) /\ Len(v) = Len(w) - 1 /\ b = w[1]
      /\ \A i \in 1..Len(v) : v[i] = w[i + 1]
  BY HeadTailProperties
<1>2. /\ a \in Seq(Byte) /\ Len(a) = Len(r) + 1 /\ a[Len(r) + 1] = b
      /\ \A i \in 1..Len(r) : a[i] = r[i]
  BY <1>1, AppendProperties
<1> HIDE DEF a, b, v
<1>3. Len(a \o v) = Len(r \o w) /\ a \o v \in Seq(Byte) /\ r \o w \in Seq(Byte)
  <2>1. a \o v \in Seq(Byte) /\ Len(a \o v) = Len(a) + Len(v)
    BY <1>1, <1>2, LineIs, Zenon
  <2>2. r \o w \in Seq(Byte) /\ Len(r \o w) = Len(r) + Len(w) /\ Len(r) \in Nat /\ Len(w) \in Nat
    BY LineIs, Zenon
  <2>3. QED  BY <1>1, <1>2, <2>1, <2>2
<1>4. \A i \in 1..Len(r \o w) : (a \o v)[i] = (r \o w)[i]
  <2> SUFFICES ASSUME NEW i \in 1..Len(r \o w) PROVE (a \o v)[i] = (r \o w)[i]
    OBVIOUS
  <2>1. i \in 1..Len(r) + Len(w) /\ i \in 1..Len(a) + Len(v) /\ Len(r) \in Nat
    BY <1>1, <1>2, LineIs
  <2>2. CASE i <= Len(r)
    <3>1. (a \o v)[i] = a[i] /\ (r \o w)[i] = r[i]
      BY <1>1, <1>2, <2>1, <2>2, LineIs
    <3>2. QED  BY <1>2, <2>1, <2>2, <3>1
  <2>3. CASE i = Len(r) + 1
    <3>1. (a \o v)[i] = a[i] /\ (r \o w)[i] = w[1]
      BY <1>1, <1>2, <2>1, <2>3, LineIs
    <3>2. QED  BY <1>1, <1>2, <2>3, <3>1
  <2>4. CASE i > Len(r) + 1
    <3>1. (a \o v)[i] = v[i - (Len(r) + 1)] /\ (r \o w)[i] = w[i - Len(r)]
      BY <1>1, <1>2, <2>1, <2>4, LineIs
    <3>2. i - (Len(r) + 1) \in 1..Len(v) /\ i - (Len(r) + 1) + 1 = i - Len(r)
      BY <1>1, <1>2, <2>1, <2>4
    <3>3. QED  BY <1>1, <3>1, <3>2
  <2>5. QED  BY <2>1, <2>2, <2>3, <2>4
<1>5. a \o v = r \o w
  BY <1>3, <1>4, SeqEqual
<1>6. QED  BY <1>1, <1>2, <1>5 DEF a, b, v

\* The first a bytes are dropped.
LEMMA DroppedIs ==
  ASSUME NEW r \in Seq(Byte), NEW w \in Seq(Byte), NEW a \in 0..Len(r)
  PROVE  LET u == SubSeq(r, a + 1, Len(r))
         IN  /\ u \in Seq(Byte) /\ Len(u) = Len(r) - a
             /\ \A i \in 1..Len(r) - a : u[i] = r[i + a]
             /\ u \o w \in Seq(Byte) /\ Len(u \o w) = Len(r) - a + Len(w)
             /\ \A i \in 1..Len(u \o w) : /\ i + a \in a + 1..Len(r) + Len(w)
                                         /\ i + a \in 1..Len(r \o w)
                                         /\ (u \o w)[i] = (r \o w)[i + a]
<1> DEFINE u == SubSeq(r, a + 1, Len(r))
           t == u \o w
           s == r \o w
<1>1. /\ Len(r) \in Nat /\ Len(w) \in Nat /\ s \in Seq(Byte) /\ Len(s) = Len(r) + Len(w)
      /\ \A i \in 1..Len(r) + Len(w) : /\ i <= Len(r) => s[i] = r[i]
                                       /\ i > Len(r) => s[i] = w[i - Len(r)]
  BY LineIs
<1>2. \A i \in a + 1..Len(r) : r[i] \in Byte
  <2>1. \A i \in a + 1..Len(r) : i \in 1..Len(r)
    BY <1>1
  <2>2. QED  BY <2>1, ElementOfSeq
<1>3. u \in Seq(Byte) /\ Len(u) = Len(r) - a /\ \A i \in 1..Len(r) - a : u[i] = r[i + a]
  <2> DEFINE g == a + 1
             h == Len(r)
  <2>1. g \in Int /\ h \in Int /\ \A i \in g..h : r[i] \in Byte
    BY <1>1, <1>2
  <2> HIDE DEF g, h
  <2>2. /\ SubSeq(r, g, h) \in Seq(Byte)
        /\ Len(SubSeq(r, g, h)) = IF g <= h THEN h - g + 1 ELSE 0
        /\ \A i \in 1..h - g + 1 : SubSeq(r, g, h)[i] = r[g + i - 1]
    BY <2>1, SubSeqProperties
  <2>3. u = SubSeq(r, g, h)
    BY DEF g, h
  <2> HIDE DEF u
  <2>4. u \in Seq(Byte) /\ Len(u) = Len(r) - a
    <3>1. Len(u) = IF g <= h THEN h - g + 1 ELSE 0
      BY <2>2, <2>3, Zenon
    <3>2. QED  BY <1>1, <2>2, <2>3, <3>1 DEF g, h
  <2>5. \A i \in 1..Len(r) - a : u[i] = r[i + a]
    <3> SUFFICES ASSUME NEW i \in 1..Len(r) - a PROVE u[i] = r[i + a]
      OBVIOUS
    <3>1. i \in 1..h - g + 1 /\ g + i - 1 = i + a
      BY <1>1 DEF g, h
    <3>2. u[i] = r[g + i - 1]
      BY <2>2, <2>3, <3>1, Zenon
    <3>3. QED  BY <3>1, <3>2, Zenon
  <2>6. QED  BY <2>4, <2>5
<1> HIDE DEF u
<1>4. /\ t \in Seq(Byte) /\ Len(t) = Len(r) - a + Len(w)
      /\ \A i \in 1..Len(r) - a + Len(w) : /\ i <= Len(r) - a => t[i] = u[i]
                                           /\ i > Len(r) - a => t[i] = w[i - (Len(r) - a)]
  <2>1. /\ t \in Seq(Byte) /\ Len(t) = Len(u) + Len(w)
        /\ \A i \in 1..Len(u) + Len(w) : /\ i <= Len(u) => t[i] = u[i]
                                         /\ i > Len(u) => t[i] = w[i - Len(u)]
    BY <1>3, LineIs, Zenon
  <2>2. Len(u) = Len(r) - a
    BY <1>3
  <2>3. QED  BY <2>1, <2>2, Zenon
<1> HIDE DEF s, t
<1>5. \A i \in 1..Len(t) : i + a \in a + 1..Len(r) + Len(w) /\ i + a \in 1..Len(s) /\ t[i] = s[i + a]
  <2> SUFFICES ASSUME NEW i \in 1..Len(t)
               PROVE  /\ i + a \in a + 1..Len(r) + Len(w) /\ i + a \in 1..Len(s)
                      /\ t[i] = s[i + a]
    OBVIOUS
  <2>1. i + a \in a + 1..Len(r) + Len(w) /\ i + a \in 1..Len(s)
    BY <1>1, <1>4
  <2>2. CASE i <= Len(r) - a
    <3>1. t[i] = r[i + a]
      BY <1>1, <1>3, <1>4, <2>2
    <3>2. s[i + a] = r[i + a]
      BY <1>1, <2>1, <2>2
    <3>3. QED  BY <2>1, <3>1, <3>2
  <2>3. CASE i > Len(r) - a
    <3>1. t[i] = w[i - (Len(r) - a)]
      BY <1>1, <1>4, <2>3
    <3>2. s[i + a] = w[i + a - Len(r)]
      BY <1>1, <2>1, <2>3
    <3>3. i + a - Len(r) = i - (Len(r) - a)
      BY <1>1
    <3>4. QED  BY <2>1, <3>1, <3>2, <3>3
  <2>4. QED  BY <1>1, <2>2, <2>3
<1>6. QED  BY <1>3, <1>4, <1>5 DEF t, s, u

\* The first a bytes are dropped, and with them all CRCs up to m.
LEMMA LineDropped ==
  ASSUME NEW r \in Seq(Byte), NEW w \in Seq(Byte), NEW q \in Seq(Packets), NEW l,
         Lined(r \o w, q, l), NEW a \in 0..Len(r), NEW m \in Nat,
         \A i \in a + 1..Len(r) + Len(w) : Crc1((r \o w)[i]) => (r \o w)[i].id[1] > m
  PROVE  /\ SubSeq(r, a + 1, Len(r)) \in Seq(Byte)
         /\ Len(SubSeq(r, a + 1, Len(r))) = Len(r) - a
         /\ Lined(SubSeq(r, a + 1, Len(r)) \o w, q, m)
<1> DEFINE u == SubSeq(r, a + 1, Len(r))
           t == u \o w
           s == r \o w
           f == [i \in 1..Len(t) |-> i + a]
<1>1. /\ Len(r) \in Nat /\ Len(w) \in Nat /\ s \in Seq(Byte) /\ Len(s) = Len(r) + Len(w)
      /\ \A i \in 1..Len(r) + Len(w) : /\ i <= Len(r) => s[i] = r[i]
                                       /\ i > Len(r) => s[i] = w[i - Len(r)]
  BY LineIs
<1>2. /\ u \in Seq(Byte) /\ Len(u) = Len(r) - a
      /\ t \in Seq(Byte) /\ Len(t) = Len(r) - a + Len(w)
      /\ \A i \in 1..Len(t) : /\ i + a \in a + 1..Len(r) + Len(w)
                              /\ i + a \in 1..Len(s) /\ t[i] = s[i + a]
  BY DroppedIs
<1> HIDE DEF u, s, t
<1>3. \A i \in 1..Len(t) : f[i] = i + a
  OBVIOUS
<1>5. \A i \in 1..Len(t) : f[i] \in a + 1..Len(r) + Len(w) /\ f[i] \in 1..Len(s) /\ t[i] = s[f[i]]
  BY <1>2, <1>3
<1>6. \A i, j \in 1..Len(t) : i < j => f[i] < f[j]
  BY <1>1, <1>2
<1>7. \A i \in 1..Len(t) : Crc1(t[i]) => t[i].id[1] > m
  <2>1. \A i \in a + 1..Len(r) + Len(w) : Crc1(s[i]) => s[i].id[1] > m
    BY DEF s
  <2> HIDE DEF f
  <2>2. QED  BY <1>5, <2>1
<1>8. Lined(s, q, l)
  BY DEF s
<1>9. Lined(t, q, m)
  <2> HIDE DEF f
  <2>1. \A i \in 1..Len(t) :
          Crc1(t[i]) => f[i] \in 1..Len(s) /\ t[i] = s[f[i]] /\ t[i].id[1] > m
    BY <1>5, <1>7
  <2>2. \A i, j \in 1..Len(t) : i < j /\ Crc1(t[i]) /\ Crc1(t[j]) => f[i] < f[j]
    BY <1>6
  <2>3. Picks(f, t, s, m)
    BY <2>1, <2>2 DEF Picks
  <2>4. QED  BY <1>2, <1>8, <2>3, Thinned
<1>10. QED  BY <1>2, <1>9 DEF t, u

\* The CRCs on the line after a damage are some of those before it.
LEMMA LineDamaged ==
  ASSUME NEW r \in Seq(Byte), NEW w \in Seq(Byte), NEW q \in Seq(Packets), NEW l \in Nat,
         Lined(r \o w, q, l), NEW v \in Seq(Byte), NEW g, Picks(g, v, w, l)
  PROVE  Lined(r \o v, q, l)
<1> DEFINE t == r \o v
           s == r \o w
           f == [i \in 1..Len(t) |-> IF i <= Len(r) THEN i ELSE Len(r) + g[i - Len(r)]]
<1>1. /\ Len(r) \in Nat /\ Len(w) \in Nat /\ s \in Seq(Byte) /\ Len(s) = Len(r) + Len(w)
      /\ \A i \in 1..Len(r) + Len(w) : /\ i <= Len(r) => s[i] = r[i]
                                       /\ i > Len(r) => s[i] = w[i - Len(r)]
  BY LineIs
<1>2. /\ Len(v) \in Nat /\ t \in Seq(Byte) /\ Len(t) = Len(r) + Len(v)
      /\ \A i \in 1..Len(r) + Len(v) : /\ i <= Len(r) => t[i] = r[i]
                                       /\ i > Len(r) => t[i] = v[i - Len(r)]
  BY LineIs
<1>3. Lined(s, q, l)
  OBVIOUS
<1> HIDE DEF s, t
<1>4. \A i \in 1..Len(t) :
        Crc1(t[i]) => f[i] \in 1..Len(s) /\ t[i] = s[f[i]] /\ (i > Len(r) => f[i] > Len(r))
  <2> SUFFICES ASSUME NEW i \in 1..Len(t), Crc1(t[i])
               PROVE  f[i] \in 1..Len(s) /\ t[i] = s[f[i]] /\ (i > Len(r) => f[i] > Len(r))
    OBVIOUS
  <2>1. CASE i <= Len(r)
    BY <1>1, <1>2, <2>1, SMTT(30)
  <2>2. CASE i > Len(r)
    <3> DEFINE j == i - Len(r)
    <3>1. j \in 1..Len(v) /\ t[i] = v[j]
      BY <1>1, <1>2, <2>2
    <3>2. g[j] \in 1..Len(w) /\ v[j] = w[g[j]]
      <4> HIDE DEF j
      <4>1. QED  BY <2>2, <3>1 DEF Picks
    <3>6. f[i] = Len(r) + g[j]
      BY <1>1, <2>2
    <3> HIDE DEF f, j
    <3>3. f[i] \in 1..Len(r) + Len(w) /\ f[i] > Len(r) /\ f[i] - Len(r) = g[j]
      BY <1>1, <3>6, <3>2, SMTT(30)
    <3>4. s[f[i]] = w[g[j]]
      BY <1>1, <3>3
    <3>5. QED  BY <1>1, <3>1, <3>2, <3>3, <3>4
  <2>3. QED  BY <1>1, <1>2, <2>1, <2>2
<1>5. \A i, j \in 1..Len(t) : i < j /\ Crc1(t[i]) /\ Crc1(t[j]) => f[i] < f[j]
  <2> SUFFICES ASSUME NEW i \in 1..Len(t), NEW j \in 1..Len(t), i < j, Crc1(t[i]), Crc1(t[j])
               PROVE  f[i] < f[j]
    OBVIOUS
  <2>1. CASE j <= Len(r)
    BY <1>1, <1>2, <2>1
  <2>2. CASE i <= Len(r) /\ j > Len(r)
    <3>1. f[i] = i
      BY <2>2
    <3> HIDE DEF f
    <3>2. QED  BY <1>1, <1>2, <1>4, <2>2, <3>1
  <2>3. CASE i > Len(r)
    <3> DEFINE a == i - Len(r)
               b == j - Len(r)
    <3>1. a \in 1..Len(v) /\ b \in 1..Len(v) /\ a < b /\ t[i] = v[a] /\ t[j] = v[b]
      BY <1>1, <1>2, <2>3
    <3>2. g[a] < g[b] /\ g[a] \in 1..Len(w) /\ g[b] \in 1..Len(w)
      BY <3>1 DEF Picks
    <3>3. f[i] = Len(r) + g[a] /\ f[j] = Len(r) + g[b]
      BY <1>1, <1>2, <2>3
    <3>4. QED  BY <1>1, <3>2, <3>3
  <2>4. QED  BY <1>1, <1>2, <2>1, <2>2, <2>3
<1>6. \A i \in 1..Len(t) : Crc1(t[i]) => t[i].id[1] > l
  <2> SUFFICES ASSUME NEW i \in 1..Len(t), Crc1(t[i]) PROVE t[i].id[1] > l
    OBVIOUS
  <2>1. f[i] \in 1..Len(s) /\ t[i] = s[f[i]]
    BY <1>4
  <2> HIDE DEF f
  <2>2. s[f[i]].id[1] \in l + 1..Len(q)
    BY <1>3, <2>1 DEF Lined
  <2>3. QED  BY <2>1, <2>2, SMTT(30)
<1> HIDE DEF f
<1>7. Picks(f, t, s, l)
  BY <1>4, <1>5, <1>6 DEF Picks
<1>8. Lined(t, q, l)
  BY <1>2, <1>3, <1>7, Thinned
<1>9. QED  BY <1>8 DEF t

LEMMA LineKinds ==
  ASSUME NEW r \in Seq(Byte), NEW w \in Seq(Byte), NEW q \in Seq(Packets), NEW l \in Nat,
         Lined(r \o w, q, l), NEW b \in Byte, ~Crc1(b)
  PROVE  /\ Lined(r \o (<<b>> \o w), q, l)
         /\ w # <<>> => Lined(r \o Tail(w), q, l) /\ Lined(r \o (<<b>> \o Tail(w)), q, l)
<1>1. /\ Len(r) \in Nat /\ Len(w) \in Nat
      /\ \A i \in 1..Len(w) : Crc1(w[i]) => w[i].id[1] > l
  <2>1. /\ Len(r) \in Nat /\ Len(w) \in Nat /\ Len(r \o w) = Len(r) + Len(w)
        /\ \A i \in 1..Len(r) + Len(w) : i > Len(r) => (r \o w)[i] = w[i - Len(r)]
    BY LineIs
  <2>2. \A i \in 1..Len(w) :
          Len(r) + i \in 1..Len(r) + Len(w) /\ Len(r) + i > Len(r) /\ Len(r) + i - Len(r) = i
    BY <2>1
  <2>3. \A i \in 1..Len(w) : Crc1(w[i]) => w[i].id[1] \in l + 1..Len(q)
    <3> SUFFICES ASSUME NEW i \in 1..Len(w), Crc1(w[i]) PROVE w[i].id[1] \in l + 1..Len(q)
      OBVIOUS
    <3> DEFINE j == Len(r) + i
    <3>1. j \in 1..Len(r \o w) /\ (r \o w)[j] = w[i]
      BY <2>1, <2>2
    <3> HIDE DEF j
    <3>2. QED  BY <3>1 DEF Lined
  <2>4. QED  BY <2>1, <2>3
<1>2. \A v \in Seq(Byte) :
        /\ <<b>> \o v \in Seq(Byte) /\ Len(<<b>> \o v) = Len(v) + 1 /\ Len(v) \in Nat
        /\ (<<b>> \o v)[1] = b /\ \A i \in 2..Len(v) + 1 : (<<b>> \o v)[i] = v[i - 1]
  OBVIOUS
<1>3. Lined(r \o (<<b>> \o w), q, l)
  <2> DEFINE v == <<b>> \o w
             g == [i \in 1..Len(v) |-> i - 1]
  <2>1. /\ v \in Seq(Byte) /\ Len(v) = Len(w) + 1 /\ v[1] = b
        /\ \A i \in 2..Len(w) + 1 : v[i] = w[i - 1]
    BY <1>2, Zenon
  <2> HIDE DEF v
  <2>2. \A i \in 1..Len(v) : Crc1(v[i]) => i \in 2..Len(w) + 1
    BY <1>1, <2>1
  <2>3. \A i \in 2..Len(w) + 1 : g[i] = i - 1 /\ i - 1 \in 1..Len(w)
    BY <1>1, <2>1
  <2>4. Picks(g, v, w, l)
    <3> HIDE DEF g
    <3>1. \A i \in 1..Len(v) :
            Crc1(v[i]) => g[i] \in 1..Len(w) /\ v[i] = w[g[i]] /\ v[i].id[1] > l
      BY <1>1, <2>1, <2>2, <2>3
    <3>2. \A i, j \in 1..Len(v) : i < j /\ Crc1(v[i]) /\ Crc1(v[j]) => g[i] < g[j]
      BY <1>1, <2>1, <2>2, <2>3
    <3>3. QED  BY <3>1, <3>2 DEF Picks
  <2> HIDE DEF g
  <2>5. Lined(r \o v, q, l)
    BY <2>1, <2>4, LineDamaged
  <2>6. QED  BY <2>5 DEF v
<1>4. ASSUME w # <<>>
      PROVE  Lined(r \o Tail(w), q, l) /\ Lined(r \o (<<b>> \o Tail(w)), q, l)
  <2>1. /\ Tail(w) \in Seq(Byte) /\ Len(Tail(w)) = Len(w) - 1
        /\ \A i \in 1..Len(w) - 1 : Tail(w)[i] = w[i + 1]
    BY <1>4, HeadTailProperties
  <2>2. Lined(r \o Tail(w), q, l)
    <3> DEFINE v == Tail(w)
               g == [i \in 1..Len(v) |-> i + 1]
    <3> HIDE DEF v
    <3>1. \A i \in 1..Len(v) : g[i] = i + 1 /\ i + 1 \in 1..Len(w) /\ v[i] = w[i + 1]
      BY <1>1, <2>1 DEF v
    <3>2. Picks(g, v, w, l)
      <4> HIDE DEF g
      <4>1. \A i, j \in 1..Len(v) : i < j => g[i] < g[j]
        BY <1>1, <3>1
      <4>2. QED  BY <1>1, <3>1, <4>1 DEF Picks
    <3> HIDE DEF g
    <3>3. QED  BY <2>1, <3>2, LineDamaged DEF v
  <2>3. Lined(r \o (<<b>> \o Tail(w)), q, l)
    <3> DEFINE v == <<b>> \o Tail(w)
               g == [i \in 1..Len(v) |-> i]
    <3>1. v \in Seq(Byte) /\ v[1] = b /\ Len(v) = Len(w) /\ \A i \in 2..Len(w) : v[i] = w[i]
      <4>1. /\ v \in Seq(Byte) /\ Len(v) = Len(Tail(w)) + 1 /\ v[1] = b
            /\ \A i \in 2..Len(Tail(w)) + 1 : v[i] = Tail(w)[i - 1]
        BY <1>2, <2>1, Zenon
      <4> HIDE DEF v
      <4>2. Len(Tail(w)) + 1 = Len(w) /\ \A i \in 2..Len(w) : Tail(w)[i - 1] = w[i]
        BY <1>1, <2>1
      <4>3. QED  BY <4>1, <4>2
    <3> HIDE DEF v
    <3>2. \A i \in 1..Len(v) : Crc1(v[i]) => i \in 2..Len(w)
      BY <1>1, <3>1
    <3>3. \A i \in 1..Len(v) : g[i] = i
      OBVIOUS
    <3>4. Picks(g, v, w, l)
      <4> HIDE DEF g
      <4>1. \A i \in 2..Len(w) : i \in 1..Len(w)
        BY <1>1
      <4>2. QED  BY <1>1, <3>1, <3>2, <3>3, <4>1 DEF Picks
    <3> HIDE DEF g
    <3>5. Lined(r \o v, q, l)
      BY <3>1, <3>4, LineDamaged
    <3>6. QED  BY <3>5 DEF v
  <2>4. QED  BY <2>2, <2>3
<1>5. QED  BY <1>3, <1>4

\* A packet is put on the empty line.
LEMMA LineSent ==
  ASSUME NEW r \in Seq(Byte), NEW q \in Seq(Packets), NEW l \in Nat, l <= Len(q),
         Lined(r, q, l), NEW p \in Packets
  PROVE  /\ Lined(r, Append(q, p), l)
         /\ Lined(r \o Frame(p, Len(q) + 1), Append(q, p), l)
<1> DEFINE k == Len(q) + 1
           w == Frame(p, k)
           t == r \o w
           Q == Append(q, p)
           c == BodyLen(p) + 1
<1>1. /\ Len(q) \in Nat /\ k \in Nat /\ Q \in Seq(Packets) /\ Len(Q) = k /\ Q[k] = p
      /\ \A i \in 1..Len(q) : Q[i] = q[i]
  BY LenProperties, AppendProperties
<1> HIDE DEF k, Q
<1>2. /\ w \in Seq(Byte) /\ Len(w) \in Nat
      /\ \A i \in 1..Len(w) : Crc1(w[i]) => i = c /\ w[i].id[1] = k /\ w[i].of[1] = p
  <2> DEFINE n == BodyLen(p)
  <2>1. /\ n \in Nat /\ w \in Seq(Byte) /\ Len(w) = n + 3
        /\ \A i \in 1..n + 3 :
             /\ w[i].id = <<k, i>>
             /\ w[i].of = IF i - n \in 1..2 THEN <<p, i - n>> ELSE None
    <3>1. /\ n \in Nat /\ w \in Seq(Byte) /\ Len(w) = n + 3
          /\ \A i \in 1..n + 3 :
               /\ w[i].val = Values(p)[i] /\ w[i].id = <<k, i>>
               /\ w[i].of = IF i - n \in 1..2 THEN <<p, i - n>> ELSE None
      BY <1>1, FrameIs, ZenonT(40)
    <3>2. QED  BY <3>1
  <2>2. ASSUME NEW i \in 1..Len(w), Crc1(w[i])
        PROVE  i = c /\ w[i].id[1] = k /\ w[i].of[1] = p
    <3>1. i - n \in 1..2 /\ w[i].of = <<p, i - n>> /\ w[i].id = <<k, i>>
      BY <2>1, <2>2 DEF Crc1
    <3>2. i - n = 1
      BY <2>2, <3>1 DEF Crc1
    <3>3. i = c
      BY <2>1, <3>2
    <3>4. QED  BY <3>1, <3>3
  <2>3. QED  BY <2>1, <2>2
<1>3. /\ Len(r) \in Nat /\ \A i \in 1..Len(r) : r[i] \in Byte
      /\ \A i \in 1..Len(r) :
           Crc1(r[i]) => /\ r[i].id[1] \in l + 1..Len(q) /\ r[i].id[1] < k
                         /\ r[i].id[1] \in l + 1..k /\ r[i].of[1] = Q[r[i].id[1]]
  <2>1. Len(r) \in Nat /\ \A i \in 1..Len(r) : r[i] \in Byte
    BY LenProperties, ElementOfSeq
  <2>2. \A i \in l + 1..Len(q) : i < k /\ i \in l + 1..k /\ Q[i] = q[i]
    BY <1>1 DEF k
  <2>3. QED  BY <2>1, <2>2 DEF Lined
<1>4. Lined(r, Q, l)
  BY <1>1, <1>3 DEF Lined
<1>5. /\ t \in Seq(Byte) /\ Len(t) = Len(r) + Len(w)
      /\ \A i \in 1..Len(r) + Len(w) : /\ i <= Len(r) => t[i] = r[i]
                                       /\ i > Len(r) => t[i] = w[i - Len(r)]
  BY <1>2, LineIs
<1> HIDE DEF w, t
<1>6. k \in l + 1..Len(Q)
  BY <1>1 DEF k
<1>7. ASSUME NEW i \in 1..Len(t), Crc1(t[i])
      PROVE  /\ t[i].id[1] \in l + 1..Len(Q) /\ t[i].of[1] = Q[t[i].id[1]]
             /\ i <= Len(r) => i \in 1..Len(r) /\ t[i] = r[i] /\ t[i].id[1] < k
             /\ i > Len(r) => i = Len(r) + c /\ t[i].id[1] = k
  <2>1. CASE i <= Len(r)
    <3>1. i \in 1..Len(r) /\ t[i] = r[i] /\ ~(i > Len(r))
      BY <1>2, <1>3, <1>5, <2>1
    <3>2. QED  BY <1>1, <1>3, <1>7, <3>1
  <2>2. CASE i > Len(r)
    <3> DEFINE j == i - Len(r)
    <3>1. j \in 1..Len(w) /\ t[i] = w[j] /\ ~(i <= Len(r)) /\ i = Len(r) + j
      BY <1>2, <1>3, <1>5, <2>2
    <3> HIDE DEF j
    <3>2. j = c /\ t[i].id[1] = k /\ t[i].of[1] = p
      BY <1>2, <1>7, <3>1
    <3>3. QED  BY <1>1, <1>6, <3>1, <3>2
  <2>3. QED  BY <1>2, <1>3, <1>5, <2>1, <2>2
<1>8. ASSUME NEW i \in 1..Len(t), NEW j \in 1..Len(t), i < j, Crc1(t[i]), Crc1(t[j])
      PROVE  t[i].id[1] < t[j].id[1]
  <2>1. CASE j <= Len(r)
    <3>1. /\ i \in 1..Len(r) /\ t[i] = r[i] /\ j \in 1..Len(r) /\ t[j] = r[j]
      BY <1>2, <1>3, <1>5, <1>7, <1>8, <2>1
    <3>2. QED  BY <1>8, <3>1 DEF Lined
  <2>2. CASE j > Len(r)
    <3>1. j = Len(r) + c /\ t[j].id[1] = k
      BY <1>7, <1>8, <2>2
    <3>2. ~(i > Len(r)) /\ i <= Len(r)
      BY <1>2, <1>3, <1>5, <1>7, <1>8, <3>1
    <3>3. QED  BY <1>7, <1>8, <3>1, <3>2
  <2>3. QED  BY <1>2, <1>3, <1>5, <2>1, <2>2
<1>9. Lined(t, Q, l)
  BY <1>5, <1>7, <1>8 DEF Lined
<1>10. QED  BY <1>4, <1>9 DEF t, w, k, Q

-----------------------------------------------------------------------------
(* The invariant *)

Types ==
  /\ rx \in Seq(Byte) /\ wire \in Seq(Byte)
  /\ sent \in Seq(Packets) /\ Len(sent) <= MaxSent /\ last \in 0..Len(sent)
  /\ harm \in 0..MaxHarm
  /\ due \subseteq 1..Len(sent)

\* What there is and what is waited for are a packet at most; rx_buffer is longer.
Sizes ==
  /\ left \in Nat /\ Len(rx) + left <= MaxPl + 6
  /\ read \in Nat /\ read + Len(rx) <= BufferLen

PInv == Types /\ Sizes /\ Lined(rx \o wire, sent, last)

\* The numbers of the packets taken out are an increasing sequence.
Taken(pkts) ==
  /\ pkts \in Seq(Pkt)
  /\ \A i \in 1..Len(pkts) : /\ pkts[i].id \in last + 1..Len(sent)
                             /\ pkts[i].pkt = sent[pkts[i].id]
  /\ \A i, j \in 1..Len(pkts) : i < j => pkts[i].id < pkts[j].id

LEMMA Increasing ==
  ASSUME NEW m \in Nat, NEW a \in Nat, NEW b \in Nat, NEW K \in [1..m -> a + 1..b],
         a <= b, \A i, j \in 1..m : i < j => K[i] < K[j]
  PROVE  m <= b - a
<1> DEFINE B == {i \in 1..m : K[i] < a + i}
<1>1. B = {}
  <2> SUFFICES ASSUME B # {} PROVE FALSE
    OBVIOUS
  <2>1. B \subseteq Nat
    OBVIOUS
  <2>2. PICK i \in B : \A c \in B : i <= c
    BY <2>1, LeastNat
  <2>3. i \in 1..m /\ K[i] < a + i /\ K[i] \in a + 1..b
    BY <2>2
  <2>4. i - 1 \in 1..m /\ i - 1 < i
    BY <2>3
  <2>5. i - 1 \notin B
    BY <2>2, <2>4
  <2>6. K[i - 1] >= a + (i - 1) /\ K[i - 1] < K[i] /\ K[i - 1] \in a + 1..b
    BY <2>3, <2>4, <2>5
  <2>7. QED  BY <2>3, <2>6
<1>2. CASE m = 0
  BY <1>2
<1>3. CASE m # 0
  <2>1. m \in 1..m /\ m \notin B
    BY <1>1, <1>3
  <2>2. K[m] >= a + m /\ K[m] \in a + 1..b
    BY <2>1
  <2>3. QED  BY <2>2
<1>4. QED  BY <1>2, <1>3

\* A step that delivers what was taken out is a step of the channel.
LEMMA DeliverTaken ==
  ASSUME NEW pkts, Types, Taken(pkts),
         got' = [i \in DOMAIN pkts |-> pkts[i].pkt],
         last' = IF pkts = <<>> THEN last ELSE pkts[Len(pkts)].id,
         sent' = sent
  PROVE  Channel!Next
<1> DEFINE m == Len(pkts)
           K == [i \in 1..m |-> pkts[i].id]
<1>1. pkts \in Seq(Pkt) /\ m \in Nat /\ DOMAIN pkts = 1..m
  BY LenProperties DEF Taken
<1>2. Len(sent) \in Nat /\ last \in Nat /\ last <= Len(sent)
  BY LenProperties DEF Types
<1>3. K \in [1..m -> last + 1..Len(sent)] /\ \A i, j \in 1..m : i < j => K[i] < K[j]
  BY <1>1 DEF Taken
<1>4. m <= Len(sent) - last
  <2> HIDE DEF K, m
  <2>1. QED  BY <1>1, <1>2, <1>3, Increasing
<1>5. m \in 0..Len(sent) - last
  BY <1>1, <1>2, <1>4
<1>6. K \in Channel!Places(Len(sent) - last)
  <2> HIDE DEF K, m
  <2>1. K \in UNION {[1..n -> last + 1..Len(sent)] : n \in 0..Len(sent) - last}
    BY <1>3, <1>5
  <2>2. DOMAIN K = 1..m
    BY <1>3
  <2>3. QED  BY <1>3, <2>1, <2>2 DEF Channel!Places
<1>7. got' = [i \in DOMAIN K |-> sent[K[i]]]
  BY <1>1 DEF Taken
<1>8. last' = IF K = <<>> THEN last ELSE K[Len(K)]
  <2>1. K \in Seq(Nat) /\ Len(K) = m
    <3>1. K \in [1..m -> Nat]
      BY <1>2, <1>3
    <3>2. QED  BY <1>1, <3>1, SeqDef, LenProperties
  <2>2. CASE m = 0
    <3>1. pkts = <<>> /\ K = <<>>
      BY <1>1, <2>1, <2>2, EmptySeq
    <3>2. QED  BY <3>1
  <2>3. CASE m # 0
    <3>1. pkts # <<>> /\ K # <<>> /\ K[m] = pkts[m].id
      BY <1>1, <2>1, <2>3
    <3> HIDE DEF K
    <3>2. QED  BY <2>1, <3>1
  <2>4. QED  BY <2>2, <2>3
<1> HIDE DEF K
<1>9. Channel!Deliver(K)
  BY <1>7, <1>8 DEF Channel!Deliver
<1>10. QED  BY <1>6, <1>9 DEF Channel!Next

LEMMA DeliverNothing ==
  ASSUME Types, got' = <<>>, last' = last, sent' = sent
  PROVE  Channel!Next
<1> DEFINE K == [i \in 1..0 |-> 0]
<1>1. Len(sent) \in Nat /\ last \in Nat /\ last <= Len(sent)
  BY LenProperties DEF Types
<1>2. K \in [1..0 -> last + 1..Len(sent)] /\ K = <<>> /\ DOMAIN K = {}
  OBVIOUS
<1> HIDE DEF K
<1>3. 0 \in 0..Len(sent) - last
  BY <1>1
<1>4. K \in Channel!Places(Len(sent) - last)
  BY <1>2, <1>3 DEF Channel!Places
<1>5. got' = [i \in DOMAIN K |-> sent[K[i]]]
  BY <1>2
<1>6. Channel!Deliver(K)
  BY <1>2, <1>5 DEF Channel!Deliver
<1>7. QED  BY <1>4, <1>6 DEF Channel!Next

-----------------------------------------------------------------------------
(* The steps *)

LEMMA PacketInit ==
  ASSUME Init
  PROVE  PInv /\ Channel!Init
<1>1. rx \o wire = <<>> /\ Len(<<>>) = 0 /\ <<>> \in Seq(Byte)
  BY DEF Init
<1>2. Types /\ Sizes
  BY BoundsAssumption DEF Init, Types, Sizes, BufferLen
<1>3. Lined(<<>>, sent, last)
  BY <1>1 DEF Lined
<1>4. QED  BY <1>1, <1>2, <1>3 DEF PInv, Init, Channel!Init

\* What the buffer holds fits it.
LEMMA Fits ==
  ASSUME PInv
  PROVE  Len(rx) \in Nat /\ Len(rx) < BufferLen /\ ~(Len(rx) >= BufferLen) /\ BufferLen \in Nat
BY BoundsAssumption, LenProperties DEF PInv, Types, Sizes, BufferLen

LEMMA SendStep ==
  ASSUME PInv, NEW p \in Packets, Send(p)
  PROVE  PInv' /\ Channel!Next
<1> DEFINE k == Len(sent) + 1
<1>1. /\ sent' = Append(sent, p) /\ rx' = rx /\ last' = last /\ harm' = harm /\ due' = due
      /\ left' = left /\ read' = read
      /\ wire = <<>> /\ wire' = IF Sendable(p) THEN Frame(p, k) ELSE <<>>
      /\ Len(sent) < MaxSent /\ got' = <<>>
  BY DEF Send
<1>2. /\ Len(sent) \in Nat /\ sent \in Seq(Packets) /\ rx \in Seq(Byte)
      /\ last \in Nat /\ last <= Len(sent)
  BY LenProperties DEF PInv, Types
<1>3. Append(sent, p) \in Seq(Packets) /\ Len(Append(sent, p)) = Len(sent) + 1
  BY <1>2, AppendProperties
<1>4. Frame(p, k) \in Seq(Byte) /\ <<>> \in Seq(Byte)
  BY <1>2, FrameIs
<1>5. Types'
  <2>1. 0..Len(sent) \subseteq 0..Len(sent) + 1 /\ 1..Len(sent) \subseteq 1..Len(sent) + 1
        /\ Len(sent) + 1 <= MaxSent
    BY <1>1, <1>2, BoundsAssumption
  <2>2. wire' \in Seq(Byte)
    BY <1>1, <1>4
  <2>3. QED  BY <1>1, <1>3, <2>1, <2>2 DEF PInv, Types
<1>6. Sizes'
  BY <1>1 DEF PInv, Sizes
<1>7. Lined(rx, sent, last)
  <2>1. rx \o wire = rx
    BY <1>1, <1>2
  <2>2. QED  BY <2>1 DEF PInv
<1>8. Lined(rx, Append(sent, p), last) /\ Lined(rx \o Frame(p, k), Append(sent, p), last)
  <2> PICK r, q, l : r = rx /\ q = sent /\ l = last
    OBVIOUS
  <2>1. Lined(r, Append(q, p), l) /\ Lined(r \o Frame(p, Len(q) + 1), Append(q, p), l)
    BY <1>2, <1>7, LineSent
  <2>2. QED  BY <2>1
<1>9. Lined(rx' \o wire', sent', last')
  <2>1. CASE Sendable(p)
    BY <1>1, <1>8, <2>1
  <2>2. CASE ~Sendable(p)
    <3>1. rx \o <<>> = rx
      BY <1>2
    <3>2. QED  BY <1>1, <1>8, <2>2, <3>1
  <2>3. QED  BY <2>1, <2>2
<1>10. Channel!Next
  <2>1. Channel!Send(p)
    BY <1>1 DEF Channel!Send
  <2>2. QED  BY <2>1 DEF Channel!Next
<1>11. PInv'
  BY <1>5, <1>6, <1>9 DEF PInv, Lined
<1>12. QED  BY <1>10, <1>11

LEMMA DamageStep ==
  ASSUME PInv, NEW v \in Nat, Lose \/ Garble(v) \/ Insert(v)
  PROVE  PInv' /\ Channel!Next
<1> DEFINE b == Stray(v)
<1>1. b \in Byte /\ ~Crc1(b)
  BY DEF Stray, Byte, Crc1
<1>2. /\ rx' = rx /\ read' = read /\ left' = left /\ sent' = sent /\ last' = last /\ due' = due
      /\ got' = <<>> /\ harm < MaxHarm /\ harm' = harm + 1
      /\ wire' \in {Tail(wire), <<b>> \o Tail(wire), <<b>> \o wire}
      /\ wire = <<>> => wire' = <<b>> \o wire
  BY DEF Lose, Garble, Insert, Damage
<1>3. /\ rx \in Seq(Byte) /\ wire \in Seq(Byte) /\ sent \in Seq(Packets) /\ last \in Nat
      /\ Lined(rx \o wire, sent, last)
  BY DEF PInv, Types
<1>4. /\ Lined(rx \o (<<b>> \o wire), sent, last)
      /\ wire # <<>> => /\ Lined(rx \o Tail(wire), sent, last)
                        /\ Lined(rx \o (<<b>> \o Tail(wire)), sent, last)
  <2> PICK r, w, q, l, c : r = rx /\ w = wire /\ q = sent /\ l = last /\ c = b
    OBVIOUS
  <2> HIDE DEF b
  <2>1. /\ r \in Seq(Byte) /\ w \in Seq(Byte) /\ q \in Seq(Packets) /\ l \in Nat
        /\ Lined(r \o w, q, l) /\ c \in Byte /\ ~Crc1(c)
    BY <1>1, <1>3
  <2>2. /\ Lined(r \o (<<c>> \o w), q, l)
        /\ w # <<>> => Lined(r \o Tail(w), q, l) /\ Lined(r \o (<<c>> \o Tail(w)), q, l)
    BY <2>1, LineKinds
  <2>3. QED  BY <2>2
<1>5. wire' \in Seq(Byte)
  <2>1. <<b>> \o wire \in Seq(Byte)
    BY <1>1, <1>3
  <2>2. ASSUME wire # <<>> PROVE Tail(wire) \in Seq(Byte) /\ <<b>> \o Tail(wire) \in Seq(Byte)
    <3>1. Tail(wire) \in Seq(Byte)
      BY <1>3, <2>2, HeadTailProperties
    <3>2. QED  BY <1>1, <3>1
  <2>3. QED  BY <1>2, <2>1, <2>2
<1> HIDE DEF b
<1>6. Lined(rx' \o wire', sent', last')
  <2>1. CASE wire = <<>>
    BY <1>2, <1>4, <2>1
  <2>2. CASE wire # <<>>
    BY <1>2, <1>4, <2>2
  <2>3. QED  BY <2>1, <2>2
<1>7. Types'
  <2>1. harm' \in 0..MaxHarm
    BY <1>2, BoundsAssumption DEF PInv, Types
  <2>2. QED  BY <1>2, <1>5, <2>1 DEF PInv, Types
<1>8. Sizes'
  BY <1>2 DEF PInv, Sizes
<1>9. PInv'
  BY <1>6, <1>7, <1>8 DEF PInv, Lined
<1>10. Channel!Next
  BY <1>2, DeliverNothing DEF PInv
<1>11. QED  BY <1>9, <1>10

\* What is due is in the list of what was sent.
LEMMA TookDue ==
  ASSUME Types, NEW b, NEW pkts, Took(b, pkts)
  PROVE  due' \subseteq 1..Len(sent)
BY LenProperties DEF Took, Types

LEMMA WaitStep ==
  ASSUME PInv, wire # <<>>, wire' = Tail(wire), Wait(Head(wire)), UNCHANGED <<sent, harm>>
  PROVE  PInv' /\ Channel!Next
<1>1. /\ rx' = Append(rx, Head(wire)) /\ read' = Shifted /\ left' = left - 1 /\ left > 1
      /\ wire' = Tail(wire) /\ sent' = sent /\ harm' = harm
  BY DEF Wait
<1>2. got' = <<>> /\ last' = last
  BY DEF Wait, Took
<1>3. due' \subseteq 1..Len(sent)
  BY TookDue DEF Wait, PInv
<1>4. /\ rx' \in Seq(Byte) /\ wire' \in Seq(Byte) /\ rx' \o wire' = rx \o wire
      /\ Len(rx') = Len(rx) + 1
  BY <1>1, LineShift DEF PInv, Types
<1>5. Types'
  BY <1>1, <1>2, <1>3, <1>4 DEF PInv, Types
<1>6. Sizes'
  <2>1. /\ left \in Nat /\ Len(rx) + left <= MaxPl + 6 /\ read \in Nat
        /\ read + Len(rx) <= BufferLen /\ Len(rx) \in Nat /\ BufferLen = MaxPl + 8
    BY Fits DEF PInv, Sizes, BufferLen
  <2>2. left' \in Nat /\ Len(rx') + left' <= MaxPl + 6
    BY <1>1, <1>4, <2>1, BoundsAssumption
  <2>3. read' \in Nat /\ read' + Len(rx') <= BufferLen
    <3>1. CASE read + Len(rx) >= BufferLen
      BY <1>1, <1>4, <2>1, <3>1, BoundsAssumption DEF Shifted
    <3>2. CASE ~(read + Len(rx) >= BufferLen)
      BY <1>1, <1>4, <2>1, <3>2, BoundsAssumption DEF Shifted
    <3>3. QED  BY <3>1, <3>2
  <2>4. QED  BY <2>2, <2>3 DEF Sizes, BufferLen
<1>7. Lined(rx' \o wire', sent', last')
  BY <1>1, <1>2, <1>4 DEF PInv
<1>8. PInv'
  BY <1>5, <1>6, <1>7 DEF PInv, Lined
<1>9. Channel!Next
  BY <1>1, <1>2, DeliverNothing DEF PInv
<1>10. QED  BY <1>8, <1>9

\* What Decode makes of the buffer with the next byte.
LEMMA Decoded ==
  ASSUME PInv, wire # <<>>, NEW restart \in BOOLEAN, NEW d, NEW buf,
         buf = Append(rx, Head(wire)), d = Decode(buf, restart)
  PROVE  /\ buf \in Seq(Byte) /\ Len(buf) = Len(rx) + 1 /\ Tail(wire) \in Seq(Byte)
         /\ buf \o Tail(wire) = rx \o wire
         /\ d \in [at : 0..Len(buf), left : Nat, pkts : Seq(Pkt)]
         /\ d.left > 0 /\ Len(buf) - d.at + d.left <= MaxPl + 6
         /\ Taken(d.pkts)
         /\ \A i \in 1..Len(d.pkts), j \in d.at + 1..Len(buf) + Len(Tail(wire)) :
              Crc1((rx \o wire)[j]) => (rx \o wire)[j].id[1] > d.pkts[i].id
<1> DEFINE w == Tail(wire)
           s == rx \o wire
<1>1. /\ rx \in Seq(Byte) /\ wire \in Seq(Byte) /\ sent \in Seq(Packets) /\ last \in Nat
      /\ Lined(s, sent, last)
  BY DEF PInv, Types
<1>2. /\ buf \in Seq(Byte) /\ Len(buf) = Len(rx) + 1 /\ w \in Seq(Byte) /\ buf \o w = s
  BY <1>1, LineShift
<1> HIDE DEF w, s
<1>3. /\ Len(buf) \in Nat /\ Len(w) \in Nat /\ Len(s) = Len(buf) + Len(w)
      /\ \A i \in 1..Len(buf) + Len(w) : i <= Len(buf) => s[i] = buf[i]
  BY <1>2, LineIs
<1>4. Lined(buf, sent, last)
  <2>1. \A i \in 1..Len(buf) : i \in 1..Len(s) /\ buf[i] = s[i]
    BY <1>3
  <2>2. \A i \in 1..Len(buf) :
          Crc1(buf[i]) => buf[i].id[1] \in last + 1..Len(sent) /\ buf[i].of[1] = sent[buf[i].id[1]]
    BY <1>1, <2>1 DEF Lined
  <2>3. \A i, j \in 1..Len(buf) :
          i < j /\ Crc1(buf[i]) /\ Crc1(buf[j]) => buf[i].id[1] < buf[j].id[1]
    BY <1>1, <2>1 DEF Lined
  <2>4. QED  BY <1>2, <2>2, <2>3 DEF Lined
<1>5. /\ d \in [at : 0..Len(buf), left : Nat, pkts : Seq(Pkt)]
      /\ d.left > 0 /\ Len(buf) - d.at + d.left <= MaxPl + 6
      /\ Taken(d.pkts)
      /\ \A i \in 1..Len(d.pkts) : \E c \in 1..d.at : CrcAt(buf, c, d.pkts[i])
  BY <1>1, <1>4, DecodeIs, ZenonT(40) DEF Taken
<1>6. ASSUME NEW i \in 1..Len(d.pkts), NEW j \in d.at + 1..Len(buf) + Len(w), Crc1(s[j])
      PROVE  s[j].id[1] > d.pkts[i].id
  <2>1. d.pkts[i] \in Pkt
    BY <1>5, ElementOfSeq
  <2>2. PICK c \in 1..d.at : CrcAt(buf, c, d.pkts[i])
    BY <1>5
  <2>3. c \in 1..Len(buf) /\ c \in 1..Len(s) /\ j \in 1..Len(s) /\ c < j
    BY <1>3, <1>5
  <2>4. Crc1(s[c]) /\ s[c].id[1] = d.pkts[i].id
    <3>1. Crc1(buf[c])
      BY <1>4, <2>1, <2>2, <2>3, CrcOf
    <3>2. s[c] = buf[c]
      BY <1>3, <2>3
    <3>3. QED  BY <2>2, <3>1, <3>2 DEF CrcAt
  <2>5. s[c].id[1] < s[j].id[1]
    BY <1>1, <1>6, <2>3, <2>4 DEF Lined
  <2>6. s[c].id[1] \in Nat /\ s[j].id[1] \in Nat
    <3>1. s \in Seq(Byte)
      BY <1>1 DEF Lined
    <3>2. s[c] \in Byte /\ s[j] \in Byte
      BY <2>3, <3>1, ElementOfSeq
    <3>3. QED  BY <3>2 DEF Byte
  <2>7. QED  BY <2>4, <2>5, <2>6
<1>7. QED  BY <1>2, <1>5, <1>6 DEF w, s

LEMMA LookStep ==
  ASSUME PInv, wire # <<>>, wire' = Tail(wire), Look(Head(wire)), UNCHANGED <<sent, harm>>
  PROVE  PInv' /\ Channel!Next
<1> DEFINE w == Tail(wire)
           s == rx \o wire
<1>1. PICK buf, d : buf = Append(rx, Head(wire)) /\ d = Decode(buf, FALSE)
  OBVIOUS
<1>2. /\ rx' = SubSeq(buf, d.at + 1, Len(buf))
      /\ read' = IF d.at = Len(buf) THEN 0 ELSE Shifted + d.at
      /\ left' = d.left
      /\ Took(Head(wire), d.pkts)
      /\ sent' = sent /\ harm' = harm
  BY <1>1, Fits DEF Look
<1>3. /\ buf \in Seq(Byte) /\ Len(buf) = Len(rx) + 1 /\ w \in Seq(Byte) /\ buf \o w = s
      /\ d \in [at : 0..Len(buf), left : Nat, pkts : Seq(Pkt)]
      /\ d.left > 0 /\ Len(buf) - d.at + d.left <= MaxPl + 6
      /\ Taken(d.pkts)
      /\ \A i \in 1..Len(d.pkts), j \in d.at + 1..Len(buf) + Len(w) :
           Crc1(s[j]) => s[j].id[1] > d.pkts[i].id
  BY <1>1, Decoded
<1>4. /\ got' = [i \in DOMAIN d.pkts |-> d.pkts[i].pkt]
      /\ last' = IF d.pkts = <<>> THEN last ELSE d.pkts[Len(d.pkts)].id
  BY <1>2 DEF Took
<1>5. Channel!Next
  BY <1>2, <1>3, <1>4, DeliverTaken DEF PInv
<1>6. Lined(s, sent, last) /\ last \in Nat /\ last <= Len(sent) /\ Len(sent) \in Nat
      /\ sent \in Seq(Packets) /\ Len(rx) \in Nat
  BY LenProperties DEF PInv, Types
<1>7. last' \in 0..Len(sent)
      /\ \A j \in d.at + 1..Len(buf) + Len(w) : Crc1(s[j]) => s[j].id[1] > last'
  <2>1. CASE d.pkts = <<>>
    <3>1. last' = last
      BY <1>4, <2>1
    <3>2. Len(s) = Len(buf) + Len(w) /\ Len(w) \in Nat
      <4> HIDE DEF s, w
      <4>1. QED  BY <1>3, LineIs
    <3>3. \A j \in d.at + 1..Len(buf) + Len(w) : j \in 1..Len(s)
      BY <1>3, <3>2
    <3> HIDE DEF s, w
    <3>4. QED  BY <1>6, <3>1, <3>3 DEF Lined
  <2>2. CASE d.pkts # <<>>
    <3>1. Len(d.pkts) \in 1..Len(d.pkts)
      BY <1>3, <2>2, EmptySeq, LenProperties
    <3>2. last' = d.pkts[Len(d.pkts)].id
      BY <1>4, <2>2
    <3>3. last' \in last + 1..Len(sent)
      BY <1>3, <3>1, <3>2 DEF Taken
    <3> HIDE DEF s, w
    <3>4. \A j \in d.at + 1..Len(buf) + Len(w) :
            Crc1(s[j]) => s[j].id[1] > d.pkts[Len(d.pkts)].id
      BY <1>3, <3>1
    <3>5. QED  BY <1>6, <3>2, <3>3, <3>4
  <2>3. QED  BY <2>1, <2>2
<1>8. rx' \in Seq(Byte) /\ Len(rx') = Len(buf) - d.at /\ Lined(rx' \o wire', sent', last')
  <2> PICK q, l, m, v : q = sent /\ l = last /\ m = last' /\ v = w
    OBVIOUS
  <2>1. /\ v \in Seq(Byte) /\ buf \o v = s /\ q \in Seq(Packets) /\ Lined(buf \o v, q, l)
        /\ d.at \in 0..Len(buf) /\ m \in Nat
        /\ \A i \in d.at + 1..Len(buf) + Len(v) :
             Crc1((buf \o v)[i]) => (buf \o v)[i].id[1] > m
    <3> HIDE DEF s, w
    <3>1. QED  BY <1>3, <1>6, <1>7
  <2>2. /\ SubSeq(buf, d.at + 1, Len(buf)) \in Seq(Byte)
        /\ Len(SubSeq(buf, d.at + 1, Len(buf))) = Len(buf) - d.at
        /\ Lined(SubSeq(buf, d.at + 1, Len(buf)) \o v, q, m)
    BY <1>3, <2>1, LineDropped
  <2>3. QED  BY <1>2, <2>2
<1>9. Types'
  <2>1. due' \subseteq 1..Len(sent)
    BY <1>2, TookDue DEF PInv
  <2>2. QED  BY <1>2, <1>3, <1>7, <1>8, <2>1 DEF PInv, Types
<1>10. Sizes'
  <2>1. /\ read \in Nat /\ read + Len(rx) <= BufferLen /\ BufferLen = MaxPl + 8
        /\ Len(rx) <= MaxPl + 6 /\ Len(rx) \in Nat
    BY Fits, BoundsAssumption DEF PInv, Sizes, BufferLen
  <2>2. Shifted \in Nat /\ Shifted + Len(buf) <= BufferLen
    <3>1. CASE read + Len(rx) >= BufferLen
      BY <1>3, <2>1, <3>1, BoundsAssumption DEF Shifted
    <3>2. CASE ~(read + Len(rx) >= BufferLen)
      BY <1>3, <2>1, <3>2, BoundsAssumption DEF Shifted
    <3>3. QED  BY <3>1, <3>2
  <2>3. d.at \in 0..Len(buf) /\ Len(buf) \in Nat
    BY <1>3, <1>6
  <2>4. read' \in Nat /\ read' + Len(rx') <= BufferLen
    <3>1. CASE d.at = Len(buf)
      BY <1>2, <1>8, <2>1, <2>3, <3>1, BoundsAssumption
    <3>2. CASE d.at # Len(buf)
      <4>1. read' = Shifted + d.at /\ Len(rx') = Len(buf) - d.at
        BY <1>2, <1>8, <3>2
      <4>2. QED  BY <2>2, <2>3, <4>1
    <3>3. QED  BY <3>1, <3>2
  <2>5. left' \in Nat /\ Len(rx') + left' <= MaxPl + 6
    BY <1>2, <1>3, <1>8
  <2>6. QED  BY <2>4, <2>5 DEF Sizes, BufferLen
<1>11. PInv'
  BY <1>8, <1>9, <1>10 DEF PInv, Lined
<1>12. QED  BY <1>5, <1>11

\* The buffer is emptied.
LEMMA LineEmptied ==
  ASSUME NEW r \in Seq(Byte), NEW w \in Seq(Byte), NEW q \in Seq(Packets), NEW l,
         Lined(r \o w, q, l), NEW m \in Nat,
         \A i \in Len(r) + 1..Len(r) + Len(w) : Crc1((r \o w)[i]) => (r \o w)[i].id[1] > m
  PROVE  Lined(<<>> \o w, q, m)
<1>1. Len(r) \in 0..Len(r) /\ Len(r) \in Nat
  BY LenProperties
<1>2. SubSeq(r, Len(r) + 1, Len(r)) = <<>>
  BY <1>1, SubSeqEmpty
<1>3. QED  BY <1>1, <1>2, LineDropped

LEMMA RestartStep ==
  ASSUME PInv, Restart
  PROVE  PInv' /\ Channel!Next
<1>1. /\ harm < MaxHarm /\ harm' = harm + 1 /\ rx' = <<>> /\ read' = 0 /\ due' = {}
      /\ sent' = sent /\ left' = 0 /\ got' = <<>> /\ wire' = wire /\ last' = last
  BY DEF Restart, Restarted
<1>2. <<>> \in Seq(Byte) /\ Len(<<>>) = 0
  OBVIOUS
<1>3. Types'
  <2>1. harm' \in 0..MaxHarm
    BY <1>1, BoundsAssumption DEF PInv, Types
  <2>2. QED  BY <1>1, <1>2, <2>1 DEF PInv, Types
<1>4. Sizes'
  BY <1>1, <1>2, BoundsAssumption DEF Sizes, BufferLen
<1>5. Lined(<<>> \o wire, sent, last)
  <2> PICK r, w, q, l : r = rx /\ w = wire /\ q = sent /\ l = last
    OBVIOUS
  <2>1. r \in Seq(Byte) /\ w \in Seq(Byte) /\ q \in Seq(Packets) /\ l \in Nat /\ Lined(r \o w, q, l)
    BY DEF PInv, Types
  <2>2. Len(r) \in Nat /\ Len(w) \in Nat /\ Len(r \o w) = Len(r) + Len(w)
    BY <2>1, LineIs
  <2>3. \A i \in Len(r) + 1..Len(r) + Len(w) : i \in 1..Len(r \o w)
    BY <2>2
  <2>4. \A i \in Len(r) + 1..Len(r) + Len(w) : Crc1((r \o w)[i]) => (r \o w)[i].id[1] > l
    <3> DEFINE s == r \o w
    <3>1. Lined(s, q, l) /\ \A i \in Len(r) + 1..Len(r) + Len(w) : i \in 1..Len(s)
      BY <2>1, <2>3
    <3> HIDE DEF s
    <3>2. \A i \in Len(r) + 1..Len(r) + Len(w) : Crc1(s[i]) => s[i].id[1] > l
      BY <2>1, <3>1 DEF Lined
    <3>3. QED  BY <3>2 DEF s
  <2>5. Lined(<<>> \o w, q, l)
    BY <2>1, <2>4, LineEmptied
  <2>6. QED  BY <2>5
<1>6. Lined(rx' \o wire', sent', last')
  BY <1>1, <1>5
<1>7. PInv'
  BY <1>3, <1>4, <1>6 DEF PInv, Lined
<1>8. Channel!Next
  BY <1>1, DeliverNothing DEF PInv
<1>9. QED  BY <1>7, <1>8

LEMMA ProcessRestartStep ==
  ASSUME PInv, ProcessRestart
  PROVE  PInv' /\ Channel!Next
<1> DEFINE w == Tail(wire)
           s == rx \o wire
<1>1. PICK buf, d : buf = Append(rx, Head(wire)) /\ d = Decode(buf, TRUE)
  OBVIOUS
<1>2. /\ harm < MaxHarm /\ harm' = harm + 1 /\ rx' = <<>> /\ read' = 0 /\ due' = {}
      /\ sent' = sent /\ wire # <<>> /\ wire' = w /\ d.pkts # <<>> /\ left' = d.left
      /\ got' = <<d.pkts[1].pkt>> /\ last' = d.pkts[1].id
  BY <1>1 DEF ProcessRestart, Restarted
<1>3. /\ buf \in Seq(Byte) /\ Len(buf) = Len(rx) + 1 /\ w \in Seq(Byte) /\ buf \o w = s
      /\ d \in [at : 0..Len(buf), left : Nat, pkts : Seq(Pkt)]
      /\ d.left > 0 /\ Len(buf) - d.at + d.left <= MaxPl + 6
      /\ Taken(d.pkts)
      /\ \A i \in 1..Len(d.pkts), j \in d.at + 1..Len(buf) + Len(w) :
           Crc1(s[j]) => s[j].id[1] > d.pkts[i].id
  BY <1>1, <1>2, Decoded
<1>4. /\ Lined(s, sent, last) /\ last \in Nat /\ last <= Len(sent) /\ Len(sent) \in Nat
      /\ sent \in Seq(Packets) /\ Len(buf) \in Nat
  BY <1>3, LenProperties DEF PInv, Types
<1>5. 1 \in 1..Len(d.pkts) /\ d.pkts[1].id \in last + 1..Len(sent)
      /\ d.pkts[1].pkt = sent[d.pkts[1].id] /\ d.pkts[1] \in Pkt
  <2>1. 1 \in 1..Len(d.pkts)
    BY <1>2, <1>3, EmptySeq, LenProperties
  <2>2. d.pkts[1] \in Pkt
    BY <1>3, <2>1, ElementOfSeq
  <2>3. QED  BY <1>3, <2>1, <2>2 DEF Taken
<1>6. Channel!Next
  <2> DEFINE one == <<d.pkts[1]>>
  <2>1. one \in Seq(Pkt) /\ Len(one) = 1 /\ one[1] = d.pkts[1] /\ DOMAIN one = {1} /\ one # <<>>
    BY <1>5
  <2> HIDE DEF one
  <2>2. \A i \in 1..Len(one) : i = 1
    BY <2>1
  <2>3. Taken(one)
    BY <1>5, <2>1, <2>2 DEF Taken
  <2>4. got' = [i \in DOMAIN one |-> one[i].pkt]
    <3> DEFINE f == [i \in DOMAIN one |-> one[i].pkt]
    <3>1. f = [i \in {1} |-> d.pkts[1].pkt]
      BY <2>1
    <3>2. QED  BY <1>2, <3>1
  <2>5. last' = IF one = <<>> THEN last ELSE one[Len(one)].id
    BY <1>2, <2>1
  <2>6. QED  BY <1>2, <2>3, <2>4, <2>5, DeliverTaken DEF PInv
<1>7. last' \in Nat /\ last' \in 0..Len(sent)
  BY <1>2, <1>4, <1>5
<1>8. Lined(rx' \o wire', sent', last')
  <2> PICK q, l, m, v : q = sent /\ l = last /\ m = last' /\ v = w
    OBVIOUS
  <2>1. \A j \in Len(buf) + 1..Len(buf) + Len(v) : Crc1((buf \o v)[j]) => (buf \o v)[j].id[1] > m
    <3> HIDE DEF s, w
    <3>1. \A j \in d.at + 1..Len(buf) + Len(w) : Crc1(s[j]) => s[j].id[1] > d.pkts[1].id
      BY <1>3, <1>5
    <3>2. d.at \in 0..Len(buf)
      BY <1>3
    <3>3. \A j \in Len(buf) + 1..Len(buf) + Len(w) : j \in d.at + 1..Len(buf) + Len(w)
      BY <1>4, <3>2
    <3>4. QED  BY <1>2, <1>3, <3>1, <3>3
  <2>2. /\ v \in Seq(Byte) /\ q \in Seq(Packets) /\ Lined(buf \o v, q, l) /\ m \in Nat
    <3> HIDE DEF s, w
    <3>1. QED  BY <1>3, <1>4, <1>7
  <2>3. Lined(<<>> \o v, q, m)
    BY <1>3, <2>1, <2>2, LineEmptied
  <2>4. QED  BY <1>2, <2>3
<1>9. Types'
  <2>1. harm' \in 0..MaxHarm
    BY <1>2, BoundsAssumption DEF PInv, Types
  <2>2. <<>> \in Seq(Byte)
    OBVIOUS
  <2>3. QED  BY <1>2, <1>3, <1>7, <2>1, <2>2 DEF PInv, Types
<1>10. Sizes'
  <2>1. d.at \in 0..Len(buf) /\ d.left \in Nat /\ Len(buf) - d.at + d.left <= MaxPl + 6
    BY <1>3
  <2>2. d.left <= MaxPl + 6 /\ Len(<<>>) = 0
    BY <1>4, <2>1, BoundsAssumption
  <2>3. rx' = <<>> /\ left' = d.left /\ read' = 0
    BY <1>2
  <2>4. QED  BY <2>1, <2>2, <2>3, BoundsAssumption DEF Sizes, BufferLen
<1>11. PInv'
  BY <1>8, <1>9, <1>10 DEF PInv, Lined
<1>12. QED  BY <1>6, <1>11

LEMMA PacketStep ==
  ASSUME PInv, [Next]_vars
  PROVE  PInv' /\ [Channel!Next]_<<sent, last, got>>
<1>1. ASSUME NEW p \in Packets, Send(p) PROVE PInv' /\ Channel!Next
  BY <1>1, SendStep
<1>2. CASE ProcessByte
  <2>1. CASE Wait(Head(wire))
    BY <1>2, <2>1, WaitStep DEF ProcessByte
  <2>2. CASE Look(Head(wire))
    BY <1>2, <2>2, LookStep DEF ProcessByte
  <2>3. QED  BY <1>2, <2>1, <2>2 DEF ProcessByte
<1>3. ASSUME NEW v \in Noise, Garble(v) \/ Insert(v) PROVE PInv' /\ Channel!Next
  <2>1. v \in Nat
    BY BytesAssumption, BaseAssumption
  <2>2. QED  BY <1>3, <2>1, DamageStep
<1>4. CASE Lose
  <2>1. 0 \in Nat
    OBVIOUS
  <2>2. QED  BY <1>4, <2>1, DamageStep
<1>5. CASE Restart
  BY <1>5, RestartStep
<1>6. CASE ProcessRestart
  BY <1>6, ProcessRestartStep
<1>7. CASE UNCHANGED vars
  BY <1>7 DEF vars, PInv, Types, Sizes, Lined, BufferLen
<1>8. QED  BY <1>1, <1>2, <1>3, <1>4, <1>5, <1>6, <1>7 DEF Next

-----------------------------------------------------------------------------
LEMMA PacketInvariant == Spec => []PInv
<1>1. Init => PInv
  BY PacketInit
<1>2. PInv /\ [Next]_vars => PInv'
  BY PacketStep
<1>3. QED  BY <1>1, <1>2, PTL DEF Spec

\* Every variable keeps its type, and what is received and what is waited for stay
\* within rx_buffer: TypeOK, of packet_process_byte with everything on the line.
THEOREM PacketTypeCorrect == Spec => []TypeOK
<1>1. PInv => TypeOK
  <2> SUFFICES ASSUME PInv PROVE TypeOK
    OBVIOUS
  <2>1. Len(rx) \in 0..BufferLen
    BY Fits
  <2>2. left \in 0..BufferLen
    BY Fits, BoundsAssumption DEF PInv, Sizes, BufferLen
  <2>3. QED  BY <2>1, <2>2 DEF PInv, Types, Sizes, TypeOK
<1>2. QED  BY <1>1, PacketInvariant, PTL

\* "Out of space (should not happen)" in packet_process_byte does not happen, however
\* the bytes on the line are damaged: NeverOutOfSpace.
THEOREM SpaceSuffices == Spec => []NeverOutOfSpace
<1>1. PInv => NeverOutOfSpace
  BY Fits DEF NeverOutOfSpace
<1>2. QED  BY <1>1, PacketInvariant, PTL

\* However bytes are lost, damaged or inserted and the port started again, what
\* packet_process_byte hands on are packets that were sent, whole, in the order they
\* were sent and each at most once: ImplementsChannel.
THEOREM PacketsImplementChannel == Spec => ImplementsChannel
<1>1. Init => Channel!Init
  BY PacketInit
<1>2. PInv /\ [Next]_vars => [Channel!Next]_<<sent, last, got>>
  BY PacketStep
<1>3. QED  BY <1>1, <1>2, PacketInvariant, PTL DEF Spec, ImplementsChannel, Channel!Spec

-----------------------------------------------------------------------------
(* The undamaged line *)

LEMMA LengthParts ==
  ASSUME NEW n \in Nat
  PROVE  (n \div Base) * Base + (n % Base) = n
BY BaseAssumption

\* The first r bytes of the k-th packet's frame are in the bytes from offset m on.
Held(buf, p, k, m, r) ==
  /\ m \in Nat /\ r \in 1..BodyLen(p) + 3 /\ m + r <= Len(buf)
  /\ \A i \in 1..r : buf[m + i] = Frame(p, k)[i]

\* What the receiver reads at the start of a frame or of a part of one.
LEMMA FrameRead ==
  ASSUME NEW p \in Packets, Sendable(p), NEW k \in Nat, NEW buf \in Seq(Byte),
         NEW m, NEW r, Held(buf, p, k, m, r)
  PROVE  /\ Start(buf, m) = HeaderLen(p) /\ HeaderLen(p) \in {2, 3}
         /\ r >= HeaderLen(p) => LenOf(buf, m) = Len(p) /\ HeaderFits(HeaderLen(p), Len(p))
         /\ r = BodyLen(p) + 3 => IsPacket(buf, m) /\ End(buf, m) = m + BodyLen(p)
<1> DEFINE h == HeaderLen(p)
           n == BodyLen(p)
           F == Frame(p, k)
<1>1. /\ h \in {2, 3} /\ Len(p) \in Nat /\ n = h + Len(p) /\ n \in Nat /\ Len(buf) \in Nat
      /\ p \in Seq(Nat)
  BY PacketIsSeq, LenProperties DEF HeaderLen, BodyLen
<1>2. Len(p) \in 1..MaxPl
  BY DEF Sendable
<1>3. \A i \in 1..n + 3 : F[i].val = Values(p)[i]
  BY FrameIs
<1>4. /\ \A i \in 1..h : Values(p)[i] = Header(p)[i]
      /\ \A i \in 1..Len(p) : Values(p)[h + i] = p[i]
      /\ Values(p)[n + 3] = 3
  BY ValuesAre DEF BodyLen
<1> HIDE DEF F, n, h
<1>5. m \in Nat /\ r \in 1..n + 3 /\ m + r <= Len(buf) /\ \A i \in 1..r : buf[m + i] = F[i]
  BY DEF Held, n, F
<1>6. \A i \in 1..r : i \in 1..n + 3 /\ buf[m + i].val = Values(p)[i]
  <2>1. \A i \in 1..r : i \in 1..n + 3
    BY <1>1, <1>5
  <2>2. QED  BY <1>3, <1>5, <2>1
<1>7. \A i \in 1..h : i \in 1..r => buf[m + i].val = Header(p)[i]
  BY <1>4, <1>6
<1>8. Header(p) = IF h = 2 THEN <<2, Len(p)>> ELSE <<3, Len(p) \div Base, Len(p) % Base>>
  BY DEF Header, h, HeaderLen
<1>9. Start(buf, m) = h
  <2>1. 1 \in 1..h /\ 1 \in 1..r
    BY <1>1, <1>5
  <2>2. Start(buf, m) = Header(p)[1]
    BY <1>7, <2>1 DEF Start
  <2>3. CASE h = 2
    BY <1>8, <2>2, <2>3
  <2>4. CASE h = 3
    BY <1>8, <2>2, <2>4
  <2>5. QED  BY <1>1, <2>3, <2>4
<1>10. ASSUME r >= h
       PROVE  LenOf(buf, m) = Len(p) /\ HeaderFits(h, Len(p))
  <2>1. CASE h = 2
    <3>1. 2 \in 1..h /\ 2 \in 1..r
      BY <1>5, <1>10, <2>1
    <3>2. LenOf(buf, m) = Header(p)[2]
      BY <1>7, <1>9, <2>1, <3>1 DEF LenOf
    <3>3. QED  BY <1>2, <1>8, <2>1, <3>2, BoundsAssumption DEF HeaderFits
  <2>2. CASE h = 3
    <3>1. 2 \in 1..h /\ 2 \in 1..r /\ 3 \in 1..h /\ 3 \in 1..r
      BY <1>5, <1>10, <2>2
    <3>2. LenOf(buf, m) = Header(p)[2] * Base + Header(p)[3]
      BY <1>7, <1>9, <2>2, <3>1 DEF LenOf
    <3>3. LenOf(buf, m) = Len(p)
      <4>1. Header(p)[2] = Len(p) \div Base /\ Header(p)[3] = Len(p) % Base
        BY <1>8, <2>2
      <4>2. LenOf(buf, m) = (Len(p) \div Base) * Base + (Len(p) % Base)
        BY <3>2, <4>1, Zenon
      <4>3. QED  BY <1>1, <4>2, LengthParts, Zenon
    <3>4. ~(Len(p) < Base)
      BY <2>2 DEF h, HeaderLen
    <3>5. HeaderFits(h, Len(p))
      BY <1>2, <2>2, <3>4, BoundsAssumption, BaseAssumption DEF HeaderFits
    <3>6. QED  BY <3>3, <3>5
  <2>3. QED  BY <1>1, <2>1, <2>2
<1>11. ASSUME r = n + 3
       PROVE  IsPacket(buf, m) /\ End(buf, m) = m + n
  <2> DEFINE e == m + n
  <2>1. LenOf(buf, m) = Len(p) /\ HeaderFits(h, Len(p))
    BY <1>1, <1>10, <1>11
  <2>2. End(buf, m) = e
    BY <1>1, <1>5, <1>9, <2>1 DEF End
  <2>3. PayloadAt(buf, m) = p
    <3>1. \A i \in 1..Len(p) : m + h + i = m + (h + i) /\ h + i \in 1..r
      BY <1>1, <1>5, <1>11
    <3>2. \A i \in 1..Len(p) : buf[m + h + i].val = p[i]
      BY <1>4, <1>6, <3>1
    <3>3. PayloadAt(buf, m) = [i \in 1..Len(p) |-> p[i]]
      BY <1>9, <2>1, <3>2 DEF PayloadAt, Payload
    <3>4. DOMAIN p = 1..Len(p) /\ p = [i \in DOMAIN p |-> p[i]]
      BY <1>1, LenProperties
    <3>5. QED  BY <3>3, <3>4, Zenon
  <2>4. e + 1 = m + (n + 1) /\ e + 2 = m + (n + 2) /\ e + 3 = m + (n + 3)
        /\ n + 1 \in 1..r /\ n + 2 \in 1..r /\ n + 3 \in 1..r
        /\ m + h <= Len(buf) /\ e + 3 <= Len(buf)
    BY <1>1, <1>5, <1>11
  <2> HIDE DEF e
  <2>5. buf[e + 3].val = 3
    BY <1>4, <1>6, <2>4
  <2>6. buf[e + 1] = F[n + 1] /\ buf[e + 2] = F[n + 2]
    BY <1>5, <2>4
  <2>7. F[n + 1].of = <<p, 1>> /\ F[n + 2].of = <<p, 2>>
    BY FrameIs DEF F, n
  <2>8. CrcMatches(buf, e, p)
    BY <2>6, <2>7 DEF CrcMatches
  <2>9. IsPacket(buf, m)
    BY <1>1, <1>9, <2>1, <2>2, <2>3, <2>4, <2>5, <2>8 DEF IsPacket
  <2>10. QED  BY <2>2, <2>9 DEF e
<1>12. QED  BY <1>1, <1>9, <1>10, <1>11 DEF h, n

\* A frame is decoded with its last byte, and until then the receiver waits.
LEMMA FrameDecoded ==
  ASSUME NEW p \in Packets, Sendable(p), NEW k \in Nat, NEW buf \in Seq(Byte),
         Len(buf) \in 1..BodyLen(p) + 3, \A i \in 1..Len(buf) : buf[i] = Frame(p, k)[i]
  PROVE  /\ Len(buf) < BodyLen(p) + 3 =>
              /\ Decode(buf, FALSE) = [at |-> 0, left |-> Wanted(buf, 0), pkts |-> <<>>]
              /\ Wanted(buf, 0) <= BodyLen(p) + 3 - Len(buf)
         /\ Len(buf) = BodyLen(p) + 3 =>
              /\ Decode(buf, FALSE) = [at |-> Len(buf), left |-> 1, pkts |-> <<PacketAt(buf, 0)>>]
              /\ PacketAt(buf, 0).id = k
<1> DEFINE h == HeaderLen(p)
           n == BodyLen(p)
           loop == Loop(buf, FALSE)
<1>1. /\ Start(buf, 0) = h /\ h \in {2, 3} /\ n = h + Len(p) /\ Len(p) \in Nat /\ Len(buf) \in Nat
      /\ Len(buf) >= h => LenOf(buf, 0) = Len(p) /\ HeaderFits(h, Len(p))
      /\ Len(buf) = n + 3 => IsPacket(buf, 0)
      /\ 0 < Len(buf) /\ 0 \in Nat
  <2>1. Held(buf, p, k, 0, Len(buf)) /\ Len(buf) \in Nat /\ 0 < Len(buf)
    <3>1. \A i \in 1..Len(buf) : 0 + i = i
      BY LenProperties
    <3>2. QED  BY <3>1, LenProperties DEF Held
  <2>2. QED  BY <2>1, FrameRead, PacketIsSeq DEF BodyLen
<1> HIDE DEF loop, h, n
<1>2. Decode(buf, FALSE) = loop[0] /\ loop[0] = Found(buf, FALSE, 0, loop)
  <2>1. 0 \in 0..Len(buf)
    BY <1>1
  <2>2. QED  BY <2>1, LoopIs DEF Decode, loop
<1>3. ASSUME Len(buf) < n + 3
      PROVE  /\ Decode(buf, FALSE) = [at |-> 0, left |-> Wanted(buf, 0), pkts |-> <<>>]
             /\ Wanted(buf, 0) <= n + 3 - Len(buf)
  <2>1. IsShort(buf, 0)
    BY <1>1, <1>3 DEF IsShort, End
  <2>2. Wanted(buf, 0) <= n + 3 - Len(buf)
    BY <1>1, <1>3 DEF Wanted, End
  <2>3. loop[0] = [at |-> 0, left |-> Wanted(buf, 0), pkts |-> <<>>]
    BY <1>1, <1>2, <2>1, FoundShort, ZenonT(40)
  <2>4. QED  BY <1>2, <2>2, <2>3, Zenon
<1>4. ASSUME Len(buf) = n + 3
      PROVE  /\ Decode(buf, FALSE) = [at |-> Len(buf), left |-> 1, pkts |-> <<PacketAt(buf, 0)>>]
             /\ PacketAt(buf, 0).id = k
  <2> DEFINE t == PacketAt(buf, 0)
  <2>1. IsPacket(buf, 0) /\ End(buf, 0) = n
    BY <1>1, <1>4 DEF End
  <2>2. loop[0] = Prepend(t, loop[n + 3])
    <3>1. Found(buf, FALSE, 0, loop) = Prepend(t, loop[End(buf, 0) + 3])
      BY <1>1, <2>1, FoundPacket, Zenon
    <3>2. QED  BY <1>2, <2>1, <3>1, Zenon
  <2>3. loop[n + 3] = [at |-> Len(buf), left |-> 1, pkts |-> <<>>]
    <3>1. Len(buf) \in 0..Len(buf)
      BY <1>1
    <3>2. loop[Len(buf)] = Found(buf, FALSE, Len(buf), loop)
      BY <3>1, LoopIs DEF loop
    <3>3. QED  BY <1>4, <3>2, FoundEnd
  <2>4. t.id = k
    <3>1. n + 1 \in 1..Len(buf) /\ n + 1 \in 1..n + 3
      BY <1>1, <1>4
    <3>2. buf[n + 1].id = <<k, n + 1>>
      <4>1. Frame(p, k)[n + 1].id = <<k, n + 1>>
        BY <3>1, FrameIs DEF n
      <4>2. QED  BY <3>1, <4>1
    <3>3. QED  BY <2>1, <3>2 DEF PacketAt
  <2> HIDE DEF t
  <2>5. loop[0] = [at |-> Len(buf), left |-> 1, pkts |-> <<t>> \o <<>>]
    <3>1. loop[0] = Prepend(t, [at |-> Len(buf), left |-> 1, pkts |-> <<>>])
      BY <2>2, <2>3, Zenon
    <3>2. QED  BY <3>1 DEF Prepend
  <2>6. <<t>> \o <<>> = <<t>>
    OBVIOUS
  <2>7. loop[0] = [at |-> Len(buf), left |-> 1, pkts |-> <<t>>]
    BY <2>5, <2>6, Zenon
  <2>8. QED  BY <1>2, <2>4, <2>7, Zenon DEF t
<1>5. QED  BY <1>3, <1>4 DEF n

\* Without damages there is one frame at most between the two ends, and the receiver
\* does not wait for more bytes than come.
Clean ==
  harm = 0 =>
    /\ due = {}
    /\ wire = <<>> => rx = <<>> /\ left <= 1
    /\ wire # <<>> => LET k == Len(sent)
                      IN  /\ k > 0 /\ Sendable(sent[k])
                          /\ rx \o wire = Frame(sent[k], k)
                          /\ left <= Len(wire)

LEMMA CleanDue ==
  ASSUME due = {}, sent \in Seq(Packets), NEW k \in 1..Len(sent), NEW m, NEW b, NEW pkts,
         b.id = <<k, m>>, Took(b, pkts),
         m # Len(Frame(sent[k], k)) \/ \E i \in DOMAIN pkts : pkts[i].id = k
  PROVE  due' = {}
<1>1. PICK now : now = IF b.id[2] = 1 \/ b.id = <<run[1], run[2] + 1>> THEN b.id ELSE <<0, 0>>
  OBVIOUS
<1>2. PICK whole : whole = {j \in DOMAIN sent :
                              Sendable(sent[j]) /\ now = <<j, Len(Frame(sent[j], j))>>}
  OBVIOUS
<1>3. due' = (due \cup whole) \ ({pkts[i].id : i \in DOMAIN pkts} \cup Eaten(pkts))
  BY <1>1, <1>2 DEF Took
<1>4. now = <<k, m>> \/ now = <<0, 0>>
  BY <1>1
<1>5. ASSUME NEW j \in whole PROVE j = k /\ m = Len(Frame(sent[k], k))
  <2>1. j \in 1..Len(sent) /\ now = <<j, Len(Frame(sent[j], j))>>
    BY <1>2, LenProperties
  <2>2. j # 0
    BY <2>1
  <2>3. QED  BY <1>4, <2>1, <2>2
<1>6. CASE m # Len(Frame(sent[k], k))
  BY <1>3, <1>5, <1>6
<1>7. CASE \E i \in DOMAIN pkts : pkts[i].id = k
  BY <1>3, <1>5, <1>7
<1>8. QED  BY <1>6, <1>7

LEMMA CleanByte ==
  ASSUME PInv, Clean, harm = 0, ProcessByte
  PROVE  Clean'
<1> DEFINE k == Len(sent)
           p == sent[k]
           n == BodyLen(p)
           F == Frame(p, k)
           b == Head(wire)
           w == Tail(wire)
<1>1. /\ rx \in Seq(Byte) /\ wire \in Seq(Byte) /\ sent \in Seq(Packets) /\ k \in Nat /\ wire # <<>>
      /\ k > 0 /\ Sendable(p) /\ rx \o wire = F /\ left <= Len(wire) /\ due = {}
      /\ wire' = w /\ sent' = sent /\ harm' = harm
  BY LenProperties DEF PInv, Types, Clean, ProcessByte
<1>2. k \in 1..Len(sent) /\ p \in Packets
  BY <1>1, ElementOfSeq
<1>3. n \in Nat /\ F \in Seq(Byte) /\ Len(F) = n + 3 /\ \A i \in 1..n + 3 : F[i].id = <<k, i>>
  BY <1>1, <1>2, FrameIs
<1> HIDE DEF p, n, F
<1>4. PICK buf : buf = Append(rx, b)
  OBVIOUS
<1>5. /\ buf \in Seq(Byte) /\ Len(buf) = Len(rx) + 1 /\ w \in Seq(Byte) /\ buf \o w = F
      /\ Len(rx) \in Nat /\ Len(w) \in Nat /\ Len(w) = Len(wire) - 1 /\ Len(wire) \in Nat
      /\ buf[Len(buf)] = b
  <2>1. b \in Byte /\ w \in Seq(Byte) /\ Len(w) = Len(wire) - 1
    BY <1>1, HeadTailProperties
  <2>2. buf \in Seq(Byte) /\ Len(buf) = Len(rx) + 1 /\ buf[Len(rx) + 1] = b
    BY <1>1, <1>4, <2>1, AppendProperties
  <2>3. QED  BY <1>1, <1>4, <2>1, <2>2, LineShift, LenProperties
<1>6. /\ Len(F) = Len(buf) + Len(w) /\ Len(buf) \in 1..n + 3
      /\ \A i \in 1..Len(buf) : buf[i] = F[i]
  <2>1. /\ Len(buf \o w) = Len(buf) + Len(w)
        /\ \A i \in 1..Len(buf) + Len(w) : i <= Len(buf) => (buf \o w)[i] = buf[i]
    BY <1>5, LineIs
  <2>2. Len(F) = Len(buf) + Len(w)
    BY <1>5, <2>1
  <2>3. \A i \in 1..Len(buf) : i \in 1..Len(buf) + Len(w) /\ i <= Len(buf)
    BY <1>5
  <2>4. QED  BY <1>3, <1>5, <2>1, <2>2, <2>3
<1>7. b.id = <<k, Len(buf)>>
  <2>1. Len(buf) \in 1..Len(buf)
    BY <1>5
  <2>2. F[Len(buf)].id = <<k, Len(buf)>> /\ buf[Len(buf)] = F[Len(buf)]
    BY <1>3, <1>6, <2>1
  <2>3. QED  BY <1>5, <2>2
<1>8. (w = <<>> <=> Len(w) = 0) /\ (w = <<>> <=> Len(buf) = Len(F))
  <2>1. w = <<>> <=> Len(w) = 0
    BY <1>5, EmptySeq
  <2> HIDE DEF w
  <2>2. QED  BY <1>3, <1>5, <1>6, <2>1, SMTT(30)
<1>9. CASE Wait(b)
  <2>1. rx' = buf /\ left' = left - 1 /\ left > 1 /\ Took(b, <<>>)
    BY <1>4, <1>9 DEF Wait
  <2>2. left \in Nat /\ w # <<>> /\ left' <= Len(w)
    <3>1. left \in Nat
      BY DEF PInv, Sizes
    <3> HIDE DEF w
    <3>2. QED  BY <1>1, <1>5, <1>8, <2>1, <3>1
  <2>3. Len(buf) # Len(Frame(sent[k], k))
    BY <1>8, <2>2 DEF F, p
  <2>4. due' = {}
    BY <1>1, <1>2, <1>7, <2>1, <2>3, CleanDue
  <2>5. QED  BY <1>1, <1>5, <2>1, <2>2, <2>4 DEF Clean, F, p
<1>10. CASE Look(b)
  <2>1. PICK d : d = Decode(buf, FALSE)
    OBVIOUS
  <2>2. /\ rx' = SubSeq(buf, d.at + 1, Len(buf)) /\ left' = d.left /\ Took(b, d.pkts)
    BY <1>4, <1>10, <2>1, Fits DEF Look
  <2>3. CASE w # <<>>
    <3>1. Len(buf) < n + 3
      BY <1>3, <1>5, <1>6, <1>8, <2>3
    <3>2. d = [at |-> 0, left |-> Wanted(buf, 0), pkts |-> <<>>]
          /\ Wanted(buf, 0) <= n + 3 - Len(buf)
      <4>1. Decode(buf, FALSE) = [at |-> 0, left |-> Wanted(buf, 0), pkts |-> <<>>]
            /\ Wanted(buf, 0) <= n + 3 - Len(buf)
        BY <1>1, <1>2, <1>5, <1>6, <3>1, FrameDecoded DEF n, F
      <4>2. QED  BY <2>1, <4>1, Zenon
    <3>3. d.at = 0 /\ d.pkts = <<>> /\ d.left <= Len(w)
      BY <1>3, <1>6, <3>2
    <3>4. rx' = buf
      BY <1>5, <2>2, <3>3, SubSeqFull
    <3>5. due' = {}
      <4>1. Len(buf) # Len(Frame(sent[k], k))
        BY <1>8, <2>3 DEF F, p
      <4>2. QED  BY <1>1, <1>2, <1>7, <2>2, <4>1, CleanDue
    <3>6. QED  BY <1>1, <1>5, <2>2, <2>3, <3>3, <3>4, <3>5 DEF Clean, F, p
  <2>4. CASE w = <<>>
    <3>1. Len(buf) = n + 3
      BY <1>3, <1>8, <2>4
    <3>2. d = [at |-> Len(buf), left |-> 1, pkts |-> <<PacketAt(buf, 0)>>]
          /\ PacketAt(buf, 0).id = k
      <4>1. Decode(buf, FALSE) = [at |-> Len(buf), left |-> 1, pkts |-> <<PacketAt(buf, 0)>>]
            /\ PacketAt(buf, 0).id = k
        BY <1>1, <1>2, <1>5, <1>6, <3>1, FrameDecoded, ZenonT(40) DEF n, F
      <4>2. QED  BY <2>1, <4>1, Zenon
    <3>3. d.at = Len(buf) /\ d.left = 1 /\ 1 \in DOMAIN d.pkts /\ d.pkts[1].id = k
      BY <3>2
    <3>4. rx' = <<>>
      BY <1>5, <2>2, <3>3, SubSeqEmpty
    <3>5. due' = {}
      BY <1>1, <1>2, <1>7, <2>2, <3>3, CleanDue
    <3>6. QED  BY <1>1, <2>2, <2>4, <3>3, <3>4, <3>5 DEF Clean
  <2>5. QED  BY <2>3, <2>4
<1>11. QED  BY <1>9, <1>10 DEF ProcessByte

LEMMA CleanStep ==
  ASSUME PInv, Clean, [Next]_vars
  PROVE  Clean'
<1>1. ASSUME NEW q \in Packets, Send(q) PROVE Clean'
  <2> DEFINE k == Len(sent) + 1
             F == Frame(q, k)
  <2>1. /\ sent' = Append(sent, q) /\ rx' = rx /\ due' = due /\ left' = left /\ harm' = harm
        /\ wire = <<>> /\ wire' = IF Sendable(q) THEN F ELSE <<>>
    BY <1>1 DEF Send
  <2>2. /\ sent \in Seq(Packets) /\ Len(sent) \in Nat /\ k \in Nat
    BY LenProperties DEF PInv, Types
  <2>3. Append(sent, q) \in Seq(Packets) /\ Len(sent') = k /\ sent'[k] = q
    BY <2>1, <2>2, AppendProperties
  <2>4. F \in Seq(Byte) /\ Len(F) = BodyLen(q) + 3 /\ BodyLen(q) \in Nat
    BY <2>2, FrameIs
  <2>5. <<>> \o F = F /\ Len(F) >= 1
    BY <2>4, ConcatEmptySeq
  <2> HIDE DEF F
  <2>6. CASE Sendable(q)
    <3>1. wire' = F /\ wire' = Frame(sent'[k], k) /\ Sendable(sent'[k]) /\ k > 0
      BY <2>1, <2>2, <2>3, <2>6 DEF F
    <3>2. F # <<>>
      BY <2>5
    <3>3. ASSUME harm = 0
          PROVE  due = {} /\ rx = <<>> /\ left <= Len(F)
      <4>1. due = {} /\ rx = <<>> /\ left <= 1
        BY <2>1, <3>3 DEF Clean
      <4>2. left \in Nat /\ Len(F) \in Nat
        BY <2>4 DEF PInv, Sizes
      <4>3. QED  BY <2>5, <4>1, <4>2
    <3>4. harm = 0 => rx' \o wire' = Frame(sent'[k], k) /\ left' <= Len(wire')
      BY <2>1, <2>5, <3>1, <3>3
    <3>5. QED  BY <2>1, <2>3, <3>1, <3>2, <3>3, <3>4 DEF Clean
  <2>7. CASE ~Sendable(q)
    BY <2>1, <2>7 DEF Clean
  <2>8. QED  BY <2>6, <2>7
<1>2. CASE ProcessByte
  <2>1. CASE harm = 0
    BY <1>2, <2>1, CleanByte
  <2>2. CASE harm # 0
    BY <1>2, <2>2 DEF ProcessByte, Clean
  <2>3. QED  BY <2>1, <2>2
<1>3. CASE harm' = harm + 1
  <2>1. harm' # 0
    BY <1>3 DEF PInv, Types
  <2>2. QED  BY <2>1 DEF Clean
<1>4. CASE UNCHANGED vars
  BY <1>4 DEF vars, Clean
<1>5. QED  BY <1>1, <1>2, <1>3, <1>4
           DEF Next, Lose, Garble, Insert, Damage, Restart, ProcessRestart, Restarted

\* On an undamaged line every packet is processed with its last byte, and the receiver
\* then holds nothing: PromptWhenClean.
THEOREM CleanLinePrompt == Spec => []PromptWhenClean
<1>1. Init => Clean
  BY DEF Init, Clean
<1>2. PInv /\ Clean /\ [Next]_vars => Clean'
  BY CleanStep
<1>3. Clean => PromptWhenClean
  BY DEF Clean, PromptWhenClean
<1>4. QED  BY <1>1, <1>2, <1>3, PacketInvariant, PTL DEF Spec

-----------------------------------------------------------------------------
(* Where the bytes on the line come from *)

IsStray(b) == b.of = None /\ b.id = <<0, 0>>

\* b is the byte of a packet in q that it says it is.
IsSent(b, q) ==
  LET k == b.id[1]
  IN  /\ k \in 1..Len(q) /\ Sendable(q[k])
      /\ b.id[2] \in 1..BodyLen(q[k]) + 3
      /\ b = Frame(q[k], k)[b.id[2]]

\* The bytes s were sent or are strays. After a byte of an earlier packet, the CRC of
\* a packet is as far away as it was sent behind its start, but for h damages.
Traced(s, q, h) ==
  /\ \A i \in 1..Len(s) : IsStray(s[i]) \/ IsSent(s[i], q)
  /\ \A i, j \in 1..Len(s) :
       i < j /\ Crc1(s[j]) /\ s[i].id[1] \in 1..s[j].id[1] - 1 => j - i >= s[j].id[2] - h

\* What was sent of t is in s, at the places f, at most h further apart.
Follows(f, t, s, h) ==
  /\ \A i \in 1..Len(t) : IsStray(t[i]) \/ (f[i] \in 1..Len(s) /\ t[i] = s[f[i]])
  /\ \A i, j \in 1..Len(t) :
       i < j /\ ~IsStray(t[i]) /\ ~IsStray(t[j]) => f[i] < f[j] /\ f[j] - f[i] <= j - i + h

LEMMA SentTypes ==
  ASSUME NEW b, NEW q \in Seq(Packets), IsSent(b, q)
  PROVE  /\ b.id[1] \in 1..Len(q) /\ b.id[2] \in Nat /\ Len(q) \in Nat
         /\ Crc1(b) => b.id[2] = BodyLen(q[b.id[1]]) + 1 /\ b.of[1] = q[b.id[1]]
<1> DEFINE k == b.id[1]
           j == b.id[2]
           p == q[k]
<1>1. k \in 1..Len(q) /\ j \in 1..BodyLen(p) + 3 /\ b = Frame(p, k)[j]
  BY DEF IsSent
<1>2. p \in Packets /\ k \in Nat /\ Len(q) \in Nat
  BY <1>1, ElementOfSeq, LenProperties
<1> HIDE DEF k, j, p
<1>3. BodyLen(p) \in Nat
      /\ b.of = IF j - BodyLen(p) \in 1..2 THEN <<p, j - BodyLen(p)>> ELSE None
  BY <1>1, <1>2, FrameIs
<1>4. Crc1(b) => j = BodyLen(p) + 1 /\ b.of[1] = p
  <2> SUFFICES ASSUME Crc1(b) PROVE j = BodyLen(p) + 1 /\ b.of[1] = p
    OBVIOUS
  <2>1. b.of = <<p, j - BodyLen(p)>> /\ b.of[2] = 1
    BY <1>3 DEF Crc1
  <2>2. QED  BY <1>1, <1>3, <2>1
<1>5. j \in Nat
  BY <1>1, <1>3
<1>6. QED  BY <1>1, <1>2, <1>4, <1>5 DEF k, j, p

LEMMA StrayIsNoCrc ==
  ASSUME NEW b, IsStray(b)
  PROVE  ~Crc1(b) /\ b.id[1] = 0
BY DEF IsStray, Crc1

LEMMA TracedOn ==
  ASSUME NEW s, NEW t, NEW q \in Seq(Packets), NEW h \in Nat, NEW dh \in Nat, NEW f,
         Traced(s, q, h), Follows(f, t, s, dh), Len(t) \in Nat
  PROVE  Traced(t, q, h + dh)
<1>1. \A i \in 1..Len(t) : IsStray(t[i]) \/ (f[i] \in 1..Len(s) /\ t[i] = s[f[i]] /\ IsSent(t[i], q))
  BY DEF Traced, Follows
<1>2. ASSUME NEW i \in 1..Len(t), NEW j \in 1..Len(t), i < j, Crc1(t[j]),
             t[i].id[1] \in 1..t[j].id[1] - 1
      PROVE  j - i >= t[j].id[2] - (h + dh)
  <2>1. ~IsStray(t[j]) /\ ~IsStray(t[i])
    BY <1>2, StrayIsNoCrc
  <2>2. /\ f[i] \in 1..Len(s) /\ t[i] = s[f[i]] /\ f[j] \in 1..Len(s) /\ t[j] = s[f[j]]
        /\ IsSent(t[j], q)
    BY <1>1, <2>1
  <2>3. f[i] < f[j] /\ f[j] - f[i] <= j - i + dh
    BY <1>2, <2>1 DEF Follows
  <2>4. f[j] - f[i] >= t[j].id[2] - h
    BY <1>2, <2>2, <2>3 DEF Traced
  <2>5. t[j].id[2] \in Nat
    BY <2>2, SentTypes
  <2> DEFINE a == f[i]
             b == f[j]
             x == t[j].id[2]
  <2>6. a \in Int /\ b \in Int /\ x \in Nat /\ b - a <= j - i + dh /\ b - a >= x - h
    BY <2>2, <2>3, <2>4, <2>5
  <2> HIDE DEF a, b, x
  <2>7. j - i >= x - (h + dh)
    BY <1>2, <2>6
  <2>8. QED  BY <2>7 DEF x
<1>3. QED  BY <1>1, <1>2 DEF Traced

\* Losing, damaging and inserting move what follows by one place at most.
LEMMA TracedDamage ==
  ASSUME NEW r \in Seq(Byte), NEW w \in Seq(Byte), NEW v \in Seq(Byte), NEW q \in Seq(Packets),
         NEW h \in Nat, Traced(r \o w, q, h), NEW c \in {-1, 0, 1},
         \A i \in 1..Len(v) : IsStray(v[i]) \/ (i + c \in 1..Len(w) /\ v[i] = w[i + c])
  PROVE  Traced(r \o v, q, h + 1)
<1> DEFINE t == r \o v
           s == r \o w
           f == [i \in 1..Len(t) |-> IF i <= Len(r) THEN i ELSE i + c]
<1>1. /\ Len(r) \in Nat /\ Len(w) \in Nat /\ Len(s) = Len(r) + Len(w)
      /\ \A i \in 1..Len(r) + Len(w) : /\ i <= Len(r) => s[i] = r[i]
                                       /\ i > Len(r) => s[i] = w[i - Len(r)]
  BY LineIs
<1>2. /\ Len(v) \in Nat /\ Len(t) = Len(r) + Len(v)
      /\ \A i \in 1..Len(r) + Len(v) : /\ i <= Len(r) => t[i] = r[i]
                                       /\ i > Len(r) => t[i] = v[i - Len(r)]
  BY LineIs
<1>3. Traced(s, q, h)
  OBVIOUS
<1> HIDE DEF s, t
<1>4. /\ \A i \in 1..Len(t) : i <= Len(r) => f[i] = i
      /\ \A i \in 1..Len(t) : ~(i <= Len(r)) => f[i] = i + c
  OBVIOUS
<1> HIDE DEF f
<1>5. ASSUME NEW i \in 1..Len(t), ~IsStray(t[i])
      PROVE  f[i] \in 1..Len(s) /\ t[i] = s[f[i]] /\ (i > Len(r) => f[i] > Len(r))
  <2>1. CASE i <= Len(r)
    <3>1. f[i] = i /\ t[i] = r[i] /\ i \in 1..Len(s) /\ s[i] = r[i]
      BY <1>1, <1>2, <1>4, <2>1
    <3>2. QED  BY <2>1, <3>1
  <2>2. CASE i > Len(r)
    <3> DEFINE j == i - Len(r)
    <3>1. j \in 1..Len(v) /\ t[i] = v[j]
      BY <1>1, <1>2, <2>2
    <3> HIDE DEF j
    <3>2. j + c \in 1..Len(w) /\ v[j] = w[j + c]
      BY <1>5, <3>1
    <3>3. f[i] = Len(r) + (j + c) /\ f[i] \in 1..Len(r) + Len(w) /\ f[i] > Len(r)
          /\ f[i] - Len(r) = j + c
      <4>1. f[i] = i + c /\ i = Len(r) + j /\ j \in Int
        BY <1>1, <1>2, <1>4, <2>2 DEF j
      <4>2. f[i] = Len(r) + (j + c)
        BY <1>1, <4>1
      <4>3. QED  BY <1>1, <3>2, <4>2, SMTT(30)
    <3>4. s[f[i]] = w[j + c]
      BY <1>1, <3>3
    <3>5. QED  BY <1>1, <3>1, <3>2, <3>3, <3>4
  <2>3. QED  BY <1>1, <1>2, <2>1, <2>2
<1>6. ASSUME NEW i \in 1..Len(t), NEW j \in 1..Len(t), i < j, ~IsStray(t[i]), ~IsStray(t[j])
      PROVE  f[i] < f[j] /\ f[j] - f[i] <= j - i + 1
  <2>1. CASE j <= Len(r)
    <3>1. f[i] = i /\ f[j] = j
      <4>1. i <= Len(r)
        BY <1>1, <1>2, <1>6, <2>1
      <4>2. QED  BY <1>4, <2>1, <4>1
    <3>2. QED  BY <1>2, <1>6, <3>1
  <2>2. CASE i <= Len(r) /\ j > Len(r)
    <3>1. f[i] = i /\ f[j] = j + c /\ f[j] > Len(r)
      BY <1>1, <1>2, <1>4, <1>5, <1>6, <2>2
    <3>2. QED  BY <1>1, <1>2, <2>2, <3>1
  <2>3. CASE i > Len(r)
    <3>1. f[i] = i + c /\ f[j] = j + c
      <4>1. ~(i <= Len(r)) /\ ~(j <= Len(r))
        BY <1>1, <1>2, <1>6, <2>3
      <4>2. QED  BY <1>4, <4>1
    <3>2. QED  BY <1>2, <1>6, <3>1
  <2>4. QED  BY <1>1, <1>2, <2>1, <2>2, <2>3
<1>7. Follows(f, t, s, 1)
  BY <1>5, <1>6 DEF Follows
<1>8. Len(t) \in Nat
  BY <1>1, <1>2
<1>9. Traced(t, q, h + 1)
  BY <1>3, <1>7, <1>8, TracedOn
<1>10. QED  BY <1>9 DEF t

\* Dropping the first a bytes leaves the distances.
LEMMA TracedDropped ==
  ASSUME NEW r \in Seq(Byte), NEW w \in Seq(Byte), NEW q \in Seq(Packets), NEW h \in Nat,
         Traced(r \o w, q, h), NEW a \in 0..Len(r), NEW dh \in Nat
  PROVE  Traced(SubSeq(r, a + 1, Len(r)) \o w, q, h + dh)
<1> DEFINE t == SubSeq(r, a + 1, Len(r)) \o w
           s == r \o w
           f == [i \in 1..Len(t) |-> i + a]
<1>1. /\ Len(t) \in Nat /\ Len(r) \in Nat
      /\ \A i \in 1..Len(t) : i + a \in 1..Len(s) /\ t[i] = s[i + a]
  <2>1. t \in Seq(Byte) /\ \A i \in 1..Len(t) : i + a \in 1..Len(s) /\ t[i] = s[i + a]
    BY DroppedIs
  <2>2. Len(t) \in Nat /\ Len(r) \in Nat
    BY <2>1, LenProperties
  <2>3. QED  BY <2>1, <2>2
<1>2. Traced(s, q, h)
  OBVIOUS
<1> HIDE DEF s, t
<1>3. \A i \in 1..Len(t) : f[i] = i + a
  OBVIOUS
<1> HIDE DEF f
<1>4. \A i, j \in 1..Len(t) : i < j => f[i] < f[j] /\ f[j] - f[i] <= j - i + dh
  BY <1>1, <1>3
<1>5. Follows(f, t, s, dh)
  BY <1>1, <1>3, <1>4 DEF Follows
<1>6. Traced(t, q, h + dh)
  BY <1>1, <1>2, <1>5, TracedOn
<1>7. QED  BY <1>6 DEF t

\* A packet is put on the empty line.
LEMMA TracedSent ==
  ASSUME NEW r \in Seq(Byte), NEW q \in Seq(Packets), NEW h \in Nat, Traced(r, q, h),
         NEW p \in Packets
  PROVE  /\ Traced(r, Append(q, p), h)
         /\ Sendable(p) => Traced(r \o Frame(p, Len(q) + 1), Append(q, p), h)
<1> DEFINE k == Len(q) + 1
           w == Frame(p, k)
           t == r \o w
           Q == Append(q, p)
           n == BodyLen(p)
<1>1. /\ Len(q) \in Nat /\ k \in Nat /\ Q \in Seq(Packets) /\ Len(Q) = k /\ Q[k] = p
      /\ \A i \in 1..Len(q) : Q[i] = q[i]
  BY LenProperties, AppendProperties
<1>2. /\ n \in Nat /\ w \in Seq(Byte) /\ Len(w) = n + 3 /\ \A i \in 1..n + 3 : w[i].id = <<k, i>>
  BY <1>1, FrameIs
<1>3. Len(r) \in Nat /\ r \in Seq(Byte)
  BY LenProperties
<1> HIDE DEF Q
<1>4. \A i \in 1..Len(r) : IsStray(r[i]) \/ (IsSent(r[i], Q) /\ r[i].id[1] \in 1..Len(q))
  <2> SUFFICES ASSUME NEW i \in 1..Len(r), ~IsStray(r[i])
               PROVE  IsSent(r[i], Q) /\ r[i].id[1] \in 1..Len(q)
    OBVIOUS
  <2> DEFINE b == r[i]
  <2>1. IsSent(b, q)
    BY DEF Traced
  <2> HIDE DEF b
  <2>2. b.id[1] \in 1..Len(q) /\ Q[b.id[1]] = q[b.id[1]] /\ b.id[1] \in 1..Len(Q)
    BY <1>1, <2>1 DEF IsSent
  <2>3. IsSent(b, Q)
    BY <2>1, <2>2 DEF IsSent
  <2>4. QED  BY <2>2, <2>3 DEF b
<1>5. Traced(r, Q, h)
  BY <1>4 DEF Traced
<1>6. ASSUME Sendable(p)
      PROVE  Traced(t, Q, h)
  <2>1. /\ t \in Seq(Byte) /\ Len(t) = Len(r) + Len(w)
        /\ \A i \in 1..Len(r) + Len(w) : /\ i <= Len(r) => t[i] = r[i]
                                         /\ i > Len(r) => t[i] = w[i - Len(r)]
    BY <1>2, LineIs
  <2>2. ASSUME NEW j \in 1..Len(w)
        PROVE  IsSent(w[j], Q) /\ w[j].id[1] = k /\ w[j].id[2] = j
    <3>1. j \in 1..n + 3 /\ w[j].id[1] = k /\ w[j].id[2] = j /\ w[j] = Frame(Q[k], k)[j]
          /\ k \in 1..Len(Q)
      BY <1>1, <1>2
    <3> HIDE DEF w, n, k
    <3>2. IsSent(w[j], Q)
      BY <1>1, <1>6, <3>1 DEF IsSent, n
    <3>3. QED  BY <3>1, <3>2
  <2> HIDE DEF w, t, n, k
  <2>3. ASSUME NEW i \in 1..Len(t)
        PROVE  /\ i <= Len(r) => i \in 1..Len(r) /\ t[i] = r[i]
               /\ i > Len(r) => i - Len(r) \in 1..Len(w) /\ t[i] = w[i - Len(r)]
    BY <1>2, <1>3, <2>1
  <2>4. \A i \in 1..Len(t) : IsStray(t[i]) \/ IsSent(t[i], Q)
    <3> SUFFICES ASSUME NEW i \in 1..Len(t) PROVE IsStray(t[i]) \/ IsSent(t[i], Q)
      OBVIOUS
    <3>1. CASE i <= Len(r)
      BY <1>4, <2>3, <3>1
    <3>2. CASE i > Len(r)
      BY <2>2, <2>3, <3>2
    <3>3. QED  BY <1>2, <1>3, <2>1, <3>1, <3>2
  <2>5. ASSUME NEW i \in 1..Len(t), NEW j \in 1..Len(t), i < j, Crc1(t[j]),
               t[i].id[1] \in 1..t[j].id[1] - 1
        PROVE  j - i >= t[j].id[2] - h
    <3>1. CASE j <= Len(r)
      <4>1. i <= Len(r)
        BY <1>2, <1>3, <2>1, <2>5, <3>1
      <4>2. i \in 1..Len(r) /\ t[i] = r[i] /\ j \in 1..Len(r) /\ t[j] = r[j]
        BY <2>3, <3>1, <4>1
      <4>3. QED  BY <2>5, <4>2 DEF Traced
    <3>2. CASE j > Len(r)
      <4>1. /\ j - Len(r) \in 1..Len(w) /\ t[j] = w[j - Len(r)]
            /\ t[j].id[1] = k /\ t[j].id[2] = j - Len(r)
        BY <2>2, <2>3, <3>2
      <4>2. CASE i <= Len(r)
        BY <1>2, <1>3, <2>1, <4>1, <4>2
      <4>3. CASE i > Len(r)
        <5>1. t[i].id[1] = k
          BY <2>2, <2>3, <4>3
        <5>2. QED  BY <1>1, <2>5, <4>1, <5>1
      <4>4. QED  BY <1>3, <4>2, <4>3
    <3>3. QED  BY <1>2, <1>3, <2>1, <3>1, <3>2
  <2>6. QED  BY <2>4, <2>5 DEF Traced
<1>7. QED  BY <1>5, <1>6 DEF t, w, k, Q

-----------------------------------------------------------------------------
(* No packet is skipped *)

\* A frame of a packet that is sent has six bytes at least.
LEMMA FrameLong ==
  ASSUME NEW p \in Packets, Sendable(p)
  PROVE  /\ HeaderLen(p) \in {2, 3} /\ Len(p) \in Nat /\ Len(p) >= 1 /\ BodyLen(p) \in Nat
         /\ BodyLen(p) = HeaderLen(p) + Len(p) /\ BodyLen(p) >= 3
BY PacketIsSeq DEF HeaderLen, BodyLen, Sendable

\* While fewer bytes are damaged than the shortest frame has, what is found before a
\* frame, or before the part of it that has come, does not reach beyond its first byte:
\* its CRC would have to be this frame's or be too close to it.
LEMMA NoneOver ==
  ASSUME NEW buf \in Seq(Byte), NEW q \in Seq(Packets), NEW l, Lined(buf, q, l),
         NEW h \in Nat, h < 6, Traced(buf, q, h),
         NEW k \in 1..Len(q), Sendable(q[k]), NEW m, NEW r, Held(buf, q[k], k, m, r),
         r < BodyLen(q[k]) + 3 => m + r = Len(buf),
         NEW n \in Nat, n < m, IsPacket(buf, n)
  PROVE  End(buf, n) + 3 <= m + 1
<1> DEFINE p == q[k]
           B == BodyLen(p)
           F == Frame(p, k)
           e == End(buf, n)
           pay == PayloadAt(buf, n)
           len == LenOf(buf, n)
<1>1. /\ p \in Packets /\ k \in Nat /\ k >= 1 /\ Len(q) \in Nat /\ Len(buf) \in Nat
  BY ElementOfSeq, LenProperties
<1>2. /\ HeaderLen(p) \in {2, 3} /\ Len(p) \in Nat /\ Len(p) >= 1 /\ B \in Nat
      /\ B = HeaderLen(p) + Len(p) /\ B >= 3
  BY <1>1, FrameLong
<1>3. /\ Len(F) = B + 3
      /\ \A i \in 1..B + 3 :
           F[i].id = <<k, i>> /\ F[i].of = IF i - B \in 1..2 THEN <<p, i - B>> ELSE None
  BY <1>1, FrameIs, ZenonT(40)
<1>4. /\ m \in Nat /\ r \in 1..B + 3 /\ m + r <= Len(buf) /\ \A i \in 1..r : buf[m + i] = F[i]
      /\ r < B + 3 => m + r = Len(buf)
  BY DEF Held
<1>5. /\ Start(buf, n) \in {2, 3} /\ len \in 1..MaxPl /\ e \in Nat /\ e + 3 <= Len(buf)
      /\ e = n + Start(buf, n) + len
  <2>1. n < Len(buf)
    BY <1>1, <1>2, <1>4
  <2>2. QED  BY <2>1, PacketRange DEF End
<1>6. buf[e + 1].of = <<pay, 1>> /\ buf[e + 2].of = <<pay, 2>>
  BY DEF IsPacket, CrcMatches
<1>7. pay \in Seq(Nat) /\ Len(pay) = len
  <2>1. n < Len(buf)
    BY <1>1, <1>2, <1>4
  <2>2. PacketAt(buf, n) \in Pkt
    BY <2>1, PacketTypes
  <2>3. pay \in Seq(Nat)
    BY <2>2 DEF PacketAt, Pkt
  <2>4. pay = [i \in 1..len |-> buf[n + Start(buf, n) + i].val] /\ len \in Nat
    BY <1>5, BoundsAssumption DEF PayloadAt, Payload
  <2> HIDE DEF pay, len
  <2>5. DOMAIN pay = 1..len
    BY <2>4
  <2>6. QED  BY <2>3, <2>4, <2>5, LenProperties
<1>8. <<pay, 1>> # None /\ <<pay, 2>> # None
  BY <1>7, NoneAssumption
<1>11. /\ m \in Nat /\ r \in Nat /\ r >= 1 /\ r <= B + 3 /\ m + r <= Len(buf)
       /\ r < B + 3 => m + r = Len(buf)
  BY <1>2, <1>4
<1>12. \A i \in 1..r : buf[m + i] = F[i] /\ i \in 1..B + 3
  BY <1>2, <1>4
<1>13. len \in Nat /\ e \in Nat /\ e + 3 <= Len(buf)
  BY <1>5, BoundsAssumption
<1> DEFINE L == Len(buf)
           st == Start(buf, n)
<1>14. m \in Nat /\ r \in Nat /\ B \in Nat /\ B >= 3 /\ L \in Nat /\ e \in Nat /\ len \in Nat
  BY <1>1, <1>2, <1>11, <1>13
<1>15. st \in {2, 3} /\ e = n + st + len
  BY <1>5
<1> HIDE DEF F, pay, e, B, p, len, L, st
<1> SUFFICES ASSUME e + 3 > m + 1 PROVE FALSE
  BY <1>11, <1>13 DEF e
<1>9. CASE e + 2 <= m + r
  <2> DEFINE i == (e + 2) - m
  <2>1. i \in 1..r /\ m + i = e + 2
    BY <1>9, <1>11, <1>13
  <2> HIDE DEF i
  <2>2. F[i].of = <<pay, 2>>
    BY <1>6, <1>12, <2>1
  <2>3. i - B \in 1..2 /\ <<p, i - B>> = <<pay, 2>>
    BY <1>3, <1>8, <1>12, <2>1, <2>2
  <2>4. i = B + 2 /\ pay = p
    <3>1. <<p, i - B>>[2] = <<pay, 2>>[2] /\ <<p, i - B>>[1] = <<pay, 2>>[1]
      BY <2>3
    <3>2. i \in Nat
      BY <1>11, <2>1
    <3>3. QED  BY <1>2, <3>1, <3>2
  <2>5. n + Start(buf, n) + Len(p) = m + HeaderLen(p) + Len(p)
    <3>1. len = Len(p) /\ m + (B + 2) = e + 2
      BY <1>7, <2>1, <2>4
    <3>2. e = m + B
      BY <1>14, <3>1
    <3>3. n + st + Len(p) = m + B
      BY <1>15, <3>1, <3>2
    <3>4. HeaderLen(p) \in Nat /\ Len(p) \in Nat /\ B = HeaderLen(p) + Len(p)
      BY <1>2
    <3>5. QED  BY <1>14, <3>3, <3>4 DEF st
  <2>6. Start(buf, n) = 3 /\ HeaderLen(p) = 2 /\ n + 1 = m
    <3>1. st \in {2, 3} /\ HeaderLen(p) \in {2, 3} /\ Len(p) \in Nat
      BY <1>2, <1>15
    <3>2. QED  BY <1>14, <2>5, <3>1 DEF st
  <2>7. 1 \in 1..r /\ 2 \in 1..r /\ n + 2 = m + 1 /\ n + 3 = m + 2
    BY <1>2, <1>11, <2>1, <2>4, <2>6
  <2>8. buf[n + 2].val = F[1].val /\ buf[n + 3].val = F[2].val
    BY <1>12, <2>7
  <2>9. F[1].val = 2 /\ F[2].val = Len(p)
    <3>1. /\ F[1].val = Values(p)[1] /\ F[2].val = Values(p)[2]
          /\ Values(p)[1] = Header(p)[1] /\ Values(p)[2] = Header(p)[2]
      <4>1. \A j \in 1..B + 3 : F[j].val = Values(p)[j]
        BY <1>1, FrameIs DEF F, B
      <4>2. \A j \in 1..HeaderLen(p) : Values(p)[j] = Header(p)[j]
        BY <1>1, ValuesAre
      <4>3. 1 \in 1..B + 3 /\ 2 \in 1..B + 3 /\ 1 \in 1..HeaderLen(p) /\ 2 \in 1..HeaderLen(p)
        BY <1>2, <2>6
      <4>4. QED  BY <4>1, <4>2, <4>3
    <3>2. Header(p) = <<2, Len(p)>>
      BY <2>6 DEF Header, HeaderLen
    <3>3. QED  BY <3>1, <3>2
  <2>10. len = 2 * Base + Len(p)
    BY <2>6, <2>8, <2>9 DEF LenOf, len
  <2>11. len = Len(p)
    BY <1>7, <2>4
  <2>12. QED  BY <1>2, <2>10, <2>11, BaseAssumption
<1>10. CASE e + 2 > m + r
  <2>1. r = B + 3
    BY <1>1, <1>2, <1>10, <1>11, <1>13
  <2>2. e + 1 \in 1..Len(buf) /\ e + 1 >= m + (B + 3) /\ Crc1(buf[e + 1])
    <3>1. e + 1 \in 1..Len(buf) /\ e + 1 >= m + (B + 3)
      BY <1>10, <1>13, <1>14, <2>1
    <3>2. QED  BY <1>6, <1>8, <3>1 DEF Crc1
  <2> DEFINE a == m + (B + 3)
             c == m + (B + 1)
             x == buf[e + 1]
             kk == x.id[1]
  <2>3. /\ a \in 1..Len(buf) /\ c \in 1..Len(buf) /\ c < e + 1
        /\ B + 3 \in 1..r /\ B + 1 \in 1..r
    <3>1. m + (B + 3) \in 1..Len(buf) /\ m + (B + 1) \in 1..Len(buf) /\ m + (B + 1) < e + 1
      <4>1. m + (B + 3) <= Len(buf) /\ e + 1 >= m + (B + 3)
        BY <1>11, <2>1, <2>2
      <4>2. QED  BY <1>14, <4>1 DEF L
    <3>2. B + 3 \in 1..r /\ B + 1 \in 1..r
      BY <1>14, <2>1
    <3>3. QED  BY <3>1, <3>2
  <2>4. buf[a] = F[B + 3] /\ buf[c] = F[B + 1]
    BY <1>12, <2>3
  <2>5. buf[a].id = <<k, B + 3>> /\ buf[a].of = None /\ ~Crc1(buf[a])
    <3>1. B + 3 \in 1..B + 3 /\ (B + 3) - B \notin 1..2
      BY <1>2
    <3> HIDE DEF a
    <3>2. QED  BY <1>3, <2>4, <3>1 DEF Crc1
  <2>6. buf[c].id = <<k, B + 1>> /\ Crc1(buf[c])
    <3>1. F[B + 1].of = <<p, 1>>
      BY <1>1, FrameIs DEF F, B
    <3>2. p \in Seq(Nat)
      BY <1>1, PacketIsSeq
    <3>3. <<p, 1>> # None
      BY <3>2, NoneAssumption
    <3>4. B + 1 \in 1..B + 3
      BY <1>2
    <3> HIDE DEF c
    <3>5. F[B + 1].id = <<k, B + 1>> /\ <<p, 1>>[2] = 1
      BY <1>3, <3>4
    <3>6. QED  BY <2>4, <3>1, <3>3, <3>5 DEF Crc1
  <2> HIDE DEF a, c
  <2>7. a < e + 1
    <3>1. a # e + 1
      BY <2>2, <2>5
    <3>2. a \in Nat /\ e + 1 >= a
      <4>1. e + 1 >= m + (B + 3)
        BY <2>2
      <4>2. QED  BY <1>14, <4>1 DEF a
    <3>3. QED  BY <1>5, <3>1, <3>2
  <2>8. IsSent(x, q)
    <3>1. ~IsStray(x)
      BY <2>2, StrayIsNoCrc
    <3> HIDE DEF x
    <3>2. IsStray(x) \/ IsSent(x, q)
      BY <2>2 DEF Traced, x
    <3>3. QED  BY <3>1, <3>2
  <2>9. kk > k
    BY <2>2, <2>3, <2>6 DEF Lined
  <2>10. /\ kk \in 1..Len(q) /\ x.id[2] = BodyLen(q[kk]) + 1 /\ q[kk] = pay
    <3>1. Crc1(x) /\ x.of[1] = pay
      BY <1>6, <2>2
    <3> HIDE DEF x
    <3>2. /\ x.id[1] \in 1..Len(q) /\ x.id[2] = BodyLen(q[x.id[1]]) + 1 /\ x.of[1] = q[x.id[1]]
      BY <2>8, <3>1, SentTypes
    <3>3. QED  BY <3>1, <3>2
  <2>11. (e + 1) - a >= (BodyLen(pay) + 1) - h
    <3>1. buf[a].id[1] = k
      BY <2>5
    <3>2. buf[a].id[1] \in 1..x.id[1] - 1
      <4> HIDE DEF x
      <4>1. QED  BY <1>1, <2>9, <2>10, <3>1
    <3>3. (e + 1) - a >= x.id[2] - h
      BY <2>2, <2>3, <2>7, <3>2 DEF Traced
    <3> HIDE DEF x
    <3>4. QED  BY <2>10, <3>3
  <2>12. pay \in Packets
    <3> HIDE DEF kk
    <3>1. QED  BY <2>10, ElementOfSeq
  <2>13. BodyLen(pay) \in Nat /\ BodyLen(pay) >= len + 2 /\ len \in Nat
    <3>1. BodyLen(pay) = HeaderLen(pay) + Len(pay) /\ HeaderLen(pay) \in {2, 3}
      BY DEF BodyLen, HeaderLen
    <3>2. len \in Nat
      BY <1>5, BoundsAssumption
    <3> HIDE DEF HeaderLen
    <3>3. Len(pay) = len
      BY <1>7
    <3>4. QED  BY <3>1, <3>2, <3>3
  <2>14. (e + 1) - (m + (B + 3)) >= (BodyLen(pay) + 1) - h
    BY <2>11 DEF a
  <2>15. e <= m - 1 + 3 + len
    BY <1>14, <1>15
  <2>16. QED  BY <1>14, <2>13, <2>14, <2>15
<1>16. QED  BY <1>9, <1>10, <1>11, <1>13

\* The part of a frame that has come makes the receiver wait, and the whole is a packet.
LEMMA HeldRead ==
  ASSUME NEW p \in Packets, Sendable(p), NEW k \in Nat, NEW buf \in Seq(Byte),
         NEW m, NEW r, Held(buf, p, k, m, r), r < BodyLen(p) + 3 => m + r = Len(buf)
  PROVE  /\ m \in Nat /\ m < Len(buf)
         /\ r < BodyLen(p) + 3 => IsShort(buf, m)
         /\ r = BodyLen(p) + 3 => IsPacket(buf, m) /\ PacketAt(buf, m).id = k
<1> DEFINE h == HeaderLen(p)
           B == BodyLen(p)
           L == Len(buf)
<1>1. h \in {2, 3} /\ Len(p) \in Nat /\ B = h + Len(p) /\ B \in Nat /\ L \in Nat
  BY FrameLong, LenProperties
<1>2. /\ m \in Nat /\ r \in 1..B + 3 /\ m + r <= L
      /\ \A i \in 1..r : buf[m + i] = Frame(p, k)[i]
  BY DEF Held
<1>3. /\ Start(buf, m) = h
      /\ r >= h => LenOf(buf, m) = Len(p) /\ HeaderFits(h, Len(p))
      /\ r = B + 3 => IsPacket(buf, m) /\ End(buf, m) = m + B
  BY FrameRead
<1>4. \A i \in 1..B + 3 : Frame(p, k)[i].id = <<k, i>>
  BY FrameIs
<1>5. r < B + 3 => m + r = L
  OBVIOUS
<1> HIDE DEF h, B, L
<1>6. m < L
  BY <1>1, <1>2
<1>7. ASSUME r < B + 3
      PROVE  IsShort(buf, m)
  <2>1. ASSUME m + h <= L
        PROVE  HeaderFits(h, LenOf(buf, m)) /\ End(buf, m) + 3 > L
    <3>1. r >= h
      BY <1>1, <1>2, <1>5, <1>7, <2>1
    <3>2. End(buf, m) = m + h + Len(p)
      BY <1>3, <3>1 DEF End
    <3>3. QED  BY <1>1, <1>2, <1>3, <1>5, <1>7, <3>1, <3>2
  <2>2. QED  BY <1>1, <1>3, <2>1 DEF IsShort, L
<1>8. ASSUME r = B + 3
      PROVE  PacketAt(buf, m).id = k
  <2>1. m + B + 1 = m + (B + 1) /\ B + 1 \in 1..r /\ B + 1 \in 1..B + 3
    <3>1. m \in Nat /\ B \in Nat
      BY <1>1, <1>2
    <3>2. QED  BY <1>8, <3>1
  <2>2. buf[End(buf, m) + 1].id = <<k, B + 1>>
    <3>1. End(buf, m) = m + B
      BY <1>3, <1>8
    <3>2. QED  BY <1>2, <1>4, <2>1, <3>1
  <2>3. QED  BY <2>2 DEF PacketAt
<1>9. QED  BY <1>2, <1>3, <1>6, <1>7, <1>8 DEF B, L

LEMMA PrependIs ==
  ASSUME NEW t \in Pkt, NEW d, d.pkts \in Seq(Pkt), d = [at |-> d.at, left |-> d.left, pkts |-> d.pkts]
  PROVE  /\ Prepend(t, d).at = d.at /\ 1 \in 1..Len(Prepend(t, d).pkts) /\ Prepend(t, d).pkts[1] = t
         /\ \A i \in 1..Len(d.pkts) : /\ i + 1 \in 1..Len(Prepend(t, d).pkts)
                                      /\ Prepend(t, d).pkts[i + 1] = d.pkts[i]
<1> DEFINE r == Prepend(t, d)
<1>1. r.at = d.at /\ r.pkts = <<t>> \o d.pkts
  BY DEF Prepend
<1> HIDE DEF r
<1>2. Len(r.pkts) = Len(d.pkts) + 1 /\ Len(d.pkts) \in Nat /\ r.pkts[1] = t
      /\ \A i \in 1..Len(d.pkts) : r.pkts[i + 1] = d.pkts[i]
  BY <1>1
<1>3. QED  BY <1>1, <1>2 DEF r

\* What the loop leaves of the k-th packet's frame at offset m: the frame stays in the
\* buffer, its first byte has been taken for a stop byte, or it is the packet found.
Spared(d, k, m) ==
  \/ d.at <= m
  \/ \E i \in 1..Len(d.pkts) : d.pkts[i].stop = <<k, 1>> \/ d.pkts[i].id = k

\* As above, for the part of the frame that has come.
SparedPart(d, k, m) == d.at <= m \/ \E i \in 1..Len(d.pkts) : d.pkts[i].stop = <<k, 1>>

LEMMA SparedOn ==
  ASSUME NEW t \in Pkt, NEW d, d.pkts \in Seq(Pkt),
         d = [at |-> d.at, left |-> d.left, pkts |-> d.pkts], NEW k, NEW m
  PROVE  /\ Spared(d, k, m) => Spared(Prepend(t, d), k, m)
         /\ SparedPart(d, k, m) => SparedPart(Prepend(t, d), k, m)
         /\ t.stop = <<k, 1>> => /\ Spared(Prepend(t, d), k, m)
                                 /\ SparedPart(Prepend(t, d), k, m)
         /\ t.id = k => Spared(Prepend(t, d), k, m)
<1> DEFINE r == Prepend(t, d)
<1>1. /\ r.at = d.at /\ 1 \in 1..Len(r.pkts) /\ r.pkts[1] = t
      /\ \A i \in 1..Len(d.pkts) : i + 1 \in 1..Len(r.pkts) /\ r.pkts[i + 1] = d.pkts[i]
  BY PrependIs
<1> HIDE DEF r
<1>2. Spared(d, k, m) => Spared(r, k, m)
  BY <1>1 DEF Spared
<1>3. SparedPart(d, k, m) => SparedPart(r, k, m)
  BY <1>1 DEF SparedPart
<1>4. t.stop = <<k, 1>> => Spared(r, k, m) /\ SparedPart(r, k, m)
  BY <1>1 DEF Spared, SparedPart
<1>5. t.id = k => Spared(r, k, m)
  BY <1>1 DEF Spared
<1>6. QED  BY <1>2, <1>3, <1>4, <1>5 DEF r

\* The loop spares every frame, and every part of one, that is in the buffer.
LEMMA Scan ==
  ASSUME NEW buf \in Seq(Byte), NEW q \in Seq(Packets), NEW l, Lined(buf, q, l),
         NEW h \in Nat, h < 6, Traced(buf, q, h),
         NEW k \in 1..Len(q), Sendable(q[k]), NEW m, NEW r, Held(buf, q[k], k, m, r),
         r < BodyLen(q[k]) + 3 => m + r = Len(buf)
  PROVE  /\ Spared(Decode(buf, FALSE), k, m)
         /\ r < BodyLen(q[k]) + 3 => SparedPart(Decode(buf, FALSE), k, m)
<1> DEFINE loop == Loop(buf, FALSE)
           part == r < BodyLen(q[k]) + 3
           Good(d) == Spared(d, k, m) /\ (part => SparedPart(d, k, m))
           G == {n \in 0..m : Good(loop[n])}
<1>1. /\ q[k] \in Packets /\ k \in Nat /\ Len(buf) \in Nat /\ m \in Nat /\ r \in Nat
      /\ BodyLen(q[k]) \in Nat /\ r <= BodyLen(q[k]) + 3 /\ m + 1 <= Len(buf)
      /\ buf[m + 1] = Frame(q[k], k)[1] /\ 1 \in 1..BodyLen(q[k]) + 3
  <2>1. q[k] \in Packets /\ k \in Nat /\ Len(buf) \in Nat
    BY ElementOfSeq, LenProperties
  <2>2. BodyLen(q[k]) \in Nat
    BY <2>1, FrameLong
  <2>3. m \in Nat /\ r \in 1..BodyLen(q[k]) + 3 /\ m + r <= Len(buf)
        /\ \A i \in 1..r : buf[m + i] = Frame(q[k], k)[i]
    BY DEF Held
  <2>4. 1 \in 1..r /\ r \in Nat /\ r <= BodyLen(q[k]) + 3 /\ m + 1 <= Len(buf)
        /\ 1 \in 1..BodyLen(q[k]) + 3
    BY <2>1, <2>2, <2>3
  <2>5. QED  BY <2>1, <2>2, <2>3, <2>4
<1>2. buf[m + 1].id = <<k, 1>>
  <2>1. \A i \in 1..BodyLen(q[k]) + 3 : Frame(q[k], k)[i].id = <<k, i>>
    BY <1>1, FrameIs
  <2>2. QED  BY <1>1, <2>1
<1>3. /\ m < Len(buf) /\ (part => IsShort(buf, m))
      /\ ~part => IsPacket(buf, m) /\ PacketAt(buf, m).id = k
  BY <1>1, HeldRead, SMTT(30)
<1>4. \A n \in 0..Len(buf) : /\ loop[n] = Found(buf, FALSE, n, loop)
                             /\ loop[n].pkts \in Seq(Pkt)
                             /\ loop[n] = [at |-> loop[n].at, left |-> loop[n].left,
                                           pkts |-> loop[n].pkts]
  <2>1. \A n \in 0..Len(buf) : loop[n] = Found(buf, FALSE, n, loop)
    BY LoopIs
  <2>2. \A n \in 0..Len(buf) : Yields(buf, n, loop[n])
    BY LoopYields
  <2> HIDE DEF loop
  <2>3. ASSUME NEW n \in 0..Len(buf)
        PROVE  /\ loop[n].pkts \in Seq(Pkt)
               /\ loop[n] = [at |-> loop[n].at, left |-> loop[n].left, pkts |-> loop[n].pkts]
    <3>1. loop[n] \in [at : n..Len(buf), left : Nat, pkts : Seq(Pkt)]
      BY <2>2 DEF Yields
    <3>2. QED  BY <3>1
  <2>4. QED  BY <2>1, <2>3
<1> HIDE DEF loop
<1>5. ASSUME NEW n \in 0..m, \A i \in n + 1..m : Good(loop[i])
      PROVE  Good(loop[n])
  <2>1. n \in Nat /\ n < Len(buf) /\ n <= m /\ n \in 0..Len(buf)
    BY <1>1, <1>3
  <2>2. CASE IsShort(buf, n)
    <3>1. loop[n] = [at |-> n, left |-> Wanted(buf, n), pkts |-> <<>>]
      BY <1>4, <2>1, <2>2, FoundShort
    <3>2. loop[n].at <= m
      BY <2>1, <3>1
    <3>3. QED  BY <3>2 DEF Spared, SparedPart
  <2>3. CASE ~IsShort(buf, n) /\ ~IsPacket(buf, n)
    <3>1. loop[n] = loop[n + 1]
      BY <1>4, <2>1, <2>3, FoundNone, ZenonT(40)
    <3>2. n # m
      BY <1>3, <2>3
    <3>3. n + 1 \in n + 1..m
      BY <1>1, <2>1, <3>2
    <3>4. Good(loop[n + 1])
      BY <1>5, <3>3
    <3> HIDE DEF Good
    <3>5. QED  BY <3>1, <3>4
  <2>4. CASE IsPacket(buf, n)
    <3> DEFINE t == PacketAt(buf, n)
               e == End(buf, n) + 3
    <3>1. t \in Pkt /\ e \in Nat /\ e > n /\ e <= Len(buf) /\ e \in 0..Len(buf) /\ ~IsShort(buf, n)
      <4>1. t \in Pkt /\ End(buf, n) \in Nat /\ End(buf, n) >= n + 3 /\ e <= Len(buf)
        BY <2>1, <2>4, PacketTypes, PacketRange
      <4>2. QED  BY <1>1, <2>1, <2>4, <4>1, ShortIsNoPacket, SMTT(30)
    <3>2. loop[n] = Prepend(t, loop[e])
      <4>1. Found(buf, FALSE, n, loop) = Prepend(t, loop[e])
        BY <2>1, <2>4, FoundPacket
      <4>2. QED  BY <1>4, <2>1, <4>1, Zenon
    <3>3. t.stop = buf[e].id
      BY DEF PacketAt
    <3> HIDE DEF t, e
    <3>4. /\ Spared(loop[e], k, m) => Spared(loop[n], k, m)
          /\ SparedPart(loop[e], k, m) => SparedPart(loop[n], k, m)
          /\ t.stop = <<k, 1>> => Spared(loop[n], k, m) /\ SparedPart(loop[n], k, m)
          /\ t.id = k => Spared(loop[n], k, m)
      <4>1. loop[e].pkts \in Seq(Pkt)
            /\ loop[e] = [at |-> loop[e].at, left |-> loop[e].left, pkts |-> loop[e].pkts]
        BY <1>4, <3>1
      <4> DEFINE d == loop[e]
      <4> HIDE DEF d
      <4>2. /\ Spared(d, k, m) => Spared(Prepend(t, d), k, m)
            /\ SparedPart(d, k, m) => SparedPart(Prepend(t, d), k, m)
            /\ t.stop = <<k, 1>> => /\ Spared(Prepend(t, d), k, m)
                                    /\ SparedPart(Prepend(t, d), k, m)
            /\ t.id = k => Spared(Prepend(t, d), k, m)
        BY <3>1, <4>1, SparedOn DEF d
      <4>3. loop[n] = Prepend(t, d)
        BY <3>2 DEF d
      <4>4. QED  BY <4>2, <4>3 DEF d
    <3>5. CASE n = m
      <4>1. ~part /\ t.id = k
        BY <1>3, <3>1, <3>5 DEF t
      <4>2. QED  BY <3>4, <4>1
    <3>6. CASE n # m
      <4>1. n < m
        BY <1>1, <2>1, <3>6
      <4>2. e <= m + 1
        BY <1>1, <2>1, <2>4, <4>1, NoneOver DEF e
      <4>3. CASE e <= m
        <5>1. e \in n + 1..m
          BY <1>1, <2>1, <3>1, <4>3
        <5>2. QED  BY <1>5, <3>4, <5>1
      <4>4. CASE e = m + 1
        <5>1. t.stop = <<k, 1>>
          BY <1>2, <3>3, <4>4
        <5>2. QED  BY <3>4, <5>1
      <4>5. QED  BY <1>1, <3>1, <4>2, <4>3, <4>4
    <3>7. QED  BY <3>5, <3>6
  <2>5. QED  BY <2>2, <2>3, <2>4
<1> HIDE DEF Good
<1>6. \A n \in 0..m : (\A i \in n + 1..m : i \in G) => n \in G
  BY <1>5
<1>7. \A n \in 0..m : n \in G
  <2> HIDE DEF G
  <2>1. QED  BY <1>1, <1>6, Downwards
<1>8. Good(loop[0])
  <2>1. 0 \in 0..m
    BY <1>1
  <2>2. QED  BY <1>7, <2>1
<1>9. QED  BY <1>8 DEF Good, loop, Decode

-----------------------------------------------------------------------------
(* What is kept of the packets that arrive *)

\* The place u in a packet: what of the packet has come ends the bytes s.
Arriving(s, q, u) ==
  \/ u = <<0, 0>>
  \/ \E k \in 1..Len(q), j \in Nat :
       /\ u = <<k, j>> /\ Sendable(q[k])
       /\ Held(s, q[k], k, Len(s) - j, j)

Arrived(q, u) == \E k \in 1..Len(q) : u = <<k, BodyLen(q[k]) + 3>>
Running(s, q, u) == Arriving(s, q, u) \/ Arrived(q, u)

\* The frames of the packets in d are in the bytes s.
DueHeld(s, q, d) ==
  \A k \in d : Sendable(q[k]) /\ \E m \in Nat : Held(s, q[k], k, m, BodyLen(q[k]) + 3)

LEMMA HeldAppend ==
  ASSUME NEW s \in Seq(Byte), NEW b \in Byte, NEW p \in Packets, NEW k, NEW m, NEW r,
         Held(s, p, k, m, r)
  PROVE  /\ Held(Append(s, b), p, k, m, r)
         /\ m + r = Len(s) /\ r < BodyLen(p) + 3 /\ b = Frame(p, k)[r + 1] =>
              Held(Append(s, b), p, k, m, r + 1)
<1> DEFINE t == Append(s, b)
           B == BodyLen(p) + 3
           F == Frame(p, k)
<1>1. Len(t) = Len(s) + 1 /\ t[Len(s) + 1] = b /\ Len(s) \in Nat
      /\ \A i \in 1..Len(s) : t[i] = s[i]
  BY AppendProperties, LenProperties
<1>2. B \in Nat
  BY PacketIsSeq DEF BodyLen, HeaderLen
<1>3. m \in Nat /\ r \in 1..B /\ m + r <= Len(s) /\ \A i \in 1..r : s[m + i] = F[i]
  BY DEF Held
<1> HIDE DEF t, B, F
<1>4. \A i \in 1..r : t[m + i] = F[i]
  <2>1. \A i \in 1..r : m + i \in 1..Len(s)
    BY <1>1, <1>2, <1>3
  <2>2. QED  BY <1>1, <1>3, <2>1
<1>5. Held(t, p, k, m, r)
  <2>1. m + r <= Len(t)
    BY <1>1, <1>2, <1>3
  <2>2. QED  BY <1>3, <1>4, <2>1 DEF Held, B, F
<1>6. ASSUME m + r = Len(s), r < B, b = F[r + 1]
      PROVE  Held(t, p, k, m, r + 1)
  <2>1. r + 1 \in 1..B /\ m + (r + 1) = Len(s) + 1 /\ m + (r + 1) <= Len(t)
    BY <1>1, <1>2, <1>3, <1>6
  <2>2. \A i \in 1..r + 1 : i \in 1..r \/ i = r + 1
    BY <1>2, <1>3
  <2>3. \A i \in 1..r + 1 : t[m + i] = F[i]
    BY <1>1, <1>4, <1>6, <2>1, <2>2
  <2>4. QED  BY <1>3, <2>1, <2>3 DEF Held, B, F
<1>7. QED  BY <1>5, <1>6 DEF t, B, F

LEMMA HeldDropped ==
  ASSUME NEW s \in Seq(Byte), NEW p, NEW k, NEW m, NEW r, Held(s, p, k, m, r), r \in Nat,
         NEW a \in 0..Len(s), a <= m
  PROVE  Held(SubSeq(s, a + 1, Len(s)), p, k, m - a, r)
<1> DEFINE u == SubSeq(s, a + 1, Len(s))
<1>1. /\ m \in Nat /\ r \in 1..BodyLen(p) + 3 /\ m + r <= Len(s) /\ Len(s) \in Nat
      /\ \A i \in 1..r : s[m + i] = Frame(p, k)[i]
  BY LenProperties DEF Held
<1>2. Len(u) = Len(s) - a /\ \A i \in 1..Len(s) - a : u[i] = s[i + a]
  <2>1. <<>> \in Seq(Byte)
    OBVIOUS
  <2>2. QED  BY <2>1, DroppedIs, SMTT(30)
<1> HIDE DEF u
<1>3. m - a \in Nat /\ (m - a) + r <= Len(u)
  BY <1>1, <1>2
<1>4. \A i \in 1..r : u[(m - a) + i] = Frame(p, k)[i]
  <2>1. \A i \in 1..r : (m - a) + i \in 1..Len(s) - a /\ (m - a) + i + a = m + i
    BY <1>1
  <2>2. QED  BY <1>1, <1>2, <2>1
<1>5. QED  BY <1>1, <1>3, <1>4 DEF Held, u

\* The bytes of a packet that came without interruption are the last in the buffer.
LEMMA Arrives ==
  ASSUME NEW s \in Seq(Byte), NEW q \in Seq(Packets), NEW u, Running(s, q, u),
         NEW b \in Byte, IsStray(b) \/ IsSent(b, q), NEW now,
         now = IF b.id[2] = 1 \/ b.id = <<u[1], u[2] + 1>> THEN b.id ELSE <<0, 0>>
  PROVE  Arriving(Append(s, b), q, now)
<1> DEFINE t == Append(s, b)
<1>1. Len(t) = Len(s) + 1 /\ t[Len(s) + 1] = b /\ Len(s) \in Nat /\ Len(q) \in Nat
  BY AppendProperties, LenProperties
<1>2. CASE IsStray(b) \/ now = <<0, 0>>
  BY <1>2 DEF IsStray, Arriving
<1>3. CASE IsSent(b, q) /\ now # <<0, 0>>
  <2>1. PICK k, j : k = b.id[1] /\ j = b.id[2]
    OBVIOUS
  <2>2. k \in 1..Len(q) /\ Sendable(q[k]) /\ j \in 1..BodyLen(q[k]) + 3 /\ b = Frame(q[k], k)[j]
    BY <1>3, <2>1 DEF IsSent
  <2>3. q[k] \in Packets /\ k \in Nat /\ BodyLen(q[k]) \in Nat /\ j \in Nat
    <3>1. q[k] \in Packets /\ k \in Nat
      BY <1>1, <2>2, ElementOfSeq
    <3>2. BodyLen(q[k]) \in Nat
      BY <2>2, <3>1, FrameLong
    <3>3. QED  BY <2>2, <3>1, <3>2
  <2>4. b.id = <<k, j>> /\ now = <<k, j>> /\ (j = 1 \/ <<k, j>> = <<u[1], u[2] + 1>>)
    <3>1. \A i \in 1..BodyLen(q[k]) + 3 : Frame(q[k], k)[i].id = <<k, i>>
      BY <2>3, FrameIs
    <3>2. b.id = <<k, j>>
      BY <2>2, <3>1
    <3>3. QED  BY <1>3, <2>1, <3>2
  <2>5. SUFFICES Held(t, q[k], k, Len(t) - j, j)
    BY <2>2, <2>3, <2>4 DEF Arriving
  <2> HIDE DEF t
  <2>6. CASE j = 1
    <3>1. Len(t) - 1 = Len(s) /\ Len(s) \in Nat /\ Len(s) + 1 <= Len(t)
      BY <1>1
    <3>2. \A i \in 1..1 : t[Len(s) + i] = Frame(q[k], k)[i]
      BY <1>1, <2>2, <2>6
    <3>3. Held(t, q[k], k, Len(s), 1)
      BY <2>2, <2>6, <3>1, <3>2 DEF Held
    <3>4. QED  BY <2>6, <3>1, <3>3
  <2>7. CASE j # 1
    <3>1. k = u[1] /\ j = u[2] + 1
      BY <2>4, <2>7
    <3>2. u # <<0, 0>>
      BY <2>2, <3>1
    <3>3. ~Arrived(q, u)
      <4> SUFFICES ASSUME NEW i \in 1..Len(q), u = <<i, BodyLen(q[i]) + 3>> PROVE FALSE
        BY DEF Arrived
      <4>1. i = k /\ j = BodyLen(q[k]) + 3 + 1
        BY <3>1
      <4>2. QED  BY <2>2, <2>3, <4>1
    <3>4. PICK kk \in 1..Len(q), jj \in Nat :
            u = <<kk, jj>> /\ Held(s, q[kk], kk, Len(s) - jj, jj)
      BY <3>2, <3>3 DEF Running, Arriving
    <3>5. kk = k /\ j = jj + 1
      BY <3>1, <3>4
    <3>6. Held(s, q[k], k, Len(s) - jj, jj)
      BY <3>4, <3>5
    <3>7. (Len(s) - jj) + jj = Len(s) /\ jj < BodyLen(q[k]) + 3 /\ Len(t) - j = Len(s) - jj
      BY <1>1, <2>2, <2>3, <3>5
    <3>8. Held(t, q[k], k, Len(s) - jj, jj + 1)
      BY <2>2, <2>3, <3>5, <3>6, <3>7, HeldAppend DEF t
    <3>9. QED  BY <3>5, <3>7, <3>8
  <2>8. QED  BY <2>6, <2>7
<1>4. QED  BY <1>2, <1>3

\* Every frame, and every part of one at the end, that is in the bytes s is spared.
Spares(d, s, q) ==
  \A k \in 1..Len(q) : \A m, r :
    /\ Sendable(q[k]) /\ Held(s, q[k], k, m, r)
    /\ r < BodyLen(q[k]) + 3 => m + r = Len(s)
    => /\ Spared(d, k, m)
       /\ r < BodyLen(q[k]) + 3 => SparedPart(d, k, m)

\* The next byte is received, and of what it completes nothing is skipped.
LEMMA TookKeeps ==
  ASSUME Types, Running(rx, sent, run), DueHeld(rx, sent, due),
         NEW b \in Byte, IsStray(b) \/ IsSent(b, sent),
         NEW s, s = Append(rx, b), NEW d, d.at \in 0..Len(s), d.pkts \in Seq(Pkt),
         Spares(d, s, sent), Took(b, d.pkts)
  PROVE  /\ Running(SubSeq(s, d.at + 1, Len(s)), sent, run')
         /\ DueHeld(SubSeq(s, d.at + 1, Len(s)), sent, due')
<1> DEFINE u == SubSeq(s, d.at + 1, Len(s))
<1>1. /\ rx \in Seq(Byte) /\ sent \in Seq(Packets) /\ due \subseteq 1..Len(sent)
      /\ s \in Seq(Byte) /\ Len(s) = Len(rx) + 1 /\ Len(s) \in Nat /\ Len(sent) \in Nat
      /\ DOMAIN sent = 1..Len(sent) /\ DOMAIN d.pkts = 1..Len(d.pkts)
  <2>1. rx \in Seq(Byte) /\ sent \in Seq(Packets) /\ due \subseteq 1..Len(sent)
    BY DEF Types
  <2>2. s \in Seq(Byte) /\ Len(s) = Len(rx) + 1
    BY <2>1, AppendProperties
  <2>3. QED  BY <2>1, <2>2, LenProperties
<1>2. PICK now : now = IF b.id[2] = 1 \/ b.id = <<run[1], run[2] + 1>> THEN b.id ELSE <<0, 0>>
  OBVIOUS
<1>3. PICK whole : whole = {k \in DOMAIN sent :
                              Sendable(sent[k]) /\ now = <<k, Len(Frame(sent[k], k))>>}
  OBVIOUS
<1>4. /\ run' = IF now[1] \in Eaten(d.pkts) THEN <<0, 0>> ELSE now
      /\ due' = (due \cup whole) \ ({d.pkts[i].id : i \in DOMAIN d.pkts} \cup Eaten(d.pkts))
  BY <1>2, <1>3 DEF Took
<1>5. Arriving(s, sent, now)
  <2> PICK r, q, v : r = rx /\ q = sent /\ v = run
    OBVIOUS
  <2>1. Arriving(Append(r, b), q, now)
    BY <1>1, <1>2, Arrives
  <2>2. QED  BY <2>1
<1>6. \A k \in 1..Len(sent) : sent[k] \in Packets /\ k \in Nat
  BY <1>1, ElementOfSeq
<1>7. \A k \in 1..Len(sent) : /\ BodyLen(sent[k]) \in Nat
                              /\ Len(Frame(sent[k], k)) = BodyLen(sent[k]) + 3
  BY <1>6, FrameIs
<1>8. ASSUME NEW k \in 1..Len(sent), \E i \in 1..Len(d.pkts) : d.pkts[i].stop = <<k, 1>>
      PROVE  k \in Eaten(d.pkts)
  BY <1>1, <1>8 DEF Eaten
<1>9. ASSUME NEW k \in 1..Len(sent), NEW m \in Nat, NEW r \in Nat, Sendable(sent[k]),
             Held(s, sent[k], k, m, r), d.at <= m
      PROVE  Held(u, sent[k], k, m - d.at, r) /\ m - d.at \in Nat
  <2>1. Held(u, sent[k], k, m - d.at, r)
    BY <1>1, <1>9, HeldDropped
  <2>2. QED  BY <2>1 DEF Held
<1>10. Len(u) = Len(s) - d.at
  <2>1. <<>> \in Seq(Byte)
    OBVIOUS
  <2>2. QED  BY <1>1, <2>1, DroppedIs
<1> HIDE DEF u
<1>11. Running(u, sent, run')
  <2>1. CASE run' = <<0, 0>>
    BY <2>1 DEF Running, Arriving
  <2>2. CASE run' # <<0, 0>>
    <3>1. run' = now /\ now # <<0, 0>> /\ now[1] \notin Eaten(d.pkts)
      BY <1>4, <2>2
    <3>2. PICK k \in 1..Len(sent), j \in Nat :
            now = <<k, j>> /\ Sendable(sent[k]) /\ Held(s, sent[k], k, Len(s) - j, j)
      BY <1>5, <3>1 DEF Arriving
    <3>3. Len(s) - j \in Nat /\ j \in 1..BodyLen(sent[k]) + 3
      BY <3>2 DEF Held
    <3>4. CASE j = BodyLen(sent[k]) + 3
      BY <3>1, <3>2, <3>4 DEF Running, Arrived
    <3>5. CASE j # BodyLen(sent[k]) + 3
      <4>1. j < BodyLen(sent[k]) + 3 /\ (Len(s) - j) + j = Len(s)
        BY <1>1, <1>7, <3>3, <3>5
      <4>2. SparedPart(d, k, Len(s) - j)
        BY <3>2, <4>1, Zenon DEF Spares
      <4>3. k \notin Eaten(d.pkts)
        BY <3>1, <3>2
      <4>4. d.at <= Len(s) - j
        BY <1>8, <4>2, <4>3 DEF SparedPart
      <4>5. Held(u, sent[k], k, (Len(s) - j) - d.at, j)
        BY <1>9, <3>2, <3>3, <4>4
      <4>6. (Len(s) - j) - d.at = Len(u) - j
        <5> DEFINE x == Len(u)
                   y == Len(s)
                   a == d.at
        <5>1. y \in Nat /\ a \in Nat /\ x = y - a
          BY <1>1, <1>10
        <5> HIDE DEF x, y, a
        <5>2. (y - j) - a = x - j
          BY <5>1
        <5>3. QED  BY <5>2 DEF x, y, a
      <4>7. Held(u, sent[k], k, Len(u) - j, j)
        BY <4>5, <4>6
      <4>8. QED  BY <3>1, <3>2, <4>7 DEF Running, Arriving
    <3>6. QED  BY <3>4, <3>5
  <2>3. QED  BY <2>1, <2>2
<1>12. DueHeld(u, sent, due')
  <2> SUFFICES ASSUME NEW k \in due'
               PROVE  /\ Sendable(sent[k])
                      /\ \E m \in Nat : Held(u, sent[k], k, m, BodyLen(sent[k]) + 3)
    BY DEF DueHeld
  <2>1. /\ k \in due \/ k \in whole
        /\ k \notin Eaten(d.pkts) /\ \A i \in 1..Len(d.pkts) : d.pkts[i].id # k
    BY <1>1, <1>4
  <2>2. k \in 1..Len(sent)
    BY <1>1, <1>3, <2>1
  <2> DEFINE B == BodyLen(sent[k]) + 3
  <2>3. B \in Nat /\ ~(B < B)
    BY <1>7, <2>2
  <2>4. Sendable(sent[k]) /\ \E m \in Nat : Held(s, sent[k], k, m, B)
    <3>1. CASE k \in due
      <4>1. PICK m \in Nat : Sendable(sent[k]) /\ Held(rx, sent[k], k, m, B)
        BY <3>1 DEF DueHeld
      <4>2. Held(s, sent[k], k, m, B)
        <5> PICK r, p : r = rx /\ p = sent[k]
          OBVIOUS
        <5>1. r \in Seq(Byte) /\ p \in Packets /\ Held(r, p, k, m, B)
          BY <1>1, <1>6, <2>2, <4>1
        <5> HIDE DEF B
        <5>2. Held(Append(r, b), p, k, m, B)
          BY <5>1, HeldAppend
        <5>3. QED  BY <5>2
      <4>3. QED  BY <4>1, <4>2
    <3>2. CASE k \in whole
      <4>1. Sendable(sent[k]) /\ now = <<k, B>>
        BY <1>3, <1>7, <2>2, <3>2
      <4> HIDE DEF B
      <4>2. now # <<0, 0>>
        BY <1>6, <2>2, <4>1
      <4>3. PICK kk \in 1..Len(sent), j \in Nat :
              now = <<kk, j>> /\ Held(s, sent[kk], kk, Len(s) - j, j)
        BY <1>5, <4>2 DEF Arriving
      <4>4. kk = k /\ j = B
        BY <4>1, <4>3
      <4>5. Held(s, sent[k], k, Len(s) - B, B) /\ Len(s) - B \in Nat
        BY <4>3, <4>4 DEF Held
      <4>6. QED  BY <4>1, <4>5
    <3>3. QED  BY <2>1, <3>1, <3>2
  <2>5. PICK m \in Nat : Held(s, sent[k], k, m, B)
    BY <2>4
  <2>6. Spared(d, k, m)
    <3>1. B < BodyLen(sent[k]) + 3 => m + B = Len(s)
      BY <2>3
    <3> HIDE DEF B
    <3>2. QED  BY <2>2, <2>4, <2>5, <3>1, Zenon DEF Spares
  <2>7. d.at <= m
    BY <1>8, <2>1, <2>2, <2>6 DEF Spared
  <2>8. Held(u, sent[k], k, m - d.at, B) /\ m - d.at \in Nat
    <3> HIDE DEF B
    <3>1. QED  BY <1>9, <2>2, <2>3, <2>4, <2>5, <2>7
  <2>9. QED  BY <2>4, <2>8
<1>13. QED  BY <1>11, <1>12 DEF u

\* The bytes are where they were sent, but for the damages; and while these are fewer
\* than the shortest frame has bytes, what arrived whole is in the buffer still.
Kept ==
  /\ Traced(rx \o wire, sent, harm)
  /\ harm < 6 => Running(rx, sent, run) /\ DueHeld(rx, sent, due)

\* The next byte of the line, and what is in the buffer with it.
LEMMA NextByte ==
  ASSUME PInv, Kept, wire # <<>>, NEW b, NEW s, b = Head(wire), s = Append(rx, b)
  PROVE  /\ b \in Byte /\ (IsStray(b) \/ IsSent(b, sent))
         /\ s \in Seq(Byte) /\ Len(s) \in Nat /\ Tail(wire) \in Seq(Byte)
         /\ s \o Tail(wire) = rx \o wire
         /\ Traced(s, sent, harm) /\ Lined(s, sent, last)
<1> DEFINE w == Tail(wire)
           t == rx \o wire
<1>1. /\ rx \in Seq(Byte) /\ wire \in Seq(Byte) /\ sent \in Seq(Packets)
      /\ harm \in Nat /\ Traced(t, sent, harm) /\ Lined(t, sent, last)
  BY BoundsAssumption DEF PInv, Types, Kept
<1>2. b \in Byte /\ w \in Seq(Byte) /\ s \in Seq(Byte) /\ s \o w = t /\ Len(s) = Len(rx) + 1
  BY <1>1, LineShift
<1>3. Len(s) \in Nat /\ s[Len(s)] = b /\ Len(rx) \in Nat
  BY <1>1, <1>2, AppendProperties, LenProperties
<1> HIDE DEF w, t
<1>4. /\ Len(t) \in Nat /\ Len(s) <= Len(t) /\ \A i \in 1..Len(s) : i \in 1..Len(t) /\ s[i] = t[i]
  <2>1. /\ Len(t) = Len(s) + Len(w) /\ Len(w) \in Nat
        /\ \A i \in 1..Len(s) + Len(w) : i <= Len(s) => t[i] = s[i]
    BY <1>2, LineIs
  <2>2. \A i \in 1..Len(s) : i \in 1..Len(s) + Len(w) /\ i <= Len(s)
    BY <1>3, <2>1
  <2>3. QED  BY <1>3, <2>1, <2>2
<1>5. \A i \in 1..Len(s) : IsStray(s[i]) \/ IsSent(s[i], sent)
  BY <1>1, <1>4 DEF Traced
<1>6. Traced(s, sent, harm)
  BY <1>1, <1>4, <1>5 DEF Traced
<1>7. Lined(s, sent, last)
  <2>1. \A i \in 1..Len(s) :
          Crc1(s[i]) => s[i].id[1] \in last + 1..Len(sent) /\ s[i].of[1] = sent[s[i].id[1]]
    BY <1>1, <1>4, SMTT(30) DEF Lined
  <2>2. \A i, j \in 1..Len(s) :
          i < j /\ Crc1(s[i]) /\ Crc1(s[j]) => s[i].id[1] < s[j].id[1]
    BY <1>1, <1>4, SMTT(30) DEF Lined
  <2>3. QED  BY <1>2, <2>1, <2>2 DEF Lined
<1>8. IsStray(b) \/ IsSent(b, sent)
  <2>1. Len(s) \in 1..Len(s)
    BY <1>2, <1>3
  <2>2. QED  BY <1>3, <1>5, <2>1
<1>9. QED  BY <1>2, <1>3, <1>6, <1>7, <1>8 DEF w, t

LEMMA KeptWait ==
  ASSUME PInv, Kept, wire # <<>>, wire' = Tail(wire), Wait(Head(wire)), UNCHANGED <<sent, harm>>
  PROVE  Kept'
<1>1. PICK b, s : b = Head(wire) /\ s = Append(rx, b)
  OBVIOUS
<1>2. rx' = s /\ Took(b, <<>>) /\ sent' = sent /\ harm' = harm
  BY <1>1 DEF Wait
<1>3. /\ b \in Byte /\ (IsStray(b) \/ IsSent(b, sent))
      /\ s \in Seq(Byte) /\ Len(s) \in Nat /\ s \o Tail(wire) = rx \o wire
  BY <1>1, NextByte
<1>4. Traced(rx' \o wire', sent', harm')
  BY <1>2, <1>3 DEF Kept
<1>5. ASSUME harm < 6
      PROVE  Running(rx', sent', run') /\ DueHeld(rx', sent', due')
  <2> DEFINE d == [at |-> 0, pkts |-> <<>>]
  <2>1. Spares(d, s, sent)
    <3> SUFFICES ASSUME NEW k \in 1..Len(sent), NEW m, NEW r, Held(s, sent[k], k, m, r)
                 PROVE  Spared(d, k, m) /\ SparedPart(d, k, m)
      BY DEF Spares
    <3>1. 0 <= m
      BY DEF Held
    <3>2. QED  BY <3>1 DEF Spared, SparedPart
  <2>2. d.at \in 0..Len(s) /\ d.pkts \in Seq(Pkt) /\ d.pkts = <<>> /\ d.at = 0
    BY <1>3
  <2>3. Took(b, d.pkts)
    BY <1>2, <2>2, Zenon
  <2> HIDE DEF d
  <2>4. /\ Running(SubSeq(s, d.at + 1, Len(s)), sent, run')
        /\ DueHeld(SubSeq(s, d.at + 1, Len(s)), sent, due')
    BY <1>1, <1>3, <1>5, <2>1, <2>2, <2>3, TookKeeps DEF PInv, Kept
  <2>5. SubSeq(s, d.at + 1, Len(s)) = s
    BY <1>3, <2>2, SubSeqFull
  <2>6. QED  BY <1>2, <2>4, <2>5
<1>6. QED  BY <1>2, <1>4, <1>5 DEF Kept

LEMMA KeptLook ==
  ASSUME PInv, Kept, wire # <<>>, wire' = Tail(wire), Look(Head(wire)), UNCHANGED <<sent, harm>>
  PROVE  Kept'
<1>1. PICK b, s, d : b = Head(wire) /\ s = Append(rx, b) /\ d = Decode(s, FALSE)
  OBVIOUS
<1>2. rx' = SubSeq(s, d.at + 1, Len(s)) /\ Took(b, d.pkts) /\ sent' = sent /\ harm' = harm
  BY <1>1, Fits DEF Look
<1>3. /\ b \in Byte /\ (IsStray(b) \/ IsSent(b, sent))
      /\ s \in Seq(Byte) /\ Len(s) \in Nat /\ Tail(wire) \in Seq(Byte)
      /\ s \o Tail(wire) = rx \o wire
      /\ Traced(s, sent, harm) /\ Lined(s, sent, last)
  BY <1>1, NextByte
<1>4. d.at \in 0..Len(s) /\ d.pkts \in Seq(Pkt)
  <2>1. s = Append(rx, Head(wire)) /\ d = Decode(s, FALSE)
    BY <1>1
  <2>2. d \in [at : 0..Len(s), left : Nat, pkts : Seq(Pkt)]
    BY <2>1, Decoded
  <2>3. QED  BY <2>2
<1>5. harm \in Nat /\ sent \in Seq(Packets)
  BY BoundsAssumption DEF PInv, Types
<1>6. Traced(rx' \o wire', sent', harm')
  <2> PICK q, h, w : q = sent /\ h = harm /\ w = Tail(wire)
    OBVIOUS
  <2>1. /\ q \in Seq(Packets) /\ h \in Nat /\ w \in Seq(Byte) /\ Traced(s \o w, q, h)
    BY <1>3, <1>5 DEF Kept
  <2>2. Traced(SubSeq(s, d.at + 1, Len(s)) \o w, q, h + 0)
    BY <1>3, <1>4, <2>1, TracedDropped
  <2>3. h + 0 = h
    BY <2>1
  <2>4. QED  BY <1>2, <2>2, <2>3
<1>7. ASSUME harm < 6
      PROVE  Running(rx', sent', run') /\ DueHeld(rx', sent', due')
  <2>1. Spares(d, s, sent)
    <3> PICK q, h, l : q = sent /\ h = harm /\ l = last
      OBVIOUS
    <3>1. /\ q \in Seq(Packets) /\ h \in Nat /\ h < 6 /\ Traced(s, q, h) /\ Lined(s, q, l)
      BY <1>3, <1>5, <1>7
    <3>2. ASSUME NEW k \in 1..Len(q), NEW m, NEW r, Sendable(q[k]), Held(s, q[k], k, m, r),
                 r < BodyLen(q[k]) + 3 => m + r = Len(s)
          PROVE  Spared(d, k, m) /\ (r < BodyLen(q[k]) + 3 => SparedPart(d, k, m))
      <4>1. /\ Spared(Decode(s, FALSE), k, m)
            /\ r < BodyLen(q[k]) + 3 => SparedPart(Decode(s, FALSE), k, m)
        BY <1>3, <3>1, <3>2, Scan
      <4>2. QED  BY <1>1, <4>1, Zenon
    <3>3. QED  BY <3>2 DEF Spares
  <2>2. /\ Running(SubSeq(s, d.at + 1, Len(s)), sent, run')
        /\ DueHeld(SubSeq(s, d.at + 1, Len(s)), sent, due')
    BY <1>1, <1>2, <1>3, <1>4, <1>7, <2>1, TookKeeps DEF PInv, Kept
  <2>3. QED  BY <1>2, <2>2
<1>8. QED  BY <1>2, <1>6, <1>7 DEF Kept

LEMMA KeptSend ==
  ASSUME PInv, Kept, NEW p \in Packets, Send(p)
  PROVE  Kept'
<1>1. /\ sent' = Append(sent, p) /\ rx' = rx /\ harm' = harm /\ due' = due /\ run' = run
      /\ wire = <<>> /\ wire' = IF Sendable(p) THEN Frame(p, Len(sent) + 1) ELSE <<>>
  BY DEF Send
<1>2. /\ rx \in Seq(Byte) /\ sent \in Seq(Packets) /\ harm \in Nat /\ Len(sent) \in Nat
      /\ due \subseteq 1..Len(sent) /\ rx \o wire = rx /\ rx \o <<>> = rx
  BY <1>1, BoundsAssumption, LenProperties DEF PInv, Types
<1>3. /\ Traced(rx, sent', harm)
      /\ Sendable(p) => Traced(rx \o Frame(p, Len(sent) + 1), sent', harm)
  <2> PICK r, q, h : r = rx /\ q = sent /\ h = harm
    OBVIOUS
  <2>1. r \in Seq(Byte) /\ q \in Seq(Packets) /\ h \in Nat /\ Traced(r, q, h)
    BY <1>2 DEF Kept
  <2>2. /\ Traced(r, Append(q, p), h)
        /\ Sendable(p) => Traced(r \o Frame(p, Len(q) + 1), Append(q, p), h)
    BY <2>1, TracedSent
  <2>3. QED  BY <1>1, <2>2
<1>4. Traced(rx' \o wire', sent', harm')
  <2>1. CASE Sendable(p)
    BY <1>1, <1>3, <2>1
  <2>2. CASE ~Sendable(p)
    BY <1>1, <1>2, <1>3, <2>2
  <2>3. QED  BY <2>1, <2>2
<1>5. /\ Len(sent') = Len(sent) + 1 /\ \A k \in 1..Len(sent) : k \in 1..Len(sent') /\ sent'[k] = sent[k]
  BY <1>1, <1>2, AppendProperties
<1>6. Running(rx, sent, run) => Running(rx', sent', run')
  BY <1>1, <1>5 DEF Running, Arriving, Arrived
<1>7. DueHeld(rx, sent, due) => DueHeld(rx', sent', due')
  BY <1>1, <1>2, <1>5 DEF DueHeld
<1>8. QED  BY <1>1, <1>4, <1>6, <1>7 DEF Kept

LEMMA KeptDamage ==
  ASSUME PInv, Kept, NEW v \in Nat, Lose \/ Garble(v) \/ Insert(v)
  PROVE  Kept'
<1> DEFINE b == Stray(v)
<1>1. b \in Byte /\ IsStray(b)
  BY DEF Stray, Byte, IsStray
<1>2. /\ rx' = rx /\ sent' = sent /\ due' = due /\ run' = run /\ harm' = harm + 1
      /\ wire' \in {Tail(wire), <<b>> \o Tail(wire), <<b>> \o wire}
      /\ wire = <<>> => wire' = <<b>> \o wire
  BY DEF Lose, Garble, Insert, Damage
<1>3. /\ rx \in Seq(Byte) /\ wire \in Seq(Byte) /\ wire' \in Seq(Byte) /\ sent \in Seq(Packets)
      /\ harm \in Nat
  BY DamageStep, BoundsAssumption DEF PInv, Types
<1>4. \E c \in {-1, 0, 1} : \A i \in 1..Len(wire') :
        IsStray(wire'[i]) \/ (i + c \in 1..Len(wire) /\ wire'[i] = wire[i + c])
  <2> PICK w, x, y : w = wire /\ x = wire' /\ y = b
    OBVIOUS
  <2> HIDE DEF b
  <2>1. /\ w \in Seq(Byte) /\ x \in Seq(Byte) /\ Len(w) \in Nat /\ y \in Byte /\ IsStray(y)
    BY <1>1, <1>3, LenProperties
  <2>2. \A z \in Seq(Byte) :
          /\ Len(<<y>> \o z) = Len(z) + 1 /\ Len(z) \in Nat /\ (<<y>> \o z)[1] = y
          /\ \A i \in 2..Len(z) + 1 : (<<y>> \o z)[i] = z[i - 1]
    BY <2>1
  <2>3. ASSUME w # <<>>
        PROVE  /\ Tail(w) \in Seq(Byte) /\ Len(Tail(w)) = Len(w) - 1
               /\ \A i \in 1..Len(w) - 1 : Tail(w)[i] = w[i + 1]
    BY <2>1, <2>3, HeadTailProperties
  <2>4. CASE x = <<y>> \o w
    <3>1. Len(x) = Len(w) + 1 /\ x[1] = y /\ \A i \in 2..Len(w) + 1 : x[i] = w[i - 1]
      BY <2>1, <2>2, <2>4, Zenon
    <3>2. \A i \in 1..Len(x) :
            IsStray(x[i]) \/ (i + (-1) \in 1..Len(w) /\ x[i] = w[i + (-1)])
      <4> SUFFICES ASSUME NEW i \in 1..Len(x), i # 1
                   PROVE  i + (-1) \in 1..Len(w) /\ x[i] = w[i + (-1)]
        BY <2>1, <3>1
      <4>1. i \in 2..Len(w) + 1 /\ i + (-1) = i - 1 /\ i - 1 \in 1..Len(w)
        BY <2>1, <3>1
      <4>2. QED  BY <3>1, <4>1
    <3>3. QED  BY <3>2
  <2>5. CASE w # <<>> /\ x = Tail(w)
    <3>1. \A i \in 1..Len(x) : i + 1 \in 1..Len(w) /\ x[i] = w[i + 1]
      BY <2>1, <2>3, <2>5
    <3>2. QED  BY <3>1
  <2>6. CASE w # <<>> /\ x = <<y>> \o Tail(w)
    <3>1. /\ Len(x) = Len(Tail(w)) + 1 /\ x[1] = y
          /\ \A i \in 2..Len(Tail(w)) + 1 : x[i] = Tail(w)[i - 1]
      BY <2>2, <2>3, <2>6, Zenon
    <3>2. Len(x) = Len(w) /\ \A i \in 2..Len(w) : x[i] = w[i]
      <4>1. Len(x) = Len(w)
        BY <2>1, <2>3, <2>6, <3>1
      <4>2. ASSUME NEW i \in 2..Len(w) PROVE x[i] = w[i]
        <5>1. i - 1 \in 1..Len(w) - 1 /\ i \in 2..Len(Tail(w)) + 1 /\ (i - 1) + 1 = i
          BY <2>1, <2>3, <2>6
        <5>2. QED  BY <2>3, <2>6, <3>1, <5>1
      <4>3. QED  BY <4>1, <4>2
    <3>3. \A i \in 1..Len(x) : IsStray(x[i]) \/ (i + 0 \in 1..Len(w) /\ x[i] = w[i + 0])
      <4> SUFFICES ASSUME NEW i \in 1..Len(x), i # 1
                   PROVE  i + 0 \in 1..Len(w) /\ x[i] = w[i + 0]
        BY <2>1, <3>1
      <4>1. i \in 2..Len(w) /\ i + 0 = i /\ i \in 1..Len(w)
        BY <2>1, <3>2
      <4>2. QED  BY <3>2, <4>1
    <3>4. QED  BY <3>3
  <2>7. QED  BY <1>2, <2>4, <2>5, <2>6
<1>5. Traced(rx' \o wire', sent', harm')
  <2> PICK r, w, x, q, h : r = rx /\ w = wire /\ x = wire' /\ q = sent /\ h = harm
    OBVIOUS
  <2>1. /\ r \in Seq(Byte) /\ w \in Seq(Byte) /\ x \in Seq(Byte) /\ q \in Seq(Packets)
        /\ h \in Nat /\ Traced(r \o w, q, h)
    BY <1>3 DEF Kept
  <2>2. PICK c \in {-1, 0, 1} : \A i \in 1..Len(x) :
          IsStray(x[i]) \/ (i + c \in 1..Len(w) /\ x[i] = w[i + c])
    BY <1>4
  <2>3. Traced(r \o x, q, h + 1)
    BY <2>1, <2>2, TracedDamage, SMTT(30)
  <2>4. QED  BY <1>2, <2>3
<1>6. harm' < 6 => harm < 6
  BY <1>2, <1>3
<1>7. QED  BY <1>2, <1>5, <1>6 DEF Kept

\* The buffer is emptied by a damage.
LEMMA KeptEmptied ==
  ASSUME Kept, NEW s \in Seq(Byte), NEW w \in Seq(Byte), s \o w = rx \o wire,
         sent \in Seq(Packets), harm \in Nat, rx' = <<>>, wire' = w, sent' = sent,
         harm' = harm + 1, run' = <<0, 0>>, due' = {}
  PROVE  Kept'
<1>1. Traced(rx' \o wire', sent', harm')
  <2> PICK q, h : q = sent /\ h = harm
    OBVIOUS
  <2>1. q \in Seq(Packets) /\ h \in Nat /\ Traced(s \o w, q, h) /\ Len(s) \in 0..Len(s)
    BY LenProperties DEF Kept
  <2>2. 1 \in Nat
    OBVIOUS
  <2>3. Traced(SubSeq(s, Len(s) + 1, Len(s)) \o w, q, h + 1)
    BY <2>1, <2>2, TracedDropped
  <2>4. SubSeq(s, Len(s) + 1, Len(s)) = <<>>
    BY <2>1, SubSeqEmpty
  <2>5. QED  BY <2>3, <2>4
<1>2. Running(rx', sent', run') /\ DueHeld(rx', sent', due')
  BY DEF Running, Arriving, DueHeld
<1>3. QED  BY <1>1, <1>2 DEF Kept

LEMMA KeptStep ==
  ASSUME PInv, Kept, [Next]_vars
  PROVE  Kept'
<1>0. rx \in Seq(Byte) /\ wire \in Seq(Byte) /\ sent \in Seq(Packets) /\ harm \in Nat
  BY BoundsAssumption DEF PInv, Types
<1>1. ASSUME NEW p \in Packets, Send(p) PROVE Kept'
  BY <1>1, KeptSend
<1>2. CASE ProcessByte
  <2>1. CASE Wait(Head(wire))
    BY <1>2, <2>1, KeptWait DEF ProcessByte
  <2>2. CASE Look(Head(wire))
    BY <1>2, <2>2, KeptLook DEF ProcessByte
  <2>3. QED  BY <1>2, <2>1, <2>2 DEF ProcessByte
<1>3. ASSUME NEW v \in Noise, Garble(v) \/ Insert(v) PROVE Kept'
  <2>1. v \in Nat
    BY BytesAssumption, BaseAssumption
  <2>2. QED  BY <1>3, <2>1, KeptDamage
<1>4. CASE Lose
  <2>1. 0 \in Nat
    OBVIOUS
  <2>2. QED  BY <1>4, <2>1, KeptDamage
<1>5. CASE Restart
  <2>1. /\ rx' = <<>> /\ wire' = wire /\ sent' = sent /\ harm' = harm + 1
        /\ run' = <<0, 0>> /\ due' = {}
    BY <1>5 DEF Restart, Restarted
  <2> PICK s, w : s = rx /\ w = wire
    OBVIOUS
  <2>2. s \in Seq(Byte) /\ w \in Seq(Byte) /\ s \o w = rx \o wire /\ wire' = w
    BY <1>0, <2>1
  <2>3. QED  BY <1>0, <2>1, <2>2, KeptEmptied
<1>6. CASE ProcessRestart
  <2>1. /\ rx' = <<>> /\ wire # <<>> /\ wire' = Tail(wire) /\ sent' = sent /\ harm' = harm + 1
        /\ run' = <<0, 0>> /\ due' = {}
    BY <1>6 DEF ProcessRestart, Restarted
  <2> PICK s, w : s = Append(rx, Head(wire)) /\ w = Tail(wire)
    OBVIOUS
  <2>2. s \in Seq(Byte) /\ w \in Seq(Byte) /\ s \o w = rx \o wire /\ wire' = w
    BY <2>1, NextByte
  <2>3. QED  BY <1>0, <2>1, <2>2, KeptEmptied
<1>7. CASE UNCHANGED vars
  BY <1>7 DEF vars, Kept
<1>8. QED  BY <1>1, <1>2, <1>3, <1>4, <1>5, <1>6, <1>7 DEF Next

LEMMA HeldIsFrame ==
  ASSUME NEW s \in Seq(Byte), NEW p \in Packets, NEW k \in Nat, NEW m,
         Held(s, p, k, m, BodyLen(p) + 3)
  PROVE  /\ m \in 0..Len(s) /\ m + Len(Frame(p, k)) <= Len(s)
         /\ SubSeq(s, m + 1, m + Len(Frame(p, k))) = Frame(p, k)
<1> DEFINE F == Frame(p, k)
           n == BodyLen(p) + 3
           g == m + 1
           e == m + n
           u == SubSeq(s, g, e)
<1>1. F \in Seq(Byte) /\ Len(F) = n /\ n \in Nat /\ Len(s) \in Nat
  BY FrameIs, LenProperties
<1> HIDE DEF F, n
<1>2. m \in Nat /\ m + n <= Len(s) /\ \A i \in 1..n : s[m + i] = F[i]
  BY DEF Held, F, n
<1>3. g \in Int /\ e \in Int /\ \A i \in g..e : s[i] \in Byte
  <2>1. \A i \in g..e : i \in 1..Len(s)
    BY <1>1, <1>2
  <2>2. QED  BY <1>1, <1>2, <2>1, ElementOfSeq
<1>4. \A i \in 1..n : m + 1 + i - 1 = m + i /\ i \in 1..e - g + 1
  BY <1>1, <1>2
<1>5. (g <= e => e - g + 1 = n) /\ (~(g <= e) => n = 0)
  BY <1>1, <1>2
<1> HIDE DEF g, e
<1>6. /\ u \in Seq(Byte) /\ Len(u) = IF g <= e THEN e - g + 1 ELSE 0
      /\ \A i \in 1..e - g + 1 : u[i] = s[g + i - 1]
  BY <1>3, SubSeqProperties
<1>7. Len(u) = n
  BY <1>5, <1>6
<1>8. \A i \in 1..n : u[i] = F[i]
  <2>1. \A i \in 1..n : g + i - 1 = m + i
    BY <1>4 DEF g
  <2> HIDE DEF u
  <2>2. QED  BY <1>2, <1>4, <1>6, <2>1
<1> HIDE DEF u
<1>9. u = F
  BY <1>1, <1>6, <1>7, <1>8, SeqEqual
<1>10. m \in 0..Len(s)
  BY <1>1, <1>2
<1>11. QED  BY <1>1, <1>2, <1>9, <1>10 DEF u, g, e, F, n

\* A packet all of whose bytes arrived is never skipped by packet_process_byte, however
\* the bytes around it are damaged, as long as there are fewer damages than the shortest
\* frame has bytes: NoneSkipped.
THEOREM NoneIsSkipped == Spec => []NoneSkipped
<1>1. Init => Kept
  <2> SUFFICES ASSUME Init PROVE Kept
    OBVIOUS
  <2>1. rx \o wire = <<>> /\ Len(<<>>) = 0 /\ run = <<0, 0>> /\ due = {}
    BY DEF Init
  <2>2. QED  BY <2>1 DEF Kept, Traced, Running, Arriving, DueHeld
<1>2. PInv /\ Kept /\ [Next]_vars => Kept'
  BY KeptStep
<1>3. PInv /\ Kept => NoneSkipped
  <2> SUFFICES ASSUME PInv, Kept, harm < 6, NEW k \in due
               PROVE  \E i \in 0..Len(rx) :
                        /\ i + Len(Frame(sent[k], k)) <= Len(rx)
                        /\ SubSeq(rx, i + 1, i + Len(Frame(sent[k], k))) = Frame(sent[k], k)
    BY DEF NoneSkipped, ShortestFrame
  <2>1. /\ rx \in Seq(Byte) /\ sent \in Seq(Packets) /\ k \in 1..Len(sent) /\ Len(sent) \in Nat
    BY LenProperties DEF PInv, Types
  <2>2. sent[k] \in Packets /\ k \in Nat
    BY <2>1, ElementOfSeq
  <2>3. PICK m \in Nat : Held(rx, sent[k], k, m, BodyLen(sent[k]) + 3)
    BY DEF Kept, DueHeld
  <2> PICK s, p : s = rx /\ p = sent[k]
    OBVIOUS
  <2>4. s \in Seq(Byte) /\ p \in Packets /\ Held(s, p, k, m, BodyLen(p) + 3)
    BY <2>1, <2>2, <2>3
  <2>5. /\ m \in 0..Len(s) /\ m + Len(Frame(p, k)) <= Len(s)
        /\ SubSeq(s, m + 1, m + Len(Frame(p, k))) = Frame(p, k)
    BY <2>2, <2>4, HeldIsFrame
  <2>6. QED  BY <2>5
<1>4. QED  BY <1>1, <1>2, <1>3, PacketInvariant, PTL DEF Spec
=============================================================================
