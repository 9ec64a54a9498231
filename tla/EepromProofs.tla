---------------------------- MODULE EepromProofs ----------------------------
(***************************************************************************)
(* Proofs about the EEPROM emulation: its types, that it implements the    *)
(* store of EepromStore, and that between two routines a read returns what *)
(* is stored.                                                              *)
(***************************************************************************)
EXTENDS Eeprom, SequenceTheorems, WellFoundedInduction, TLAPS

-----------------------------------------------------------------------------
(* Numbers and pages *)

LEMMA LeastNat ==
  ASSUME NEW B, B \subseteq Nat, B # {}
  PROVE  \E b \in B : \A c \in B : b <= c
<1>1. PICK b \in B : \A c \in B : ~ (<<c, b>> \in OpToRel(<, Nat))
  BY WFMin, NatLessThanWellFounded
<1>2. \A c \in B : ~ (c < b)
  BY <1>1 DEF OpToRel
<1>3. QED  BY <1>2

LEMMA LeastIs ==
  ASSUME NEW B, B \subseteq Nat, B # {}
  PROVE  Min(B) \in B /\ \A c \in B : Min(B) <= c
BY LeastNat DEF Min

LEMMA GreatestIs ==
  ASSUME NEW n \in Nat, NEW B, B \subseteq 1..n, B # {}
  PROVE  Max(B) \in B /\ \A c \in B : c <= Max(B)
<1> DEFINE C == {n - b : b \in B}
<1>1. C \subseteq Nat /\ C # {}
  <2>1. \A b \in B : n - b \in Nat
    OBVIOUS
  <2>2. QED  BY <2>1
<1>2. PICK d \in C : \A c \in C : d <= c
  BY <1>1, LeastNat
<1>3. PICK m \in B : d = n - m
  OBVIOUS
<1>4. \A c \in B : c <= m
  <2> SUFFICES ASSUME NEW c \in B PROVE c <= m
    OBVIOUS
  <2>1. n - m <= n - c
    BY <1>2, <1>3
  <2>2. m \in 1..n /\ c \in 1..n
    OBVIOUS
  <2> HIDE DEF C
  <2>3. QED  BY <2>1, <2>2
<1>5. \E x \in B : \A y \in B : x >= y
  <2>1. \A y \in B : y \in Int /\ m \in Int
    OBVIOUS
  <2>2. QED  BY <1>4, <2>1
<1>6. Max(B) \in B /\ \A y \in B : Max(B) >= y
  BY <1>5, Zenon DEF Max
<1>7. PICK x \in B : x = Max(B)
  BY <1>6
<1>8. x \in Int /\ \A y \in B : y \in Int
  OBVIOUS
<1>9. \A y \in B : y <= x
  BY <1>6, <1>7, <1>8
<1>10. QED  BY <1>6, <1>7, <1>9

LEMMA OtherIs ==
  ASSUME NEW p \in Pages
  PROVE  /\ Other(p) \in Pages /\ Other(p) # p /\ Other(Other(p)) = p
         /\ \A q \in Pages : q = p \/ q = Other(p)
BY DEF Pages, Other

-----------------------------------------------------------------------------
(* The last value of a variable in the slots of a page *)

\* LastIn of a page with the slots s.
LastOf(s, v) ==
  LET hits == {i \in DOMAIN s : s[i].var = v}
  IN  IF hits = {} THEN None ELSE s[Max(hits)].dat

LEMMA LastInIs ==
  \A p, v : /\ LastIn(p, v) = LastOf(page[p].slots, v)
            /\ LastIn(p, v)' = LastOf(page'[p].slots, v)
BY DEF LastIn, LastOf

\* The last slot with the address v is the k-th.
LastAt(s, v, k) ==
  k \in 1..Len(s) /\ s[k].var = v /\ \A i \in 1..Len(s) : s[i].var = v => i <= k

LEMMA LastIs ==
  ASSUME NEW s \in Seq(Slot), NEW v
  PROVE  /\ (\E k : LastAt(s, v, k)) \/ \A i \in 1..Len(s) : s[i].var # v
         /\ \A k : LastAt(s, v, k) => LastOf(s, v) = s[k].dat /\ LastOf(s, v) \in Values
         /\ (\A i \in 1..Len(s) : s[i].var # v) => LastOf(s, v) = None
<1> DEFINE hits == {i \in DOMAIN s : s[i].var = v}
<1>1. Len(s) \in Nat /\ DOMAIN s = 1..Len(s) /\ \A i \in 1..Len(s) : s[i] \in Slot
  BY LenProperties, ElementOfSeq
<1>2. hits \subseteq 1..Len(s)
  BY <1>1
<1>3. LastOf(s, v) = IF hits = {} THEN None ELSE s[Max(hits)].dat
  BY DEF LastOf
<1>4. CASE hits = {}
  <2>1. \A i \in 1..Len(s) : s[i].var # v
    BY <1>1, <1>4
  <2>2. QED  BY <1>3, <1>4, <2>1 DEF LastAt
<1>5. CASE hits # {}
  <2>1. PICK m : m = Max(hits)
    OBVIOUS
  <2>2. m \in hits /\ \A c \in hits : c <= m
    BY <1>1, <1>2, <1>5, <2>1, GreatestIs
  <2>3. LastAt(s, v, m)
    BY <1>1, <2>2 DEF LastAt
  <2>4. \A k : LastAt(s, v, k) => k = m
    <3> SUFFICES ASSUME NEW k, LastAt(s, v, k) PROVE k = m
      OBVIOUS
    <3>1. k \in 1..Len(s) /\ m \in 1..Len(s) /\ k <= m /\ m <= k
      BY <1>1, <2>2, <2>3 DEF LastAt
    <3>2. QED  BY <1>1, <3>1
  <2>5. LastOf(s, v) = s[m].dat /\ s[m].dat \in Values
    BY <1>1, <1>3, <1>5, <2>1, <2>2 DEF Slot
  <2>6. ~ \A i \in 1..Len(s) : s[i].var # v
    BY <2>3 DEF LastAt
  <2>7. QED  BY <2>3, <2>4, <2>5, <2>6
<1>6. QED  BY <1>4, <1>5

\* Slots whose address is another do not count.
LEMMA SameLast ==
  ASSUME NEW s \in Seq(Slot), NEW t \in Seq(Slot), NEW v, Len(s) <= Len(t),
         \A i \in 1..Len(s) : /\ t[i].var = v <=> s[i].var = v
                              /\ s[i].var = v => t[i].dat = s[i].dat,
         \A i \in 1..Len(t) : i > Len(s) => t[i].var # v
  PROVE  LastOf(t, v) = LastOf(s, v)
<1>1. Len(s) \in Nat /\ Len(t) \in Nat
  BY LenProperties
<1>2. CASE \E k : LastAt(s, v, k)
  <2>1. PICK k : LastAt(s, v, k)
    BY <1>2
  <2>2. k \in 1..Len(s) /\ k \in 1..Len(t) /\ t[k].var = v /\ t[k].dat = s[k].dat
    BY <1>1, <2>1 DEF LastAt
  <2>3. \A i \in 1..Len(t) : t[i].var = v => i <= k
    <3> SUFFICES ASSUME NEW i \in 1..Len(t), t[i].var = v PROVE i <= k
      OBVIOUS
    <3>1. i \in 1..Len(s)
      BY <1>1
    <3>2. QED  BY <2>1, <3>1 DEF LastAt
  <2>4. LastAt(t, v, k)
    BY <2>2, <2>3 DEF LastAt
  <2>5. QED  BY <2>1, <2>2, <2>4, LastIs
<1>3. CASE \A i \in 1..Len(s) : s[i].var # v
  <2>1. \A i \in 1..Len(t) : t[i].var # v
    <3> SUFFICES ASSUME NEW i \in 1..Len(t) PROVE t[i].var # v
      OBVIOUS
    <3>1. i \in 1..Len(s) \/ i > Len(s)
      BY <1>1
    <3>2. QED  BY <1>3, <3>1
  <2>2. QED  BY <1>3, <2>1, LastIs
<1>4. QED  BY <1>2, <1>3, LastIs

\* A slot without its address yet.
Torn(d) == [dat |-> d, var |-> None]

LEMMA TornAppended ==
  ASSUME NEW s \in Seq(Slot), NEW d \in Values
  PROVE  LET t == Append(s, Torn(d))
         IN  /\ t \in Seq(Slot) /\ Len(t) = Len(s) + 1 /\ t # <<>>
             /\ \A i \in 1..Len(s) : t[i] = s[i]
             /\ t[Len(t)] = Torn(d) /\ t[Len(s) + 1] = Torn(d)
             /\ \A v \in Vars : LastOf(t, v) = LastOf(s, v)
<1> DEFINE t == Append(s, Torn(d))
<1>1. Torn(d) \in Slot /\ Torn(d).var = None
  BY DEF Torn, Slot
<1>2. /\ t \in Seq(Slot) /\ Len(t) = Len(s) + 1 /\ Len(s) \in Nat
      /\ \A i \in 1..Len(s) : t[i] = s[i]
      /\ t[Len(s) + 1] = Torn(d)
  BY <1>1, AppendProperties, LenProperties
<1> HIDE DEF t
<1>3. t # <<>>
  BY <1>2, EmptySeq
<1>4. \A v \in Vars : LastOf(t, v) = LastOf(s, v)
  <2> SUFFICES ASSUME NEW v \in Vars PROVE LastOf(t, v) = LastOf(s, v)
    OBVIOUS
  <2>1. v # None
    BY NoneAssumption
  <2>2. \A i \in 1..Len(t) : i > Len(s) => t[i].var # v
    BY <1>1, <1>2, <2>1
  <2>3. QED  BY <1>2, <2>2, SameLast
<1>5. QED  BY <1>2, <1>3, <1>4 DEF t

LEMMA TornAddressed ==
  ASSUME NEW s \in Seq(Slot), s # <<>>, NEW d, s[Len(s)] = Torn(d), NEW w \in Vars
  PROVE  LET t == Addressed(s, w)
         IN  /\ t \in Seq(Slot) /\ Len(t) = Len(s) /\ t # <<>>
             /\ \A i \in 1..Len(s) : i # Len(s) => t[i] = s[i]
             /\ t[Len(s)].var = w /\ t[Len(s)].dat = d
             /\ LastOf(t, w) = d
             /\ \A v \in Vars : v # w => LastOf(t, v) = LastOf(s, v)
<1> DEFINE n == Len(s)
           t == Addressed(s, w)
           e == [s[n] EXCEPT !.var = w]
<1>1. n \in Nat /\ n > 0 /\ n \in 1..n /\ \A i \in 1..n : s[i] \in Slot
  BY LenProperties, ElementOfSeq, EmptySeq
<1>2. e \in Slot /\ e.var = w /\ e.dat = d
  BY <1>1 DEF Slot, Torn
<1>3. t = [s EXCEPT ![n] = e]
  BY DEF Addressed
<1> HIDE DEF e
<1>4. t \in Seq(Slot) /\ Len(t) = n /\ t[n] = e /\ \A i \in 1..n : i # n => t[i] = s[i]
  BY <1>1, <1>2, <1>3, ExceptSeq
<1> HIDE DEF t
<1>5. t # <<>>
  BY <1>1, <1>4, EmptySeq
<1>6. LastOf(t, w) = d
  <2>1. LastAt(t, w, n)
    BY <1>1, <1>2, <1>4 DEF LastAt
  <2>2. QED  BY <1>2, <1>4, <2>1, LastIs
<1>7. \A v \in Vars : v # w => LastOf(t, v) = LastOf(s, v)
  <2> SUFFICES ASSUME NEW v \in Vars, v # w PROVE LastOf(t, v) = LastOf(s, v)
    OBVIOUS
  <2>1. s[n].var # v /\ t[n].var # v
    BY <1>2, <1>4, NoneAssumption DEF Torn
  <2>2. \A i \in 1..n : /\ t[i].var = v <=> s[i].var = v
                        /\ s[i].var = v => t[i].dat = s[i].dat
    BY <1>4, <2>1
  <2>3. \A i \in 1..Len(t) : i > n => t[i].var # v
    BY <1>1, <1>4
  <2>4. QED  BY <1>1, <1>4, <2>2, <2>3, SameLast
<1>8. QED  BY <1>2, <1>4, <1>5, <1>6, <1>7 DEF t

\* What is left of the slots s after a power loss.
CutOf(s) == IF s # <<>> /\ Unprogrammed(Last(s)) THEN Front(s) ELSE s

\* The first slot has the address v: its page takes v over.
First(s, v) == s # <<>> /\ s[1].var = v

LEMMA CutIs ==
  ASSUME NEW s \in Seq(Slot)
  PROVE  LET t == CutOf(s)
         IN  /\ t \in Seq(Slot) /\ Len(t) <= Len(s) /\ \A i \in 1..Len(t) : t[i] = s[i]
             /\ \A v \in Vars : LastOf(t, v) = LastOf(s, v)
             /\ \A v \in Vars : First(t, v) <=> First(s, v)
             /\ s = <<>> => t = <<>>
<1> DEFINE t == CutOf(s)
           n == Len(s)
<1>1. CASE ~(s # <<>> /\ Unprogrammed(Last(s)))
  <2>1. t = s
    BY <1>1 DEF CutOf
  <2>2. Len(s) \in Nat
    BY LenProperties
  <2>3. QED  BY <2>1, <2>2
<1>2. CASE s # <<>> /\ Unprogrammed(Last(s))
  <2>1. t = SubSeq(s, 1, n - 1)
    BY <1>2 DEF CutOf, Front
  <2>2. n \in Nat /\ n > 0 /\ s[n].var = None
    BY <1>2, LenProperties, EmptySeq DEF Unprogrammed, Last
  <2>3. t \in Seq(Slot) /\ Len(t) = n - 1 /\ \A i \in 1..n - 1 : t[i] = s[i]
    <3>1. \A i \in 1..n : s[i] \in Slot
      BY ElementOfSeq
    <3>2. \A i \in 1..n - 1 : s[i] \in Slot
      BY <2>2, <3>1
    <3>3. PICK k \in Nat : k = n - 1
      BY <2>2
    <3>4. \A i \in 1..k : s[i] \in Slot
      BY <3>2, <3>3
    <3>5. /\ SubSeq(s, 1, k) \in Seq(Slot)
          /\ Len(SubSeq(s, 1, k)) = IF 1 <= k THEN k - 1 + 1 ELSE 0
          /\ \A i \in 1..k - 1 + 1 : SubSeq(s, 1, k)[i] = s[1 + i - 1]
      BY <3>4, SubSeqProperties
    <3>6. k - 1 + 1 = k /\ (IF 1 <= k THEN k - 1 + 1 ELSE 0) = k /\ \A i \in 1..k : 1 + i - 1 = i
      OBVIOUS
    <3>7. t = SubSeq(s, 1, k)
      BY <2>1, <3>3
    <3> HIDE DEF t, n
    <3>8. QED  BY <3>3, <3>5, <3>6, <3>7
  <2> HIDE DEF t
  <2>4. \A v \in Vars : LastOf(t, v) = LastOf(s, v)
    <3> SUFFICES ASSUME NEW v \in Vars PROVE LastOf(t, v) = LastOf(s, v)
      OBVIOUS
    <3>1. \A i \in 1..n : i > n - 1 => s[i].var # v
      BY <2>2, NoneAssumption
    <3>2. Len(t) <= n
      BY <2>2, <2>3
    <3>3. QED  BY <2>3, <3>1, <3>2, SameLast
  <2>5. \A v \in Vars : First(t, v) <=> First(s, v)
    <3> SUFFICES ASSUME NEW v \in Vars PROVE First(t, v) <=> First(s, v)
      OBVIOUS
    <3>1. CASE n = 1
      <4>1. t = <<>> /\ s[1].var # v
        BY <2>2, <2>3, <3>1, EmptySeq, NoneAssumption
      <4>2. QED  BY <4>1 DEF First
    <3>2. CASE n > 1
      <4>1. t # <<>> /\ t[1] = s[1]
        BY <2>2, <2>3, <3>2, EmptySeq
      <4>2. QED  BY <1>2, <4>1 DEF First
    <3>3. n = 1 \/ n > 1
      <4> HIDE DEF n
      <4>1. n \in Nat /\ n > 0
        BY <2>2
      <4>2. QED  BY <4>1
    <3>4. QED  BY <3>1, <3>2, <3>3
  <2>6. QED  BY <1>2, <2>2, <2>3, <2>4, <2>5 DEF t
<1>3. QED  BY <1>1, <1>2

\* The slots s of a page that is filled from one with the slots t: behind the first
\* there are copies only, and none of the variable of the first.
Kept(s, t) ==
  \A i \in 1..Len(s) : i > 1 /\ s[i].var # None =>
    s[i].var # s[1].var /\ s[i].dat = LastOf(t, s[i].var)

LEMMA KeptReads ==
  ASSUME NEW s \in Seq(Slot), NEW t, Kept(s, t), NEW v \in Vars, ~First(s, v)
  PROVE  LastOf(s, v) \in {None, LastOf(t, v)}
<1>1. v # None /\ Len(s) \in Nat
  BY NoneAssumption, LenProperties
<1>2. ASSUME NEW k, LastAt(s, v, k) PROVE LastOf(s, v) = LastOf(t, v)
  <2>1. k \in 1..Len(s) /\ s[k].var = v
    BY <1>2 DEF LastAt
  <2>2. k # 1
    BY <1>1, <2>1, EmptySeq DEF First
  <2>3. s[k].dat = LastOf(t, v)
    BY <1>1, <2>1, <2>2 DEF Kept
  <2>4. QED  BY <1>2, <2>3, LastIs
<1>3. QED  BY <1>2, LastIs

LEMMA KeptTorn ==
  ASSUME NEW s \in Seq(Slot), NEW t, Kept(s, t), NEW d \in Values
  PROVE  Kept(Append(s, Torn(d)), t)
<1> DEFINE u == Append(s, Torn(d))
<1>1. /\ Len(u) = Len(s) + 1 /\ \A i \in 1..Len(s) : u[i] = s[i]
      /\ u[Len(s) + 1] = Torn(d) /\ Len(s) \in Nat
  BY TornAppended, LenProperties
<1> HIDE DEF u
<1>2. ASSUME NEW i \in 1..Len(u), i > 1, u[i].var # None
      PROVE  u[i].var # u[1].var /\ u[i].dat = LastOf(t, u[i].var)
  <2>1. i \in 1..Len(s) /\ 1 \in 1..Len(s)
    BY <1>1, <1>2 DEF Torn
  <2>2. u[i] = s[i] /\ u[1] = s[1]
    BY <1>1, <2>1
  <2>3. QED  BY <1>2, <2>1, <2>2 DEF Kept
<1>3. Kept(u, t)
  BY <1>2 DEF Kept
<1>4. QED  BY <1>3 DEF u

LEMMA KeptAddressed ==
  ASSUME NEW s \in Seq(Slot), NEW t, Kept(s, t), s # <<>>, NEW w \in Vars, ~First(s, w),
         s[Len(s)] = Torn(LastOf(t, w))
  PROVE  Kept(Addressed(s, w), t)
<1> DEFINE u == Addressed(s, w)
<1>1. /\ Len(u) = Len(s) /\ \A i \in 1..Len(s) : i # Len(s) => u[i] = s[i]
      /\ u[Len(s)].var = w /\ u[Len(s)].dat = LastOf(t, w) /\ Len(s) \in Nat
  BY TornAddressed, LenProperties
<1> HIDE DEF u
<1>2. ASSUME NEW i \in 1..Len(u), i > 1, u[i].var # None
      PROVE  u[i].var # u[1].var /\ u[i].dat = LastOf(t, u[i].var)
  <2>1. u[1] = s[1] /\ 1 \in 1..Len(s) /\ i \in 1..Len(s)
    BY <1>1, <1>2
  <2>2. CASE i = Len(s)
    BY <1>1, <2>1, <2>2 DEF First
  <2>3. CASE i # Len(s)
    BY <1>1, <1>2, <2>1, <2>3 DEF Kept
  <2>4. QED  BY <2>2, <2>3
<1>3. Kept(u, t)
  BY <1>2 DEF Kept
<1>4. QED  BY <1>3 DEF u

LEMMA KeptCut ==
  ASSUME NEW s \in Seq(Slot), NEW t \in Seq(Slot), Kept(s, t)
  PROVE  Kept(CutOf(s), CutOf(t))
<1> DEFINE u == CutOf(s)
           x == CutOf(t)
<1>1. /\ u \in Seq(Slot) /\ Len(u) <= Len(s) /\ \A i \in 1..Len(u) : u[i] = s[i]
      /\ \A v \in Vars : LastOf(x, v) = LastOf(t, v)
      /\ Len(s) \in Nat /\ Len(u) \in Nat
  BY CutIs, LenProperties
<1>2. \A i \in 1..Len(s) : s[i].var \in Vars \cup {None}
  <2>1. \A i \in 1..Len(s) : s[i] \in Slot
    BY ElementOfSeq
  <2>2. QED  BY <2>1 DEF Slot
<1> HIDE DEF u, x
<1>3. ASSUME NEW i \in 1..Len(u), i > 1, u[i].var # None
      PROVE  u[i].var # u[1].var /\ u[i].dat = LastOf(x, u[i].var)
  <2>1. i \in 1..Len(s) /\ 1 \in 1..Len(u) /\ u[i] = s[i] /\ u[1] = s[1]
    BY <1>1, <1>3
  <2>2. s[i].var # s[1].var /\ s[i].dat = LastOf(t, s[i].var)
    BY <1>3, <2>1 DEF Kept
  <2>3. QED  BY <1>1, <1>2, <1>3, <2>1, <2>2
<1>4. Kept(u, x)
  BY <1>3 DEF Kept
<1>5. QED  BY <1>4 DEF u, x

LEMMA KeptShort ==
  ASSUME NEW s, NEW t, Len(s) \in {0, 1}
  PROVE  Kept(s, t)
BY DEF Kept

-----------------------------------------------------------------------------
(* The pages pg: which one is read, which one is written, and what is stored *)

PageTypes(pg) ==
  pg \in [Pages -> [status : {"erased", "receive", "valid"}, slots : Seq(Slot)]]

Plain(pg, p) == pg[p].status = "valid" /\ pg[Other(p)].status = "erased"
Moving(pg, p) == pg[p].status = "receive" /\ pg[Other(p)].status = "valid"
Moved(pg, p) == pg[p].status = "receive" /\ pg[Other(p)].status = "erased"
Both(pg) == \A p \in Pages : pg[p].status = "valid"
Blanks(pg) == \A p \in Pages : pg[p].status = "erased"

ReadPageOf(pg) == IF pg[0].status = "valid" THEN 0
                  ELSE IF pg[1].status = "valid" THEN 1 ELSE None
WritePageOf(pg) ==
  IF pg[1].status = "valid" THEN IF pg[0].status = "receive" THEN 0 ELSE 1
  ELSE IF pg[0].status = "valid" THEN IF pg[1].status = "receive" THEN 1 ELSE 0
  ELSE None

ReceiverOf(pg) == {p \in Pages : pg[p].status = "receive"}
StoredOf(pg, n, v) ==
  IF \E p \in ReceiverOf(pg) :
       pg[Other(p)].status = "erased" \/ (pg[p].slots # <<>> /\ Head(pg[p].slots).var = v)
  THEN LastOf(pg[CHOOSE p \in ReceiverOf(pg) : TRUE].slots, v)
  ELSE IF {pg[0].status, pg[1].status} = {"valid", "valid"} THEN LastOf(pg[n].slots, v)
  ELSE IF ReadPageOf(pg) = None THEN None ELSE LastOf(pg[ReadPageOf(pg)].slots, v)

LEMMA PagesAre ==
  /\ ReadPage = ReadPageOf(page) /\ ReadPage' = ReadPageOf(page')
  /\ WritePage = WritePageOf(page) /\ WritePage' = WritePageOf(page')
BY DEF ReadPage, ReadPageOf, WritePage, WritePageOf

LEMMA ReadIs ==
  \A v : /\ ReadVariable(v) = IF ReadPageOf(page) = None THEN None
                              ELSE LastOf(page[ReadPageOf(page)].slots, v)
         /\ ReadVariable(v)' = IF ReadPageOf(page') = None THEN None
                               ELSE LastOf(page'[ReadPageOf(page')].slots, v)
BY LastInIs, PagesAre DEF ReadVariable

LEMMA StoredOfIs ==
  \A v : /\ Stored(v) = StoredOf(page, op.new, v)
         /\ Stored(v)' = StoredOf(page', op'.new, v)
BY Zenon DEF Stored, StoredOf, Takes, Statuses, LastIn, LastOf, Receiver, ReceiverOf,
             ReadVariable, ReadPage, ReadPageOf

LEMMA ReadingIs ==
  ASSUME NEW pg, NEW p \in Pages
  PROVE  /\ Plain(pg, p) => ReadPageOf(pg) = p /\ WritePageOf(pg) = p
         /\ Moving(pg, p) => ReadPageOf(pg) = Other(p) /\ WritePageOf(pg) = p
         /\ p # None /\ Other(p) # None
<1>1. p \in {0, 1} /\ Other(0) = 1 /\ Other(1) = 0 /\ None \notin {0, 1}
  BY NoneAssumption DEF Pages, Other
<1>2. QED  BY <1>1 DEF Plain, Moving, ReadPageOf, WritePageOf

LEMMA StoredIs ==
  ASSUME NEW pg, PageTypes(pg), NEW p \in Pages, NEW n, NEW v
  PROVE  /\ Plain(pg, p) => StoredOf(pg, n, v) = LastOf(pg[p].slots, v)
         /\ Moving(pg, p) => StoredOf(pg, n, v) =
              IF First(pg[p].slots, v) THEN LastOf(pg[p].slots, v)
              ELSE LastOf(pg[Other(p)].slots, v)
         /\ Moved(pg, p) => StoredOf(pg, n, v) = LastOf(pg[p].slots, v)
         /\ Both(pg) => StoredOf(pg, n, v) = LastOf(pg[n].slots, v)
         /\ Blanks(pg) => StoredOf(pg, n, v) = None
<1>1. p \in {0, 1} /\ Other(0) = 1 /\ Other(1) = 0 /\ Pages = {0, 1} /\ None \notin {0, 1}
  BY NoneAssumption DEF Pages, Other
<1>2. Other(p) \in Pages /\ \A q \in Pages : q = p \/ q = Other(p)
  BY OtherIs
<1>3. CASE Plain(pg, p)
  <2>1. ReceiverOf(pg) = {} /\ ReadPageOf(pg) = p /\ ReadPageOf(pg) # None
    BY <1>2, <1>3, ReadingIs DEF ReceiverOf, Plain
  <2>2. {pg[0].status, pg[1].status} # {"valid", "valid"}
    BY <1>1, <1>3 DEF Plain
  <2>3. StoredOf(pg, n, v) = LastOf(pg[p].slots, v)
    BY <2>1, <2>2 DEF StoredOf
  <2>4. QED  BY <1>2, <1>3, <2>3 DEF Plain, Moving, Moved, Both, Blanks
<1>4. CASE Moving(pg, p)
  <2>1. ReceiverOf(pg) = {p} /\ ReadPageOf(pg) = Other(p) /\ ReadPageOf(pg) # None
    BY <1>2, <1>4, ReadingIs DEF ReceiverOf, Moving
  <2>2. {pg[0].status, pg[1].status} # {"valid", "valid"}
    BY <1>1, <1>4 DEF Moving
  <2>3. (CHOOSE q \in ReceiverOf(pg) : TRUE) = p
    BY <2>1
  <2>4. pg[p].slots # <<>> => Head(pg[p].slots) = pg[p].slots[1]
    BY DEF PageTypes
  <2>5. (\E q \in ReceiverOf(pg) : pg[Other(q)].status = "erased"
           \/ (pg[q].slots # <<>> /\ Head(pg[q].slots).var = v)) <=> First(pg[p].slots, v)
    BY <1>4, <2>1, <2>4 DEF First, Moving
  <2>6. QED  BY <1>4, <2>1, <2>2, <2>3, <2>5 DEF StoredOf, Plain, Moving, Moved, Both, Blanks
<1>5. CASE Moved(pg, p)
  <2>1. ReceiverOf(pg) = {p}
    BY <1>2, <1>5 DEF ReceiverOf, Moved
  <2>2. (CHOOSE q \in ReceiverOf(pg) : TRUE) = p
    BY <2>1
  <2>3. QED  BY <1>5, <2>1, <2>2 DEF StoredOf, Plain, Moving, Moved, Both, Blanks
<1>6. CASE Both(pg)
  <2>1. ReceiverOf(pg) = {} /\ {pg[0].status, pg[1].status} = {"valid", "valid"}
    BY <1>1, <1>6 DEF ReceiverOf, Both
  <2>2. QED  BY <1>2, <1>6, <2>1 DEF StoredOf, Plain, Moving, Moved, Both, Blanks
<1>7. CASE Blanks(pg)
  <2>1. /\ ReceiverOf(pg) = {} /\ {pg[0].status, pg[1].status} # {"valid", "valid"}
        /\ ReadPageOf(pg) = None
    BY <1>1, <1>7 DEF ReceiverOf, Blanks, ReadPageOf
  <2>2. QED  BY <1>2, <1>7, <2>1 DEF StoredOf, Plain, Moving, Moved, Both, Blanks
<1>8. QED  BY <1>3, <1>4, <1>5, <1>6, <1>7

-----------------------------------------------------------------------------
(* Types *)

OpTypes == [kind : {"none", "write", "transfer", "recover", "promote", "format"},
            pc : {"off", "idle", "dat", "var", "receive", "copy", "copied",
                  "erase", "valid", "erase0", "valid0", "erase1"},
            var : Vars \cup {None}, dat : Values \cup {None},
            new : Pages, idx : 1..(Len(VarTab) + 1), first : BOOLEAN]

\* The types, and what a routine has in its local variables when it programs them.
TInv ==
  /\ TypeOK
  /\ op.pc \in {"dat", "var", "receive"} => op.var \in Vars /\ op.dat \in Values
  /\ op.pc = "copied" => op.idx \in 1..Len(VarTab)
  /\ op.kind = "write" => op.pc \in {"dat", "var"}

LEMMA TabIs == Len(VarTab) \in Nat /\ \A i \in 1..Len(VarTab) : VarTab[i] \in Vars
BY VarsAssumption, LenProperties, ElementOfSeq

LEMMA IdleTypes ==
  /\ Idle \in OpTypes
  /\ \A kind \in {"none", "promote", "recover", "format"},
        pc \in {"off", "copy", "valid", "erase0"}, new \in Pages :
       [Idle EXCEPT !.kind = kind, !.pc = pc, !.new = new] \in OpTypes
  /\ \A v \in Vars, d \in Values, new \in Pages :
       [Idle EXCEPT !.kind = "write", !.pc = "dat", !.first = TRUE,
                    !.var = v, !.dat = d, !.new = new] \in OpTypes
<1>1. 1 \in 1..(Len(VarTab) + 1) /\ 0 \in Pages
  BY TabIs DEF Pages
<1>2. QED  BY <1>1 DEF Idle, OpTypes

LEMMA OffTypes ==
  LET off == [Idle EXCEPT !.pc = "off"]
  IN  off \in OpTypes /\ off.pc = "off" /\ off.kind = "none" /\ off.first = FALSE
<1>1. Idle \in OpTypes /\ Idle.kind = "none" /\ Idle.first = FALSE
  BY IdleTypes DEF Idle
<1>2. QED  BY <1>1 DEF OpTypes

\* A page keeps its type when a slot is programmed, and whatever page it is.
LEMMA ProgramTypes ==
  ASSUME TypeOK, NEW p, NEW d \in Values,
         page' = [page EXCEPT ![p].slots = Append(@, [dat |-> d, var |-> None])],
         Len(page[p].slots) # Slots
  PROVE  PageTypes(page') /\ \A q \in Pages : Len(page'[q].slots) <= Slots
<1>1. PageTypes(page) /\ \A q \in Pages : Len(page[q].slots) <= Slots
  BY DEF TypeOK, PageTypes
<1>2. CASE p \in Pages
  <2>1. page[p].slots \in Seq(Slot) /\ Torn(d) = [dat |-> d, var |-> None]
    BY <1>1, <1>2 DEF PageTypes, Torn
  <2>2. PICK t : t = Append(page[p].slots, Torn(d))
    OBVIOUS
  <2>3. t \in Seq(Slot) /\ Len(t) = Len(page[p].slots) + 1
    BY <2>1, <2>2, TornAppended
  <2>4. page' = [page EXCEPT ![p].slots = t]
    BY <2>1, <2>2
  <2>5. PageTypes(page') /\ \A q \in Pages : page'[q].slots = IF q = p THEN t ELSE page[q].slots
    BY <1>1, <1>2, <2>3, <2>4 DEF PageTypes
  <2>6. Len(page[p].slots) \in Nat /\ Len(page[p].slots) <= Slots
    BY <1>1, <1>2, <2>1, LenProperties
  <2>7. Len(t) <= Slots
    BY <2>3, <2>6, SlotsAssumption
  <2>8. QED  BY <1>1, <2>5, <2>7
<1>3. CASE p \notin Pages
  <2>1. page' = page
    BY <1>1, <1>3 DEF PageTypes
  <2>2. QED  BY <1>1, <2>1
<1>4. QED  BY <1>2, <1>3

LEMMA AddressTypes ==
  ASSUME TypeOK, NEW p, NEW v \in Vars,
         page' = [page EXCEPT ![p].slots = Addressed(@, v)]
  PROVE  PageTypes(page') /\ \A q \in Pages : Len(page'[q].slots) <= Slots
<1>1. PageTypes(page) /\ \A q \in Pages : Len(page[q].slots) <= Slots
  BY DEF TypeOK, PageTypes
<1>2. CASE p \in Pages
  <2>1. PICK s \in Seq(Slot) : s = page[p].slots
    BY <1>1, <1>2 DEF PageTypes
  <2>2. PICK t : t = Addressed(s, v)
    OBVIOUS
  <2>3. t \in Seq(Slot) /\ Len(t) = Len(s)
    <3>1. CASE Len(s) \in 1..Len(s)
      <4>1. s[Len(s)] \in Slot
        BY <3>1, ElementOfSeq
      <4>2. [s[Len(s)] EXCEPT !.var = v] \in Slot
        BY <4>1 DEF Slot
      <4>3. t = [s EXCEPT ![Len(s)] = [s[Len(s)] EXCEPT !.var = v]]
        BY <2>2 DEF Addressed
      <4>4. QED  BY <3>1, <4>2, <4>3, ExceptSeq
    <3>2. CASE Len(s) \notin 1..Len(s)
      <4>1. Len(s) \notin DOMAIN s /\ s = [i \in DOMAIN s |-> s[i]]
        BY <3>2, LenProperties
      <4>2. t = s
        BY <2>2, <4>1 DEF Addressed
      <4>3. QED  BY <4>2
    <3>3. QED  BY <3>1, <3>2
  <2>4. page' = [page EXCEPT ![p].slots = t]
    BY <2>1, <2>2
  <2>5. PageTypes(page') /\ \A q \in Pages : page'[q].slots = IF q = p THEN t ELSE page[q].slots
    BY <1>1, <1>2, <2>3, <2>4 DEF PageTypes
  <2>6. QED  BY <1>1, <2>1, <2>3, <2>5
<1>3. CASE p \notin Pages
  <2>1. page' = page
    BY <1>1, <1>3 DEF PageTypes
  <2>2. QED  BY <1>1, <2>1
<1>4. QED  BY <1>2, <1>3

LEMMA WriteTypes ==
  ASSUME TInv, NEW v \in Vars, NEW d \in Values, WriteVariable(v, d)
  PROVE  TInv'
<1>1. ReadPage \in Pages
  BY DEF WriteVariable, ReadPage, Pages
<1>2. op' \in OpTypes /\ op'.var = v /\ op'.dat = d /\ op'.pc = "dat"
  BY <1>1, OtherIs, IdleTypes DEF WriteVariable, Idle
<1>3. QED  BY <1>2 DEF WriteVariable, TInv, TypeOK, OpTypes

LEMMA FullTypes ==
  ASSUME TInv, op.pc \in {"dat", "copy"}, PageFull, losses' = losses
  PROVE  TInv'
<1>1. op \in OpTypes /\ page' = page
  BY DEF PageFull, TInv, TypeOK, OpTypes
<1>2. CASE op.kind = "write"
  <2>1. op' = [op EXCEPT !.kind = "transfer", !.pc = "receive"] /\ op.pc = "dat"
    BY <1>2 DEF PageFull, TInv
  <2>2. op' \in OpTypes /\ op'.pc = "receive" /\ op'.kind = "transfer" /\ op'.var = op.var
        /\ op'.dat = op.dat
    BY <1>1, <2>1 DEF OpTypes
  <2>3. QED  BY <1>1, <2>1, <2>2 DEF TInv, TypeOK, OpTypes
<1>3. CASE op.kind # "write"
  <2>1. op' = Idle
    BY <1>3 DEF PageFull
  <2>2. op' \in OpTypes /\ op'.pc = "idle" /\ op'.kind = "none"
    BY <2>1, IdleTypes DEF Idle
  <2>3. QED  BY <1>1, <2>2 DEF TInv, TypeOK, OpTypes
<1>4. QED  BY <1>2, <1>3

LEMMA DataTypes ==
  ASSUME TInv, ProgramData
  PROVE  TInv'
<1>1. CASE PageFull
  BY <1>1, FullTypes DEF ProgramData, Doing
<1>2. CASE ~Full(WritePage)
  <2>1. /\ page' = [page EXCEPT ![WritePage].slots = Append(@, [dat |-> op.dat, var |-> None])]
        /\ op' = [op EXCEPT !.pc = "var"] /\ losses' = losses
        /\ op.pc = "dat" /\ op.dat \in Values /\ op.var \in Vars
        /\ Len(page[WritePage].slots) # Slots
    BY <1>2 DEF ProgramData, Then, Doing, TInv, Full
  <2>2. PageTypes(page') /\ \A q \in Pages : Len(page'[q].slots) <= Slots
    BY <2>1, ProgramTypes DEF TInv
  <2>3. op \in OpTypes
    BY DEF TInv, TypeOK, OpTypes
  <2>4. op' \in OpTypes /\ op'.pc = "var" /\ op'.var = op.var /\ op'.dat = op.dat
    BY <2>1, <2>3 DEF OpTypes
  <2>5. QED  BY <2>1, <2>2, <2>4 DEF TInv, TypeOK, OpTypes, PageTypes
<1>3. QED  BY <1>1, <1>2 DEF ProgramData

LEMMA ValueTypes ==
  ASSUME TInv, ProgramAddress
  PROVE  TInv'
<1>1. /\ page' = [page EXCEPT ![WritePage].slots = Addressed(@, op.var)]
      /\ losses' = losses /\ op.pc = "var" /\ op.dat \in Values /\ op.var \in Vars
      /\ op \in OpTypes
  BY DEF ProgramAddress, Doing, TInv, TypeOK, OpTypes
<1>2. PageTypes(page') /\ \A q \in Pages : Len(page'[q].slots) <= Slots
  BY <1>1, AddressTypes DEF TInv
<1>3. op' \in OpTypes /\ op'.pc \in {"idle", "copy"} /\ op'.kind # "write"
  <2>1. CASE op.kind = "write"
    BY <2>1, IdleTypes DEF ProgramAddress, Idle
  <2>2. CASE op.kind # "write"
    <3>1. op' = [op EXCEPT !.pc = "copy", !.first = FALSE]
      BY <2>2 DEF ProgramAddress
    <3>2. QED  BY <1>1, <2>2, <3>1 DEF OpTypes
  <2>3. QED  BY <2>1, <2>2
<1>4. QED  BY <1>1, <1>2, <1>3 DEF TInv, TypeOK, OpTypes, PageTypes

LEMMA MarkTypes ==
  ASSUME PageTypes(page), NEW p \in Pages, NEW status \in {"erased", "receive", "valid"},
         SetStatus(p, status)
  PROVE  /\ PageTypes(page')
         /\ \A q \in Pages : page'[q].slots = page[q].slots
         /\ page'[p].status = status /\ page'[Other(p)] = page[Other(p)]
<1>1. page' = [page EXCEPT ![p] = [page[p] EXCEPT !.status = status]]
  BY DEF SetStatus
<1>2. page[p] \in [status : {"erased", "receive", "valid"}, slots : Seq(Slot)]
  BY DEF PageTypes
<1>3. PICK r : r = [page[p] EXCEPT !.status = status]
  OBVIOUS
<1>4. r \in [status : {"erased", "receive", "valid"}, slots : Seq(Slot)]
      /\ r.status = status /\ r.slots = page[p].slots
  BY <1>2, <1>3
<1>5. PageTypes(page') /\ page'[p] = r /\ \A q \in Pages : q # p => page'[q] = page[q]
  BY <1>1, <1>3, <1>4 DEF PageTypes
<1>6. QED  BY <1>4, <1>5, OtherIs

LEMMA EraseTypes ==
  ASSUME PageTypes(page), NEW p \in Pages, page' = [page EXCEPT ![p] = Empty]
  PROVE  /\ PageTypes(page') /\ page'[p] = Empty /\ page'[Other(p)] = page[Other(p)]
         /\ page'[p].slots = <<>> /\ page'[p].status = "erased"
         /\ (\A q \in Pages : Len(page[q].slots) <= Slots)
              => \A q \in Pages : Len(page'[q].slots) <= Slots
<1>1. Empty \in [status : {"erased", "receive", "valid"}, slots : Seq(Slot)]
      /\ Empty.slots = <<>> /\ Empty.status = "erased"
  BY DEF Empty
<1>2. PageTypes(page') /\ page'[p] = Empty
  BY <1>1 DEF PageTypes
<1>3. \A q \in Pages : q # p => page'[q] = page[q]
  BY DEF PageTypes
<1>4. Len(<<>>) = 0 /\ 0 <= Slots
  BY SlotsAssumption
<1>5. QED  BY <1>1, <1>2, <1>3, <1>4, OtherIs

\* What CopyNext does when a variable is left to copy and there is room.
Copies(i) ==
  /\ op.pc = "copy" /\ i \in op.idx..Len(VarTab) /\ Current(i)
  /\ \A j \in op.idx..Len(VarTab) : Current(j) => i <= j
  /\ ~Full(WritePage)
  /\ page' = [page EXCEPT ![WritePage].slots =
                Append(@, [dat |-> ReadVariable(VarTab[i]), var |-> None])]
  /\ op' = [op EXCEPT !.pc = "copied", !.idx = i]

\* CopyNext ends the copying, finds the page full, or copies.
LEMMA CopyIs ==
  ASSUME TInv, CopyNext
  PROVE  \/ /\ \A i \in op.idx..Len(VarTab) : ~Current(i)
            /\ op' = [op EXCEPT !.pc = IF op.kind = "recover" THEN "valid" ELSE "erase"]
            /\ page' = page
         \/ PageFull /\ Full(WritePage)
         \/ \E i : Copies(i)
<1> DEFINE left == {i \in op.idx..Len(VarTab) : Current(i)}
<1>1. op.idx \in 1..(Len(VarTab) + 1) /\ Len(VarTab) \in Nat
  BY TabIs DEF TInv, TypeOK
<1>2. CASE left = {}
  <2>1. \A i \in op.idx..Len(VarTab) : ~Current(i)
    BY <1>2
  <2>2. Then(IF op.kind = "recover" THEN "valid" ELSE "erase") /\ page' = page
    BY <1>2 DEF CopyNext
  <2>3. QED  BY <2>1, <2>2 DEF Then
<1>3. CASE left # {} /\ Full(WritePage)
  BY <1>3 DEF CopyNext
<1>4. CASE left # {} /\ ~Full(WritePage)
  <2>1. left \subseteq Nat
    BY <1>1
  <2>2. PICK i : i = Min(left)
    OBVIOUS
  <2>3. i \in left /\ \A j \in left : i <= j
    BY <1>4, <2>1, <2>2, LeastIs
  <2>4. /\ page' = [page EXCEPT ![WritePage].slots =
                      Append(@, [dat |-> ReadVariable(VarTab[i]), var |-> None])]
        /\ op' = [op EXCEPT !.pc = "copied", !.idx = i]
    BY <1>4, <2>2 DEF CopyNext
  <2>5. Copies(i)
    BY <1>4, <2>3, <2>4 DEF Copies, CopyNext, Doing
  <2>6. QED  BY <2>5
<1>5. QED  BY <1>2, <1>3, <1>4

LEMMA CopyTypes ==
  ASSUME TInv, CopyNext
  PROVE  TInv'
<1>1. op \in OpTypes /\ op.pc = "copy" /\ op.kind # "write" /\ losses' = losses
  BY DEF TInv, TypeOK, OpTypes, CopyNext, Doing
<1>2. CASE PageFull /\ Full(WritePage)
  BY <1>1, <1>2, FullTypes
<1>3. CASE /\ op' = [op EXCEPT !.pc = IF op.kind = "recover" THEN "valid" ELSE "erase"]
           /\ page' = page
  <2>1. op' \in OpTypes /\ op'.pc \in {"valid", "erase"} /\ op'.kind = op.kind
    BY <1>1, <1>3 DEF OpTypes
  <2>2. QED  BY <1>1, <1>3, <2>1 DEF TInv, TypeOK, OpTypes
<1>4. CASE \E i : Copies(i)
  <2>1. PICK i : Copies(i)
    BY <1>4
  <2>2. i \in 1..Len(VarTab) /\ i \in 1..(Len(VarTab) + 1)
    <3>1. i \in op.idx..Len(VarTab) /\ op.idx \in 1..(Len(VarTab) + 1)
      BY <1>1, <2>1 DEF Copies, OpTypes
    <3>2. QED  BY <3>1, TabIs
  <2>3. ReadVariable(VarTab[i]) \in Values
    <3>1. ReadVariable(VarTab[i]) # None
      BY <2>1 DEF Copies, Current
    <3>2. ReadPageOf(page) \in Pages
          /\ ReadVariable(VarTab[i]) = LastOf(page[ReadPageOf(page)].slots, VarTab[i])
      BY <3>1, ReadIs DEF ReadPageOf, Pages
    <3>3. page[ReadPageOf(page)].slots \in Seq(Slot)
      BY <3>2 DEF TInv, TypeOK
    <3>4. QED  BY <3>1, <3>2, <3>3, LastIs
  <2>4. PageTypes(page') /\ \A q \in Pages : Len(page'[q].slots) <= Slots
    BY <2>1, <2>3, ProgramTypes DEF TInv, Copies, Full
  <2>5. op' \in OpTypes /\ op'.pc = "copied" /\ op'.idx = i /\ op'.kind = op.kind
    BY <1>1, <2>1, <2>2 DEF Copies, OpTypes
  <2>6. QED  BY <1>1, <2>2, <2>4, <2>5 DEF TInv, TypeOK, OpTypes, PageTypes
<1>5. QED  BY <1>2, <1>3, <1>4, CopyIs

LEMMA CopiedTypes ==
  ASSUME TInv, CopyAddress
  PROVE  TInv'
<1>1. /\ op \in OpTypes /\ op.pc = "copied" /\ op.idx \in 1..Len(VarTab) /\ losses' = losses
      /\ op.kind # "write"
      /\ page' = [page EXCEPT ![WritePage].slots = Addressed(@, VarTab[op.idx])]
      /\ op' = [op EXCEPT !.pc = "copy", !.idx = op.idx + 1]
  BY DEF TInv, TypeOK, OpTypes, CopyAddress, Doing
<1>2. VarTab[op.idx] \in Vars /\ op.idx + 1 \in 1..(Len(VarTab) + 1)
  BY <1>1, TabIs
<1>3. PageTypes(page') /\ \A q \in Pages : Len(page'[q].slots) <= Slots
  BY <1>1, <1>2, AddressTypes DEF TInv
<1>4. op' \in OpTypes /\ op'.pc = "copy" /\ op'.kind = op.kind
  BY <1>1, <1>2 DEF OpTypes
<1>5. QED  BY <1>1, <1>3, <1>4 DEF TInv, TypeOK, OpTypes, PageTypes

LEMMA CutTypes ==
  ASSUME TInv, PowerLoss
  PROVE  /\ TInv' /\ op' = [Idle EXCEPT !.pc = "off"] /\ op'.pc = "off" /\ ~op'.first
         /\ \A p \in Pages : /\ page'[p].status = page[p].status
                             /\ page'[p].slots = CutOf(page[p].slots)
<1>1. PageTypes(page) /\ \A q \in Pages : Len(page[q].slots) <= Slots
  BY DEF TInv, TypeOK, PageTypes
<1>2. /\ page' = [p \in Pages |-> [page[p] EXCEPT !.slots = CutOf(page[p].slots)]]
      /\ op' = [Idle EXCEPT !.pc = "off"]
  BY DEF PowerLoss, AfterLoss, CutOf
<1>3. \A p \in Pages :
        /\ page[p] \in [status : {"erased", "receive", "valid"}, slots : Seq(Slot)]
        /\ CutOf(page[p].slots) \in Seq(Slot)
        /\ Len(CutOf(page[p].slots)) <= Len(page[p].slots)
        /\ Len(CutOf(page[p].slots)) \in Nat /\ Len(page[p].slots) \in Nat
  BY <1>1, CutIs, LenProperties DEF PageTypes
<1>4. \A p \in Pages :
        /\ page'[p] \in [status : {"erased", "receive", "valid"}, slots : Seq(Slot)]
        /\ page'[p].status = page[p].status
        /\ page'[p].slots = CutOf(page[p].slots)
  BY <1>2, <1>3
<1>5. PageTypes(page')
  BY <1>2, <1>4 DEF PageTypes
<1>6. \A q \in Pages : Len(page'[q].slots) <= Slots
  <2> SUFFICES ASSUME NEW q \in Pages PROVE Len(page'[q].slots) <= Slots
    OBVIOUS
  <2>1. Len(page[q].slots) <= Slots /\ page'[q].slots = CutOf(page[q].slots)
    BY <1>1, <1>4
  <2>2. QED  BY <1>3, <2>1, SlotsAssumption
<1>7. op' \in OpTypes /\ op'.pc = "off" /\ op'.kind = "none" /\ ~op'.first
  BY <1>2, OffTypes
<1>8. losses' \in 0..MaxLosses
  <2>1. losses \in 0..MaxLosses /\ losses < MaxLosses /\ losses' = losses + 1
    BY DEF TInv, TypeOK, PowerLoss
  <2>2. QED  BY <2>1, LossAssumption
<1>9. QED  BY <1>2, <1>4, <1>5, <1>6, <1>7, <1>8 DEF TInv, TypeOK, OpTypes, PageTypes

LEMMA InitTypes == Init => TInv
<1> SUFFICES ASSUME Init PROVE TInv
  OBVIOUS
<1>1. op \in OpTypes /\ op.pc = "off" /\ op.kind = "none"
  BY OffTypes DEF Init
<1>2. Empty \in [status : {"erased", "receive", "valid"}, slots : Seq(Slot)] /\ Empty.slots = <<>>
  BY DEF Empty
<1>3. \A q \in Pages : page[q] = Empty /\ Len(page[q].slots) <= Slots
  BY <1>2, SlotsAssumption DEF Init
<1>4. PageTypes(page) /\ losses \in 0..MaxLosses
  BY <1>2, LossAssumption DEF Init, PageTypes
<1>5. QED  BY <1>1, <1>3, <1>4 DEF TInv, TypeOK, OpTypes, PageTypes

\* The other actions of EE_PageTransfer and EE_Init set a status or erase a page.
LEMMA StatusTypes ==
  ASSUME TInv, NEW p \in Pages, NEW status \in {"erased", "receive", "valid"}
  PROVE  /\ SetStatus(p, status) =>
              PageTypes(page') /\ \A q \in Pages : Len(page'[q].slots) <= Slots
         /\ page' = [page EXCEPT ![p] = Empty] =>
              PageTypes(page') /\ \A q \in Pages : Len(page'[q].slots) <= Slots
<1>1. PageTypes(page) /\ \A q \in Pages : Len(page[q].slots) <= Slots
  BY DEF TInv, TypeOK, PageTypes
<1>2. QED  BY <1>1, MarkTypes, EraseTypes

LEMMA RestTypes ==
  ASSUME TInv,
         MarkReceive \/ EraseOld \/ MarkValid \/ Boot \/ FormatErase \/ FormatValid \/ FormatEnd
  PROVE  TInv'
<1>1. /\ PageTypes(page) /\ \A q \in Pages : Len(page[q].slots) <= Slots
      /\ op \in OpTypes /\ op.new \in Pages /\ losses' = losses /\ losses \in 0..MaxLosses
  BY DEF TInv, TypeOK, PageTypes, OpTypes, MarkReceive, EraseOld, MarkValid, Boot,
         FormatErase, FormatValid, FormatEnd
<1>2. PageTypes(page') /\ \A q \in Pages : Len(page'[q].slots) <= Slots
  <2>1. CASE MarkReceive
    BY <1>1, <2>1, StatusTypes DEF MarkReceive
  <2>2. CASE EraseOld
    BY <1>1, <2>2, StatusTypes, OtherIs DEF EraseOld
  <2>3. CASE MarkValid
    BY <1>1, <2>3, StatusTypes DEF MarkValid
  <2>4. CASE Boot
    BY <1>1, <2>4 DEF Boot
  <2>5. CASE FormatErase \/ FormatValid \/ FormatEnd
    <3>1. 0 \in Pages /\ 1 \in Pages
      BY DEF Pages
    <3>2. QED  BY <3>1, <2>5, StatusTypes DEF FormatErase, FormatValid, FormatEnd
  <2>6. QED  BY <2>1, <2>2, <2>3, <2>4, <2>5
<1>3. op' \in OpTypes /\ (op'.pc = "dat" => op'.var \in Vars /\ op'.dat \in Values)
      /\ op'.pc \notin {"var", "receive", "copied"} /\ (op'.kind = "write" => op'.pc = "dat")
  <2>1. CASE MarkReceive
    <3>1. op' = [op EXCEPT !.pc = "dat"] /\ op.kind # "write" /\ op.var \in Vars /\ op.dat \in Values
      BY <2>1 DEF MarkReceive, Then, Doing, TInv
    <3>2. QED  BY <1>1, <3>1 DEF OpTypes
  <2>2. CASE EraseOld \/ MarkValid \/ FormatErase \/ FormatValid \/ FormatEnd
    <3>1. op.kind # "write"
      BY <2>2 DEF TInv, EraseOld, MarkValid, FormatErase, FormatValid, FormatEnd, Doing
    <3>2. Idle \in OpTypes /\ Idle.pc = "idle" /\ Idle.kind = "none"
      BY IdleTypes DEF Idle
    <3>3. op' = Idle \/ \E pc \in {"valid", "erase", "valid0", "erase1"} : op' = [op EXCEPT !.pc = pc]
      BY <2>2, Zenon DEF EraseOld, MarkValid, FormatErase, FormatValid, FormatEnd, Then
    <3>4. CASE op' = Idle
      BY <3>2, <3>4
    <3>5. CASE \E pc \in {"valid", "erase", "valid0", "erase1"} : op' = [op EXCEPT !.pc = pc]
      BY <1>1, <3>1, <3>5 DEF OpTypes
    <3>6. QED  BY <3>3, <3>4, <3>5
  <2>3. CASE Boot
    <3>1. Statuses("erased", "receive") \/ Statuses("receive", "valid") => HasStatus("receive") \in Pages
      BY DEF Statuses, HasStatus, Pages
    <3>2. \/ op' = Idle
          \/ op' = [Idle EXCEPT !.kind = "format", !.pc = "erase0"]
          \/ \E kind \in {"promote", "recover"}, pc \in {"copy", "valid"}, new \in Pages :
               op' = [Idle EXCEPT !.kind = kind, !.pc = pc, !.new = new]
      BY <2>3, <3>1, Zenon DEF Boot
    <3>3. Idle \in OpTypes /\ Idle.pc = "idle" /\ Idle.kind = "none"
      BY IdleTypes DEF Idle
    <3>4. CASE op' = Idle
      BY <3>3, <3>4
    <3>5. CASE op' = [Idle EXCEPT !.kind = "format", !.pc = "erase0"]
      BY <3>3, <3>5 DEF OpTypes
    <3>6. CASE \E kind \in {"promote", "recover"}, pc \in {"copy", "valid"}, new \in Pages :
                 op' = [Idle EXCEPT !.kind = kind, !.pc = pc, !.new = new]
      BY <3>3, <3>6 DEF OpTypes
    <3>7. QED  BY <3>2, <3>4, <3>5, <3>6
  <2>4. QED  BY <2>1, <2>2, <2>3
<1>4. QED  BY <1>1, <1>2, <1>3 DEF TInv, TypeOK, OpTypes, PageTypes

LEMMA StepTypes ==
  ASSUME TInv, [Next]_vars
  PROVE  TInv'
<1>1. CASE \E v \in Vars, d \in Values : WriteVariable(v, d)
  BY <1>1, WriteTypes
<1>2. CASE UNCHANGED vars
  BY <1>2 DEF vars, TInv, TypeOK
<1>3. QED
  BY <1>1, <1>2, DataTypes, ValueTypes, CopyTypes, CopiedTypes, RestTypes, CutTypes DEF Next

\* The state has its types, and no page gets more slots than it has, whatever the
\* number of variables, values, slots and power losses (TypeOK).
THEOREM EepromTypeCorrect == Spec => []TypeOK
<1>1. TInv => TypeOK
  BY DEF TInv
<1>2. QED  BY <1>1, InitTypes, StepTypes, PTL DEF Spec

-----------------------------------------------------------------------------
(* What the pages pg hold in each phase of the routine o that is under way *)

\* A page that is erased is empty, and one that is filled holds copies of the other.
Shape(pg) ==
  /\ PageTypes(pg)
  /\ \A p \in Pages : pg[p].status = "erased" => pg[p].slots = <<>>
  /\ \A p \in Pages : Moving(pg, p) => Kept(pg[p].slots, pg[Other(p)].slots)

\* Between two routines the page r is read, also when a transfer that found no
\* room was given up.
Settled(pg, r) ==
  Plain(pg, r) \/ (Moving(pg, Other(r)) /\ Len(pg[Other(r)].slots) = Slots)

Off(pg, o) ==
  /\ o.kind = "none" /\ o.pc = "off" /\ ~o.first
  /\ Blanks(pg) \/ \E p \in Pages : Plain(pg, p) \/ Moving(pg, p) \/ Moved(pg, p)

Resting(pg, o) ==
  o.kind = "none" /\ o.pc = "idle" /\ ~o.first /\ \E r \in Pages : Settled(pg, r)

EndsTorn(s, d) == s # <<>> /\ s[Len(s)] = Torn(d)

Writing(pg, o) ==
  /\ o.kind = "write" /\ o.pc \in {"dat", "var"} /\ o.first /\ o.idx = 1
  /\ Settled(pg, Other(o.new))
  /\ o.pc = "var" => Plain(pg, Other(o.new)) /\ EndsTorn(pg[Other(o.new)].slots, o.dat)

Starting(pg, o) ==
  /\ o.kind = "transfer" /\ o.pc = "receive" /\ o.first /\ o.idx = 1
  /\ Settled(pg, Other(o.new))

\* The new page takes the variable that is written over first.
Taking(pg, o) ==
  /\ o.kind = "transfer" /\ o.pc \in {"dat", "var"} /\ o.first /\ o.idx = 1
  /\ Moving(pg, o.new)
  /\ o.pc = "dat" => pg[o.new].slots = <<>> \/ Len(pg[o.new].slots) = Slots
  /\ o.pc = "var" => Len(pg[o.new].slots) = 1 /\ EndsTorn(pg[o.new].slots, o.dat)

\* The new slots s hold v, unless it was never written to the old ones t.
Done(s, t, v) == First(s, v) \/ LastOf(t, v) = None \/ LastOf(s, v) # None

Copying(pg, o) ==
  LET s == pg[o.new].slots
      t == pg[Other(o.new)].slots
  IN  /\ o.kind \in {"transfer", "recover"} /\ o.pc \in {"copy", "copied"} /\ ~o.first
      /\ Moving(pg, o.new)
      /\ o.kind = "transfer" => o.var \in Vars /\ First(s, o.var)
      /\ \A i \in 1..Len(VarTab) : i < o.idx => Done(s, t, VarTab[i])
      /\ o.pc = "copied" => /\ ~First(s, VarTab[o.idx]) /\ LastOf(t, VarTab[o.idx]) # None
                            /\ EndsTorn(s, LastOf(t, VarTab[o.idx]))

Complete(s, t) ==
  \A v \in Vars : v \in Tabled => First(s, v) \/ LastOf(s, v) = LastOf(t, v)

Copied(pg, o) ==
  /\ (o.kind = "transfer" /\ o.pc = "erase") \/ (o.kind = "recover" /\ o.pc = "valid")
  /\ ~o.first /\ Moving(pg, o.new) /\ Complete(pg[o.new].slots, pg[Other(o.new)].slots)

Erasing(pg, o) == o.kind = "recover" /\ o.pc = "erase" /\ ~o.first /\ Both(pg)

Promoting(pg, o) ==
  o.kind \in {"transfer", "promote"} /\ o.pc = "valid" /\ ~o.first /\ Moved(pg, o.new)

Formatting(pg, o) ==
  /\ o.kind = "format" /\ o.pc \in {"erase0", "valid0", "erase1"} /\ ~o.first
  /\ IF o.pc = "erase1" THEN Plain(pg, 0) /\ pg[0].slots = <<>> ELSE Blanks(pg)

Phases(pg, o) ==
  \/ Off(pg, o) \/ Resting(pg, o) \/ Writing(pg, o) \/ Starting(pg, o) \/ Taking(pg, o)
  \/ Copying(pg, o) \/ Copied(pg, o) \/ Erasing(pg, o) \/ Promoting(pg, o)
  \/ Formatting(pg, o)

EInv == TInv /\ Shape(page) /\ Phases(page, op)

\* What a step does to what is stored of the variables in the table: nothing, or
\* it takes a request, drops it or fulfils it.
Same == \A v \in Vars : v \in Tabled => Stored(v)' = Stored(v)
Effect ==
  \/ Same /\ op'.first = op.first /\ (op.first => op'.var = op.var /\ op'.dat = op.dat)
  \/ Same /\ ~op.first /\ op'.first /\ op'.var \in Vars /\ op'.dat \in Values
  \/ Same /\ op.first /\ ~op'.first
  \/ /\ op.first /\ ~op'.first /\ op.var \in Vars /\ op.dat \in Values
     /\ \A v \in Vars : Stored(v)' = IF v = op.var THEN op.dat ELSE Stored(v)

\* The pages pg with the slots t in p.
Put(pg, p, t) == [pg EXCEPT ![p].slots = t]

LEMMA PutIs ==
  ASSUME NEW pg, PageTypes(pg), NEW p \in Pages, NEW t \in Seq(Slot), NEW qg,
         qg = Put(pg, p, t)
  PROVE  /\ PageTypes(qg) /\ qg[p].slots = t /\ qg[Other(p)] = pg[Other(p)]
         /\ \A q \in Pages : qg[q].status = pg[q].status
         /\ \A q \in Pages : /\ Plain(qg, q) <=> Plain(pg, q)
                             /\ Moving(qg, q) <=> Moving(pg, q)
<1>1. qg = [pg EXCEPT ![p] = [pg[p] EXCEPT !.slots = t]]
  BY DEF Put
<1>2. pg[p] \in [status : {"erased", "receive", "valid"}, slots : Seq(Slot)]
  BY DEF PageTypes
<1>3. PICK r : r = [pg[p] EXCEPT !.slots = t]
  OBVIOUS
<1>4. r \in [status : {"erased", "receive", "valid"}, slots : Seq(Slot)]
      /\ r.status = pg[p].status /\ r.slots = t
  BY <1>2, <1>3
<1>5. PageTypes(qg) /\ qg[p] = r /\ \A q \in Pages : q # p => qg[q] = pg[q]
  BY <1>1, <1>3, <1>4 DEF PageTypes
<1>6. \A q \in Pages : Other(q) \in Pages /\ qg[q].status = pg[q].status
  BY <1>4, <1>5, OtherIs
<1>7. QED  BY <1>4, <1>5, <1>6, OtherIs DEF Plain, Moving

\* The pages that are read do not depend on the routine but where both are valid.
LEMMA StoredSame ==
  ASSUME NEW pg, PageTypes(pg), NEW n, NEW m,
         Blanks(pg) \/ \E p \in Pages : Plain(pg, p) \/ Moving(pg, p) \/ Moved(pg, p)
  PROVE  \A v : StoredOf(pg, n, v) = StoredOf(pg, m, v)
<1>1. 0 \in Pages
  BY DEF Pages
<1>2. CASE Blanks(pg)
  BY <1>1, <1>2, StoredIs
<1>3. CASE \E p \in Pages : Plain(pg, p) \/ Moving(pg, p) \/ Moved(pg, p)
  <2>1. PICK p \in Pages : Plain(pg, p) \/ Moving(pg, p) \/ Moved(pg, p)
    BY <1>3
  <2>2. QED  BY <2>1, StoredIs
<1>4. QED  BY <1>2, <1>3

\* A step that leaves the pages as they are does not change the store.
LEMMA PageSame ==
  ASSUME PageTypes(page), page' = page,
         Blanks(page) \/ \E p \in Pages : Plain(page, p) \/ Moving(page, p) \/ Moved(page, p)
  PROVE  Same
<1>1. PICK n, m : n = op.new /\ m = op'.new
  OBVIOUS
<1>2. \A v : StoredOf(page, n, v) = StoredOf(page, m, v)
  BY StoredSame
<1>3. \A v \in Vars : Stored(v)' = StoredOf(page, m, v) /\ Stored(v) = StoredOf(page, n, v)
  BY <1>1, StoredOfIs
<1>4. QED  BY <1>2, <1>3 DEF Same

\* Where pages are settled one of them is read, and the other is the new one.
LEMMA SettledIs ==
  ASSUME NEW pg, NEW r \in Pages, Settled(pg, r)
  PROVE  /\ ReadPageOf(pg) = r /\ r # None
         /\ Plain(pg, r) \/ Moving(pg, Other(r))
         /\ WritePageOf(pg) = IF Plain(pg, r) THEN r ELSE Other(r)
         /\ Blanks(pg) \/ \E p \in Pages : Plain(pg, p) \/ Moving(pg, p) \/ Moved(pg, p)
<1>1. Other(r) \in Pages /\ Other(Other(r)) = r
  BY OtherIs
<1>2. QED  BY <1>1, ReadingIs DEF Settled

EStep == Shape(page') /\ Phases(page', op') /\ Effect

LEMMA WriteStep ==
  ASSUME EInv, NEW v \in Vars, NEW d \in Values, WriteVariable(v, d)
  PROVE  EStep
<1>1. Resting(page, op)
  BY DEF EInv, WriteVariable, Doing, Phases, Off, Writing, Starting, Taking, Copying, Copied,
         Erasing, Promoting, Formatting
<1>2. PICK r \in Pages : Settled(page, r)
  BY <1>1 DEF Resting
<1>3. ReadPage = r
  BY <1>2, SettledIs, PagesAre
<1>4. /\ page' = page /\ op'.kind = "write" /\ op'.pc = "dat" /\ op'.first /\ op'.idx = 1
      /\ op'.var = v /\ op'.dat = d /\ op'.new = Other(r) /\ ~op.first
  BY <1>1, <1>3 DEF WriteVariable, Idle, Resting
<1>5. Writing(page', op')
  BY <1>2, <1>4, OtherIs DEF Writing
<1>6. Same
  BY <1>2, <1>4, SettledIs, PageSame DEF EInv, Shape
<1>7. QED  BY <1>4, <1>5, <1>6 DEF EStep, Effect, EInv, Phases

LEMMA DatIs ==
  ASSUME EInv, op.pc = "dat"
  PROVE  Writing(page, op) \/ Taking(page, op)
BY DEF EInv, Phases, Off, Resting, Starting, Copying, Copied, Erasing, Promoting, Formatting

LEMMA VarIs ==
  ASSUME EInv, op.pc = "var"
  PROVE  Writing(page, op) \/ Taking(page, op)
BY DEF EInv, Phases, Off, Resting, Starting, Copying, Copied, Erasing, Promoting, Formatting

LEMMA CopyingIs ==
  ASSUME EInv, op.pc \in {"copy", "copied"}
  PROVE  Copying(page, op)
BY DEF EInv, Phases, Off, Resting, Writing, Starting, Taking, Copied, Erasing, Promoting,
       Formatting

\* A page that is full.
LEMMA FullStep ==
  ASSUME EInv, op.pc \in {"dat", "copy"}, PageFull, Full(WritePage)
  PROVE  EStep
<1>1. page' = page /\ op.new \in Pages /\ Other(Other(op.new)) = op.new /\ Other(op.new) \in Pages
  BY OtherIs DEF PageFull, EInv, TInv, TypeOK
<1>2. Idle.kind = "none" /\ Idle.pc = "idle" /\ Idle.first = FALSE
  BY DEF Idle
<1>3. CASE Writing(page, op)
  <2>1. op' = [op EXCEPT !.kind = "transfer", !.pc = "receive"]
    BY <1>3 DEF PageFull, Writing
  <2>2. /\ op'.kind = "transfer" /\ op'.pc = "receive" /\ op'.first /\ op'.idx = 1
        /\ op'.new = op.new /\ op'.var = op.var /\ op'.dat = op.dat /\ op.first
    BY <1>3, <2>1 DEF Writing, EInv, TInv, TypeOK
  <2>3. Starting(page', op') /\ op'.first = op.first
    BY <1>1, <1>3, <2>2 DEF Starting, Writing
  <2>4. Same
    BY <1>1, <1>3, SettledIs, PageSame DEF Writing, EInv, Shape
  <2>5. QED  BY <1>1, <2>2, <2>3, <2>4 DEF EStep, Effect, EInv, Phases
<1>4. CASE Taking(page, op) \/ Copying(page, op)
  <2>1. op' = Idle /\ Moving(page, op.new)
    BY <1>4 DEF PageFull, Taking, Copying
  <2>2. WritePage = op.new
    BY <1>1, <2>1, ReadingIs, PagesAre
  <2>3. Settled(page, Other(op.new))
    BY <1>1, <2>1, <2>2 DEF Settled, Full
  <2>4. Resting(page', op')
    BY <1>1, <1>2, <2>1, <2>3 DEF Resting
  <2>5. Same
    BY <1>1, <2>3, SettledIs, PageSame DEF EInv, Shape
  <2>6. op'.first = FALSE /\ op.first \in BOOLEAN
    BY <1>2, <2>1 DEF EInv, TInv, TypeOK
  <2>7. op.first = TRUE \/ op.first = FALSE
    BY <2>6
  <2>8. QED  BY <1>1, <2>4, <2>5, <2>6, <2>7 DEF EStep, Effect, EInv, Phases
<1>5. QED  BY <1>3, <1>4, DatIs, CopyingIs

\* A slot is programmed behind those of the page p.
Extended(pg, p, d) == [pg EXCEPT ![p].slots = Append(@, [dat |-> d, var |-> None])]

LEMMA TornPut ==
  ASSUME NEW pg, PageTypes(pg), NEW p \in Pages, NEW d \in Values, NEW qg,
         qg = Extended(pg, p, d)
  PROVE  /\ PageTypes(qg) /\ qg[p].slots = Append(pg[p].slots, Torn(d))
         /\ qg[Other(p)] = pg[Other(p)]
         /\ \A q \in Pages : qg[q].status = pg[q].status
         /\ \A q \in Pages : /\ Plain(qg, q) <=> Plain(pg, q)
                             /\ Moving(qg, q) <=> Moving(pg, q)
         /\ pg[p].slots \in Seq(Slot) /\ qg[p].slots \in Seq(Slot)
<1>1. PICK s \in Seq(Slot) : s = pg[p].slots
  BY DEF PageTypes
<1>2. PICK t : t = Append(pg[p].slots, [dat |-> d, var |-> None])
  OBVIOUS
<1>3. t = Append(s, Torn(d))
  BY <1>1, <1>2 DEF Torn
<1> t \in Seq(Slot)
  BY <1>3, TornAppended
<1>4. qg = Put(pg, p, t)
  BY <1>2 DEF Put, Extended
<1>5. /\ PageTypes(qg) /\ qg[p].slots = t /\ qg[Other(p)] = pg[Other(p)]
      /\ \A q \in Pages : qg[q].status = pg[q].status
      /\ \A q \in Pages : /\ Plain(qg, q) <=> Plain(pg, q)
                          /\ Moving(qg, q) <=> Moving(pg, q)
  BY ONLY <1>4, t \in Seq(Slot), PutIs, PageTypes(pg), p \in Pages
<1>6. QED  BY <1>1, <1>3, <1>5

\* The last slot of the page p gets its address.
Named(pg, p, w) == [pg EXCEPT ![p].slots = Addressed(@, w)]

LEMMA AddressPut ==
  ASSUME NEW pg, PageTypes(pg), NEW p \in Pages, NEW w \in Vars, NEW qg,
         qg = Named(pg, p, w), Addressed(pg[p].slots, w) \in Seq(Slot)
  PROVE  /\ PageTypes(qg) /\ qg[p].slots = Addressed(pg[p].slots, w)
         /\ qg[Other(p)] = pg[Other(p)]
         /\ \A q \in Pages : qg[q].status = pg[q].status
         /\ \A q \in Pages : /\ Plain(qg, q) <=> Plain(pg, q)
                             /\ Moving(qg, q) <=> Moving(pg, q)
         /\ pg[p].slots \in Seq(Slot) /\ qg[p].slots \in Seq(Slot)
<1>1. PICK s \in Seq(Slot) : s = pg[p].slots
  BY DEF PageTypes
<1>2. PICK t : t = Addressed(pg[p].slots, w)
  OBVIOUS
<1>3. t = Addressed(s, w)
  BY <1>1, <1>2
<1> t \in Seq(Slot)
  BY <1>2
<1>4. qg = Put(pg, p, t)
  BY <1>2 DEF Put, Named
<1>5. /\ PageTypes(qg) /\ qg[p].slots = t /\ qg[Other(p)] = pg[Other(p)]
      /\ \A q \in Pages : qg[q].status = pg[q].status
      /\ \A q \in Pages : /\ Plain(qg, q) <=> Plain(pg, q)
                          /\ Moving(qg, q) <=> Moving(pg, q)
  BY ONLY <1>4, t \in Seq(Slot), PutIs, PageTypes(pg), p \in Pages
<1>6. QED  BY <1>1, <1>3, <1>5

\* Shape is kept by a change of the slots of one page that is not erased.
LEMMA ShapePut ==
  ASSUME NEW pg, Shape(pg), NEW p \in Pages, NEW qg, PageTypes(qg),
         qg[Other(p)] = pg[Other(p)], pg[p].status # "erased",
         \A q \in Pages : qg[q].status = pg[q].status,
         ~Moving(pg, Other(p)),
         Moving(pg, p) => Kept(qg[p].slots, pg[Other(p)].slots)
  PROVE  Shape(qg)
<1>1. \A q \in Pages : q = p \/ q = Other(p)
  BY OtherIs
<1>2. \A q \in Pages : Moving(qg, q) <=> Moving(pg, q)
  BY OtherIs DEF Moving
<1>3. QED  BY <1>1, <1>2, OtherIs DEF Shape

\* A slot that gets its value changes nothing that is stored.
LEMMA TornStores ==
  ASSUME NEW pg, PageTypes(pg), NEW qg, PageTypes(qg), NEW p \in Pages, NEW d \in Values,
         qg[p].slots = Append(pg[p].slots, Torn(d)), qg[Other(p)] = pg[Other(p)],
         pg[p].slots \in Seq(Slot), NEW n, NEW v \in Vars
  PROVE  /\ Plain(pg, p) /\ Plain(qg, p) => StoredOf(qg, n, v) = StoredOf(pg, n, v)
         /\ Moving(pg, p) /\ Moving(qg, p) => StoredOf(qg, n, v) = StoredOf(pg, n, v)
<1>1. PICK s \in Seq(Slot) : s = pg[p].slots
  OBVIOUS
<1>2. PICK t \in Seq(Slot) : t = qg[p].slots
  BY DEF PageTypes
<1>3. LastOf(t, v) = LastOf(s, v)
  BY <1>1, <1>2, TornAppended
<1>4. First(t, v) <=> First(s, v)
  <2>1. CASE s = <<>>
    <3>1. Len(s) = 0 /\ t[1] = Torn(d)
      BY <1>1, <1>2, <2>1, TornAppended
    <3>2. QED  BY <2>1, <3>1, NoneAssumption DEF First, Torn
  <2>2. CASE s # <<>>
    <3>1. 1 \in 1..Len(s)
      BY <2>2, LenProperties, EmptySeq
    <3>2. t # <<>> /\ t[1] = s[1]
      BY <1>1, <1>2, <3>1, TornAppended
    <3>3. QED  BY <2>2, <3>2 DEF First
  <2>3. QED  BY <2>1, <2>2
<1>5. CASE Plain(pg, p) /\ Plain(qg, p)
  <2>1. /\ StoredOf(pg, n, v) = LastOf(pg[p].slots, v)
        /\ StoredOf(qg, n, v) = LastOf(qg[p].slots, v)
    BY ONLY PageTypes(pg), PageTypes(qg), p \in Pages, <1>5, StoredIs
  <2>2. QED  BY <1>1, <1>2, <1>3, <1>5, <2>1 DEF Plain, Moving
<1>6. CASE Moving(pg, p) /\ Moving(qg, p)
  <2>1. /\ StoredOf(pg, n, v) = IF First(pg[p].slots, v) THEN LastOf(pg[p].slots, v)
                                ELSE LastOf(pg[Other(p)].slots, v)
        /\ StoredOf(qg, n, v) = IF First(qg[p].slots, v) THEN LastOf(qg[p].slots, v)
                                ELSE LastOf(qg[Other(p)].slots, v)
    BY ONLY PageTypes(pg), PageTypes(qg), p \in Pages, <1>6, StoredIs
  <2>2. QED  BY <1>1, <1>2, <1>3, <1>4, <1>6, <2>1 DEF Plain, Moving
<1>7. QED  BY <1>5, <1>6

LEMMA DataStep ==
  ASSUME EInv, ProgramData
  PROVE  EStep
<1>1. op.pc = "dat" /\ op \in OpTypes /\ op.dat \in Values /\ op.new \in Pages
  BY DEF ProgramData, Doing, EInv, TInv, TypeOK, OpTypes
<1>2. CASE Full(WritePage)
  BY <1>1, <1>2, FullStep DEF ProgramData
<1>3. CASE ~Full(WritePage)
  <2>1. /\ page' = [page EXCEPT ![WritePage].slots = Append(@, [dat |-> op.dat, var |-> None])]
        /\ op' = [op EXCEPT !.pc = "var"]
    BY <1>3 DEF ProgramData, Then
  <2>2. op'.pc = "var" /\ op'.kind = op.kind /\ op'.first = op.first /\ op'.idx = op.idx
        /\ op'.new = op.new /\ op'.var = op.var /\ op'.dat = op.dat
    BY <1>1, <2>1 DEF OpTypes
  <2>3. PICK n \in Pages, d \in Values : n = op.new /\ d = op.dat
    BY <1>1
  <2>4. Other(n) \in Pages /\ Other(Other(n)) = n /\ PageTypes(page) /\ Shape(page)
    BY OtherIs DEF EInv, Shape
  <2>5. CASE Writing(page, op)
    <3>1. PICK r \in Pages : r = Other(n)
      BY <2>4
    <3>2. Plain(page, r) /\ WritePage = r
      <4>1. Settled(page, r)
        BY <2>3, <2>5, <3>1 DEF Writing
      <4>2. ~Plain(page, r) => WritePage = Other(r) /\ Len(page[Other(r)].slots) = Slots
        BY <4>1, SettledIs, PagesAre DEF Settled
      <4>3. Plain(page, r)
        BY <1>3, <4>2 DEF Full
      <4>4. QED  BY <4>3, ReadingIs, PagesAre
    <3>3. page' = Extended(page, r, d)
      BY <2>1, <2>3, <3>2 DEF Extended
    <3>4. /\ PageTypes(page') /\ page'[r].slots = Append(page[r].slots, Torn(d))
          /\ page'[Other(r)] = page[Other(r)] /\ page[r].slots \in Seq(Slot)
          /\ \A q \in Pages : page'[q].status = page[q].status
          /\ Plain(page', r)
      BY <2>4, <3>2, <3>3, TornPut, SMTT(30)
    <3>5. Shape(page')
      <4>1. page[r].status # "erased" /\ ~Moving(page, r) /\ ~Moving(page, Other(r))
        BY <3>2 DEF Plain, Moving
      <4>2. QED  BY <2>4, <3>4, <4>1, ShapePut
    <3>6. EndsTorn(page'[r].slots, d)
      BY <3>4, TornAppended DEF EndsTorn
    <3>7. Writing(page', op')
      BY <2>2, <2>3, <2>5, <3>1, <3>4, <3>6 DEF Writing, Settled
    <3>8. Same
      <4>1. \A v \in Vars : StoredOf(page', n, v) = StoredOf(page, n, v)
        BY <2>4, <3>2, <3>4, TornStores
      <4>2. \A v \in Vars : Stored(v)' = StoredOf(page', n, v) /\ Stored(v) = StoredOf(page, n, v)
        BY <2>2, <2>3, StoredOfIs
      <4>3. QED  BY <4>1, <4>2 DEF Same
    <3>9. QED  BY <2>2, <3>5, <3>7, <3>8 DEF EStep, Effect, Phases
  <2>6. CASE Taking(page, op)
    <3>1. Moving(page, n) /\ WritePage = n
      BY <2>3, <2>6, ReadingIs, PagesAre DEF Taking
    <3>2. page[n].slots = <<>>
      BY <1>1, <1>3, <2>3, <2>6, <3>1 DEF Taking, Full
    <3>3. page' = Extended(page, n, d)
      BY <2>1, <2>3, <3>1 DEF Extended
    <3>4. /\ PageTypes(page') /\ page'[n].slots = Append(page[n].slots, Torn(d))
          /\ page'[Other(n)] = page[Other(n)] /\ page[n].slots \in Seq(Slot)
          /\ \A q \in Pages : page'[q].status = page[q].status
          /\ Moving(page', n)
      BY <2>4, <3>1, <3>3, TornPut
    <3>5. Len(page'[n].slots) = 1 /\ EndsTorn(page'[n].slots, d)
      <4>1. Len(page[n].slots) = 0
        BY <3>2
      <4>2. /\ Len(page'[n].slots) = Len(page[n].slots) + 1 /\ page'[n].slots # <<>>
            /\ page'[n].slots[Len(page'[n].slots)] = Torn(d)
        BY <3>4, TornAppended
      <4>3. QED  BY <4>1, <4>2 DEF EndsTorn
    <3>6. Shape(page')
      <4>1. page[n].status # "erased" /\ ~Moving(page, Other(n))
        BY <3>1 DEF Moving
      <4>2. Kept(page'[n].slots, page[Other(n)].slots)
        BY <3>5, KeptShort
      <4>3. QED  BY <2>4, <3>4, <4>1, <4>2, ShapePut
    <3>7. Taking(page', op')
      BY <2>2, <2>3, <2>6, <3>4, <3>5 DEF Taking
    <3>8. Same
      <4>1. \A v \in Vars : StoredOf(page', n, v) = StoredOf(page, n, v)
        BY <2>4, <3>1, <3>4, TornStores
      <4>2. \A v \in Vars : Stored(v)' = StoredOf(page', n, v) /\ Stored(v) = StoredOf(page, n, v)
        BY <2>2, <2>3, StoredOfIs
      <4>3. QED  BY <4>1, <4>2 DEF Same
    <3>9. QED  BY <2>2, <3>6, <3>7, <3>8 DEF EStep, Effect, Phases
  <2>7. QED  BY <1>1, <2>5, <2>6, DatIs
<1>4. QED  BY <1>2, <1>3

\* Which variable the first slot takes over once the last slot has its address.
LEMMA AddressedFirst ==
  ASSUME NEW s \in Seq(Slot), NEW d, EndsTorn(s, d), NEW w \in Vars
  PROVE  /\ \A v \in Vars : v # w => (First(Addressed(s, w), v) <=> First(s, v))
         /\ First(Addressed(s, w), w) <=> First(s, w) \/ Len(s) = 1
<1> DEFINE t == Addressed(s, w)
<1>1. /\ s # <<>> /\ s[Len(s)] = Torn(d) /\ t # <<>> /\ t[Len(s)].var = w
      /\ \A i \in 1..Len(s) : i # Len(s) => t[i] = s[i]
      /\ Torn(d).var = None
  BY TornAddressed DEF EndsTorn, Torn
<1>2. 1 \in 1..Len(s) /\ \A v \in Vars : v # None
  BY <1>1, LenProperties, EmptySeq, NoneAssumption
<1>3. ASSUME Len(s) = 1, NEW v \in Vars
      PROVE  ~First(s, v) /\ (First(t, v) <=> v = w)
  <2>1. s[1].var = None /\ t[1].var = w /\ v # None
    BY <1>1, <1>2, <1>3
  <2> HIDE DEF t
  <2>2. QED  BY ONLY <1>1, <2>1 DEF First
<1>4. ASSUME Len(s) # 1, NEW v \in Vars
      PROVE  First(t, v) <=> First(s, v)
  <2>1. t[1] = s[1]
    BY <1>1, <1>2, <1>4
  <2> HIDE DEF t
  <2>2. QED  BY ONLY <1>1, <2>1 DEF First
<1> HIDE DEF t
<1>5. /\ \A v \in Vars : v # w => (First(t, v) <=> First(s, v))
      /\ First(t, w) <=> First(s, w) \/ Len(s) = 1
  BY <1>3, <1>4
<1>6. QED  BY <1>5 DEF t

LEMMA StoredPlain ==
  ASSUME NEW pg, PageTypes(pg), NEW p \in Pages, Plain(pg, p), NEW n, NEW v,
         NEW s, s = pg[p].slots
  PROVE  StoredOf(pg, n, v) = LastOf(s, v)
BY StoredIs

LEMMA StoredMoved ==
  ASSUME NEW pg, PageTypes(pg), NEW p \in Pages, Moved(pg, p), NEW n, NEW v,
         NEW s, s = pg[p].slots
  PROVE  StoredOf(pg, n, v) = LastOf(s, v)
BY StoredIs

LEMMA StoredMoving ==
  ASSUME NEW pg, PageTypes(pg), NEW p \in Pages, Moving(pg, p), NEW n, NEW v,
         NEW s, s = pg[p].slots, NEW o, o = pg[Other(p)].slots
  PROVE  StoredOf(pg, n, v) = IF First(s, v) THEN LastOf(s, v) ELSE LastOf(o, v)
BY StoredIs

\* A slot that gets its address stores its value, unless it is a copy.
LEMMA AddressPlain ==
  ASSUME NEW pg, PageTypes(pg), NEW qg, PageTypes(qg), NEW p \in Pages, NEW w \in Vars,
         NEW d, EndsTorn(pg[p].slots, d), Plain(pg, p), Plain(qg, p),
         qg[p].slots = Addressed(pg[p].slots, w), NEW n, NEW v \in Vars
  PROVE  StoredOf(qg, n, v) = IF v = w THEN d ELSE StoredOf(pg, n, v)
<1>1. PICK s \in Seq(Slot) : s = pg[p].slots
  BY DEF PageTypes
<1>2. PICK t : t = qg[p].slots
  OBVIOUS
<1>3. LastOf(t, w) = d /\ (v # w => LastOf(t, v) = LastOf(s, v))
  BY <1>1, <1>2, TornAddressed DEF EndsTorn
<1>4. StoredOf(pg, n, v) = LastOf(s, v)
  BY ONLY PageTypes(pg), p \in Pages, Plain(pg, p), <1>1, StoredIs
<1>5. StoredOf(qg, n, v) = LastOf(t, v)
  BY ONLY PageTypes(qg), p \in Pages, Plain(qg, p), <1>2, StoredIs
<1>6. QED  BY ONLY <1>3, <1>4, <1>5

LEMMA AddressMoving ==
  ASSUME NEW pg, PageTypes(pg), NEW qg, PageTypes(qg), NEW p \in Pages, NEW w \in Vars,
         NEW d, EndsTorn(pg[p].slots, d), Moving(pg, p), Moving(qg, p),
         qg[p].slots = Addressed(pg[p].slots, w), qg[Other(p)] = pg[Other(p)],
         Len(pg[p].slots) = 1 \/ (~First(pg[p].slots, w) /\ d = LastOf(pg[Other(p)].slots, w)),
         NEW n, NEW v \in Vars
  PROVE  StoredOf(qg, n, v) = IF v = w THEN d ELSE StoredOf(pg, n, v)
<1>1. PICK s \in Seq(Slot) : s = pg[p].slots
  BY DEF PageTypes
<1>2. PICK t : t = qg[p].slots
  OBVIOUS
<1>3. PICK o : o = pg[Other(p)].slots /\ o = qg[Other(p)].slots
  OBVIOUS
<1>4. EndsTorn(s, d) /\ t = Addressed(s, w)
  BY <1>1, <1>2
<1>5. LastOf(t, w) = d /\ (v # w => LastOf(t, v) = LastOf(s, v))
  BY <1>4, TornAddressed DEF EndsTorn
<1>6. /\ v # w => (First(t, v) <=> First(s, v))
      /\ First(t, w) <=> First(s, w) \/ Len(s) = 1
  BY <1>4, AddressedFirst
<1>7. StoredOf(pg, n, v) = IF First(s, v) THEN LastOf(s, v) ELSE LastOf(o, v)
  <2>1. s = pg[p].slots /\ o = pg[Other(p)].slots
    BY <1>1, <1>3
  <2>2. QED  BY ONLY PageTypes(pg), p \in Pages, Moving(pg, p), <2>1, StoredMoving
<1>8. StoredOf(qg, n, v) = IF First(t, v) THEN LastOf(t, v) ELSE LastOf(o, v)
  BY ONLY PageTypes(qg), p \in Pages, Moving(qg, p), <1>2, <1>3, StoredMoving
<1>9. Len(s) = 1 \/ d = LastOf(o, w)
  BY <1>1, <1>3
<1>10. QED  BY ONLY <1>5, <1>6, <1>7, <1>8, <1>9

LEMMA AddressStep ==
  ASSUME EInv, ProgramAddress
  PROVE  EStep
<1>1. op.pc = "var" /\ op \in OpTypes /\ op.dat \in Values /\ op.var \in Vars /\ op.new \in Pages
  BY DEF ProgramAddress, Doing, EInv, TInv, TypeOK, OpTypes
<1>2. PICK n \in Pages, d \in Values, w \in Vars : n = op.new /\ d = op.dat /\ w = op.var
  BY <1>1
<1>3. Other(n) \in Pages /\ Other(Other(n)) = n /\ PageTypes(page) /\ Shape(page)
  BY OtherIs DEF EInv, Shape
<1>4. page' = [page EXCEPT ![WritePage].slots = Addressed(@, w)]
  BY <1>2 DEF ProgramAddress
<1>5. CASE Writing(page, op)
  <2>1. PICK r \in Pages : r = Other(n)
    BY <1>3
  <2>2. Plain(page, r) /\ WritePage = r /\ EndsTorn(page[r].slots, d) /\ op.first = TRUE
    BY <1>1, <1>2, <1>5, <2>1, ReadingIs, PagesAre DEF Writing, OpTypes
  <2>3. page' = Named(page, r, w)
    BY <1>4, <2>2 DEF Named
  <2>4. /\ PageTypes(page') /\ page'[r].slots = Addressed(page[r].slots, w)
        /\ page'[Other(r)] = page[Other(r)] /\ page[r].slots \in Seq(Slot)
        /\ \A q \in Pages : page'[q].status = page[q].status
        /\ Plain(page', r)
    <3>1. Addressed(page[r].slots, w) \in Seq(Slot)
      BY <1>3, <2>2, TornAddressed DEF EndsTorn, PageTypes
    <3>2. QED  BY <1>3, <2>2, <2>3, <3>1, AddressPut
  <2>5. Shape(page')
    <3>1. page[r].status # "erased" /\ ~Moving(page, r) /\ ~Moving(page, Other(r))
      BY <2>2 DEF Plain, Moving
    <3>2. QED  BY <1>3, <2>4, <3>1, ShapePut
  <2>6. op' = Idle /\ Idle.kind = "none" /\ Idle.pc = "idle" /\ Idle.first = FALSE
    BY <1>5 DEF ProgramAddress, Writing, Idle
  <2>7. Resting(page', op')
    BY <2>4, <2>6 DEF Resting, Settled
  <2>8. PICK m : m = op'.new
    OBVIOUS
  <2>9. \A v \in Vars : StoredOf(page', m, v) = IF v = w THEN d ELSE StoredOf(page, m, v)
    <3> SUFFICES ASSUME NEW v \in Vars
                 PROVE  StoredOf(page', m, v) = IF v = w THEN d ELSE StoredOf(page, m, v)
      OBVIOUS
    <3>1. /\ PageTypes(page) /\ PageTypes(page') /\ EndsTorn(page[r].slots, d)
          /\ Plain(page, r) /\ Plain(page', r) /\ page'[r].slots = Addressed(page[r].slots, w)
      BY <1>3, <2>2, <2>4
    <3>2. QED  BY ONLY r \in Pages, w \in Vars, v \in Vars, <3>1, AddressPlain
  <2>10. \A v \in Vars : Stored(v)' = StoredOf(page', m, v) /\ Stored(v) = StoredOf(page, m, v)
    <3>1. \A v : StoredOf(page, m, v) = StoredOf(page, n, v)
      BY <1>3, <2>2, StoredSame
    <3>2. QED  BY <1>2, <2>8, <3>1, StoredOfIs
  <2>11. Effect
    <3>1. \A v \in Vars : Stored(v)' = IF v = w THEN d ELSE Stored(v)
      BY ONLY <2>9, <2>10
    <3>2. \A v \in Vars : Stored(v)' = IF v = op.var THEN op.dat ELSE Stored(v)
      BY ONLY <1>2, <3>1
    <3>3. QED  BY <1>1, <2>2, <2>6, <3>2 DEF Effect
  <2>12. QED  BY <2>5, <2>7, <2>11 DEF EStep, Phases
<1>6. CASE Taking(page, op)
  <2>1. /\ Moving(page, n) /\ WritePage = n /\ EndsTorn(page[n].slots, d) /\ op.first = TRUE
        /\ Len(page[n].slots) = 1
    BY <1>1, <1>2, <1>6, ReadingIs, PagesAre DEF Taking, OpTypes
  <2>2. page' = Named(page, n, w)
    BY <1>4, <2>1 DEF Named
  <2>3. /\ PageTypes(page') /\ page'[n].slots = Addressed(page[n].slots, w)
        /\ page'[Other(n)] = page[Other(n)] /\ page[n].slots \in Seq(Slot)
        /\ \A q \in Pages : page'[q].status = page[q].status
        /\ Moving(page', n)
    <3>1. Addressed(page[n].slots, w) \in Seq(Slot)
      BY <1>3, <2>1, TornAddressed DEF EndsTorn, PageTypes
    <3>2. QED  BY <1>3, <2>1, <2>2, <3>1, AddressPut
  <2>4. Len(page'[n].slots) = 1 /\ First(page'[n].slots, w)
    <3>1. Len(Addressed(page[n].slots, w)) = Len(page[n].slots)
      BY <2>1, <2>3, TornAddressed DEF EndsTorn
    <3>2. First(Addressed(page[n].slots, w), w)
      BY <2>1, <2>3, AddressedFirst
    <3>3. QED  BY <2>1, <2>3, <3>1, <3>2
  <2>5. Shape(page')
    <3>1. page[n].status # "erased" /\ ~Moving(page, Other(n))
      BY <2>1 DEF Moving
    <3>2. Kept(page'[n].slots, page[Other(n)].slots)
      BY <2>4, KeptShort
    <3>3. QED  BY <1>3, <2>3, <3>1, <3>2, ShapePut
  <2>6. op' = [op EXCEPT !.pc = "copy", !.first = FALSE]
    BY <1>6 DEF ProgramAddress, Taking
  <2>7. /\ op'.kind = "transfer" /\ op'.pc = "copy" /\ op'.first = FALSE /\ op'.idx = 1
        /\ op'.new = n /\ op'.var = w
    BY <1>1, <1>2, <1>6, <2>6 DEF Taking, OpTypes
  <2>8. Copying(page', op')
    <3>1. \A i \in 1..Len(VarTab) : ~(i < 1)
      BY TabIs
    <3>2. QED  BY <2>3, <2>4, <2>7, <3>1 DEF Copying
  <2>9. \A v \in Vars : StoredOf(page', n, v) = IF v = w THEN d ELSE StoredOf(page, n, v)
    <3> SUFFICES ASSUME NEW v \in Vars
                 PROVE  StoredOf(page', n, v) = IF v = w THEN d ELSE StoredOf(page, n, v)
      OBVIOUS
    <3>1. /\ PageTypes(page) /\ PageTypes(page') /\ EndsTorn(page[n].slots, d)
          /\ Moving(page, n) /\ Moving(page', n) /\ page'[n].slots = Addressed(page[n].slots, w)
          /\ page'[Other(n)] = page[Other(n)] /\ Len(page[n].slots) = 1
      BY <1>3, <2>1, <2>3
    <3>2. QED  BY ONLY n \in Pages, w \in Vars, v \in Vars, <3>1, AddressMoving
  <2>10. \A v \in Vars : Stored(v)' = StoredOf(page', n, v) /\ Stored(v) = StoredOf(page, n, v)
    BY <1>2, <2>7, StoredOfIs
  <2>11. Effect
    <3>1. \A v \in Vars : Stored(v)' = IF v = w THEN d ELSE Stored(v)
      BY ONLY <2>9, <2>10
    <3>2. \A v \in Vars : Stored(v)' = IF v = op.var THEN op.dat ELSE Stored(v)
      BY ONLY <1>2, <3>1
    <3>3. QED  BY <1>1, <2>1, <2>7, <3>2 DEF Effect
  <2>12. QED  BY <2>5, <2>8, <2>11 DEF EStep, Phases
<1>7. QED  BY <1>1, <1>5, <1>6, VarIs

LEMMA ReceiveStep ==
  ASSUME EInv, MarkReceive
  PROVE  EStep
<1>1. Starting(page, op)
  BY DEF EInv, MarkReceive, Doing, Phases, Off, Resting, Writing, Taking, Copying, Copied,
         Erasing, Promoting, Formatting
<1>2. PICK n \in Pages : n = op.new
  BY DEF EInv, TInv, TypeOK
<1>3. PICK r \in Pages : r = Other(n) /\ Other(r) = n /\ n # r
  BY OtherIs
<1>4. PageTypes(page) /\ Shape(page) /\ op \in OpTypes
  BY DEF EInv, Shape, TInv, TypeOK, OpTypes
<1>5. /\ PageTypes(page') /\ \A q \in Pages : page'[q].slots = page[q].slots
      /\ page'[n].status = "receive" /\ page'[r] = page[r]
  BY <1>2, <1>3, <1>4, MarkTypes DEF MarkReceive
<1>6. PICK s, o : s = page[n].slots /\ o = page[r].slots
  OBVIOUS
<1>7. \/ page[n].status = "erased" /\ page[r].status = "valid" /\ s = <<>>
      \/ Moving(page, n) /\ Len(s) = Slots
  <2>1. Settled(page, r)
    BY <1>1, <1>2, <1>3 DEF Starting
  <2>2. QED  BY <1>3, <1>4, <1>6, <2>1 DEF Settled, Plain, Shape
<1>8. Moving(page', n) /\ (s = <<>> \/ Len(s) = Slots)
  BY <1>3, <1>5, <1>7 DEF Moving
<1>9. /\ op'.kind = "transfer" /\ op'.pc = "dat" /\ op'.first = op.first /\ op'.idx = 1
      /\ op'.new = n /\ op'.var = op.var /\ op'.dat = op.dat /\ op.first
  BY <1>1, <1>2, <1>4 DEF Starting, MarkReceive, Then, OpTypes
<1>10. Taking(page', op')
  BY <1>5, <1>6, <1>8, <1>9 DEF Taking
<1>11. Shape(page')
  <2>1. Kept(s, o)
    <3>1. CASE s = <<>>
      BY <3>1, KeptShort
    <3>2. CASE Moving(page, n)
      BY <1>3, <1>4, <1>6, <3>2 DEF Shape
    <3>3. QED  BY <1>7, <3>1, <3>2
  <2>2. \A q \in Pages : Moving(page', q) => q = n
    BY <1>3, <1>5, <1>8, OtherIs DEF Moving
  <2>3. \A q \in Pages : Moving(page', q) => Kept(page'[q].slots, page'[Other(q)].slots)
    BY <1>3, <1>5, <1>6, <2>1, <2>2
  <2>4. \A q \in Pages : page'[q].status = "erased" => page'[q].slots = <<>>
    <3>1. page'[n].status # "erased" /\ page'[r].status # "erased"
      BY <1>3, <1>8 DEF Moving
    <3>2. QED  BY <1>3, <3>1, OtherIs
  <2>5. QED  BY <1>5, <2>3, <2>4 DEF Shape
<1>12. Same
  <2>1. \A v : Stored(v)' = StoredOf(page', n, v) /\ Stored(v) = StoredOf(page, n, v)
    BY <1>2, <1>9, StoredOfIs
  <2>2. \A v : StoredOf(page', n, v) = IF First(s, v) THEN LastOf(s, v) ELSE LastOf(o, v)
    BY <1>3, <1>5, <1>6, <1>8, StoredMoving
  <2>3. CASE page[n].status = "erased" /\ page[r].status = "valid" /\ s = <<>>
    <3>1. \A v : StoredOf(page, n, v) = LastOf(o, v)
      BY <1>3, <1>4, <1>6, <2>3, StoredPlain DEF Plain
    <3>2. \A v : ~First(s, v)
      BY <2>3 DEF First
    <3>3. QED  BY <2>1, <2>2, <3>1, <3>2 DEF Same
  <2>4. CASE Moving(page, n)
    <3>1. \A v : StoredOf(page, n, v) = IF First(s, v) THEN LastOf(s, v) ELSE LastOf(o, v)
      BY <1>3, <1>4, <1>6, <2>4, StoredMoving
    <3>2. QED  BY <2>1, <2>2, <3>1 DEF Same
  <2>5. QED  BY <1>7, <2>3, <2>4
<1>13. QED  BY <1>9, <1>10, <1>11, <1>12 DEF EStep, Effect, Phases

-----------------------------------------------------------------------------
(* The copying *)

\* The variable that the new page takes over is the one of its first slot.
LEMMA WrittenIs ==
  ASSUME Copying(page, op), PageTypes(page), op.new \in Pages, NEW v
  PROVE  IsWritten(v) <=> First(page[op.new].slots, v)
<1>1. page[op.new].slots # <<>> => Head(page[op.new].slots) = page[op.new].slots[1]
  BY DEF PageTypes
<1>2. CASE op.kind = "recover"
  BY <1>1, <1>2 DEF IsWritten, First
<1>3. CASE op.kind = "transfer"
  <2>1. First(page[op.new].slots, op.var)
    BY <1>3 DEF Copying
  <2>2. QED  BY <1>3, <2>1 DEF IsWritten, First
<1>4. QED  BY <1>2, <1>3 DEF Copying

\* What is copied in a phase of Copying, in the slots of the two pages.
LEMMA CurrentIs ==
  ASSUME Copying(page, op), PageTypes(page), op.new \in Pages, NEW i
  PROVE  /\ WritePage = op.new
         /\ ReadVariable(VarTab[i]) = LastOf(page[Other(op.new)].slots, VarTab[i])
         /\ Current(i) <=> /\ ~First(page[op.new].slots, VarTab[i])
                           /\ LastOf(page[Other(op.new)].slots, VarTab[i]) # None
<1>1. Moving(page, op.new)
  BY DEF Copying
<1>2. ReadPageOf(page) = Other(op.new) /\ Other(op.new) # None /\ WritePage = op.new
  BY <1>1, ReadingIs, PagesAre
<1>3. ReadVariable(VarTab[i]) = LastOf(page[Other(op.new)].slots, VarTab[i])
  BY <1>2, ReadIs
<1>4. QED  BY <1>2, <1>3, WrittenIs DEF Current

LEMMA DoneIs ==
  ASSUME NEW s \in Seq(Slot), NEW o, Kept(s, o), NEW v \in Vars, Done(s, o, v)
  PROVE  First(s, v) \/ LastOf(s, v) = LastOf(o, v)
BY KeptReads DEF Done

LEMMA CopyEnds ==
  ASSUME EInv, CopyNext, \A i \in op.idx..Len(VarTab) : ~Current(i),
         op' = [op EXCEPT !.pc = IF op.kind = "recover" THEN "valid" ELSE "erase"],
         page' = page
  PROVE  EStep
<1>1. Copying(page, op) /\ op.pc = "copy"
  BY CopyingIs DEF CopyNext, Doing
<1>2. /\ PageTypes(page) /\ Shape(page) /\ op \in OpTypes /\ op.new \in Pages
      /\ op.idx \in 1..(Len(VarTab) + 1)
  BY DEF EInv, Shape, TInv, TypeOK, OpTypes
<1>3. PICK n \in Pages : n = op.new
  BY <1>2
<1>4. Moving(page, n) /\ op.first = FALSE /\ op.kind \in {"transfer", "recover"}
  BY <1>1, <1>2, <1>3 DEF Copying, OpTypes
<1>5. PICK s \in Seq(Slot), o \in Seq(Slot) : s = page[n].slots /\ o = page[Other(n)].slots
  BY <1>2, OtherIs DEF PageTypes
<1>6. Kept(s, o)
  BY <1>2, <1>4, <1>5 DEF Shape
<1>7. \A i \in 1..Len(VarTab) : Done(s, o, VarTab[i])
  <2> SUFFICES ASSUME NEW i \in 1..Len(VarTab) PROVE Done(s, o, VarTab[i])
    OBVIOUS
  <2>1. i < op.idx \/ i \in op.idx..Len(VarTab)
    BY <1>2, TabIs
  <2>2. CASE i < op.idx
    BY <1>1, <1>3, <1>5, <2>2 DEF Copying
  <2>3. CASE i \in op.idx..Len(VarTab)
    <3>1. ~Current(i)
      BY <2>3
    <3>2. QED  BY <1>1, <1>2, <1>3, <1>5, <3>1, CurrentIs DEF Done
  <2>4. QED  BY <2>1, <2>2, <2>3
<1>8. Complete(s, o)
  <2>1. ASSUME NEW v \in Vars, v \in Tabled PROVE Done(s, o, v)
    BY <1>7, <2>1 DEF Tabled
  <2>2. QED  BY <1>6, <2>1, DoneIs DEF Complete
<1>9. /\ op'.kind = op.kind /\ op'.new = n /\ op'.first = FALSE
      /\ op'.pc = IF op.kind = "recover" THEN "valid" ELSE "erase"
  BY <1>2, <1>3, <1>4 DEF OpTypes
<1>10. Copied(page', op')
  BY <1>4, <1>5, <1>8, <1>9 DEF Copied
<1>11. Same
  BY <1>2, <1>3, <1>4, PageSame
<1>12. QED  BY <1>2, <1>4, <1>9, <1>10, <1>11 DEF EStep, Effect, Phases

\* A new slot takes no variable over.
LEMMA TornFirst ==
  ASSUME NEW s \in Seq(Slot), NEW d \in Values, NEW v \in Vars
  PROVE  First(Append(s, Torn(d)), v) <=> First(s, v)
<1> DEFINE t == Append(s, Torn(d))
<1>1. /\ t # <<>> /\ \A i \in 1..Len(s) : t[i] = s[i]
      /\ t[Len(s) + 1] = Torn(d) /\ Torn(d).var = None
  BY TornAppended DEF Torn
<1> HIDE DEF t
<1>2. CASE s = <<>>
  <2>1. t[1] = Torn(d) /\ v # None
    BY <1>1, <1>2, NoneAssumption
  <2>2. ~First(t, v) /\ ~First(s, v)
    BY <1>1, <1>2, <2>1 DEF First
  <2>3. QED  BY <2>2 DEF t
<1>3. CASE s # <<>>
  <2>1. 1 \in 1..Len(s)
    BY <1>3, LenProperties, EmptySeq
  <2>2. t[1] = s[1]
    BY <1>1, <2>1
  <2>3. First(t, v) <=> First(s, v)
    BY ONLY <1>1, <1>3, <2>2 DEF First
  <2>4. QED  BY <2>3 DEF t
<1>4. QED  BY <1>2, <1>3

LEMMA CopyOne ==
  ASSUME EInv, NEW i, Copies(i)
  PROVE  EStep
<1>1. Copying(page, op) /\ op.pc = "copy"
  BY CopyingIs DEF Copies
<1>2. /\ PageTypes(page) /\ Shape(page) /\ op \in OpTypes /\ op.new \in Pages
      /\ op.idx \in 1..(Len(VarTab) + 1)
  BY DEF EInv, Shape, TInv, TypeOK, OpTypes
<1>3. PICK n \in Pages : n = op.new
  BY <1>2
<1>4. Moving(page, n) /\ op.first = FALSE /\ op.kind \in {"transfer", "recover"}
  BY <1>1, <1>2, <1>3 DEF Copying, OpTypes
<1>5. i \in 1..Len(VarTab) /\ VarTab[i] \in Vars
  <2>1. i \in op.idx..Len(VarTab)
    BY DEF Copies
  <2>2. i \in 1..Len(VarTab)
    BY <1>2, <2>1, TabIs
  <2>3. QED  BY <2>2, TabIs
<1>6. PICK w \in Vars : w = VarTab[i]
  BY <1>5
<1>7. PICK s \in Seq(Slot), o \in Seq(Slot) : s = page[n].slots /\ o = page[Other(n)].slots
  BY <1>2, OtherIs DEF PageTypes
<1>8. PICK d : d = LastOf(o, w)
  OBVIOUS
<1>9. ~First(s, w) /\ d # None /\ WritePage = n /\ ReadVariable(VarTab[i]) = d
  BY <1>1, <1>2, <1>3, <1>6, <1>7, <1>8, CurrentIs DEF Copies
<1>10. d \in Values
  BY <1>7, <1>8, <1>9, LastIs
<1>11. page' = Extended(page, n, d) /\ op' = [op EXCEPT !.pc = "copied", !.idx = i]
  BY <1>9 DEF Copies, Extended
<1>12. /\ PageTypes(page') /\ page'[n].slots = Append(page[n].slots, Torn(d))
       /\ page'[Other(n)] = page[Other(n)]
       /\ \A q \in Pages : page'[q].status = page[q].status
       /\ Moving(page', n)
  BY <1>2, <1>4, <1>10, <1>11, TornPut
<1>13. PICK t \in Seq(Slot) : t = page'[n].slots /\ t = Append(s, Torn(d))
  BY <1>7, <1>12 DEF PageTypes
<1>14. Shape(page')
  <2>1. page[n].status # "erased" /\ ~Moving(page, Other(n))
    BY <1>4 DEF Moving
  <2>2. Kept(s, o)
    BY <1>2, <1>4, <1>7 DEF Shape
  <2>3. Kept(t, o)
    BY <1>10, <1>13, <2>2, KeptTorn
  <2>4. QED  BY <1>2, <1>7, <1>12, <1>13, <2>1, <2>3, ShapePut
<1>15. /\ op'.kind = op.kind /\ op'.pc = "copied" /\ op'.first = FALSE /\ op'.idx = i
       /\ op'.new = n /\ op'.var = op.var
  BY <1>2, <1>3, <1>4, <1>11 DEF OpTypes
<1>16. \A v \in Vars : (First(t, v) <=> First(s, v)) /\ LastOf(t, v) = LastOf(s, v)
  BY <1>10, <1>13, TornFirst, TornAppended
<1>17. op.kind = "transfer" => op.var \in Vars /\ First(t, op.var)
  <2>1. op.kind = "transfer" => op.var \in Vars /\ First(s, op.var)
    BY <1>1, <1>3, <1>7 DEF Copying
  <2>2. QED  BY <1>16, <2>1
<1>18. \A j \in 1..Len(VarTab) : j < i => Done(t, o, VarTab[j])
  <2> SUFFICES ASSUME NEW j \in 1..Len(VarTab), j < i PROVE Done(t, o, VarTab[j])
    OBVIOUS
  <2>1. Done(s, o, VarTab[j])
    <3>1. CASE j < op.idx
      BY <1>1, <1>3, <1>7, <3>1 DEF Copying
    <3>2. CASE ~(j < op.idx)
      <4>1. j \in op.idx..Len(VarTab) /\ ~(i <= j)
        BY <1>2, <1>5, <3>2, TabIs
      <4>2. ~Current(j)
        BY <4>1 DEF Copies
      <4>3. QED  BY <1>1, <1>2, <1>3, <1>7, <4>2, CurrentIs DEF Done
    <3>3. QED  BY <3>1, <3>2
  <2>2. VarTab[j] \in Vars
    BY TabIs
  <2>3. QED  BY <1>16, <2>1, <2>2 DEF Done
<1>19. Copying(page', op')
  <2>1. EndsTorn(t, d)
    BY <1>10, <1>13, TornAppended DEF EndsTorn
  <2>2. ~First(t, w) /\ LastOf(o, w) # None /\ LastOf(o, w) = d
    BY <1>8, <1>9, <1>16
  <2>3. page'[n].slots = t /\ page'[Other(n)].slots = o
    BY <1>7, <1>12, <1>13
  <2>4. QED  BY <1>4, <1>6, <1>12, <1>15, <1>17, <1>18, <2>1, <2>2, <2>3 DEF Copying
<1>20. Same
  <2>1. \A v \in Vars : StoredOf(page', n, v) = StoredOf(page, n, v)
    BY <1>2, <1>4, <1>7, <1>10, <1>12, TornStores
  <2>2. \A v \in Vars : Stored(v)' = StoredOf(page', n, v) /\ Stored(v) = StoredOf(page, n, v)
    BY <1>3, <1>15, StoredOfIs
  <2>3. QED  BY <2>1, <2>2 DEF Same
<1>21. QED  BY <1>4, <1>14, <1>15, <1>19, <1>20 DEF EStep, Effect, Phases

LEMMA CopyStep ==
  ASSUME EInv, CopyNext
  PROVE  EStep
<1>1. CASE PageFull /\ Full(WritePage)
  BY <1>1, FullStep DEF CopyNext, Doing
<1>2. TInv
  BY DEF EInv
<1>3. QED  BY <1>1, <1>2, CopyIs, CopyEnds, CopyOne

LEMMA CopiedStep ==
  ASSUME EInv, CopyAddress
  PROVE  EStep
<1>1. Copying(page, op) /\ op.pc = "copied"
  BY CopyingIs DEF CopyAddress, Doing
<1>2. /\ PageTypes(page) /\ Shape(page) /\ op \in OpTypes /\ op.new \in Pages
      /\ op.idx \in 1..Len(VarTab) /\ VarTab[op.idx] \in Vars
  BY <1>1, TabIs DEF EInv, Shape, TInv, TypeOK, OpTypes
<1>3. PICK n \in Pages, i \in 1..Len(VarTab), w \in Vars :
        n = op.new /\ i = op.idx /\ w = VarTab[i]
  BY <1>2
<1>4. Moving(page, n) /\ op.first = FALSE /\ op.kind \in {"transfer", "recover"}
      /\ WritePage = n
  BY <1>1, <1>2, <1>3, ReadingIs, PagesAre DEF Copying, OpTypes
<1>5. PICK s \in Seq(Slot), o \in Seq(Slot) : s = page[n].slots /\ o = page[Other(n)].slots
  BY <1>2, OtherIs DEF PageTypes
<1>6. PICK d : d = LastOf(o, w)
  OBVIOUS
<1>7. ~First(s, w) /\ d # None /\ EndsTorn(s, d)
  BY <1>1, <1>3, <1>5, <1>6 DEF Copying
<1>8. page' = Named(page, n, w) /\ op' = [op EXCEPT !.pc = "copy", !.idx = i + 1]
  BY <1>3, <1>4 DEF CopyAddress, Named
<1>9. PICK t : t = Addressed(s, w)
  OBVIOUS
<1>10. /\ t \in Seq(Slot) /\ Len(t) = Len(s) /\ t # <<>>
       /\ \A j \in 1..Len(s) : j # Len(s) => t[j] = s[j]
       /\ LastOf(t, w) = d /\ \A v \in Vars : v # w => LastOf(t, v) = LastOf(s, v)
  BY <1>7, <1>9, TornAddressed DEF EndsTorn
<1>11. /\ PageTypes(page') /\ page'[n].slots = Addressed(page[n].slots, w)
       /\ page'[Other(n)] = page[Other(n)]
       /\ \A q \in Pages : page'[q].status = page[q].status
       /\ Moving(page', n)
  <2>1. Addressed(page[n].slots, w) \in Seq(Slot)
    BY <1>5, <1>9, <1>10
  <2>2. QED  BY <1>2, <1>4, <1>8, <2>1, AddressPut
<1>12. page'[n].slots = t /\ page'[Other(n)].slots = o
  BY <1>5, <1>9, <1>11
<1>13. Shape(page')
  <2>1. page[n].status # "erased" /\ ~Moving(page, Other(n))
    BY <1>4 DEF Moving
  <2>2. Kept(s, o)
    BY <1>2, <1>4, <1>5 DEF Shape
  <2>3. Kept(t, o)
    BY <1>6, <1>7, <1>9, <2>2, KeptAddressed DEF EndsTorn
  <2>4. QED  BY <1>2, <1>5, <1>11, <1>12, <2>1, <2>3, ShapePut
<1>14. /\ op'.kind = op.kind /\ op'.pc = "copy" /\ op'.first = FALSE /\ op'.idx = i + 1
       /\ op'.new = n /\ op'.var = op.var
  BY <1>2, <1>3, <1>4, <1>8 DEF OpTypes
<1>15. \A v : v \in Vars /\ First(s, v) => First(t, v)
  BY <1>7, <1>9, AddressedFirst
<1>16. op.kind = "transfer" => op.var \in Vars /\ First(t, op.var)
  <2>1. op.kind = "transfer" => op.var \in Vars /\ First(s, op.var)
    BY <1>1, <1>3, <1>5 DEF Copying
  <2>2. QED  BY <1>15, <2>1
<1>17. \A j \in 1..Len(VarTab) : j < i + 1 => Done(t, o, VarTab[j])
  <2> SUFFICES ASSUME NEW j \in 1..Len(VarTab), j < i + 1 PROVE Done(t, o, VarTab[j])
    OBVIOUS
  <2>1. VarTab[j] \in Vars
    BY TabIs
  <2>2. j < i \/ VarTab[j] = w
    BY <1>3, TabIs
  <2>3. CASE VarTab[j] = w
    BY <1>7, <1>10, <2>3 DEF Done
  <2>4. CASE VarTab[j] # w
    <3>1. Done(s, o, VarTab[j])
      BY <1>1, <1>3, <1>5, <2>2, <2>4 DEF Copying
    <3>2. QED  BY <1>10, <1>15, <2>1, <2>4, <3>1 DEF Done
  <2>5. QED  BY <2>3, <2>4
<1>18. Copying(page', op')
  BY <1>4, <1>11, <1>12, <1>14, <1>16, <1>17 DEF Copying
<1>19. Same
  <2>1. \A v \in Vars : StoredOf(page', n, v) = IF v = w THEN d ELSE StoredOf(page, n, v)
    <3> SUFFICES ASSUME NEW v \in Vars
                 PROVE  StoredOf(page', n, v) = IF v = w THEN d ELSE StoredOf(page, n, v)
      OBVIOUS
    <3>1. /\ PageTypes(page) /\ PageTypes(page') /\ EndsTorn(page[n].slots, d)
          /\ Moving(page, n) /\ Moving(page', n) /\ page'[n].slots = Addressed(page[n].slots, w)
          /\ page'[Other(n)] = page[Other(n)]
          /\ ~First(page[n].slots, w) /\ d = LastOf(page[Other(n)].slots, w)
      BY <1>2, <1>4, <1>5, <1>6, <1>7, <1>11
    <3>2. QED  BY ONLY n \in Pages, w \in Vars, v \in Vars, <3>1, AddressMoving
  <2>2. StoredOf(page, n, w) = d
    <3>1. StoredOf(page, n, w) = IF First(s, w) THEN LastOf(s, w) ELSE LastOf(o, w)
      BY ONLY <1>2, <1>4, <1>5, n \in Pages, StoredMoving
    <3>2. QED  BY <1>6, <1>7, <3>1
  <2>3. \A v \in Vars : Stored(v)' = StoredOf(page', n, v) /\ Stored(v) = StoredOf(page, n, v)
    BY <1>3, <1>14, StoredOfIs
  <2>4. QED  BY <2>1, <2>2, <2>3 DEF Same
<1>20. QED  BY <1>4, <1>13, <1>14, <1>18, <1>19 DEF EStep, Effect, Phases

-----------------------------------------------------------------------------
(* The end of a transfer, EE_Init and power losses *)

LEMMA EraseStep ==
  ASSUME EInv, EraseOld
  PROVE  EStep
<1>1. Copied(page, op) \/ Erasing(page, op)
  BY DEF EInv, EraseOld, Doing, Phases, Off, Resting, Writing, Starting, Taking, Copying,
         Promoting, Formatting
<1>2. PageTypes(page) /\ Shape(page) /\ op \in OpTypes /\ op.pc = "erase"
  BY DEF EInv, Shape, TInv, TypeOK, OpTypes, EraseOld, Doing
<1>3. PICK n \in Pages, r \in Pages :
        n = op.new /\ r = Other(n) /\ Other(r) = n /\ n # r /\ \A q \in Pages : q = n \/ q = r
  BY OtherIs DEF EInv, TInv, TypeOK
<1>4. page' = [page EXCEPT ![r] = Empty]
  BY <1>3 DEF EraseOld
<1>5. /\ PageTypes(page') /\ page'[n] = page[n]
      /\ page'[r].slots = <<>> /\ page'[r].status = "erased"
  BY <1>2, <1>3, <1>4, EraseTypes
<1>6. Idle.kind = "none" /\ Idle.pc = "idle" /\ Idle.first = FALSE
  BY DEF Idle
<1>7. CASE Copied(page, op)
  <2>1. op.kind = "transfer" /\ op.first = FALSE /\ Moving(page, n)
        /\ Complete(page[n].slots, page[r].slots)
    BY <1>2, <1>3, <1>7 DEF Copied, OpTypes
  <2>2. op' = [op EXCEPT !.pc = "valid"]
    BY <2>1 DEF EraseOld
  <2>3. op'.kind = "transfer" /\ op'.pc = "valid" /\ op'.first = FALSE /\ op'.new = n
    BY <1>2, <1>3, <2>1, <2>2 DEF OpTypes
  <2>4. Moved(page', n)
    BY <1>3, <1>5, <2>1 DEF Moved, Moving
  <2>5. Shape(page')
    BY <1>3, <1>5, <2>4 DEF Shape, Moved, Moving
  <2>6. Same
    <3>1. \A v \in Vars : Stored(v)' = StoredOf(page', n, v) /\ Stored(v) = StoredOf(page, n, v)
      BY <1>3, <2>3, StoredOfIs
    <3>2. PICK s, o : s = page[n].slots /\ o = page[r].slots
      OBVIOUS
    <3>3. \A v : StoredOf(page, n, v) = IF First(s, v) THEN LastOf(s, v) ELSE LastOf(o, v)
      BY <1>2, <1>3, <2>1, <3>2, StoredMoving
    <3>4. \A v : StoredOf(page', n, v) = LastOf(s, v)
      BY <1>5, <2>4, <3>2, StoredMoved
    <3>5. QED  BY <2>1, <3>1, <3>2, <3>3, <3>4 DEF Same, Complete
  <2>7. Promoting(page', op')
    BY <2>3, <2>4 DEF Promoting
  <2>8. QED  BY <2>1, <2>3, <2>5, <2>6, <2>7 DEF EStep, Effect, Phases
<1>8. CASE Erasing(page, op)
  <2>1. op' = Idle /\ Both(page) /\ op.first = FALSE
    BY <1>2, <1>8 DEF Erasing, EraseOld, OpTypes
  <2>2. Plain(page', n)
    BY <1>3, <1>5, <2>1 DEF Plain, Both
  <2>3. Shape(page')
    BY <1>3, <1>5, <2>2 DEF Shape, Plain, Moving
  <2>4. Resting(page', op')
    BY <1>6, <2>1, <2>2 DEF Resting, Settled
  <2>5. PICK m : m = op'.new
    OBVIOUS
  <2>6. Same
    <3>1. \A v \in Vars : Stored(v)' = StoredOf(page', m, v) /\ Stored(v) = StoredOf(page, n, v)
      BY <1>3, <2>5, StoredOfIs
    <3>2. \A v : StoredOf(page', m, v) = LastOf(page'[n].slots, v)
      BY <1>5, <2>2, StoredPlain
    <3>3. \A v : StoredOf(page, n, v) = LastOf(page[n].slots, v)
      BY <1>2, <1>3, <2>1, StoredIs
    <3>4. QED  BY <1>5, <3>1, <3>2, <3>3 DEF Same
  <2>7. QED  BY <1>6, <2>1, <2>3, <2>4, <2>6 DEF EStep, Effect, Phases
<1>9. QED  BY <1>1, <1>7, <1>8

LEMMA ValidStep ==
  ASSUME EInv, MarkValid
  PROVE  EStep
<1>1. Copied(page, op) \/ Promoting(page, op)
  BY DEF EInv, MarkValid, Doing, Phases, Off, Resting, Writing, Starting, Taking, Copying,
         Erasing, Formatting
<1>2. PageTypes(page) /\ Shape(page) /\ op \in OpTypes /\ op.pc = "valid"
  BY DEF EInv, Shape, TInv, TypeOK, OpTypes, MarkValid, Doing
<1>3. PICK n \in Pages, r \in Pages :
        n = op.new /\ r = Other(n) /\ Other(r) = n /\ n # r /\ \A q \in Pages : q = n \/ q = r
  BY OtherIs DEF EInv, TInv, TypeOK
<1>4. SetStatus(n, "valid")
  BY <1>3 DEF MarkValid
<1>5. /\ PageTypes(page') /\ page'[n].status = "valid" /\ page'[n].slots = page[n].slots
      /\ page'[r] = page[r]
  BY <1>2, <1>3, <1>4, MarkTypes
<1>6. Idle.kind = "none" /\ Idle.pc = "idle" /\ Idle.first = FALSE
  BY DEF Idle
<1>7. CASE Copied(page, op)
  <2>1. op.kind = "recover" /\ op.first = FALSE /\ Moving(page, n)
        /\ Complete(page[n].slots, page[r].slots)
    BY <1>2, <1>3, <1>7 DEF Copied, OpTypes
  <2>2. op' = [op EXCEPT !.pc = "erase"]
    BY <2>1 DEF MarkValid
  <2>3. op'.kind = "recover" /\ op'.pc = "erase" /\ op'.first = FALSE /\ op'.new = n
    BY <1>2, <1>3, <2>1, <2>2 DEF OpTypes
  <2>4. Both(page')
    BY <1>3, <1>5, <2>1 DEF Both, Moving
  <2>5. Shape(page')
    BY <1>3, <1>5, <2>4 DEF Shape, Both, Moving
  <2>6. Same
    <3>1. \A v \in Vars : Stored(v)' = StoredOf(page', n, v) /\ Stored(v) = StoredOf(page, n, v)
      BY <1>3, <2>3, StoredOfIs
    <3>2. PICK s, o : s = page[n].slots /\ o = page[r].slots
      OBVIOUS
    <3>3. \A v : StoredOf(page, n, v) = IF First(s, v) THEN LastOf(s, v) ELSE LastOf(o, v)
      BY <1>2, <1>3, <2>1, <3>2, StoredMoving
    <3>4. \A v : StoredOf(page', n, v) = LastOf(page'[n].slots, v)
      BY <1>5, <2>4, StoredIs
    <3>5. QED  BY <1>5, <2>1, <3>1, <3>2, <3>3, <3>4 DEF Same, Complete
  <2>7. Erasing(page', op')
    BY <2>3, <2>4 DEF Erasing
  <2>8. QED  BY <2>1, <2>3, <2>5, <2>6, <2>7 DEF EStep, Effect, Phases
<1>8. CASE Promoting(page, op)
  <2>1. op' = Idle /\ Moved(page, n) /\ op.first = FALSE
    BY <1>2, <1>3, <1>8 DEF Promoting, MarkValid, OpTypes
  <2>2. Plain(page', n)
    BY <1>3, <1>5, <2>1 DEF Plain, Moved
  <2>3. Shape(page')
    <3>1. page'[r].slots = <<>>
      BY <1>2, <1>3, <1>5, <2>1 DEF Shape, Moved
    <3>2. QED  BY <1>3, <1>5, <2>2, <3>1 DEF Shape, Plain, Moving
  <2>4. Resting(page', op')
    BY <1>6, <2>1, <2>2 DEF Resting, Settled
  <2>5. PICK m : m = op'.new
    OBVIOUS
  <2>6. Same
    <3>1. \A v \in Vars : Stored(v)' = StoredOf(page', m, v) /\ Stored(v) = StoredOf(page, n, v)
      BY <1>3, <2>5, StoredOfIs
    <3>2. \A v : StoredOf(page', m, v) = LastOf(page'[n].slots, v)
      BY <1>5, <2>2, StoredPlain
    <3>3. \A v : StoredOf(page, n, v) = LastOf(page[n].slots, v)
      BY <1>2, <1>3, <2>1, StoredMoved
    <3>4. QED  BY <1>5, <3>1, <3>2, <3>3 DEF Same
  <2>7. QED  BY <1>6, <2>1, <2>3, <2>4, <2>6 DEF EStep, Effect, Phases
<1>9. QED  BY <1>1, <1>7, <1>8

LEMMA StatusesIs ==
  ASSUME NEW p \in Pages, NEW s, NEW t, page[p].status = s, page[Other(p)].status = t
  PROVE  \A x, y : Statuses(x, y) <=> {s, t} = {x, y}
<1>1. p \in {0, 1} /\ Other(0) = 1 /\ Other(1) = 0
  BY DEF Pages, Other
<1>2. CASE p = 0
  BY <1>1, <1>2 DEF Statuses
<1>3. CASE p = 1
  <2>1. page[1].status = s /\ page[0].status = t
    BY <1>1, <1>3
  <2>2. QED  BY <2>1 DEF Statuses
<1>4. QED  BY <1>1, <1>2, <1>3

LEMMA ReceiverIs ==
  ASSUME NEW p \in Pages, page[p].status = "receive", page[Other(p)].status # "receive"
  PROVE  HasStatus("receive") = p
<1>1. \A q \in Pages : page[q].status = "receive" <=> q = p
  BY OtherIs
<1>2. QED  BY <1>1 DEF HasStatus

LEMMA BootStep ==
  ASSUME EInv, Boot
  PROVE  EStep
<1>1. Off(page, op)
  BY DEF EInv, Boot, Doing, Phases, Resting, Writing, Starting, Taking, Copying, Copied,
         Erasing, Promoting, Formatting
<1>2. PageTypes(page) /\ Shape(page) /\ op \in OpTypes /\ page' = page
  BY DEF EInv, Shape, TInv, TypeOK, OpTypes, Boot
<1>3. op.first = FALSE
  BY <1>1, <1>2 DEF Off, OpTypes
<1>4. Idle.kind = "none" /\ Idle.pc = "idle" /\ Idle.first = FALSE /\ Idle.idx = 1
  BY DEF Idle
<1>5. Phases(page, op') /\ op'.first = FALSE
  <2>1. CASE Blanks(page)
    <3>1. 0 \in Pages
      BY DEF Pages
    <3>2. page[0].status = "erased" /\ page[Other(0)].status = "erased"
      BY <2>1, <3>1, OtherIs DEF Blanks
    <3>3. /\ ~Statuses("erased", "valid") /\ ~Statuses("erased", "receive")
          /\ ~Statuses("receive", "valid")
      <4>1. /\ {"erased", "erased"} # {"erased", "valid"}
            /\ {"erased", "erased"} # {"erased", "receive"}
            /\ {"erased", "erased"} # {"receive", "valid"}
        OBVIOUS
      <4>2. PICK z : z = "erased"
        OBVIOUS
      <4>3. \A x, y : Statuses(x, y) <=> {z, z} = {x, y}
        BY ONLY <3>1, <3>2, <4>2, StatusesIs
      <4>4. QED  BY <4>1, <4>2, <4>3
    <3>4. op' = [Idle EXCEPT !.kind = "format", !.pc = "erase0"]
      BY <3>3 DEF Boot
    <3>5. op'.kind = "format" /\ op'.pc = "erase0" /\ op'.first = FALSE
      BY <3>4 DEF Idle
    <3>6. Formatting(page, op')
      BY <2>1, <3>5 DEF Formatting
    <3>7. QED  BY <3>5, <3>6 DEF Phases
  <2>2. CASE \E p \in Pages : Plain(page, p)
    <3>1. PICK p \in Pages : Plain(page, p)
      BY <2>2
    <3>2. Statuses("erased", "valid")
      <4>1. {"valid", "erased"} = {"erased", "valid"}
        OBVIOUS
      <4>2. QED  BY <3>1, <4>1, StatusesIs DEF Plain
    <3>3. op' = Idle
      BY <3>2 DEF Boot
    <3>4. Resting(page, op')
      BY <1>4, <3>1, <3>3 DEF Resting, Settled
    <3>5. QED  BY <1>4, <3>3, <3>4 DEF Phases
  <2>3. CASE \E p \in Pages : Moved(page, p)
    <3>1. PICK p \in Pages : Moved(page, p)
      BY <2>3
    <3>2. ~Statuses("erased", "valid") /\ Statuses("erased", "receive")
      <4>1. {"receive", "erased"} = {"erased", "receive"}
            /\ {"receive", "erased"} # {"erased", "valid"}
        OBVIOUS
      <4>2. QED  BY <3>1, <4>1, StatusesIs DEF Moved
    <3>3. HasStatus("receive") = p
      BY <3>1, ReceiverIs DEF Moved
    <3>4. op' = [Idle EXCEPT !.kind = "promote", !.pc = "valid", !.new = p]
      BY <3>2, <3>3 DEF Boot
    <3>5. op'.kind = "promote" /\ op'.pc = "valid" /\ op'.first = FALSE /\ op'.new = p
      BY <3>4 DEF Idle
    <3>6. Promoting(page, op')
      BY <3>1, <3>5 DEF Promoting
    <3>7. QED  BY <3>5, <3>6 DEF Phases
  <2>4. CASE \E p \in Pages : Moving(page, p)
    <3>1. PICK p \in Pages : Moving(page, p)
      BY <2>4
    <3>2. /\ ~Statuses("erased", "valid") /\ ~Statuses("erased", "receive")
          /\ Statuses("receive", "valid")
      <4>1. {"receive", "valid"} # {"erased", "receive"}
            /\ {"receive", "valid"} # {"erased", "valid"}
        OBVIOUS
      <4>2. QED  BY <3>1, <4>1, StatusesIs DEF Moving
    <3>3. HasStatus("receive") = p
      BY <3>1, ReceiverIs DEF Moving
    <3>4. op' = [Idle EXCEPT !.kind = "recover", !.pc = "copy", !.new = p]
      BY <3>2, <3>3 DEF Boot
    <3>5. /\ op'.kind = "recover" /\ op'.pc = "copy" /\ op'.first = FALSE /\ op'.new = p
          /\ op'.idx = 1
      BY <3>4 DEF Idle
    <3>6. \A i \in 1..Len(VarTab) : ~(i < 1)
      BY TabIs
    <3>7. Copying(page, op')
      BY <3>1, <3>5, <3>6 DEF Copying
    <3>8. QED  BY <3>5, <3>7 DEF Phases
  <2>5. QED  BY <1>1, <2>1, <2>2, <2>3, <2>4 DEF Off
<1>6. Same
  BY <1>1, <1>2, PageSame DEF Off
<1>7. QED  BY <1>2, <1>3, <1>5, <1>6 DEF EStep, Effect

LEMMA FormatStep ==
  ASSUME EInv, FormatErase \/ FormatValid \/ FormatEnd
  PROVE  EStep
<1>1. Formatting(page, op)
  BY DEF EInv, FormatErase, FormatValid, FormatEnd, Doing, Phases, Off, Resting, Writing,
         Starting, Taking, Copying, Copied, Erasing, Promoting
<1>2. PageTypes(page) /\ Shape(page) /\ op \in OpTypes
  BY DEF EInv, Shape, TInv, TypeOK, OpTypes
<1>3. /\ 0 \in Pages /\ 1 \in Pages /\ Other(0) = 1 /\ Other(1) = 0
      /\ \A q \in Pages : q = 0 \/ q = 1
  BY DEF Pages, Other
<1>4. op.first = FALSE /\ op.kind = "format"
  BY <1>1, <1>2 DEF Formatting, OpTypes
<1>5. PICK n, m : n = op.new /\ m = op'.new
  OBVIOUS
<1>6. \A v : Stored(v)' = StoredOf(page', m, v) /\ Stored(v) = StoredOf(page, n, v)
  BY <1>5, StoredOfIs
<1>7. \A v : LastOf(<<>>, v) = None
  <2>1. <<>> \in Seq(Slot) /\ \A i \in 1..Len(<<>>) : FALSE
    BY EmptySeq
  <2>2. QED  BY <2>1, LastIs
<1>8. CASE FormatErase
  <2>1. Blanks(page) /\ page' = [page EXCEPT ![0] = Empty] /\ op' = [op EXCEPT !.pc = "valid0"]
    BY <1>1, <1>8 DEF FormatErase, Doing, Then, Formatting
  <2>2. /\ PageTypes(page') /\ page'[1] = page[1]
        /\ page'[0].slots = <<>> /\ page'[0].status = "erased"
    BY <1>2, <1>3, <2>1, EraseTypes
  <2>3. Blanks(page')
    BY <1>3, <2>1, <2>2 DEF Blanks
  <2>4. Shape(page')
    BY <1>2, <1>3, <2>1, <2>2, <2>3 DEF Shape, Blanks, Moving
  <2>5. op'.kind = "format" /\ op'.pc = "valid0" /\ op'.first = FALSE
    BY <1>2, <1>4, <2>1 DEF OpTypes
  <2>6. Formatting(page', op')
    BY <2>3, <2>5 DEF Formatting
  <2>7. Same
    <3>1. \A v : StoredOf(page', m, v) = None
      BY ONLY <1>3, <2>2, <2>3, StoredIs
    <3>2. \A v : StoredOf(page, n, v) = None
      BY ONLY <1>2, <1>3, <2>1, StoredIs
    <3>3. QED  BY <1>6, <3>1, <3>2 DEF Same
  <2>8. QED  BY <1>4, <2>4, <2>5, <2>6, <2>7 DEF EStep, Effect, Phases
<1>9. CASE FormatValid
  <2>1. Blanks(page) /\ SetStatus(0, "valid") /\ op' = [op EXCEPT !.pc = "erase1"]
    BY <1>1, <1>9 DEF FormatValid, Doing, Then, Formatting
  <2>2. /\ PageTypes(page') /\ page'[1] = page[1]
        /\ page'[0].slots = page[0].slots /\ page'[0].status = "valid"
    BY <1>2, <1>3, <2>1, MarkTypes
  <2>3. page[0].slots = <<>> /\ page[1].slots = <<>> /\ page[1].status = "erased"
    BY <1>2, <1>3, <2>1 DEF Shape, Blanks
  <2>4. Plain(page', 0) /\ page'[0].slots = <<>>
    BY <1>3, <2>2, <2>3 DEF Plain
  <2>5. Shape(page')
    BY <1>3, <2>2, <2>3 DEF Shape, Moving
  <2>6. op'.kind = "format" /\ op'.pc = "erase1" /\ op'.first = FALSE
    BY <1>2, <1>4, <2>1 DEF OpTypes
  <2>7. Formatting(page', op')
    BY <2>4, <2>6 DEF Formatting
  <2>8. Same
    <3>1. \A v : StoredOf(page', m, v) = LastOf(<<>>, v)
      BY <1>3, <2>2, <2>4, StoredPlain
    <3>2. \A v : StoredOf(page, n, v) = None
      BY ONLY <1>2, <1>3, <2>1, StoredIs
    <3>3. QED  BY <1>6, <1>7, <3>1, <3>2 DEF Same
  <2>9. QED  BY <1>4, <2>5, <2>6, <2>7, <2>8 DEF EStep, Effect, Phases
<1>10. CASE FormatEnd
  <2>1. Plain(page, 0) /\ page' = [page EXCEPT ![1] = Empty] /\ op' = Idle
    BY <1>1, <1>10 DEF FormatEnd, Doing, Formatting
  <2>2. /\ PageTypes(page') /\ page'[0] = page[0]
        /\ page'[1].slots = <<>> /\ page'[1].status = "erased"
    BY <1>2, <1>3, <2>1, EraseTypes
  <2>3. Plain(page', 0)
    BY <1>3, <2>1, <2>2 DEF Plain
  <2>4. Shape(page')
    BY <1>3, <2>2, <2>3 DEF Shape, Plain, Moving
  <2>5. Idle.kind = "none" /\ Idle.pc = "idle" /\ Idle.first = FALSE
    BY DEF Idle
  <2>6. Resting(page', op')
    BY <1>3, <2>1, <2>3, <2>5 DEF Resting, Settled
  <2>7. Same
    <3>1. \A v : StoredOf(page', m, v) = LastOf(page'[0].slots, v)
      BY <1>3, <2>2, <2>3, StoredPlain
    <3>2. \A v : StoredOf(page, n, v) = LastOf(page[0].slots, v)
      BY <1>2, <1>3, <2>1, StoredPlain
    <3>3. QED  BY <1>6, <2>2, <3>1, <3>2 DEF Same
  <2>8. QED  BY <1>4, <2>1, <2>4, <2>5, <2>6, <2>7 DEF EStep, Effect, Phases
<1>11. QED  BY <1>8, <1>9, <1>10

LEMMA LossStep ==
  ASSUME EInv, PowerLoss, ~LossAnywhere
  PROVE  EStep
<1>1. Blanks(page) \/ \E p \in Pages : Plain(page, p) \/ Moving(page, p) \/ Moved(page, p)
  <2>1. op.new \in Pages /\ Other(op.new) \in Pages /\ 0 \in Pages
    BY OtherIs DEF EInv, TInv, TypeOK, Pages
  <2>2. ~Erasing(page, op)
    BY DEF PowerLoss, Doing, Erasing
  <2>3. CASE Off(page, op)
    BY <2>3 DEF Off
  <2>4. CASE Resting(page, op) \/ Writing(page, op) \/ Starting(page, op)
    <3>1. \E r \in Pages : Settled(page, r)
      BY <2>1, <2>4 DEF Resting, Writing, Starting
    <3>2. QED  BY <3>1, SettledIs
  <2>5. CASE Taking(page, op) \/ Copying(page, op) \/ Copied(page, op)
    BY <2>1, <2>5 DEF Taking, Copying, Copied
  <2>6. CASE Promoting(page, op) \/ Formatting(page, op)
    BY <2>1, <2>6 DEF Promoting, Formatting
  <2>7. QED  BY <2>2, <2>3, <2>4, <2>5, <2>6 DEF EInv, Phases
<1>2. PageTypes(page) /\ Shape(page)
  BY DEF EInv, Shape
<1>3. /\ TInv' /\ op'.pc = "off" /\ ~op'.first /\ op' = [Idle EXCEPT !.pc = "off"]
      /\ \A p \in Pages : /\ page'[p].status = page[p].status
                          /\ page'[p].slots = CutOf(page[p].slots)
  BY CutTypes DEF EInv
<1>4. PageTypes(page') /\ op'.kind = "none"
  BY <1>3, OffTypes DEF TInv, TypeOK, PageTypes
<1>5. \A p \in Pages : /\ Plain(page', p) <=> Plain(page, p)
                       /\ Moving(page', p) <=> Moving(page, p)
                       /\ Moved(page', p) <=> Moved(page, p)
  BY <1>3, OtherIs DEF Plain, Moving, Moved
<1>6. Blanks(page') <=> Blanks(page)
  BY <1>3 DEF Blanks
<1>7. Off(page', op')
  BY <1>1, <1>3, <1>4, <1>5, <1>6 DEF Off
<1>8. Shape(page')
  <2>1. ASSUME NEW p \in Pages, page'[p].status = "erased" PROVE page'[p].slots = <<>>
    <3>1. page[p].slots = <<>>
      BY <1>2, <1>3, <2>1 DEF Shape
    <3>2. QED  BY <1>3, <3>1 DEF CutOf
  <2>2. ASSUME NEW p \in Pages, Moving(page', p)
        PROVE  Kept(page'[p].slots, page'[Other(p)].slots)
    <3>1. Kept(page[p].slots, page[Other(p)].slots) /\ Other(p) \in Pages
      BY <1>2, <1>5, <2>2, OtherIs DEF Shape
    <3>2. page[p].slots \in Seq(Slot) /\ page[Other(p)].slots \in Seq(Slot)
      BY <1>2, <3>1 DEF PageTypes
    <3>3. Kept(CutOf(page[p].slots), CutOf(page[Other(p)].slots))
      BY <3>1, <3>2, KeptCut
    <3>4. QED  BY <1>3, <3>1, <3>3
  <2>3. QED  BY <1>4, <2>1, <2>2 DEF Shape
<1>9. \A p \in Pages : \A v \in Vars :
        /\ LastOf(page'[p].slots, v) = LastOf(page[p].slots, v)
        /\ First(page'[p].slots, v) <=> First(page[p].slots, v)
  <2> SUFFICES ASSUME NEW p \in Pages, NEW v \in Vars
               PROVE  /\ LastOf(page'[p].slots, v) = LastOf(page[p].slots, v)
                      /\ First(page'[p].slots, v) <=> First(page[p].slots, v)
    OBVIOUS
  <2>1. page[p].slots \in Seq(Slot) /\ page'[p].slots = CutOf(page[p].slots)
    BY <1>2, <1>3 DEF PageTypes
  <2>2. QED  BY <2>1, CutIs
<1>10. Same
  <2>1. PICK n, m : n = op.new /\ m = op'.new
    OBVIOUS
  <2>2. \A v : Stored(v)' = StoredOf(page', m, v) /\ Stored(v) = StoredOf(page, n, v)
    BY <2>1, StoredOfIs
  <2>3. ASSUME NEW v \in Vars PROVE StoredOf(page', m, v) = StoredOf(page, n, v)
    <3>1. CASE Blanks(page)
      <4>1. 0 \in Pages
        BY DEF Pages
      <4>2. QED  BY <1>2, <1>4, <1>6, <3>1, <4>1, StoredIs
    <3>2. CASE \E p \in Pages : Plain(page, p)
      <4>1. PICK p \in Pages : Plain(page, p)
        BY <3>2
      <4>2. StoredOf(page, n, v) = LastOf(page[p].slots, v)
        BY <1>2, <4>1, StoredPlain
      <4>3. StoredOf(page', m, v) = LastOf(page'[p].slots, v)
        BY <1>4, <1>5, <4>1, StoredPlain
      <4>4. QED  BY <1>9, <4>2, <4>3
    <3>3. CASE \E p \in Pages : Moved(page, p)
      <4>1. PICK p \in Pages : Moved(page, p)
        BY <3>3
      <4>2. StoredOf(page, n, v) = LastOf(page[p].slots, v)
        BY <1>2, <4>1, StoredMoved
      <4>3. StoredOf(page', m, v) = LastOf(page'[p].slots, v)
        BY <1>4, <1>5, <4>1, StoredMoved
      <4>4. QED  BY <1>9, <4>2, <4>3
    <3>4. CASE \E p \in Pages : Moving(page, p)
      <4>1. PICK p \in Pages : Moving(page, p)
        BY <3>4
      <4>2. StoredOf(page, n, v) = IF First(page[p].slots, v) THEN LastOf(page[p].slots, v)
                                   ELSE LastOf(page[Other(p)].slots, v)
        BY <1>2, <4>1, StoredMoving
      <4>3. StoredOf(page', m, v) = IF First(page'[p].slots, v) THEN LastOf(page'[p].slots, v)
                                    ELSE LastOf(page'[Other(p)].slots, v)
        BY <1>4, <1>5, <4>1, StoredMoving
      <4>4. Other(p) \in Pages
        BY OtherIs
      <4>5. QED  BY <1>9, <4>2, <4>3, <4>4
    <3>5. QED  BY <1>1, <3>1, <3>2, <3>3, <3>4
  <2>4. QED  BY <2>2, <2>3 DEF Same
<1>11. op.first = op'.first \/ (op.first /\ ~op'.first)
  <2>1. op.first \in BOOLEAN /\ op'.first = FALSE
    BY <1>3, OffTypes DEF EInv, TInv, TypeOK
  <2>2. op.first = TRUE \/ op.first = FALSE
    BY <2>1
  <2>3. QED  BY <2>1, <2>2
<1>12. QED  BY <1>3, <1>7, <1>8, <1>10, <1>11 DEF EStep, Effect, Phases

-----------------------------------------------------------------------------
(* The refinement *)

LEMMA InitInv == Init => EInv
<1> SUFFICES ASSUME Init PROVE EInv
  OBVIOUS
<1>1. TInv
  BY InitTypes
<1>2. \A p \in Pages : page[p].status = "erased" /\ page[p].slots = <<>>
  BY DEF Init, Empty
<1>3. Shape(page)
  BY <1>1, <1>2 DEF Shape, PageTypes, TInv, TypeOK, Moving
<1>4. Off(page, op)
  BY <1>2, OffTypes DEF Init, Off, Blanks
<1>5. QED  BY <1>1, <1>3, <1>4 DEF EInv, Phases

LEMMA StepInv ==
  ASSUME ~LossAnywhere, EInv, [Next]_vars
  PROVE  EInv' /\ Effect
<1>1. TInv'
  BY StepTypes DEF EInv
<1>2. CASE UNCHANGED vars
  <2>1. page' = page /\ op' = op
    BY <1>2 DEF vars
  <2>2. EInv'
    BY <1>1, <2>1 DEF EInv
  <2>3. Same
    BY <2>1, StoredOfIs DEF Same
  <2>4. QED  BY <2>1, <2>2, <2>3 DEF Effect
<1>3. CASE Next
  <2>1. EStep
    BY <1>3, WriteStep, DataStep, AddressStep, ReceiveStep, CopyStep, CopiedStep, EraseStep,
       ValidStep, BootStep, FormatStep, LossStep DEF Next
  <2>2. QED  BY <1>1, <2>1 DEF EStep, EInv
<1>4. QED  BY <1>2, <1>3

LEMMA EffectIs ==
  ASSUME EInv, Effect
  PROVE  [Store!StoreNext]_Store!storeVars
<1>1. \A v \in Vars, d \in Values : [var |-> v, dat |-> d] # None
  BY NoneAssumption
<1>2. op.first => op.var \in Vars /\ op.dat \in Values
  BY DEF EInv, TInv, Phases, Off, Resting, Writing, Starting, Taking, Copying, Copied, Erasing,
         Promoting, Formatting
<1>3. \A v \in Tabled : v \in Vars
  BY TabIs DEF Tabled
<1>4. Same => [v \in Tabled |-> Stored(v)]' = [v \in Tabled |-> Stored(v)]
  BY <1>3 DEF Same, Tabled
<1>5. CASE Same /\ op'.first = op.first /\ (op.first => op'.var = op.var /\ op'.dat = op.dat)
  <2>1. Requested' = Requested
    BY <1>5 DEF Requested, Tabled
  <2>2. QED  BY <1>4, <1>5, <2>1 DEF Store!storeVars
<1>6. CASE Same /\ ~op.first /\ op'.first /\ op'.var \in Vars /\ op'.dat \in Values
  <2>1. Requested = None
    BY <1>6 DEF Requested
  <2>2. CASE op'.var \in Tabled
    <3>1. Requested' = [var |-> op'.var, dat |-> op'.dat]
      BY <1>6, <2>2 DEF Requested, Tabled
    <3>2. \E v \in Tabled, d \in Values : Store!Request(v, d)
      BY <1>4, <1>6, <2>1, <2>2, <3>1 DEF Store!Request
    <3>3. QED  BY <3>2 DEF Store!StoreNext
  <2>3. CASE op'.var \notin Tabled
    <3>1. Requested' = None
      BY <2>3 DEF Requested, Tabled
    <3>2. QED  BY <1>4, <1>6, <2>1, <3>1 DEF Store!storeVars
  <2>4. QED  BY <2>2, <2>3
<1>7. CASE Same /\ op.first /\ ~op'.first
  <2>1. Requested' = None
    BY <1>7 DEF Requested
  <2>2. CASE Requested # None
    <3>1. Store!Abandon
      BY <1>4, <1>7, <2>1, <2>2 DEF Store!Abandon
    <3>2. QED  BY <3>1 DEF Store!StoreNext
  <2>3. CASE Requested = None
    BY <1>4, <1>7, <2>1, <2>3 DEF Store!storeVars
  <2>4. QED  BY <2>2, <2>3
<1>8. CASE /\ op.first /\ ~op'.first /\ op.var \in Vars /\ op.dat \in Values
           /\ \A v \in Vars : Stored(v)' = IF v = op.var THEN op.dat ELSE Stored(v)
  <2>1. PICK w \in Vars, d \in Values : w = op.var /\ d = op.dat
    BY <1>8
  <2>2. Requested' = None
    BY <1>8 DEF Requested
  <2>3. \A v \in Tabled : Stored(v)' = IF v = w THEN d ELSE Stored(v)
    BY <1>3, <1>8, <2>1
  <2>4. CASE w \in Tabled
    <3>1. Requested = [var |-> w, dat |-> d]
      BY <1>8, <2>1, <2>4 DEF Requested
    <3>2. Requested # None /\ Requested.var = w /\ Requested.dat = d
      BY <1>1, <3>1
    <3>3. [v \in Tabled |-> Stored(v)]' = [[v \in Tabled |-> Stored(v)] EXCEPT ![w] = d]
      BY <2>3, <2>4 DEF Tabled
    <3>4. Store!Commit
      BY <2>2, <3>2, <3>3 DEF Store!Commit
    <3>5. QED  BY <3>4 DEF Store!StoreNext
  <2>5. CASE w \notin Tabled
    <3>1. Requested = None
      BY <2>1, <2>5 DEF Requested
    <3>2. \A v \in Tabled : Stored(v)' = Stored(v)
      BY <2>3, <2>5
    <3>3. [v \in Tabled |-> Stored(v)]' = [v \in Tabled |-> Stored(v)]
      BY <3>2 DEF Tabled
    <3>4. QED  BY <2>2, <3>1, <3>3 DEF Store!storeVars
  <2>6. QED  BY <2>4, <2>5
<1>9. QED  BY <1>5, <1>6, <1>7, <1>8 DEF Effect

\* The two pages are a store of the variables in the table: each write happens whole
\* or not at all and nothing else changes, however often and wherever power is lost but
\* while EE_Init has both pages valid, also where variables are written beside the
\* table, as the configuration of the second motor (ImplementsStore).
THEOREM EepromImplementsStore ==
  ASSUME ~LossAnywhere
  PROVE  Spec => ImplementsStore
<1>1. Init => Store!StoreInit
  <2> SUFFICES ASSUME Init PROVE Store!StoreInit
    OBVIOUS
  <2>1. op.first = FALSE /\ Off(page, op) /\ Blanks(page) /\ PageTypes(page)
    <3>1. EInv
      BY InitInv
    <3>2. QED  BY <3>1, OffTypes DEF Init, EInv, Shape, Off, Blanks, Empty
  <2>2. Requested = None
    BY <2>1 DEF Requested
  <2>3. \A v \in Vars : Stored(v) = None
    BY <2>1, StoredOfIs, StoredIs DEF Pages
  <2>4. \A v \in Tabled : v \in Vars
    BY TabIs DEF Tabled
  <2>5. QED  BY <2>2, <2>3, <2>4 DEF Store!StoreInit
<1>2. EInv /\ [Next]_vars => EInv' /\ [Store!StoreNext]_Store!storeVars
  BY StepInv, EffectIs
<1>3. QED  BY <1>1, <1>2, InitInv, PTL DEF Spec, ImplementsStore, Store!StoreSpec

-----------------------------------------------------------------------------
(* What is read between two routines *)

\* No page that is filled is full when a routine has ended: a transfer is given up
\* for want of room only if recoveries that power losses cut off have filled its page.
NoneFull == \A p \in Pages : page[p].status = "receive" => ~Full(p)

LEMMA RestReads ==
  ASSUME EInv, Doing("idle"), NoneFull
  PROVE  \A v \in Vars : ReadVariable(v) = Stored(v)
<1>1. Resting(page, op)
  BY DEF EInv, Doing, Phases, Off, Writing, Starting, Taking, Copying, Copied, Erasing,
         Promoting, Formatting
<1>2. PICK r \in Pages : Settled(page, r)
  BY <1>1 DEF Resting
<1>3. Plain(page, r) /\ r # None /\ ReadPageOf(page) = r
  BY <1>2, SettledIs, OtherIs DEF Settled, NoneFull, Full, Moving
<1>4. PICK n : n = op.new
  OBVIOUS
<1>5. \A v : Stored(v) = LastOf(page[r].slots, v)
  BY <1>3, <1>4, StoredOfIs, StoredPlain DEF EInv, Shape
<1>6. \A v : ReadVariable(v) = LastOf(page[r].slots, v)
  BY <1>3, ReadIs
<1>7. QED  BY <1>5, <1>6

\* Between two routines a read returns what is stored, unless a page that a transfer
\* was filling is full, however often power is lost (ReadsStored).
THEOREM ReadsStoredUnlessFull ==
  ASSUME ~LossAnywhere
  PROVE  Spec => [](NoneFull => ReadsStored)
<1>1. EInv => (NoneFull => ReadsStored)
  BY RestReads DEF ReadsStored
<1>2. EInv /\ [Next]_vars => EInv'
  BY StepInv
<1>3. QED  BY <1>1, <1>2, InitInv, PTL DEF Spec

\* A page has room for what MaxLosses recoveries that are cut off leave behind.
Room == Slots > Len(VarTab) * (MaxLosses + 1)

\* The slots of a page that is filled: those of the routines that power losses cut
\* off, and those of the one under way.
Extra == IF op.pc \in {"off", "dat", "var"} THEN 1
         ELSE IF op.pc = "copy" THEN op.idx
         ELSE IF op.pc = "copied" THEN op.idx + 1
         ELSE Len(VarTab) + 1

RInv ==
  \A p \in Pages : Moving(page, p) =>
    /\ op.pc \notin {"idle", "receive"} /\ op.kind # "write"
    /\ op.pc = "dat" => page[p].slots = <<>>
    /\ Len(page[p].slots) <= Len(VarTab) * losses + Extra

LEMMA NotMoving ==
  ASSUME NEW pg, (\E q \in Pages : pg[q].status = "erased") \/ Both(pg) \/ Blanks(pg)
  PROVE  \A p \in Pages : ~Moving(pg, p)
BY OtherIs DEF Moving, Both, Blanks

LEMMA OneMoving ==
  ASSUME NEW pg, NEW p \in Pages, NEW q \in Pages, Moving(pg, p), Moving(pg, q)
  PROVE  p = q
BY OtherIs DEF Moving

LEMMA Times ==
  ASSUME NEW n \in Nat, NEW l \in Nat, NEW m \in Nat, l <= m
  PROVE  /\ n * l \in Nat /\ n * (l + 1) = n * l + n
         /\ n * (l + 1) <= n * (m + 1)
<1>1. n * l \in Nat /\ n * (l + 1) = n * l + n
  OBVIOUS
<1>2. PICK k \in Nat : m = l + k
  <2>1. m - l \in Nat /\ m = l + (m - l)
    OBVIOUS
  <2>2. QED  BY <2>1
<1>3. n * k \in Nat /\ n * (m + 1) = n * (l + 1) + n * k
  BY <1>2
<1>4. n * (l + 1) \in Nat
  OBVIOUS
<1>5. QED  BY <1>1, <1>3, <1>4

\* A page has room for the copy of a variable.
LEMMA RoomFor ==
  ASSUME Room, EInv, RInv, NEW p \in Pages, Moving(page, p), op.pc = "copy",
         op.idx <= Len(VarTab)
  PROVE  Len(page[p].slots) < Slots
<1>1. /\ op.idx \in 1..(Len(VarTab) + 1) /\ losses \in Nat /\ losses <= MaxLosses
      /\ Len(page[p].slots) \in Nat
  <2>1. page[p].slots \in Seq(Slot)
    BY DEF EInv, TInv, TypeOK
  <2>2. QED  BY <2>1, LenProperties, LossAssumption DEF EInv, TInv, TypeOK
<1>2. PICK i, n, l, k, s \in Nat :
        i = op.idx /\ n = Len(VarTab) /\ l = losses /\ k = Len(page[p].slots) /\ s = Slots
  <2>1. op.idx \in Nat /\ Len(VarTab) \in Nat /\ Slots \in Nat
    BY <1>1, TabIs, SlotsAssumption
  <2>2. QED  BY <1>1, <2>1
<1>3. k <= n * l + i
  BY <1>2 DEF RInv, Extra
<1>4. PICK b \in Nat : b = n * l /\ n * (l + 1) = b + n /\ b + n < s
  <2>1. PICK m \in Nat : m = MaxLosses /\ l <= m
    BY <1>1, <1>2, LossAssumption
  <2>2. n * l \in Nat /\ n * (l + 1) = n * l + n /\ n * (l + 1) <= n * (m + 1)
    BY <2>1, Times
  <2>3. s > n * (m + 1)
    BY <1>2, <2>1 DEF Room
  <2>4. n * (m + 1) \in Nat
    OBVIOUS
  <2>5. QED  BY <2>2, <2>3, <2>4
<1>5. k <= b + i /\ i <= n
  BY <1>2, <1>3, <1>4
<1>6. k < s
  BY ONLY <1>4, <1>5, k \in Nat, i \in Nat, n \in Nat, s \in Nat, b \in Nat
<1>7. QED  BY <1>2, <1>6

\* The steps of a transfer that add to the page it fills.
LEMMA DataRoom ==
  ASSUME EInv, RInv, ProgramData
  PROVE  RInv'
<1>1. /\ op.pc = "dat" /\ op \in OpTypes /\ op.new \in Pages /\ losses' = losses
      /\ op.dat \in Values /\ PageTypes(page) /\ losses \in Nat
  BY LossAssumption DEF ProgramData, Doing, EInv, TInv, TypeOK, OpTypes, PageTypes
<1>2. Len(VarTab) * losses \in Nat
  BY <1>1, TabIs
<1>3. CASE \E p \in Pages : Moving(page, p)
  <2>1. PICK p \in Pages : Moving(page, p)
    BY <1>3
  <2>2. /\ page[p].slots = <<>> /\ op.kind # "write" /\ WritePage = p
        /\ page[p].slots \in Seq(Slot)
    BY <1>1, <2>1, ReadingIs, PagesAre DEF RInv, PageTypes
  <2>3. ~Full(WritePage)
    <3>1. Len(page[p].slots) = 0 /\ Slots # 0
      BY <2>2, TabIs, SlotsAssumption
    <3>2. QED  BY <2>2, <3>1 DEF Full
  <2>4. PICK d \in Values : d = op.dat
    BY <1>1
  <2>5. page' = Extended(page, p, d) /\ op' = [op EXCEPT !.pc = "var"]
    BY <2>2, <2>3, <2>4 DEF ProgramData, Then, Extended
  <2>6. /\ page'[p].slots = Append(page[p].slots, Torn(d))
        /\ \A q \in Pages : Moving(page', q) <=> Moving(page, q)
    BY <1>1, <2>1, <2>5, TornPut, SMTT(30)
  <2>7. Len(page'[p].slots) = 1
    <3>1. Len(page'[p].slots) = Len(page[p].slots) + 1 /\ Len(page[p].slots) = 0
      BY <2>2, <2>6, TornAppended
    <3>2. QED  BY <3>1
  <2>8. op'.pc = "var" /\ op'.kind # "write"
    BY <1>1, <2>2, <2>5 DEF OpTypes
  <2>9. \A q \in Pages : Moving(page', q) => q = p
    BY <2>1, <2>6, OneMoving
  <2>10. Len(page'[p].slots) <= Len(VarTab) * losses' + 1
    BY <1>1, <1>2, <2>7
  <2>11. QED  BY <2>8, <2>9, <2>10 DEF RInv, Extra
<1>4. CASE \A p \in Pages : ~Moving(page, p)
  <2>1. Writing(page, op)
    BY <1>1, <1>4, DatIs DEF Taking
  <2>2. CASE PageFull
    BY <1>4, <2>2 DEF PageFull, RInv
  <2>3. CASE ~Full(WritePage)
    <3>1. PICK d \in Values, r \in Pages : d = op.dat /\ r = Other(op.new) /\ Other(r) \in Pages
      BY <1>1, OtherIs
    <3>2. Plain(page, r)
      BY <1>4, <2>1, <3>1 DEF Writing, Settled
    <3>3. WritePage = r
      BY <3>2, ReadingIs, PagesAre
    <3>4. page' = Extended(page, r, d)
      BY <2>3, <3>1, <3>3 DEF ProgramData, Extended
    <3>5. \A q \in Pages : Moving(page', q) <=> Moving(page, q)
      BY <1>1, <3>4, TornPut
    <3>6. QED  BY <1>4, <3>5 DEF RInv
  <2>4. QED  BY <2>2, <2>3 DEF ProgramData
<1>5. QED  BY <1>3, <1>4

LEMMA AddressRoom ==
  ASSUME EInv, EInv', RInv, ProgramAddress
  PROVE  RInv'
<1>1. /\ op.pc = "var" /\ op \in OpTypes /\ op.new \in Pages /\ losses' = losses
      /\ op.var \in Vars /\ PageTypes(page) /\ losses \in Nat
  BY LossAssumption DEF ProgramAddress, Doing, EInv, TInv, TypeOK, OpTypes, PageTypes
<1>2. Len(VarTab) * losses \in Nat
  BY <1>1, TabIs
<1>3. PICK n \in Pages, w \in Vars, d \in Values \cup {None} : n = op.new /\ w = op.var /\ d = op.dat
  BY <1>1 DEF OpTypes
<1>4. CASE Writing(page, op)
  <2>1. PICK r \in Pages : r = Other(n)
    BY OtherIs
  <2>2. Plain(page, r) /\ WritePage = r /\ EndsTorn(page[r].slots, d)
    BY <1>1, <1>3, <1>4, <2>1, ReadingIs, PagesAre DEF Writing
  <2>3. page' = Named(page, r, w)
    BY <1>3, <2>2 DEF ProgramAddress, Named
  <2>4. Addressed(page[r].slots, w) \in Seq(Slot)
    BY <1>1, <2>2, TornAddressed DEF EndsTorn, PageTypes
  <2>5. Plain(page', r)
    BY <1>1, <2>2, <2>3, <2>4, AddressPut
  <2>6. \A q \in Pages : ~Moving(page', q)
    BY <2>5, NotMoving, OtherIs DEF Plain
  <2>7. QED  BY <2>6 DEF RInv
<1>5. CASE Taking(page, op)
  <2>1. Moving(page, n) /\ WritePage = n /\ EndsTorn(page[n].slots, d)
        /\ Len(page[n].slots) = 1
    BY <1>1, <1>3, <1>5, ReadingIs, PagesAre DEF Taking
  <2>2. page' = Named(page, n, w)
    BY <1>3, <2>1 DEF ProgramAddress, Named
  <2>3. Addressed(page[n].slots, w) \in Seq(Slot) /\ Len(Addressed(page[n].slots, w)) = 1
    BY <1>1, <2>1, TornAddressed DEF EndsTorn, PageTypes
  <2>4. Moving(page', n) /\ page'[n].slots = Addressed(page[n].slots, w)
    BY <1>1, <2>1, <2>2, <2>3, AddressPut
  <2>5. op' = [op EXCEPT !.pc = "copy", !.first = FALSE] /\ op.idx = 1 /\ op.kind = "transfer"
    BY <1>5 DEF ProgramAddress, Taking
  <2>6. op'.pc = "copy" /\ op'.kind = "transfer" /\ op'.idx = 1
    BY <1>1, <2>5 DEF OpTypes
  <2>7. \A q \in Pages : Moving(page', q) => q = n
    BY <2>4, OneMoving
  <2>8. Len(page'[n].slots) <= Len(VarTab) * losses' + 1
    <3>1. Len(page'[n].slots) = 1
      BY <2>3, <2>4
    <3>2. QED  BY <1>1, <1>2, <3>1
  <2>9. QED  BY <2>6, <2>7, <2>8 DEF RInv, Extra
<1>6. QED  BY <1>1, <1>4, <1>5, VarIs

LEMMA ReceiveRoom ==
  ASSUME EInv, RInv, MarkReceive
  PROVE  RInv'
<1>1. Starting(page, op)
  BY DEF EInv, MarkReceive, Doing, Phases, Off, Resting, Writing, Taking, Copying, Copied,
         Erasing, Promoting, Formatting
<1>2. /\ op.pc = "receive" /\ op \in OpTypes /\ op.new \in Pages /\ losses' = losses
      /\ PageTypes(page) /\ Shape(page) /\ losses \in Nat
  BY LossAssumption DEF MarkReceive, Doing, EInv, TInv, TypeOK, OpTypes, Shape
<1>3. Len(VarTab) * losses \in Nat
  BY <1>2, TabIs
<1>4. PICK n \in Pages, r \in Pages : n = op.new /\ r = Other(n) /\ Other(r) = n
  BY <1>2, OtherIs
<1>5. Plain(page, r)
  BY <1>1, <1>2, <1>4 DEF Starting, Settled, RInv
<1>6. page[n].slots = <<>>
  BY <1>2, <1>4, <1>5 DEF Shape, Plain
<1>7. /\ page'[n].slots = page[n].slots /\ page'[n].status = "receive" /\ page'[r] = page[r]
  BY <1>2, <1>4, MarkTypes DEF MarkReceive
<1>8. Moving(page', n)
  BY <1>4, <1>5, <1>7 DEF Plain, Moving
<1>9. \A q \in Pages : Moving(page', q) => q = n
  BY <1>8, OneMoving
<1>10. op'.pc = "dat" /\ op'.kind = "transfer"
  BY <1>1, <1>2 DEF MarkReceive, Then, OpTypes, Starting
<1>11. Len(page'[n].slots) <= Len(VarTab) * losses' + 1
  <2>1. Len(page'[n].slots) = 0
    BY <1>6, <1>7
  <2>2. QED  BY <1>2, <1>3, <2>1
<1>12. QED  BY <1>6, <1>7, <1>9, <1>10, <1>11 DEF RInv, Extra

LEMMA CopyRoom ==
  ASSUME Room, EInv, RInv, CopyNext
  PROVE  RInv'
<1>1. Copying(page, op) /\ op.pc = "copy"
  BY CopyingIs DEF CopyNext, Doing
<1>2. /\ op \in OpTypes /\ op.new \in Pages /\ op.idx \in 1..(Len(VarTab) + 1)
      /\ losses' = losses /\ PageTypes(page) /\ losses \in Nat /\ TInv
  BY LossAssumption DEF CopyNext, EInv, TInv, TypeOK, OpTypes, PageTypes
<1>3. PICK n \in Pages : n = op.new
  BY <1>2
<1>4. Moving(page, n) /\ WritePage = n /\ op.kind \in {"transfer", "recover"}
  BY <1>1, <1>3, ReadingIs, PagesAre DEF Copying
<1>5. PICK k, b \in Nat, i \in Nat, m \in Nat :
        /\ k = Len(page[n].slots) /\ b = Len(VarTab) * losses /\ i = op.idx /\ m = Len(VarTab)
        /\ k \in Nat /\ i <= m + 1
  <2>1. Len(VarTab) * losses \in Nat /\ op.idx \in Nat /\ Len(VarTab) \in Nat
        /\ op.idx <= Len(VarTab) + 1
    BY <1>2, TabIs
  <2>2. Len(page[n].slots) \in Nat
    BY <1>2, LenProperties DEF PageTypes
  <2>3. QED  BY <2>1, <2>2
<1>6. k <= b + i
  BY <1>1, <1>4, <1>5 DEF RInv, Extra
<1>7. CASE /\ op' = [op EXCEPT !.pc = IF op.kind = "recover" THEN "valid" ELSE "erase"]
           /\ page' = page
  <2>1. op'.pc \in {"valid", "erase"} /\ op'.kind = op.kind
    BY <1>2, <1>7 DEF OpTypes
  <2>2. \A q \in Pages : Moving(page', q) => q = n
    BY <1>4, <1>7, OneMoving
  <2>3. k <= b + (m + 1)
    BY <1>5, <1>6
  <2>4. Len(page'[n].slots) <= Len(VarTab) * losses' + (Len(VarTab) + 1)
    BY <1>2, <1>5, <1>7, <2>3
  <2>5. QED  BY <1>4, <2>1, <2>2, <2>4 DEF RInv, Extra
<1>8. CASE PageFull /\ Full(WritePage)
  <2>1. \E j \in op.idx..Len(VarTab) : Current(j)
    <3> SUFFICES ASSUME \A j \in op.idx..Len(VarTab) : ~Current(j) PROVE FALSE
      OBVIOUS
    <3>1. {j \in op.idx..Len(VarTab) : Current(j)} = {}
      OBVIOUS
    <3>2. op' = [op EXCEPT !.pc = IF op.kind = "recover" THEN "valid" ELSE "erase"]
      BY <3>1 DEF CopyNext, Then
    <3>3. op'.pc \in {"valid", "erase"}
      BY <1>2, <3>2 DEF OpTypes
    <3>4. op' = Idle
      BY <1>4, <1>8 DEF PageFull
    <3>5. QED  BY <3>3, <3>4 DEF Idle
  <2>2. op.idx <= Len(VarTab)
    BY <1>5, <2>1
  <2>3. Len(page[n].slots) < Slots
    BY <1>1, <1>4, <2>2, RoomFor
  <2>4. QED  BY <1>4, <1>5, <1>8, <2>3, SlotsAssumption DEF Full
<1>9. CASE \E j : Copies(j)
  <2>1. PICK j : Copies(j)
    BY <1>9
  <2>2. j \in Nat /\ i <= j /\ j <= m /\ VarTab[j] \in Vars
    <3>1. j \in op.idx..Len(VarTab)
      BY <2>1 DEF Copies
    <3>2. j \in Nat /\ i <= j /\ j <= m /\ j \in 1..Len(VarTab)
      BY <1>2, <1>5, <3>1
    <3>3. QED  BY <3>2, TabIs
  <2>3. PICK d : d = ReadVariable(VarTab[j])
    OBVIOUS
  <2>4. d \in Values
    <3>1. page[Other(n)].slots \in Seq(Slot)
      BY <1>2, OtherIs DEF PageTypes
    <3>2. d = LastOf(page[Other(n)].slots, VarTab[j]) /\ d # None
      BY <1>1, <1>2, <1>3, <2>1, <2>3, CurrentIs DEF Copies
    <3>3. QED  BY <3>1, <3>2, LastIs
  <2>5. page' = Extended(page, n, d) /\ op' = [op EXCEPT !.pc = "copied", !.idx = j]
    BY <1>4, <2>1, <2>3 DEF Copies, Extended
  <2>6. /\ page'[n].slots = Append(page[n].slots, Torn(d)) /\ page[n].slots \in Seq(Slot)
        /\ \A q \in Pages : Moving(page', q) <=> Moving(page, q)
    <3>1. PageTypes(page) /\ page' = Extended(page, n, d)
      BY <1>2, <2>5
    <3>2. QED  BY <2>4, <3>1, TornPut
  <2>7. Len(page'[n].slots) = k + 1
    BY <1>5, <2>4, <2>6, TornAppended
  <2>8. op'.pc = "copied" /\ op'.kind = op.kind /\ op'.idx = j
    BY <1>2, <2>5 DEF OpTypes
  <2>9. \A q \in Pages : Moving(page', q) => q = n
    BY <1>4, <2>6, OneMoving
  <2>10. k + 1 <= b + (j + 1)
    BY <1>5, <1>6, <2>2
  <2>11. Len(page'[n].slots) <= Len(VarTab) * losses' + (op'.idx + 1)
    BY <1>2, <1>5, <2>7, <2>8, <2>10
  <2>12. QED  BY <1>4, <2>8, <2>9, <2>11 DEF RInv, Extra
<1>10. QED  BY <1>2, <1>7, <1>8, <1>9, CopyIs

LEMMA CopiedRoom ==
  ASSUME EInv, RInv, CopyAddress
  PROVE  RInv'
<1>1. Copying(page, op) /\ op.pc = "copied"
  BY CopyingIs DEF CopyAddress, Doing
<1>2. /\ op \in OpTypes /\ op.new \in Pages /\ op.idx \in 1..Len(VarTab)
      /\ losses' = losses /\ PageTypes(page)
  BY <1>1 DEF CopyAddress, EInv, TInv, TypeOK, OpTypes, PageTypes
<1>3. PICK n \in Pages, i \in 1..Len(VarTab), w \in Vars :
        n = op.new /\ i = op.idx /\ w = VarTab[i]
  BY <1>2, TabIs
<1>4. Moving(page, n) /\ WritePage = n /\ op.kind \in {"transfer", "recover"}
      /\ EndsTorn(page[n].slots, LastOf(page[Other(n)].slots, w))
  BY <1>1, <1>3, ReadingIs, PagesAre DEF Copying
<1>5. PICK d : d = LastOf(page[Other(n)].slots, w)
  OBVIOUS
<1>6. page' = Named(page, n, w) /\ op' = [op EXCEPT !.pc = "copy", !.idx = i + 1]
  BY <1>3, <1>4 DEF CopyAddress, Named
<1>7. Addressed(page[n].slots, w) \in Seq(Slot)
      /\ Len(Addressed(page[n].slots, w)) = Len(page[n].slots)
  BY <1>2, <1>4, TornAddressed DEF EndsTorn, PageTypes
<1>8. Moving(page', n) /\ page'[n].slots = Addressed(page[n].slots, w)
  BY <1>2, <1>4, <1>6, <1>7, AddressPut
<1>9. \A q \in Pages : Moving(page', q) => q = n
  BY <1>8, OneMoving
<1>10. op'.pc = "copy" /\ op'.kind = op.kind /\ op'.idx = i + 1
  BY <1>2, <1>6 DEF OpTypes
<1>11. Len(page[n].slots) <= Len(VarTab) * losses + (i + 1)
  BY <1>1, <1>3, <1>4 DEF RInv, Extra
<1>12. Len(page'[n].slots) <= Len(VarTab) * losses' + op'.idx
  BY <1>2, <1>7, <1>8, <1>10, <1>11
<1>13. QED  BY <1>4, <1>9, <1>10, <1>12 DEF RInv, Extra

\* After the other steps of EE_PageTransfer and EE_Init no page is filled.
LEMMA EndRoom ==
  ASSUME EInv, RInv, EraseOld \/ MarkValid \/ FormatErase \/ FormatValid \/ FormatEnd
  PROVE  RInv'
<1>1. PageTypes(page) /\ op.new \in Pages /\ 0 \in Pages /\ 1 \in Pages
  BY DEF EInv, Shape, TInv, TypeOK, Pages
<1>2. PICK n \in Pages, r \in Pages :
        n = op.new /\ r = Other(n) /\ Other(r) = n /\ n # r /\ \A q \in Pages : q = n \/ q = r
  BY <1>1, OtherIs
<1>3. (\E q \in Pages : page'[q].status = "erased") \/ Both(page')
  <2>1. CASE EraseOld
    <3>1. page' = [page EXCEPT ![r] = Empty]
      BY <1>2, <2>1 DEF EraseOld
    <3>2. page'[r].status = "erased"
      BY <1>1, <3>1, EraseTypes
    <3>3. QED  BY <3>2
  <2>2. CASE MarkValid
    <3>1. page'[n].status = "valid" /\ page'[r] = page[r]
      BY <1>1, <1>2, <2>2, MarkTypes DEF MarkValid
    <3>2. Copied(page, op) \/ Promoting(page, op)
      BY <2>2 DEF EInv, MarkValid, Doing, Phases, Off, Resting, Writing, Starting, Taking,
             Copying, Erasing, Formatting
    <3>3. page[r].status \in {"valid", "erased"}
      BY <1>2, <3>2 DEF Copied, Promoting, Moving, Moved
    <3>4. QED  BY <1>2, <3>1, <3>3 DEF Both
  <2>3. CASE FormatErase
    <3>1. page'[0].status = "erased"
      BY <1>1, <2>3, EraseTypes DEF FormatErase
    <3>2. QED  BY <1>1, <3>1
  <2>4. CASE FormatValid
    <3>1. Formatting(page, op) /\ op.pc = "valid0"
      BY <2>4 DEF EInv, FormatValid, Doing, Phases, Off, Resting, Writing, Starting, Taking,
             Copying, Copied, Erasing, Promoting
    <3>2. page[1].status = "erased"
      BY <1>1, <3>1 DEF Formatting, Blanks
    <3>3. page'[1] = page[1]
      <4>1. Other(0) = 1
        BY DEF Other
      <4>2. QED  BY <1>1, <2>4, <4>1, MarkTypes DEF FormatValid
    <3>4. QED  BY <1>1, <3>2, <3>3
  <2>5. CASE FormatEnd
    <3>1. page'[1].status = "erased"
      BY <1>1, <2>5, EraseTypes DEF FormatEnd
    <3>2. QED  BY <1>1, <3>1
  <2>6. QED  BY <2>1, <2>2, <2>3, <2>4, <2>5
<1>4. \A p \in Pages : ~Moving(page', p)
  BY <1>3, NotMoving
<1>5. QED  BY <1>4 DEF RInv

LEMMA BootRoom ==
  ASSUME EInv, EInv', RInv, Boot
  PROVE  RInv'
<1>1. page' = page /\ losses' = losses /\ op.pc = "off"
  BY DEF Boot, Doing
<1>2. SUFFICES ASSUME NEW p \in Pages, Moving(page, p)
               PROVE  /\ op'.pc \notin {"idle", "receive"} /\ op'.kind # "write"
                      /\ op'.pc = "dat" => page[p].slots = <<>>
                      /\ Len(page[p].slots) <= Len(VarTab) * losses + Extra'
  BY <1>1 DEF RInv
<1>3. Len(page[p].slots) <= Len(VarTab) * losses + 1
  BY <1>1, <1>2 DEF RInv, Extra
<1>4. op'.pc = "copy" /\ op'.kind = "recover" /\ op'.idx = 1
  <2>1. /\ ~Statuses("erased", "valid") /\ ~Statuses("erased", "receive")
        /\ Statuses("receive", "valid")
    <3>1. {"receive", "valid"} # {"erased", "receive"}
          /\ {"receive", "valid"} # {"erased", "valid"}
      OBVIOUS
    <3>2. QED  BY <1>2, <3>1, StatusesIs DEF Moving
  <2>2. op' = [Idle EXCEPT !.kind = "recover", !.pc = "copy", !.new = HasStatus("receive")]
    BY <2>1 DEF Boot
  <2>3. QED  BY <2>2 DEF Idle
<1>5. Extra' = 1
  BY <1>4 DEF Extra
<1>6. QED  BY <1>3, <1>4, <1>5

LEMMA LossRoom ==
  ASSUME EInv, EInv', RInv, PowerLoss
  PROVE  RInv'
<1>1. /\ op'.pc = "off" /\ op' = [Idle EXCEPT !.pc = "off"]
      /\ \A p \in Pages : /\ page'[p].status = page[p].status
                          /\ page'[p].slots = CutOf(page[p].slots)
  BY CutTypes DEF EInv
<1>2. op'.kind = "none"
  BY <1>1, OffTypes
<1>3. SUFFICES ASSUME NEW p \in Pages, Moving(page', p)
               PROVE  Len(page'[p].slots) <= Len(VarTab) * losses' + 1
  BY <1>1, <1>2 DEF RInv, Extra
<1>4. Moving(page, p)
  BY <1>1, <1>3, OtherIs DEF Moving
<1>5. /\ op.idx \in 1..(Len(VarTab) + 1) /\ (op.pc = "copied" => op.idx \in 1..Len(VarTab))
      /\ losses \in Nat /\ losses' = losses + 1 /\ page[p].slots \in Seq(Slot)
  BY LossAssumption DEF EInv, TInv, TypeOK, PowerLoss
<1>6. Len(CutOf(page[p].slots)) <= Len(page[p].slots)
      /\ Len(page[p].slots) \in Nat /\ Len(CutOf(page[p].slots)) \in Nat
  BY <1>5, CutIs, LenProperties
<1>7. Len(page[p].slots) <= Len(VarTab) * losses + Extra
  BY <1>4 DEF RInv
<1>8. Extra \in Nat /\ Extra <= Len(VarTab) + 1
  BY <1>5, TabIs DEF Extra
<1>9. PICK b \in Nat, n \in Nat, e \in Nat, k \in Nat, c \in Nat :
        /\ b = Len(VarTab) * losses /\ n = Len(VarTab) /\ e = Extra
        /\ k = Len(page[p].slots) /\ c = Len(page'[p].slots)
        /\ Len(VarTab) * losses' = b + n
  <2>1. Len(VarTab) * losses \in Nat /\ Len(VarTab) * losses' = Len(VarTab) * losses + Len(VarTab)
    <3>1. PICK n \in Nat, l \in Nat : n = Len(VarTab) /\ l = losses
      BY <1>5, TabIs
    <3>2. n * l \in Nat /\ n * (l + 1) = n * l + n
      BY Times
    <3>3. QED  BY <1>5, <3>1, <3>2
  <2>2. page'[p].slots = CutOf(page[p].slots)
    BY <1>1
  <2>3. QED  BY <1>6, <1>8, <2>1, <2>2, TabIs
<1>10. c <= k /\ k <= b + e /\ e <= n + 1
  BY <1>1, <1>6, <1>7, <1>8, <1>9
<1>11. c <= b + n + 1
  BY <1>10
<1>12. QED  BY <1>9, <1>11

LEMMA StepRoom ==
  ASSUME Room, EInv, EInv', RInv, [Next]_vars
  PROVE  RInv'
<1>1. CASE UNCHANGED vars
  BY <1>1 DEF vars, RInv, Extra
<1>2. CASE \E v \in Vars, d \in Values : WriteVariable(v, d)
  BY <1>2 DEF WriteVariable, Doing, RInv
<1>3. QED
  BY <1>1, <1>2, DataRoom, AddressRoom, ReceiveRoom, CopyRoom, CopiedRoom, EndRoom, BootRoom,
     LossRoom DEF Next

\* Between two routines a read returns what is stored: no transfer that power losses
\* cut off is left behind unfinished where the page has room for all of them.
THEOREM ReadsWhatIsStored ==
  ASSUME ~LossAnywhere, Room
  PROVE  Spec => []ReadsStored
<1>1. Init => EInv /\ RInv
  <2>1. Init => \A p \in Pages : ~Moving(page, p)
    BY DEF Init, Moving, Empty
  <2>2. QED  BY <2>1, InitInv DEF RInv
<1>2. EInv /\ RInv /\ [Next]_vars => EInv' /\ RInv'
  BY StepInv, StepRoom
<1>3. EInv /\ RInv => ReadsStored
  <2> SUFFICES ASSUME EInv, RInv, Doing("idle") PROVE \A v \in Vars : ReadVariable(v) = Stored(v)
    BY DEF ReadsStored
  <2>1. \A p \in Pages : ~Moving(page, p)
    BY DEF RInv, Doing
  <2>2. NoneFull
    <3>1. Resting(page, op)
      BY DEF EInv, Doing, Phases, Off, Writing, Starting, Taking, Copying, Copied, Erasing,
             Promoting, Formatting
    <3>2. PICK r \in Pages : Plain(page, r)
      BY <2>1, <3>1, OtherIs DEF Resting, Settled
    <3>3. QED  BY <3>2, OtherIs DEF NoneFull, Plain
  <2>3. QED  BY <2>2, RestReads
<1>4. QED  BY <1>1, <1>2, <1>3, PTL DEF Spec
=============================================================================
