----------------------------- MODULE BootProofs -----------------------------
(***************************************************************************)
(* Proofs about the boot, for every number of pairs, identities, terminals *)
(* and parts of the image, and any number of power losses and damages.     *)
(***************************************************************************)
EXTENDS Boot, SequenceTheorems, WellFoundedInduction, TLAPS

\* From the detection on the fallback variant is a fatal error; a fatal error has
\* latched the fault before the PWM is set up, and the latch keeps it off.
Armed ==
  /\ pc # "off" => (variant = Fallback => fatal)
  /\ pc \in {"init", "run"} => latched = fatal
  /\ pwm => pc = "run" /\ ~latched

\* The image has its type, and a CRC that is stored and whole is that of the image
\* it was computed over, whatever was programmed over it.
Imaged == image \in [1..Chunks -> 0..MaxRot] /\ rot \in 0..MaxRot
          /\ \A c \in 1..Chunks : image[c] <= rot
Computed == crc \notin {Blank, Mixed} => crc = born

IInv == Armed /\ Imaged /\ Computed

\* What BrandApplies needs. A terminal that brands does so in a running device, is the
\* only one, and has a pair without a magic.
Branding ==
  \A t \in Terminals : job[t] # NoJob =>
    /\ pc = "run"
    /\ otp[job[t].pair][1] # Magic
    /\ \A s \in Terminals : job[s] # NoJob => s = t

\* The cells of a pair are programmed in the order of their addresses.
Ordered == \A p \in 0..Pairs - 1 : otp[p][1] = Blank => BlankPair(p)

\* The identity that is found is one of latest, and none is found, or a pair is
\* spoilt, only if latest explains it.
Identified ==
  /\ ValidPairs # {} => otp[ActivePair][2] \in latest
  /\ ValidPairs = {} => Unbranded \in latest
  /\ HasOtpData => latest # {Unbranded}

\* TypeOK, with what is known of the jobs and the sum.
Types ==
  /\ TypeOK
  /\ sum \in Seq(0..MaxRot)
  /\ \A t \in Terminals : job[t] = NoJob \/ job[t] \in [pair : 0..Pairs - 1, id : Ids]

BInv == Types /\ Branding /\ Ordered /\ Identified

-----------------------------------------------------------------------------
\* The fallback is selected with an error only.
LEMMA FallbackIsFatal == DetectedVariant = Fallback => FatalConfigError
<1>1. CASE ValidPairs # {}
  BY <1>1, VariantsAssumption DEF DetectedVariant, FatalConfigError
<1>2. CASE ValidPairs = {}
  BY <1>2, VariantsAssumption DEF DetectedVariant, FatalConfigError
<1>3. QED  BY <1>1, <1>2

\* A power loss or a reset leaves nothing armed.
LEMMA ResetArmed == Reset => Armed'
BY DEF Reset, Armed

LEMMA InitInv == Init => IInv
BY ChunksAssumption DEF Init, IInv, Armed, Imaged, Computed

LEMMA ArmedNext ==
  ASSUME Armed, [Next]_vars
  PROVE  Armed'
<1>1. CASE PowerOn
  BY <1>1, FallbackIsFatal DEF PowerOn, Armed
<1>2. CASE VerifyImage
  BY <1>2 DEF VerifyImage, At, Armed
<1>3. CASE WriteFlag
  BY <1>3 DEF WriteFlag, At, Armed
<1>4. CASE WriteCrc
  BY <1>4, ResetArmed DEF WriteCrc
<1>5. CASE LatchFault
  BY <1>5 DEF LatchFault, At, Armed
<1>6. CASE McInterfaceInit
  BY <1>6 DEF McInterfaceInit, At, Armed
<1>7. CASE ProgramFails
  BY <1>7 DEF ProgramFails, At, Armed
<1>8. CASE CheckChunk
  BY <1>8, ResetArmed DEF CheckChunk, Armed
<1>9. ASSUME NEW t \in Terminals,
             (\E id \in Ids : BrandBegin(t, id)) \/ BrandGivesUp(t) \/ BrandWrites(t)
             \/ BrandFails(t)
      PROVE  Armed'
  <2>1. UNCHANGED boot
    BY <1>9, Zenon DEF BrandBegin, BrandGivesUp, BrandWrites, BrandFails
  <2>2. QED  BY <2>1 DEF boot, Armed
<1>10. ASSUME NEW p \in 0..Pairs - 1, NEW id \in Ids, HostBrands(p, id) \/ HostCutOff(p, id)
       PROVE  Armed'
  <2>1. UNCHANGED boot
    BY <1>10, Zenon DEF HostBrands, HostCutOff, HostWrites
  <2>2. QED  BY <2>1 DEF boot, Armed
<1>11. CASE Off
  BY <1>11, ResetArmed DEF Off
<1>12. CASE Damage
  BY <1>12 DEF Damage, boot, Armed
<1>13. CASE UNCHANGED vars
  BY <1>13 DEF vars, boot, Armed
<1>14. QED
  BY <1>1, <1>2, <1>3, <1>4, <1>5, <1>6, <1>7, <1>8, <1>9, <1>10, <1>11, <1>12, <1>13
     DEF Next, Main, PowerLoss, LossInBrand, LossInFlag, LossInCrc, Rot, FlagRot, CrcRot

LEMMA ImageNext ==
  ASSUME Imaged, Computed, [Next]_vars
  PROVE  Imaged' /\ Computed'
<1>1. CASE WriteCrc
  <2>1. CrcOf(image) = image /\ image \notin {Blank, Mixed}
    BY CrcAssumption DEF CrcOf, Imaged
  <2>2. Computed'
    BY <1>1, <2>1 DEF WriteCrc, And, Computed
  <2>3. QED  BY <1>1, <2>2 DEF WriteCrc, Imaged
<1>2. CASE LossInCrc
  BY <1>2 DEF LossInCrc, Off, Imaged, Computed
<1>3. ASSUME NEW c \in 1..Chunks, Rot(c) PROVE Imaged' /\ Computed'
  BY <1>3, ChunksAssumption DEF Rot, Damage, Imaged, Computed
<1>4. CASE CrcRot
  BY <1>4, ChunksAssumption DEF CrcRot, Damage, Imaged, Computed
<1>5. CASE FlagRot
  BY <1>5, ChunksAssumption DEF FlagRot, Damage, Imaged, Computed
<1>6. CASE UNCHANGED <<image, crc, born, rot>>
  BY <1>6 DEF Imaged, Computed
<1>7. CASE PowerOn \/ VerifyImage \/ WriteFlag \/ LatchFault \/ McInterfaceInit
  BY <1>6, <1>7 DEF PowerOn, VerifyImage, WriteFlag, LatchFault, McInterfaceInit, At, flash
<1>8. CASE ProgramFails \/ CheckChunk
  BY <1>6, <1>8 DEF ProgramFails, CheckChunk, At, flash
<1>9. ASSUME NEW t \in Terminals,
             (\E id \in Ids : BrandBegin(t, id)) \/ BrandGivesUp(t) \/ BrandWrites(t)
             \/ BrandFails(t) \/ LossInBrand(t)
      PROVE  UNCHANGED <<image, crc, born, rot>>
  BY <1>9 DEF BrandBegin, BrandGivesUp, BrandWrites, BrandFails, LossInBrand, Off, flash
<1>10. CASE PowerLoss \/ LossInFlag
  BY <1>6, <1>10 DEF PowerLoss, LossInFlag, Off, flash
<1>13. ASSUME NEW p \in 0..Pairs - 1, NEW id \in Ids, HostBrands(p, id) \/ HostCutOff(p, id)
       PROVE  UNCHANGED <<image, crc, born, rot>>
  BY <1>13 DEF HostBrands, HostCutOff, HostWrites, flash
<1>11. CASE UNCHANGED vars
  BY <1>6, <1>11 DEF vars, flash
<1>12. QED
  BY <1>1, <1>2, <1>3, <1>4, <1>5, <1>6, <1>7, <1>8, <1>9, <1>10, <1>11, <1>13 DEF Next, Main

LEMMA NextInv == IInv /\ [Next]_vars => IInv'
BY ArmedNext, ImageNext DEF IInv

-----------------------------------------------------------------------------
\* Numbers have a least one; of finitely many pairs there is a highest and a lowest.
LEMMA LeastNat ==
  ASSUME NEW B, B \subseteq Nat, B # {}
  PROVE  \E b \in B : \A c \in B : b <= c
<1>1. PICK b \in B : \A c \in B : ~ (<<c, b>> \in OpToRel(<, Nat))
  BY WFMin, NatLessThanWellFounded
<1>2. \A c \in B : ~ (c < b)
  BY <1>1 DEF OpToRel
<1>3. QED  BY <1>2

LEMMA FirstFreeIsFree ==
  ASSUME FreePairs # {}
  PROVE  FirstFree \in FreePairs /\ \A q \in FreePairs : FirstFree <= q
<1>1. FreePairs \subseteq Nat
  BY PairsAssumption DEF FreePairs
<1>2. \E p \in FreePairs : \A q \in FreePairs : p <= q
  BY <1>1, LeastNat
<1>3. QED  BY <1>2 DEF FirstFree

LEMMA HighestExists ==
  ASSUME NEW V, V \subseteq 0..Pairs - 1, V # {}
  PROVE  \E p \in V : \A q \in V : q <= p
<1> DEFINE B == {Pairs - p : p \in V}
<1>1. B \subseteq Nat /\ B # {}
  <2>1. \A p \in V : Pairs - p \in Nat
    BY PairsAssumption
  <2>2. QED  BY <2>1
<1>2. PICK b \in B : \A c \in B : b <= c
  BY <1>1, LeastNat
<1>3. PICK p \in V : b = Pairs - p
  OBVIOUS
<1>4. \A q \in V : q <= p
  <2> SUFFICES ASSUME NEW q \in V PROVE q <= p
    OBVIOUS
  <2>1. Pairs - q \in B
    OBVIOUS
  <2>2. Pairs - p <= Pairs - q
    BY <1>2, <1>3, <2>1
  <2>3. p \in Int /\ q \in Int /\ Pairs \in Int
    BY PairsAssumption
  <2> HIDE DEF B
  <2>4. QED  BY <2>2, <2>3
<1>5. QED  BY <1>4

LEMMA ActiveIsHighest ==
  ASSUME ValidPairs # {}
  PROVE  ActivePair \in ValidPairs /\ \A q \in ValidPairs : q <= ActivePair
<1>1. \E p \in ValidPairs : \A q \in ValidPairs : q <= p
  BY HighestExists DEF ValidPairs
<1>2. QED  BY <1>1 DEF ActivePair

-----------------------------------------------------------------------------
(* Types *)

Cells == Ids \cup {Blank, Mixed, Magic}

\* All three cells, and no fourth one in part.
LEMMA WholeBlock == 3 \in 0..3 /\ FALSE \in BOOLEAN
OBVIOUS

\* The host tool programs some of the cells.
LEMMA HostPrograms ==
  ASSUME NEW p \in 0..Pairs - 1, NEW id \in Ids, HostBrands(p, id) \/ HostCutOff(p, id)
  PROVE  \E n \in 0..3, torn \in BOOLEAN : HostWrites(p, id, n, torn)
BY WholeBlock, Zenon DEF HostBrands, HostCutOff

LEMMA ProgrammedTypes ==
  ASSUME NEW pair \in [1..3 -> Cells], NEW id \in Ids, NEW n \in 0..3, NEW torn \in BOOLEAN
  PROVE  Programmed(pair, id, n, torn) \in [1..3 -> Cells]
<1>1. \A i \in 1..3 : Block(id)[i] \in Cells /\ And(pair[i], Block(id)[i]) \in Cells
  BY DEF Block, And, Cells
<1>2. QED  BY <1>1 DEF Programmed, Cells

LEMMA ProgramTypes ==
  ASSUME Types, NEW t \in Terminals, NEW n \in 0..3, NEW torn \in BOOLEAN,
         Program(t, n, torn)
  PROVE  /\ otp' \in [0..Pairs - 1 -> [1..3 -> Cells]]
         /\ job[t] \in [pair : 0..Pairs - 1, id : Ids]
<1>1. job[t] \in [pair : 0..Pairs - 1, id : Ids] /\ otp \in [0..Pairs - 1 -> [1..3 -> Cells]]
  BY DEF Types, TypeOK, Program, Cells
<1>2. Programmed(otp[job[t].pair], job[t].id, n, torn) \in [1..3 -> Cells]
  BY <1>1, ProgrammedTypes
<1>3. QED  BY <1>1, <1>2 DEF Program

\* The sum of a step of the integrity thread.
LEMMA SumTypes ==
  ASSUME Types, NEW s, s = Append(sum, image[Len(sum) + 1])
  PROVE  s \in Seq(0..MaxRot) /\ Len(s) = Len(sum) + 1 /\ Len(s) <= Chunks
<1>1. sum \in Seq(0..MaxRot) /\ Len(sum) \in Nat /\ Len(sum) < Chunks
  BY LenProperties DEF Types, TypeOK
<1>2. image[Len(sum) + 1] \in 0..MaxRot
  BY <1>1, ChunksAssumption DEF Types, TypeOK
<1>3. QED  BY <1>1, <1>2, AppendProperties, ChunksAssumption

LEMMA EmptySum == <<>> \in Seq(0..MaxRot) /\ Len(<<>>) < Chunks
BY ChunksAssumption

\* Types without the one-time pairs, latest and image, which a reset keeps.
LEMMA ResetTypes ==
  ASSUME Types, Reset
  PROVE  /\ pc' = "off" /\ variant' = Fallback
         /\ job' \in [Terminals -> {NoJob}]
         /\ sum' = <<>>
BY DEF Reset
LEMMA TypesNext ==
  ASSUME Types, Imaged, Imaged', [Next]_vars
  PROVE  Types'
<1> DEFINE Boots == /\ pc' \in {"off", "image", "crc", "latch", "init", "run", "halt"}
                    /\ variant' \in Known \cup {V1Std, Fallback}
                    /\ flag' \in {"blank", "set", "bad"}
           Sums == sum' \in Seq(0..MaxRot) /\ Len(sum') < Chunks
           Jobs == job' \in [Terminals -> {NoJob} \cup [pair : 0..Pairs - 1, id : Ids]]
           Otps == otp' \in [0..Pairs - 1 -> [1..3 -> Cells]] /\ latest' \subseteq Ids \cup {Unbranded}
           Goal == Boots /\ Sums /\ Jobs /\ Otps
<1>1. SUFFICES Goal
  <2> SUFFICES ASSUME Goal PROVE Types'
    OBVIOUS
  <2>1. \A t \in Terminals : job'[t] = NoJob \/ job'[t] \in [pair : 0..Pairs - 1, id : Ids]
    OBVIOUS
  <2>2. NoJob \in [pair : -1..Pairs - 1, id : Ids \cup {Unbranded}]
    BY PairsAssumption DEF NoJob
  <2>3. [pair : 0..Pairs - 1, id : Ids] \subseteq [pair : -1..Pairs - 1, id : Ids \cup {Unbranded}]
    BY PairsAssumption
  <2>4. job' \in [Terminals -> [pair : -1..Pairs - 1, id : Ids \cup {Unbranded}]]
    BY <2>2, <2>3
  <2>5. image' \in [1..Chunks -> 0..MaxRot]
    BY DEF Imaged
  <2>6. QED  BY <2>1, <2>4, <2>5 DEF Types, TypeOK, Cells
<1>2. job \in [Terminals -> {NoJob} \cup [pair : 0..Pairs - 1, id : Ids]]
  BY DEF Types, TypeOK
<1>3. /\ otp \in [0..Pairs - 1 -> [1..3 -> Cells]] /\ latest \subseteq Ids \cup {Unbranded}
      /\ sum \in Seq(0..MaxRot) /\ Len(sum) < Chunks
      /\ flag \in {"blank", "set", "bad"}
      /\ pc \in {"off", "image", "crc", "latch", "init", "run", "halt"}
      /\ variant \in Known \cup {V1Std, Fallback}
  BY DEF Types, TypeOK, Cells
<1>4. CASE Reset /\ flag' \in {"blank", "set", "bad"} /\ Otps
  BY <1>4, ResetTypes, EmptySum
<1>5. CASE PowerOn
  <2>1. variant' \in Known \cup {V1Std, Fallback}
    BY <1>5 DEF PowerOn, DetectedVariant
  <2>2. QED  BY <1>2, <1>3, <1>5, <2>1 DEF PowerOn, flash, brand
<1>6. CASE VerifyImage \/ WriteFlag \/ LatchFault \/ McInterfaceInit \/ ProgramFails
  BY <1>2, <1>3, <1>6 DEF VerifyImage, WriteFlag, LatchFault, McInterfaceInit, ProgramFails,
                          At, flash, brand
<1>7. CASE WriteCrc \/ PowerLoss \/ LossInFlag \/ LossInCrc
  BY <1>3, <1>4, <1>7 DEF WriteCrc, PowerLoss, LossInFlag, LossInCrc, Off, flash
<1>8. CASE CheckChunk
  <2> DEFINE s == Append(sum, image[Len(sum) + 1])
  <2>1. s \in Seq(0..MaxRot) /\ Len(s) = Len(sum) + 1 /\ Len(s) <= Chunks
    BY SumTypes
  <2>2. CASE Corrupt(s)
    BY <1>3, <1>4, <1>8, <2>2 DEF CheckChunk, flash
  <2>3. CASE ~Corrupt(s)
    <3> HIDE DEF s
    <3>1. sum' = IF Len(s) = Chunks THEN <<>> ELSE s
      BY <1>8, <2>3 DEF CheckChunk, s
    <3>2. Sums
      <4>1. CASE Len(s) = Chunks
        BY <3>1, <4>1, EmptySum
      <4>2. CASE Len(s) # Chunks
        BY <2>1, <3>1, <4>2, ChunksAssumption
      <4>3. QED  BY <4>1, <4>2
    <3>3. UNCHANGED <<pc, variant, job, flag, otp, latest>>
      BY <1>8, <2>3 DEF CheckChunk, flash, s
    <3>4. QED  BY <1>2, <1>3, <3>2, <3>3
  <2>4. QED  BY <2>2, <2>3
<1>9. ASSUME NEW t \in Terminals, NEW id \in Ids, BrandBegin(t, id) PROVE Goal
  <2>1. FirstFree \in 0..Pairs - 1
    BY <1>9, FirstFreeIsFree DEF BrandBegin, FreePairs
  <2>2. Jobs
    BY <1>2, <1>9, <2>1 DEF BrandBegin
  <2>3. QED  BY <1>1, <1>3, <1>9, <2>2 DEF BrandBegin, boot, flash
<1>10. ASSUME NEW t \in Terminals, BrandGivesUp(t) PROVE Goal
  BY <1>1, <1>2, <1>3, <1>10 DEF BrandGivesUp, boot, flash
<1>11. ASSUME NEW t \in Terminals, BrandWrites(t) PROVE Goal
  <2>1. Program(t, 3, FALSE)
    BY <1>11 DEF BrandWrites
  <2>2. otp' \in [0..Pairs - 1 -> [1..3 -> Cells]] /\ job[t].id \in Ids
    <3>1. 3 \in 0..3 /\ FALSE \in BOOLEAN
      OBVIOUS
    <3>2. QED  BY <2>1, <3>1, ProgramTypes
  <2>3. latest' = {job[t].id} \/ latest' = latest \cup {job[t].id} \/ latest' = latest
    BY <1>11 DEF BrandWrites, Branded
  <2>4. Otps
    BY <1>3, <2>2, <2>3
  <2>5. QED  BY <1>1, <1>2, <1>3, <1>11, <2>4 DEF BrandWrites, boot, flash
<1>12. ASSUME NEW t \in Terminals, BrandFails(t) \/ LossInBrand(t) PROVE Goal
  <2>1. PICK n \in 0..3, torn \in BOOLEAN : Program(t, n, torn)
    BY <1>12 DEF BrandFails, LossInBrand
  <2>2. Otps
    BY <1>3, <1>12, <2>1, ProgramTypes DEF BrandFails, LossInBrand, Tried
  <2>3. CASE LossInBrand(t)
    BY <1>1, <1>3, <1>4, <2>2, <2>3 DEF LossInBrand, Off, flash
  <2>4. CASE BrandFails(t)
    BY <1>1, <1>2, <1>3, <2>2, <2>4 DEF BrandFails, boot, flash
  <2>5. QED  BY <1>12, <2>3, <2>4
<1>13. ASSUME NEW p \in 0..Pairs - 1, NEW id \in Ids, HostBrands(p, id) \/ HostCutOff(p, id)
       PROVE  Goal
  <2>1. PICK n \in 0..3, torn \in BOOLEAN : HostWrites(p, id, n, torn)
    BY <1>13, HostPrograms
  <2>2. otp' = [otp EXCEPT ![p] = Programmed(otp[p], id, n, torn)]
    BY <2>1 DEF HostWrites
  <2>3. Programmed(otp[p], id, n, torn) \in [1..3 -> Cells]
    BY <1>3, ProgrammedTypes
  <2>4. latest' = {id} \/ latest' = latest \cup {id} \/ latest' = latest
    BY <1>13 DEF HostBrands, HostCutOff, Branded, Tried
  <2>5. Otps
    BY <1>3, <2>2, <2>3, <2>4
  <2>6. QED  BY <1>1, <1>2, <1>3, <2>1, <2>5 DEF HostWrites, boot, flash
<1>14. ASSUME Damage, UNCHANGED flag \/ flag' = "bad" PROVE Goal
  BY <1>1, <1>2, <1>3, <1>14 DEF Damage, boot, brand
<1>15. CASE UNCHANGED vars
  BY <1>2, <1>3, <1>15 DEF vars, boot, flash, brand
<1>16. CASE (\E c \in 1..Chunks : Rot(c)) \/ FlagRot \/ CrcRot
  BY <1>14, <1>16 DEF Rot, FlagRot, CrcRot
<1>17. QED
  BY <1>1, <1>5, <1>6, <1>7, <1>8, <1>9, <1>10, <1>11, <1>12, <1>13, <1>15, <1>16
     DEF Next, Main

LEMMA InitTypes == Init => Types
<1> SUFFICES ASSUME Init PROVE Types
  OBVIOUS
<1>1. otp \in [0..Pairs - 1 -> [1..3 -> Cells]]
  BY DEF Init, Cells
<1>2. NoJob \in [pair : -1..Pairs - 1, id : Ids \cup {Unbranded}]
  BY PairsAssumption DEF NoJob
<1>3. job \in [Terminals -> [pair : -1..Pairs - 1, id : Ids \cup {Unbranded}]]
  BY <1>2 DEF Init
<1>4. sum \in Seq(0..MaxRot) /\ Len(sum) < Chunks
  BY EmptySum DEF Init
<1>5. image \in [1..Chunks -> 0..MaxRot]
  BY ChunksAssumption DEF Init
<1>6. QED  BY <1>1, <1>3, <1>4, <1>5 DEF Init, Types, TypeOK, Cells

-----------------------------------------------------------------------------
(* The identity *)

\* A pair without a magic is valid after it was programmed only if it was blank, and the
\* whole block went in. One that is still without a magic then is still blank or spoilt.
LEMMA ProgrammedPair ==
  ASSUME NEW pair \in [1..3 -> Cells], pair[1] # Magic,
         pair[1] = Blank => \A i \in 1..3 : pair[i] = Blank,
         NEW id \in Ids, NEW n \in 0..3, NEW torn \in BOOLEAN,
         NEW new, new = Programmed(pair, id, n, torn)
  PROVE  /\ new[1] = Magic /\ new[2] \in Ids /\ new[3] = new[2] => new = Block(id)
         /\ new[1] = Blank => \A i \in 1..3 : new[i] = Blank
<1>1. new = [i \in 1..3 |-> CASE i <= n -> And(pair[i], Block(id)[i])
                              [] i = n + 1 /\ torn -> Mixed
                              [] OTHER -> pair[i]]
  BY DEF Programmed
<1>2. CASE pair[1] = Blank
  <2>1. \A i \in 1..3 : pair[i] = Blank /\ And(pair[i], Block(id)[i]) = Block(id)[i]
    BY <1>2 DEF And
  <2>2. new = [i \in 1..3 |-> CASE i <= n -> Block(id)[i]
                                [] i = n + 1 /\ torn -> Mixed
                                [] OTHER -> Blank]
    BY <1>1, <2>1
  <2>3. CASE n = 3
    <3>1. new = [i \in 1..3 |-> Block(id)[i]]
      BY <2>2, <2>3
    <3>2. new = Block(id) /\ new[1] = Magic
      BY <3>1 DEF Block
    <3>3. QED  BY <3>2, CellsAssumption
  <2>4. CASE n \in {1, 2}
    <3>1. new[3] = Mixed \/ new[3] = Blank
      BY <2>2, <2>4
    <3>2. new[1] = Magic
      BY <2>2, <2>4 DEF Block
    <3>3. QED  BY <3>1, <3>2, CellsAssumption
  <2>5. CASE n = 0
    <3>1. /\ new[1] = IF torn THEN Mixed ELSE Blank
          /\ ~torn => \A i \in 1..3 : new[i] = Blank
      BY <2>2, <2>5
    <3>2. QED  BY <3>1, CellsAssumption
  <2>6. QED  BY <2>3, <2>4, <2>5
<1>3. CASE pair[1] # Blank
  <2>1. And(pair[1], Magic) = Mixed
    BY <1>3 DEF And
  <2>2. new[1] = Mixed \/ new[1] = pair[1]
    BY <1>1, <2>1 DEF Block
  <2>3. QED  BY <1>3, <2>2, CellsAssumption
<1>4. QED  BY <1>2, <1>3

\* A pair without a magic is programmed, in whole or in part: who was found, is found,
\* unless the new identity is found above.
LEMMA WriteKeeps ==
  ASSUME BInv, NEW p \in 0..Pairs - 1, NEW id \in Ids, NEW n \in 0..3, NEW torn \in BOOLEAN,
         otp[p][1] # Magic, otp' = [otp EXCEPT ![p] = Programmed(otp[p], id, n, torn)],
         latest' = Tried(p, id) \/ latest' = Branded(p, id)
  PROVE  Ordered' /\ Identified'
<1>1. otp \in [0..Pairs - 1 -> [1..3 -> Cells]]
  BY DEF BInv, Types, TypeOK, Cells
<1>2. /\ \A q \in 0..Pairs - 1 : q # p => otp'[q] = otp[q]
      /\ otp'[p] = Programmed(otp[p], id, n, torn)
  BY <1>1
<1>3. /\ Valid(p)' => otp'[p] = Block(id)
      /\ otp'[p][1] = Blank => \A i \in 1..3 : otp'[p][i] = Blank
  <2>1. otp[p] \in [1..3 -> Cells] /\ (otp[p][1] = Blank => \A i \in 1..3 : otp[p][i] = Blank)
    BY <1>1 DEF BInv, Ordered, BlankPair
  <2>2. /\ otp'[p][1] = Magic /\ otp'[p][2] \in Ids /\ otp'[p][3] = otp'[p][2] => otp'[p] = Block(id)
        /\ otp'[p][1] = Blank => \A i \in 1..3 : otp'[p][i] = Blank
    BY <1>2, <2>1, ProgrammedPair
  <2>3. QED  BY <2>2 DEF Valid
<1>4. Ordered'
  <2>1. \A q \in 0..Pairs - 1 : otp'[q][1] = Blank => \A i \in 1..3 : otp'[q][i] = Blank
    BY <1>2, <1>3 DEF BInv, Ordered, BlankPair
  <2>2. QED  BY <2>1 DEF Ordered, BlankPair
<1>5. ~Valid(p) /\ \A q \in 0..Pairs - 1 : q # p => (Valid(q)' <=> Valid(q))
  BY <1>2 DEF Valid
<1>6. ValidPairs' = ValidPairs \/ (Valid(p)' /\ ValidPairs' = ValidPairs \cup {p})
  BY <1>5 DEF ValidPairs
<1>7. ValidPairs \subseteq 0..Pairs - 1 /\ p \notin ValidPairs /\ 0..Pairs - 1 \subseteq Int
  BY <1>5 DEF ValidPairs
<1>8. CASE Below(p)
  <2>1. PICK r \in ValidPairs : r > p
    BY <1>8 DEF Below
  <2>2. ActivePair \in ValidPairs /\ (\A q \in ValidPairs : q <= ActivePair) /\ ActivePair > p
    <3>1. ActivePair \in ValidPairs /\ \A q \in ValidPairs : q <= ActivePair
      BY <2>1, ActiveIsHighest
    <3>2. r <= ActivePair /\ r \in Int /\ ActivePair \in Int /\ p \in Int
      BY <1>7, <2>1, <3>1
    <3>3. ActivePair > p
      BY <2>1, <3>2
    <3>4. QED  BY <3>1, <3>3
  <2>3. ValidPairs' # {} /\ ActivePair \in ValidPairs' /\ \A q \in ValidPairs' : q <= ActivePair
    <3>1. p <= ActivePair
      BY <1>7, <2>2
    <3>2. ValidPairs' \subseteq ValidPairs \cup {p} /\ ValidPairs \subseteq ValidPairs'
      BY <1>6
    <3>3. QED  BY <2>2, <3>1, <3>2
  <2>4. ActivePair' = ActivePair
    <3>1. \A a \in ValidPairs' : (\A q \in ValidPairs' : q <= a) => a = ActivePair
      <4>1. ValidPairs' \subseteq Int /\ ActivePair \in Int
        BY <1>6, <1>7, <2>2
      <4> SUFFICES ASSUME NEW a \in ValidPairs', \A q \in ValidPairs' : q <= a
                   PROVE  a = ActivePair
        OBVIOUS
      <4>2. a <= ActivePair /\ ActivePair <= a /\ a \in Int
        BY <2>3, <4>1
      <4>3. QED  BY <4>1, <4>2
    <3>2. QED  BY <2>3, <3>1 DEF ActivePair
  <2>5. latest' = latest
    BY <1>8 DEF Tried, Branded
  <2>6. otp[ActivePair][2] \in latest /\ latest # {Unbranded}
    <3>1. otp[ActivePair][2] \in latest
      BY <2>2 DEF BInv, Identified
    <3>2. otp[ActivePair][2] \in Ids
      BY <2>2 DEF ValidPairs, Valid
    <3>3. QED  BY <3>1, <3>2, CellsAssumption
  <2>7. otp'[ActivePair'] = otp[ActivePair]
    BY <1>2, <1>7, <2>2, <2>4
  <2>8. QED  BY <1>4, <2>3, <2>4, <2>5, <2>6, <2>7 DEF Identified
<1>9. CASE ~Below(p) /\ Valid(p)'
  <2>1. ValidPairs' = ValidPairs \cup {p} /\ \A q \in ValidPairs' : q <= p
    <3>1. p \in ValidPairs'
      BY <1>9 DEF ValidPairs
    <3>2. ValidPairs' = ValidPairs \cup {p}
      BY <1>6, <1>7, <3>1
    <3>3. QED  BY <1>7, <1>9, <3>2 DEF Below
  <2>2. ActivePair' = p
    <3>1. \A a \in ValidPairs' : (\A q \in ValidPairs' : q <= a) => a = p
      BY <1>7, <2>1
    <3>2. QED  BY <2>1, <3>1 DEF ActivePair
  <2>3. otp'[p][2] = id
    BY <1>3, <1>9 DEF Block
  <2>4. id \in latest'
    BY <1>9 DEF Tried, Branded
  <2>5. latest' # {Unbranded}
    BY <2>4, CellsAssumption
  <2>6. QED  BY <1>4, <2>1, <2>2, <2>3, <2>4, <2>5 DEF Identified
<1>10. CASE ~Below(p) /\ ~Valid(p)'
  <2>1. ValidPairs' = ValidPairs
    BY <1>6, <1>10
  <2>2. ActivePair' = ActivePair
    BY <2>1 DEF ActivePair
  <2>3. otp'[p] # Block(id)
    BY <1>10 DEF Block, Valid
  <2>4. latest' = latest \cup {id}
    BY <1>10, <2>3 DEF Tried, Branded
  <2>5. latest' # {Unbranded}
    BY <2>4, CellsAssumption
  <2>6. ValidPairs # {} => otp'[ActivePair] = otp[ActivePair]
    BY <1>2, <1>7, ActiveIsHighest
  <2>7. ValidPairs' # {} => otp'[ActivePair'][2] \in latest'
    BY <2>1, <2>2, <2>4, <2>6 DEF BInv, Identified
  <2>8. ValidPairs' = {} => Unbranded \in latest'
    BY <2>1, <2>4 DEF BInv, Identified
  <2>9. QED  BY <1>4, <2>5, <2>7, <2>8 DEF Identified
<1>11. QED  BY <1>8, <1>9, <1>10

\* No job is left after a step that ends it, and a reset ends all.
LEMMA NoJobs ==
  ASSUME BInv, NEW t \in Terminals, job[t] # NoJob, job' = [job EXCEPT ![t] = NoJob]
  PROVE  Branding'
<1>1. \A s \in Terminals : job'[s] = NoJob
  BY DEF BInv, Types, TypeOK, Branding
<1>2. QED  BY <1>1 DEF Branding

LEMMA ResetBranding == Reset => Branding'
BY DEF Reset, Branding

LEMMA SamePairs ==
  ASSUME BInv, UNCHANGED <<otp, latest>>
  PROVE  Ordered' /\ Identified'
<1>1. ValidPairs' = ValidPairs /\ ActivePair' = ActivePair /\ (HasOtpData' <=> HasOtpData)
  BY DEF ValidPairs, Valid, ActivePair, HasOtpData
<1>2. Ordered'
  BY DEF BInv, Ordered, BlankPair
<1>3. Identified'
  BY <1>1 DEF BInv, Identified
<1>4. QED  BY <1>2, <1>3

LEMMA BrandBegins ==
  ASSUME BInv, NEW t \in Terminals, NEW id \in Ids, BrandBegin(t, id)
  PROVE  Branding'
<1>1. FirstFree \in 0..Pairs - 1 /\ BlankPair(FirstFree)
  BY FirstFreeIsFree DEF BrandBegin, FreePairs
<1>2. otp[FirstFree][1] # Magic
  BY <1>1, CellsAssumption DEF BlankPair
<1>3. UNCHANGED <<otp, pc>> /\ pc = "run"
  BY DEF BrandBegin, boot
<1>4. job'[t].pair = FirstFree /\ \A s \in Terminals : s # t => job'[s] = NoJob
  BY DEF BrandBegin, TerminalFree, BInv, Types, TypeOK
<1>5. QED  BY <1>2, <1>3, <1>4 DEF Branding

\* The host tool brands a device that is held in its reset.
LEMMA HostKeeps ==
  ASSUME BInv, NEW p \in 0..Pairs - 1, NEW id \in Ids, HostBrands(p, id) \/ HostCutOff(p, id)
  PROVE  Ordered' /\ Branding' /\ Identified'
<1>1. PICK n \in 0..3, torn \in BOOLEAN : HostWrites(p, id, n, torn)
  BY HostPrograms
<1>2. /\ otp[p][1] # Magic /\ otp' = [otp EXCEPT ![p] = Programmed(otp[p], id, n, torn)]
      /\ UNCHANGED <<pc, job>> /\ pc = "off"
  BY <1>1 DEF HostWrites, boot
<1>3. latest' = Tried(p, id) \/ latest' = Branded(p, id)
  BY DEF HostBrands, HostCutOff
<1>4. Ordered' /\ Identified'
  BY <1>2, <1>3, WriteKeeps
<1>5. Branding'
  BY <1>2 DEF BInv, Branding
<1>6. QED  BY <1>4, <1>5

LEMMA IdentityNext ==
  ASSUME BInv, Types', [Next]_vars
  PROVE  Ordered' /\ Branding' /\ Identified'
<1> DEFINE Goal == Ordered' /\ Branding' /\ Identified'
<1>1. CASE UNCHANGED <<otp, latest, job>> /\ (pc = "run" => pc' = "run")
  <2>1. Branding'
    BY <1>1 DEF BInv, Branding
  <2>2. QED  BY <1>1, <2>1, SamePairs
<1>2. CASE Reset /\ UNCHANGED <<otp, latest>>
  BY <1>2, ResetBranding, SamePairs
<1>3. CASE PowerOn \/ VerifyImage \/ WriteFlag \/ LatchFault \/ McInterfaceInit \/ ProgramFails
  BY <1>1, <1>3 DEF PowerOn, VerifyImage, WriteFlag, LatchFault, McInterfaceInit, ProgramFails,
                    At, brand
<1>4. CASE WriteCrc \/ PowerLoss \/ LossInFlag \/ LossInCrc
  BY <1>2, <1>4 DEF WriteCrc, PowerLoss, LossInFlag, LossInCrc, Off
<1>5. CASE CheckChunk
  BY <1>1, <1>2, <1>5 DEF CheckChunk
<1>6. CASE (\E c \in 1..Chunks : Rot(c)) \/ FlagRot \/ CrcRot \/ UNCHANGED vars
  BY <1>1, <1>6 DEF Rot, FlagRot, CrcRot, Damage, brand, boot, vars
<1>7. ASSUME NEW p \in 0..Pairs - 1, NEW id \in Ids, HostBrands(p, id) \/ HostCutOff(p, id)
      PROVE  Goal
  BY <1>7, HostKeeps
<1>8. ASSUME NEW t \in Terminals, NEW id \in Ids, BrandBegin(t, id) PROVE Goal
  BY <1>8, BrandBegins, SamePairs DEF BrandBegin
<1>9. ASSUME NEW t \in Terminals, BrandGivesUp(t) PROVE Goal
  BY <1>9, NoJobs, SamePairs DEF BrandGivesUp
<1>10. ASSUME NEW t \in Terminals, BrandWrites(t) \/ BrandFails(t) \/ LossInBrand(t)
       PROVE  Goal
  <2>1. Branding'
    BY <1>10, NoJobs, ResetBranding DEF BrandWrites, BrandFails, LossInBrand, Off, Program
  <2>2. PICK n \in 0..3, torn \in BOOLEAN : Program(t, n, torn)
    BY <1>10, WholeBlock, Zenon DEF BrandWrites, BrandFails, LossInBrand
  <2>3. PICK p, id : p = job[t].pair /\ id = job[t].id
    OBVIOUS
  <2>4. /\ p \in 0..Pairs - 1 /\ id \in Ids /\ otp[p][1] # Magic
        /\ otp' = [otp EXCEPT ![p] = Programmed(otp[p], id, n, torn)]
    <3>1. job[t] # NoJob /\ otp' = [otp EXCEPT ![p] = Programmed(otp[p], id, n, torn)]
      BY <2>2, <2>3 DEF Program
    <3>2. job[t] \in [pair : 0..Pairs - 1, id : Ids] /\ otp[p][1] # Magic
      BY <2>3, <3>1 DEF BInv, Types, Branding
    <3>3. QED  BY <2>3, <3>1, <3>2
  <2>5. latest' = Tried(p, id) \/ latest' = Branded(p, id)
    BY <1>10, <2>3 DEF BrandWrites, BrandFails, LossInBrand
  <2>6. Ordered' /\ Identified'
    BY <2>4, <2>5, WriteKeeps
  <2>7. QED  BY <2>1, <2>6
<1>11. QED
  BY <1>3, <1>4, <1>5, <1>6, <1>7, <1>8, <1>9, <1>10 DEF Next, Main

LEMMA BInvInit == Init => BInv
<1> SUFFICES ASSUME Init PROVE BInv
  OBVIOUS
<1>1. Types
  BY InitTypes
<1>2. \A p \in 0..Pairs - 1 : BlankPair(p) /\ ~Valid(p) /\ otp[p][1] # Magic
  BY CellsAssumption DEF Init, BlankPair, Valid
<1>3. Ordered /\ Identified
  BY <1>2 DEF Ordered, Identified, ValidPairs, HasOtpData, Init
<1>4. Branding
  BY DEF Init, Branding
<1>5. QED  BY <1>1, <1>3, <1>4 DEF BInv

\* What is detected is explained by latest.
LEMMA DetectedIsExpected ==
  ASSUME BInv
  PROVE  DetectedVariant \in Expected
<1>1. latest \subseteq Ids \cup {Unbranded}
  BY DEF BInv, Types, TypeOK
<1>2. CASE ValidPairs # {}
  <2>1. otp[ActivePair][2] \in latest /\ otp[ActivePair][2] \in Ids
    BY <1>2, ActiveIsHighest DEF BInv, Identified, ValidPairs, Valid
  <2>2. DetectedVariant = Config(otp[ActivePair][2])
    BY <1>2 DEF DetectedVariant, Config
  <2>3. otp[ActivePair][2] \in latest \ {Unbranded}
    BY <2>1, CellsAssumption
  <2>4. QED  BY <2>2, <2>3 DEF Expected
<1>3. CASE ValidPairs = {} /\ HasOtpData
  <2>1. Unbranded \in latest /\ latest # {Unbranded} /\ DetectedVariant = Fallback
    BY <1>3 DEF BInv, Identified, DetectedVariant
  <2>2. QED  BY <2>1 DEF Expected, NeverBranded
<1>4. CASE ValidPairs = {} /\ ~HasOtpData
  <2>1. Unbranded \in latest /\ DetectedVariant = Default
    BY <1>4 DEF BInv, Identified, DetectedVariant, Default
  <2>2. QED  BY <2>1 DEF Expected, NeverBranded
<1>5. QED  BY <1>2, <1>3, <1>4

-----------------------------------------------------------------------------
\* "The gate driver can never be armed": with the fallback variant the PWM is never
\* set up, whatever is branded, lost or damaged.
THEOREM FallbackStaysOff == Spec => []FallbackNeverArmed
<1>1. IInv => FallbackNeverArmed
  BY DEF IInv, Armed, FallbackNeverArmed
<1>2. QED  BY <1>1, InitInv, NextInv, PTL DEF Spec

\* An image that differs from the one its CRC was computed over does not pass the
\* verification, not even after a damaged flag had the CRC computed again.
THEOREM DamageIsSeen == Spec => []ChangedIsNotIntact
<1>1. IInv => ChangedIsNotIntact
  BY CrcAssumption DEF IInv, Imaged, Computed, ChangedIsNotIntact, CrcOf
<1>2. QED  BY <1>1, InitInv, NextInv, PTL DEF Spec

\* Every variable of the boot keeps its type: the cells of the one-time programmable
\* pairs, what main has come to, and the sum, which is shorter than the image.
THEOREM BootTypeCorrect == Spec => []TypeOK
<1>1. Init => IInv /\ Types
  BY InitInv, InitTypes
<1>2. IInv /\ Types /\ [Next]_vars => IInv' /\ Types'
  BY NextInv, TypesNext DEF IInv
<1>3. Types => TypeOK
  BY DEF Types
<1>4. QED  BY <1>1, <1>2, <1>3, PTL DEF Spec

\* After a reset the board is what it was last branded, or was being branded when
\* that was cut off: terminal_mutex keeps a second terminal from choosing the same pair,
\* however many there are, and the host tool may write any pair without a magic. Brands
\* below a valid pair do not apply, and a cut-off first brand may leave the fallback.
THEOREM BrandIsApplied == Spec => BrandApplies
<1>1. Init => IInv /\ BInv
  BY InitInv, BInvInit
<1>2. IInv /\ BInv /\ [Next]_vars => IInv' /\ BInv'
  BY NextInv, TypesNext, IdentityNext DEF IInv, BInv
<1>3. BInv /\ [Next]_vars => (pc = "off" /\ pc' = "image" => variant' \in Expected)
  <2> SUFFICES ASSUME BInv, [Next]_vars, pc = "off", pc' = "image"
               PROVE  variant' \in Expected
    OBVIOUS
  <2>1. PowerOn
    BY Zenon DEF Next, Main, VerifyImage, WriteFlag, WriteCrc, LatchFault, McInterfaceInit,
       ProgramFails, At, CheckChunk, BrandBegin, BrandGivesUp, BrandWrites, BrandFails,
       LossInBrand, HostBrands, HostCutOff, HostWrites, PowerLoss, LossInFlag, LossInCrc, Off, Reset, Rot, FlagRot,
       CrcRot, Damage, boot, vars
  <2>2. variant' = DetectedVariant
    BY <2>1 DEF PowerOn
  <2>3. QED  BY <2>2, DetectedIsExpected
<1>4. QED  BY <1>1, <1>2, <1>3, PTL DEF Spec, BrandApplies
=============================================================================
