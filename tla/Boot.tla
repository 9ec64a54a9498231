-------------------------------- MODULE Boot --------------------------------
(***************************************************************************)
(* What main.c decides before a motor may turn: the board's identity in    *)
(* the one-time programmable pairs (hwconf/xtech/xesc_all_variants) and    *)
(* the CRC of the application image (flash_helper.c), the persistent fault *)
(* that keeps the bridge off, and the thread that goes on checking the     *)
(* image. The identity is written by the terminal command otp_brand, to    *)
(* the first blank pair, or by the host tool, to a pair that its user      *)
(* names, with the device held in its reset by the debugger.               *)
(*                                                                         *)
(* Flash bits are only cleared: a cell that is programmed twice with       *)
(* different values, or cut off by a power loss, is Mixed.                 *)
(***************************************************************************)
EXTENDS Integers, Sequences, FiniteSets

CONSTANTS Pairs,      \* the number of pairs, XESC2_OTP_NUM_PAIRS
          Known,      \* identities xesc2_get_variant_config has a variant for
          Unknown,    \* identities it has none for
          Terminals,  \* threads that run terminal commands
          Chunks,     \* the number of parts of the image
          MaxLosses, MaxRot,   \* bounds of power losses and of flash damages
          Blank, Mixed, Magic, V1Std, Fallback, Unbranded

ASSUME PairsAssumption == Pairs \in Nat \ {0}
ASSUME ChunksAssumption == Chunks \in Nat \ {0} /\ MaxRot \in Nat
ASSUME VariantsAssumption == Fallback \notin Known /\ V1Std # Fallback
ASSUME CrcAssumption == \A v \in {Blank, Mixed} : v \notin [1..Chunks -> 0..MaxRot]

Ids == Known \cup Unknown

ASSUME CellsAssumption == /\ {Blank, Mixed, Magic, Unbranded} \cap Ids = {}
                          /\ Blank # Mixed /\ Blank # Magic /\ Mixed # Magic

VARIABLES
  isV2,     \* the board's strap (HW_V2_ID_PIN)
  otp,      \* per pair its cells in the order of their addresses
  image,    \* per part of the image how often it was damaged
  flag,     \* APP_CRC_WAS_CALCULATED_FLAG: "blank", "set" or "bad"
  crc,      \* the image whose CRC is stored, Blank or Mixed
  pc,       \* where main is
  variant,  \* g_xesc2_variant
  fatal,    \* g_xesc2_fatal_config_error
  latched,  \* a persistent fault is set
  pwm,      \* mc_interface_init has set up the PWM
  sum,      \* parts the integrity thread has summed up
  job,      \* per terminal: the pair and the identity otp_brand writes
  latest,   \* history: the identity of the last brand that succeeded, and those tried
            \* since; brands below a valid pair do not count
  born,     \* the image when its CRC was stored
  losses, rot

boot == <<pc, variant, fatal, latched, pwm, sum>>
flash == <<image, flag, crc, born>>
brand == <<otp, job, latest>>
vars == <<isV2, boot, flash, brand, losses, rot>>

NoJob == [pair |-> -1, id |-> Unbranded]

\* The bits of a cell after val was programmed over it.
And(cell, val) == CASE cell = Blank -> val [] cell = val -> val [] OTHER -> Mixed

Init ==
  /\ isV2 \in BOOLEAN
  /\ otp = [p \in 0..Pairs - 1 |-> [i \in 1..3 |-> Blank]]
  /\ image = [c \in 1..Chunks |-> 0] /\ flag = "blank" /\ crc = Blank /\ born = Blank
  /\ pc = "off" /\ variant = Fallback /\ fatal = FALSE /\ latched = FALSE /\ pwm = FALSE
  /\ sum = <<>>
  /\ job = [t \in Terminals |-> NoJob]
  /\ latest = {Unbranded}
  /\ losses = 0 /\ rot = 0

-----------------------------------------------------------------------------
(* The identity. The cells of a pair are magic and version, the data, and their  *)
(* CRC. The signature after them is no cell, as the firmware does not look at    *)
(* it: a block that is cut off in its signature has all cells.                   *)

Block(id) == <<Magic, id, id>>

Valid(p) == otp[p][1] = Magic /\ otp[p][2] \in Ids /\ otp[p][3] = otp[p][2]
ValidPairs == {p \in 0..Pairs - 1 : Valid(p)}

\* Mutant: the lowest pair wins.
LowestPair == CHOOSE p \in ValidPairs : \A q \in ValidPairs : q >= p
ActivePair == CHOOSE p \in ValidPairs : \A q \in ValidPairs : q <= p

HasOtpData == \E p \in 0..Pairs - 1 : otp[p][1] = Magic

\* xesc2_detect_and_apply_variant. Mutant: an identity needs no variant of its own.
DetectedRaw ==
  CASE ValidPairs # {} -> otp[ActivePair][2]
    [] ValidPairs = {} /\ ~HasOtpData /\ ~isV2 -> V1Std
    [] OTHER -> Fallback
DetectedVariant ==
  CASE ValidPairs # {} -> IF otp[ActivePair][2] \in Known THEN otp[ActivePair][2] ELSE Fallback
    [] ValidPairs = {} /\ ~HasOtpData /\ ~isV2 -> V1Std
    [] OTHER -> Fallback

\* Mutant: an unknown identity is not taken for an error.
FatalIfInvalid == ValidPairs = {} /\ (HasOtpData \/ isV2)
FatalConfigError ==
  IF ValidPairs # {} THEN otp[ActivePair][2] \notin Known ELSE HasOtpData \/ isV2

-----------------------------------------------------------------------------
(* main *)

\* A reset, or a power loss: what is in RAM is gone.
Reset ==
  /\ pc' = "off"
  /\ variant' = Fallback /\ fatal' = FALSE /\ latched' = FALSE /\ pwm' = FALSE
  /\ sum' = <<>>
  /\ job' = [t \in Terminals |-> NoJob]
  /\ UNCHANGED isV2

PowerOn ==
  /\ pc = "off"
  /\ pc' = "image"
  /\ variant' = DetectedVariant
  /\ fatal' = FatalConfigError
  /\ UNCHANGED <<isV2, latched, pwm, sum, flash, brand, losses, rot>>

At(from, to) == pc = from /\ pc' = to /\ UNCHANGED <<isV2, variant, fatal, sum, losses, rot>>

\* The image the CRC is computed over. Mutant: the first part is left out.
CrcOfRest(img) == [img EXCEPT ![1] = 0]
CrcOf(img) == img

\* flash_helper_verify_flash_memory. "Loop here, it is not safe to run any code."
VerifyImage ==
  /\ flag = "set"
  /\ At("image", IF crc = CrcOf(image) THEN "latch" ELSE "halt")
  /\ UNCHANGED <<latched, pwm, flash, brand>>

\* The flag is not there: it is written, then the CRC, then the device is reset.
WriteFlag ==
  /\ flag # "set"
  /\ At("image", "crc")
  /\ flag' = "set"
  /\ UNCHANGED <<latched, pwm, image, crc, born, brand>>

WriteCrc ==
  /\ pc = "crc"
  /\ crc' = And(crc, CrcOf(image))
  /\ born' = IF crc = Blank THEN image ELSE born
  /\ Reset
  /\ UNCHANGED <<image, flag, otp, latest, losses, rot>>

ProgramFails ==
  /\ (flag # "set" /\ At("image", "halt")) \/ At("crc", "halt")
  /\ UNCHANGED <<latched, pwm, flash, brand>>

LatchFault ==
  /\ At("latch", "init")
  /\ latched' = fatal
  /\ UNCHANGED <<pwm, flash, brand>>

McInterfaceInit ==
  /\ At("init", "run")
  /\ pwm' = ~latched
  /\ UNCHANGED <<latched, flash, brand>>

Main == PowerOn \/ VerifyImage \/ WriteFlag \/ WriteCrc \/ LatchFault \/ McInterfaceInit

-----------------------------------------------------------------------------
(* flash_integrity_check_thread *)

\* Mutant: a difference at the end of the image is not acted on.
NeverCorrupt(s) == FALSE
Corrupt(s) == Len(s) = Chunks /\ ~(flag = "set" /\ crc = CrcOf(s))

CheckChunk ==
  LET s == Append(sum, image[Len(sum) + 1])
  IN  /\ pc = "run"
      /\ IF Corrupt(s) THEN Reset
         ELSE /\ sum' = IF Len(s) = Chunks THEN <<>> ELSE s
              /\ UNCHANGED <<isV2, pc, variant, fatal, latched, pwm, job>>
      /\ UNCHANGED <<flash, otp, latest, losses, rot>>

-----------------------------------------------------------------------------
(* otp_brand, write_data *)

BlankPair(p) == \A i \in 1..3 : otp[p][i] = Blank
FreePairs == {p \in 0..Pairs - 1 : BlankPair(p)}
FirstFree == CHOOSE p \in FreePairs : \A q \in FreePairs : p <= q

\* terminal_mutex: one terminal command at a time, whichever thread runs it. Mutant:
\* each thread has its own.
OwnTerminalFree(t) == job[t] = NoJob
TerminalFree(t) == \A s \in Terminals : job[s] = NoJob

\* The block is checked and a pair chosen; then the motor is released.
BrandBegin(t, id) ==
  /\ pc = "run"
  /\ TerminalFree(t)
  /\ FreePairs # {}
  /\ job' = [job EXCEPT ![t] = [pair |-> FirstFree, id |-> id]]
  /\ UNCHANGED <<isV2, boot, flash, otp, latest, losses, rot>>

\* The motor was not released within 3 s, or another writer of the flash locked it
\* meanwhile: nothing is written.
BrandGivesUp(t) ==
  /\ job[t] # NoJob
  /\ job' = [job EXCEPT ![t] = NoJob]
  /\ UNCHANGED <<isV2, boot, flash, otp, latest, losses, rot>>

\* The highest valid pair wins: a brand below it changes nothing.
Below(p) == \E q \in ValidPairs : q > p
Tried(p, id) == IF Below(p) THEN latest ELSE latest \cup {id}
Branded(p, id) == IF Below(p) THEN latest
                  ELSE IF otp'[p] = Block(id) THEN {id} ELSE latest \cup {id}

\* The pair with the first n cells programmed, and perhaps part of the next.
Programmed(pair, id, n, torn) ==
  [i \in 1..3 |-> CASE i <= n -> And(pair[i], Block(id)[i])
                    [] i = n + 1 /\ torn -> Mixed
                    [] OTHER -> pair[i]]

Program(t, n, torn) ==
  LET j == job[t]
  IN  /\ j # NoJob
      /\ otp' = [otp EXCEPT ![j.pair] = Programmed(@, j.id, n, torn)]

\* What is read back is what was to be written: "programmed OK [...] Power-cycle to
\* apply."
BrandWrites(t) ==
  LET j == job[t]
  IN  /\ Program(t, 3, FALSE)
      /\ latest' = Branded(j.pair, j.id)
      /\ job' = [job EXCEPT ![t] = NoJob]
      /\ UNCHANGED <<isV2, boot, flash, losses, rot>>

BrandFails(t) ==
  /\ \E n \in 0..3, torn \in BOOLEAN : Program(t, n, torn)
  /\ latest' = Tried(job[t].pair, job[t].id)
  /\ job' = [job EXCEPT ![t] = NoJob]
  /\ UNCHANGED <<isV2, boot, flash, losses, rot>>

\* The host tool writes any pair that has no magic yet, without --force, and does not
\* read it back.
HostWrites(p, id, n, torn) ==
  /\ pc = "off"
  /\ otp[p][1] # Magic
  /\ otp' = [otp EXCEPT ![p] = Programmed(@, id, n, torn)]
  /\ UNCHANGED <<isV2, boot, flash, job, losses, rot>>

HostBrands(p, id) == HostWrites(p, id, 3, FALSE) /\ latest' = Branded(p, id)

\* The power or the debugger is gone before the end.
HostCutOff(p, id) ==
  \E n \in 0..3, torn \in BOOLEAN : HostWrites(p, id, n, torn) /\ latest' = Tried(p, id)

-----------------------------------------------------------------------------
(* Power losses and flash damage *)

Off ==
  /\ losses < MaxLosses
  /\ losses' = losses + 1
  /\ pc # "off"
  /\ Reset
  /\ UNCHANGED rot

PowerLoss == Off /\ UNCHANGED <<flash, otp, latest>>

LossInBrand(t) ==
  /\ Off
  /\ \E n \in 0..3, torn \in BOOLEAN : Program(t, n, torn)
  /\ latest' = Tried(job[t].pair, job[t].id)
  /\ UNCHANGED flash

LossInFlag ==
  /\ pc = "image" /\ flag # "set"
  /\ Off
  /\ flag' = "bad"
  /\ UNCHANGED <<image, crc, born, otp, latest>>

LossInCrc ==
  /\ pc = "crc"
  /\ Off
  /\ crc' = Mixed
  /\ UNCHANGED <<image, flag, born, otp, latest>>

\* While main runs up to here, or the device is off, a damage has the same effect.
Damage ==
  /\ pc \in {"crc", "run"}
  /\ rot < MaxRot
  /\ rot' = rot + 1
  /\ UNCHANGED <<isV2, boot, brand, losses, born>>

Rot(c) == Damage /\ image' = [image EXCEPT ![c] = @ + 1] /\ UNCHANGED <<flag, crc>>
FlagRot == Damage /\ flag = "set" /\ flag' = "bad" /\ UNCHANGED <<image, crc>>
CrcRot == Damage /\ crc # Blank /\ crc' = Mixed /\ UNCHANGED <<image, flag>>

-----------------------------------------------------------------------------
Next ==
  \/ Main
  \/ ProgramFails
  \/ CheckChunk
  \/ \E t \in Terminals :
       \/ \E id \in Ids : BrandBegin(t, id)
       \/ BrandGivesUp(t) \/ BrandWrites(t) \/ BrandFails(t) \/ LossInBrand(t)
  \/ \E p \in 0..Pairs - 1, id \in Ids : HostBrands(p, id) \/ HostCutOff(p, id)
  \/ PowerLoss \/ LossInFlag \/ LossInCrc
  \/ \E c \in 1..Chunks : Rot(c)
  \/ FlagRot \/ CrcRot

Spec == Init /\ [][Next]_vars

\* main runs on, and the integrity thread, of the lowest priority, gets to run.
FairSpec == Spec /\ WF_vars(Main) /\ WF_vars(CheckChunk)

-----------------------------------------------------------------------------
TypeOK ==
  /\ otp \in [0..Pairs - 1 -> [1..3 -> Ids \cup {Blank, Mixed, Magic}]]
  /\ image \in [1..Chunks -> 0..MaxRot]
  /\ flag \in {"blank", "set", "bad"}
  /\ pc \in {"off", "image", "crc", "latch", "init", "run", "halt"}
  /\ variant \in Known \cup {V1Std, Fallback}
  /\ job \in [Terminals -> [pair : -1..Pairs - 1, id : Ids \cup {Unbranded}]]
  /\ Len(sum) < Chunks
  /\ latest \subseteq Ids \cup {Unbranded}

\* After a reset the board is what it was last branded, or was being branded when
\* that was cut off. A board that was never branded is what its strap says, and the
\* fallback once a first brand was cut off. A brand below a valid pair is not one that
\* applies, whatever otp_brand prints: the board stays what it is.
Default == IF isV2 THEN Fallback ELSE V1Std
Config(id) == IF id \in Known THEN id ELSE Fallback
NeverBranded == IF latest = {Unbranded} THEN {Default} ELSE {Default, Fallback}
Expected == {Config(id) : id \in latest \ {Unbranded}}
              \cup (IF Unbranded \in latest THEN NeverBranded ELSE {})
BrandApplies == [][pc = "off" /\ pc' = "image" => variant' \in Expected]_vars

\* "No valid hardware variant could be detected": then the PWM is never set up.
FallbackNeverArmed == pwm => variant # Fallback

\* An image that has changed since its CRC was stored is never taken for intact,
\* not even when the flag that says that the CRC was computed is damaged as well.
ChangedIsNotIntact == flag = "set" /\ crc = CrcOf(image) => image = born

\* Once damaged while running, the device resets and halts at the next boot, or
\* repairs a damaged flag.
IsIntact == flag = "set" /\ image = born
RotIsFound == pc = "run" /\ ~IsIntact ~> pc = "halt" \/ IsIntact
=============================================================================
