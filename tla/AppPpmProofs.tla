---------------------------- MODULE AppPpmProofs ----------------------------
(***************************************************************************)
(* Proofs about the thread of app_ppm.c and the threads that configure it, *)
(* for every number of idle evaluations that safe start asks for and every *)
(* set of control types.                                                   *)
(***************************************************************************)
EXTENDS AppPpm, TLAPS

\* Between two evaluations the counter is not ahead of the idle evaluations in a
\* row, and is 0 or what it was at the end of the last one: an evaluation that is
\* not idle leaves it unchanged, and so resets it.
Settled == pulses <= idles /\ (pulses < MinPulses => pulses = 0 \/ pulses = before)

\* Within an evaluation it may be ahead of them only if the comparison will start it
\* anew. The value between the load and the store does not see a reset, which then
\* is none.
Counted ==
  inRow => /\ pc \in {"wait", "switch", "drive"} => Settled
           /\ pc = "store" => Capped(loaded + 1) <= idles
           /\ pc \in {"test", "set", "check"} =>
                pulses <= idles \/ (pulses < MinPulses /\ pulses = before)

\* What the thread remembers of a lost signal.
LossKept ==
  afterLoss => /\ inRow /\ servoError /\ pc \notin {"set", "drive"}
               /\ local \in {"none", "brake"} /\ slaves \in {"none", "brake"}

\* What it remembers of braking and idling.
IdleKept == /\ didIdle = 2 => trail = "idled"
            /\ didIdle = 1 => trail \in {"braked", "idled"}
Earned == pc \in {"store", "check", "drive"} /\ type = "rev_hyst" /\ asked = "rev"
            => trail = "idled"

\* Which steps follow which case of the switch, and what they may have sent.
Kinds == /\ pc \in {"test", "set"} => type \notin CurrentTypes
         /\ pc \in {"switch", "store", "test"} => local = "none"
         /\ pc = "check" /\ type \in CurrentTypes => local = "none"
Cleared == /\ pc = "set" => checked
           /\ pc = "drive" /\ type \in CurrentTypes /\ ~held => checked

IInv == TypeOK /\ Counted /\ LossKept /\ IdleKept /\ Earned /\ Kinds /\ Cleared
        /\ VerifiedDriveButSmart /\ ReverseNeedsIdle

-----------------------------------------------------------------------------
(* What the operators of an evaluation compute *)

\* did_idle_once, and how far the input has got, in step with each other.
LEMMA IdledKept ==
  ASSUME TypeOK, IdleKept, NEW s \in Servo, NEW r \in Speeds
  PROVE  /\ Idled(s, r) \in 0..2 /\ TooFast(r) \in BOOLEAN
         /\ Trail(s, r) \in {"forward", "braked", "idled"}
         /\ Idled(s, r) = 2 => Trail(s, r) = "idled"
         /\ Idled(s, r) = 1 => Trail(s, r) \in {"braked", "idled"}
<1>1. TooFast(r) \in BOOLEAN /\ (TooFast(r) => r # "fast_rev")
  <2>1. CASE forceBrake
    BY <2>1 DEF TooFast
  <2>2. CASE ~forceBrake
    BY <2>2 DEF TooFast
  <2>3. QED  BY <2>1, <2>2
<1>2. CASE s = "idle"
  BY <1>1, <1>2 DEF Idled, AfterIdle, Trail, TypeOK, IdleKept, Reverse
<1>3. CASE s \in {"near", "fwd"}
  BY <1>1, <1>3 DEF Idled, Trail, TypeOK, IdleKept, Reverse
<1>4. CASE s \in Reverse /\ TooFast(r)
  <2>1. Idled(s, r) \in {0, didIdle}
    BY <1>4 DEF Idled, Reverse
  <2>2. Trail(s, r) = IF trail = "forward" THEN "braked" ELSE trail
    BY <1>1, <1>4 DEF Trail, TypeOK, Reverse
  <2>3. QED  BY <1>1, <2>1, <2>2 DEF TypeOK, IdleKept
<1>5. CASE s \in Reverse /\ ~TooFast(r) /\ r # "fast_rev"
  BY <1>1, <1>5 DEF Idled, AfterBraking, Trail, TypeOK, IdleKept, Reverse
<1>6. CASE s \in Reverse /\ ~TooFast(r) /\ r = "fast_rev"
  BY <1>1, <1>6 DEF Idled, Trail, TypeOK, IdleKept, Reverse
<1>7. QED  BY <1>2, <1>3, <1>4, <1>5, <1>6 DEF Servo, Reverse

\* What the current types ask for.
LEMMA AskedType ==
  ASSUME NEW s \in Servo, NEW r \in Speeds
  PROVE  Along(s) \in {"zero", "fwd", "rev"} /\ Asked(s, r) \in {"zero", "brake", "fwd", "rev"}
<1>1. Along(s) \in {"zero", "fwd", "rev"}
  BY DEF Along
<1>2. QED  BY <1>1 DEF Asked

\* Reverse is asked for only by an input that has been idle after braking.
LEMMA ReverseIsIdled ==
  ASSUME TypeOK, IdleKept, NEW r \in Speeds,
         config.type = "rev_hyst", Asked(servo, r) = "rev"
  PROVE  Trail(servo, r) = "idled"
<1>1. servo \in Reverse /\ ~TooFast(r) /\ Idled(servo, r) # 1
  BY DEF Asked, Along, Brakes
<1>2. Idled(servo, r) = 2
  BY <1>1 DEF Idled, AfterBraking, Reverse, TypeOK
<1>3. QED  BY <1>2, IdledKept DEF TypeOK

\* The row of idle evaluations.
LEMMA RowType ==
  ASSUME TypeOK
  PROVE  /\ Row(servo) \in 0..MinPulses
         /\ IsIdle(servo) /\ idles # MinPulses => Row(servo) = idles + 1
         /\ idles = MinPulses => Row(servo) = MinPulses
BY MinPulsesAssumption DEF TypeOK, Row

\* The end of an evaluation.
LEMMA EndsType ==
  ASSUME Ends
  PROVE  /\ pc' = "wait" /\ servo' \in Servo /\ loaded' \in 0..MinPulses
         /\ held' \in BOOLEAN /\ asked' \in {"zero", "brake", "fwd", "rev"}
<1>1. held' \in BOOLEAN
  BY Zenon DEF Ends
<1>2. servo' \in Servo /\ loaded' \in 0..MinPulses
  BY MinPulsesAssumption DEF Ends, Servo
<1>3. QED  BY <1>1, <1>2 DEF Ends

\* Where the counter does not hold the motor back, the input is verified.
LEMMA ReleasedIsVerified ==
  ASSUME TypeOK, Counted, pc \in {"test", "check"}, ~Holds
  PROVE  Verified
<1>1. CASE SafeStarts /\ inRow
  <2>1. pulses = MinPulses
    BY <1>1, MinPulsesAssumption DEF TypeOK, Holds
  <2>2. idles = MinPulses
    BY <1>1, <2>1, MinPulsesAssumption DEF TypeOK, Counted
  <2>3. QED  BY <2>2 DEF Verified
<1>2. QED  BY <1>1 DEF Verified

-----------------------------------------------------------------------------
(* The invariant *)

LEMMA InitInv == Init => IInv
<1> SUFFICES ASSUME Init PROVE IInv
  OBVIOUS
<1>1. TypeOK
  <2>1. config \in Configs /\ pulses \in 0..MinPulses /\ before \in 0..MinPulses
        /\ loaded \in 0..MinPulses /\ didIdle \in 0..2 /\ idles \in 0..MinPulses
    BY MinPulsesAssumption DEF Init
  <2>2. servoError \in BOOLEAN /\ forceBrake \in BOOLEAN /\ wasDuty \in BOOLEAN
        /\ held \in BOOLEAN /\ inRow \in BOOLEAN /\ checked \in BOOLEAN
        /\ afterLoss \in BOOLEAN
    BY Zenon DEF Init
  <2>3. servo \in Servo /\ type \in AllTypes
    BY DEF Init, Servo, AllTypes
  <2>4. QED  BY <2>1, <2>2, <2>3 DEF Init, TypeOK
<1>2. Counted /\ LossKept /\ IdleKept /\ Earned /\ Kinds /\ Cleared
  BY MinPulsesAssumption DEF Init, Counted, Settled, LossKept, IdleKept, Earned, Kinds, Cleared
<1>3. VerifiedDriveButSmart /\ ReverseNeedsIdle
  BY DEF Init, VerifiedDriveButSmart, VerifiedDrive, ReverseNeedsIdle
<1>4. QED  BY <1>1, <1>2, <1>3 DEF IInv

\* A configuration changes what safe start asks for, and nothing that was counted.
LEMMA CopyInv == IInv /\ Copy => IInv'
<1> SUFFICES ASSUME IInv, Copy PROVE IInv'
  OBVIOUS
<1>1. config' \in Configs
  BY DEF Copy, IInv, TypeOK, Configs
<1>2. UNCHANGED <<pulses, before, servoError, wasDuty, mode, pc, evaluation,
                  local, slaves, history>>
  BY DEF Copy
<1>3. QED
  BY <1>1, <1>2 DEF IInv, TypeOK, Counted, Settled, LossKept, IdleKept, Earned, Kinds,
     Cleared, VerifiedDriveButSmart, VerifiedDrive, ReverseNeedsIdle,
     mode, evaluation, history

\* The reset of a configuration resets the row with the counter, or is lost.
LEMMA ResetInv == IInv /\ ResetCount => IInv'
<1> SUFFICES ASSUME IInv, ResetCount PROVE IInv'
  OBVIOUS
<1>1. /\ pulses' = 0 /\ pc' = pc /\ config' = config /\ before' = before
      /\ UNCHANGED <<servoError, wasDuty, forceBrake, didIdle, trail, servo, type, loaded,
                     asked, held, local, slaves, checked, afterLoss>>
  BY DEF ResetCount, mode, evaluation
<1>2. /\ pc = "store" => idles' = idles /\ inRow' = inRow
      /\ pc # "store" => idles' = 0 /\ inRow' = TRUE
  BY DEF ResetCount
<1>3. idles' \in 0..MinPulses /\ inRow' \in BOOLEAN /\ pulses' \in 0..MinPulses
  <2>1. pulses' \in 0..MinPulses /\ 0 \in 0..MinPulses
    BY <1>1, MinPulsesAssumption
  <2>2. CASE pc = "store"
    BY <1>2, <2>1, <2>2 DEF IInv, TypeOK
  <2>3. CASE pc # "store"
    BY <1>2, <2>1, <2>3
  <2>4. QED  BY <2>2, <2>3
<1>4. TypeOK'
  BY <1>1, <1>3 DEF IInv, TypeOK
<1>5. Counted'
  <2>1. CASE pc = "store"
    BY <1>1, <1>2, <2>1 DEF IInv, Counted, Capped
  <2>2. CASE pc # "store"
    BY <1>1, <1>2, <2>2 DEF Counted, Settled
  <2>3. QED  BY <2>1, <2>2
<1>6. LossKept' /\ IdleKept' /\ Earned' /\ Kinds' /\ Cleared'
  BY <1>1, <1>2 DEF IInv, LossKept, IdleKept, Earned, Kinds, Cleared
<1>7. VerifiedDriveButSmart' /\ ReverseNeedsIdle'
  BY <1>1 DEF IInv, VerifiedDriveButSmart, VerifiedDrive, ReverseNeedsIdle
<1>8. QED  BY <1>4, <1>5, <1>6, <1>7 DEF IInv

\* Before an evaluation.
LEMMA WaitInv ==
  ASSUME IInv,
         Disabled \/ SignalLost \/ (\E s \in Servo, fault \in BOOLEAN : Look(s, fault))
  PROVE  IInv'
<1> USE MinPulsesAssumption
    DEF IInv, TypeOK, Counted, Settled, LossKept, IdleKept, Earned, Kinds, Cleared,
        VerifiedDriveButSmart, VerifiedDrive, ReverseNeedsIdle, mode, evaluation, history
<1>1. CASE Disabled
  BY <1>1 DEF Disabled
<1>2. CASE SignalLost
  BY <1>2 DEF SignalLost, ErrorAfterLoss
<1>3. CASE \E s \in Servo, fault \in BOOLEAN : Look(s, fault)
  <2>1. PICK s \in Servo, fault \in BOOLEAN : Look(s, fault)
    BY <1>3
  <2>2. /\ pc = "wait" /\ pc' = "switch" /\ servo' = s /\ checked' = FALSE
        /\ local' = "none" /\ slaves' = "none"
        /\ UNCHANGED <<config, before, servoError, wasDuty, forceBrake, didIdle, trail,
                       type, loaded, asked, held, afterLoss>>
    BY <2>1 DEF Look
  <2>3. \/ pulses' = 0 /\ idles' = 0 /\ inRow' = TRUE
        \/ pulses' = pulses /\ idles' = idles /\ inRow' = inRow
    BY <2>1 DEF Look, AfterFault
  <2>4. pulses' \in 0..MinPulses /\ idles' \in 0..MinPulses
    BY <2>3
  <2>5. inRow' \in BOOLEAN /\ checked' \in BOOLEAN
    BY <2>2, <2>3
  <2>6. TypeOK'
    BY <2>2, <2>4, <2>5
  <2>7. Counted'
    <3>1. Settled \/ ~inRow
      BY <2>2
    <3>2. Settled' \/ ~inRow'
      BY ONLY <2>2, <2>3, <3>1, MinPulsesAssumption DEF Settled
    <3>3. QED  BY ONLY <2>2, <3>2 DEF Counted
  <2>8. LossKept' /\ IdleKept' /\ Earned' /\ Kinds' /\ Cleared'
        /\ VerifiedDriveButSmart' /\ ReverseNeedsIdle'
    BY <2>2, <2>3
  <2>9. QED  BY <2>6, <2>7, <2>8
<1>4. QED  BY <1>1, <1>2, <1>3

\* The switch, and what it counts.
LEMMA SwitchInv ==
  ASSUME IInv, NEW r \in Speeds, Switch(r)
  PROVE  IInv'
<1>1. TypeOK /\ Counted /\ LossKept /\ IdleKept /\ Kinds
  BY DEF IInv
<1>2. /\ pc = "switch" /\ type' = config.type /\ idles' = Row(servo)
      /\ UNCHANGED <<config, pulses, before, servoError, wasDuty, servo, held, local,
                     slaves, inRow, checked, afterLoss>>
      /\ loaded' = IF IsIdle(servo) THEN pulses ELSE 0
      /\ pc' = IF IsIdle(servo) THEN "store" ELSE AfterSwitch(config.type)
      /\ config.type # "none"
  BY DEF Switch
<1>3. config.type \in AllTypes
  BY <1>1, TypesAssumption DEF TypeOK, Configs
<1>4. AfterSwitch(config.type) \in {"check", "test"}
  BY DEF AfterSwitch
<1>5. /\ forceBrake' \in BOOLEAN /\ didIdle' \in 0..2
      /\ trail' \in {"forward", "braked", "idled"} /\ IdleKept'
  <2>1. CASE config.type = "rev_hyst"
    BY <2>1, <1>1, IdledKept DEF Switch, IdleKept, TypeOK
  <2>2. CASE config.type # "rev_hyst"
    BY <2>2, <1>1 DEF Switch, mode, TypeOK, IdleKept
  <2>3. QED  BY <2>1, <2>2
<1>6. asked' \in {"zero", "brake", "fwd", "rev"}
  BY <1>1, AskedType DEF Switch, TypeOK
<1>7. Row(servo) \in 0..MinPulses
  BY <1>1, RowType
<1>8. TypeOK'
  BY <1>1, <1>2, <1>3, <1>4, <1>5, <1>6, <1>7, MinPulsesAssumption DEF TypeOK
<1>9. Counted'
  <2>1. SUFFICES ASSUME inRow PROVE Counted'
    BY <1>2 DEF Counted
  <2>2. pulses <= idles /\ (pulses < MinPulses => pulses = 0 \/ pulses = before)
    BY <1>1, <1>2, <2>1 DEF Counted, Settled
  <2>3. CASE IsIdle(servo)
    <3>1. Capped(pulses + 1) <= Row(servo)
      BY <1>1, <2>2, <2>3, RowType, MinPulsesAssumption DEF TypeOK, Capped
    <3>2. pc' = "store" /\ Capped(loaded' + 1) <= idles'
      BY <3>1, <2>3, <1>2
    <3>3. QED  BY <3>2 DEF Counted, Capped
  <2>4. CASE ~IsIdle(servo)
    <3>1. pulses <= Row(servo) \/ (pulses < MinPulses /\ pulses = before)
      BY <1>1, <2>2, <2>4, RowType, MinPulsesAssumption DEF TypeOK
    <3>2. pc' \in {"test", "check"} /\ pulses' = pulses /\ before' = before
          /\ idles' = Row(servo)
      BY <2>4, <1>2, <1>4
    <3>3. QED  BY <3>1, <3>2 DEF Counted
  <2>5. QED  BY <2>3, <2>4
<1>10. LossKept' /\ Kinds' /\ Cleared'
  BY <1>1, <1>2 DEF LossKept, Kinds, Cleared, AfterSwitch
<1>11. Earned'
  <2>1. SUFFICES ASSUME config.type = "rev_hyst", asked' = "rev" PROVE trail' = "idled"
    BY <1>2 DEF Earned
  <2>2. asked' = Asked(servo, r) /\ trail' = Trail(servo, r)
    BY <2>1 DEF Switch, CurrentTypes
  <2>3. QED  BY <2>1, <2>2, <1>1, ReverseIsIdled
<1>12. VerifiedDriveButSmart' /\ ReverseNeedsIdle'
  BY <1>1, <1>2 DEF Kinds, VerifiedDriveButSmart, VerifiedDrive, ReverseNeedsIdle
<1>13. QED  BY <1>5, <1>8, <1>9, <1>10, <1>11, <1>12 DEF IInv

LEMMA StoreInv == IInv /\ StoreCount => IInv'
<1> SUFFICES ASSUME IInv, StoreCount PROVE IInv'
  OBVIOUS
<1>1. /\ pc = "store" /\ pc' = AfterSwitch(type) /\ pulses' = Capped(loaded + 1)
      /\ loaded' = 0
      /\ UNCHANGED <<config, before, servoError, wasDuty, forceBrake, didIdle, trail,
                     servo, type, asked, held, local, slaves, idles, inRow, checked,
                     afterLoss>>
  BY DEF StoreCount, mode, history
<1>2. AfterSwitch(type) \in {"check", "test"}
      /\ (AfterSwitch(type) = "check" <=> type \in CurrentTypes)
  BY DEF AfterSwitch
<1>3. TypeOK'
  BY <1>1, <1>2, MinPulsesAssumption DEF IInv, TypeOK, Capped
<1>4. Counted'
  BY <1>1, <1>2 DEF IInv, Counted
<1>5. LossKept' /\ IdleKept' /\ Earned' /\ Kinds' /\ Cleared'
  BY <1>1, <1>2 DEF IInv, LossKept, IdleKept, Earned, Kinds, Cleared
<1>6. VerifiedDriveButSmart' /\ ReverseNeedsIdle'
  BY <1>1 DEF IInv, VerifiedDriveButSmart, VerifiedDrive, ReverseNeedsIdle
<1>7. QED  BY <1>3, <1>4, <1>5, <1>6 DEF IInv

\* The duty cycle, speed or position.
LEMMA TestInv ==
  ASSUME IInv, NEW ready \in BOOLEAN, Test(ready)
  PROVE  IInv'
<1>1. /\ pc = "test" /\ pc' \in {"check", "set"} /\ (pc' = "set" => ~Holds)
      /\ checked' = Verified /\ afterLoss' = (afterLoss /\ ~Forgives)
      /\ UNCHANGED <<config, pulses, before, servoError, wasDuty, forceBrake, didIdle,
                     trail, servo, type, loaded, asked, held, local, slaves, idles, inRow>>
  BY DEF Test, mode, evaluation
<1>2. ~Holds => Verified
  BY <1>1, ReleasedIsVerified DEF IInv
<1>3. checked' \in BOOLEAN /\ afterLoss' \in BOOLEAN
  BY <1>1, Zenon DEF Verified
<1>4. TypeOK'
  BY <1>1, <1>3 DEF IInv, TypeOK
<1>5. Counted' /\ IdleKept' /\ Earned' /\ Kinds' /\ Cleared'
  <2>1. Counted'
    BY <1>1 DEF IInv, Counted
  <2>2. IdleKept' /\ Earned'
    BY <1>1 DEF IInv, IdleKept, Earned, Kinds, CurrentTypes
  <2>3. Kinds' /\ Cleared'
    BY <1>1, <1>2 DEF IInv, Kinds, Cleared
  <2>4. QED  BY <2>1, <2>2, <2>3
<1>6. LossKept'
  BY <1>1, <1>2 DEF IInv, LossKept, Forgives
<1>7. VerifiedDriveButSmart' /\ ReverseNeedsIdle'
  BY <1>1 DEF IInv, Kinds, VerifiedDriveButSmart, VerifiedDrive, ReverseNeedsIdle
<1>8. QED  BY <1>4, <1>5, <1>6, <1>7 DEF IInv

LEMMA SetInv == IInv /\ Set => IInv'
<1> SUFFICES ASSUME IInv, Set PROVE IInv'
  OBVIOUS
<1>1. /\ pc = "set" /\ pc' = "check" /\ local' = Along(servo)
      /\ UNCHANGED <<config, pulses, before, servoError, wasDuty, forceBrake, didIdle,
                     trail, servo, type, loaded, asked, held, slaves, idles, inRow,
                     checked, afterLoss>>
  BY DEF Set, mode, evaluation, history
<1>2. Along(servo) \in {"zero", "fwd", "rev"}
  BY DEF Along
<1>3. type \notin CurrentTypes /\ checked /\ ~afterLoss
  BY <1>1 DEF IInv, Kinds, Cleared, LossKept
<1>4. TypeOK'
  BY <1>1, <1>2 DEF IInv, TypeOK
<1>5. Counted' /\ LossKept' /\ IdleKept' /\ Kinds' /\ Cleared'
  BY <1>1, <1>3 DEF IInv, Counted, LossKept, IdleKept, Kinds, Cleared
<1>6. type # "rev_hyst"
  BY <1>3 DEF CurrentTypes
<1>7. Earned' /\ VerifiedDriveButSmart' /\ ReverseNeedsIdle'
  BY <1>1, <1>3, <1>6 DEF Earned, VerifiedDriveButSmart, VerifiedDrive, ReverseNeedsIdle
<1>8. QED  BY <1>4, <1>5, <1>7 DEF IInv

\* The comparison for safe start.
LEMMA CheckInv == IInv /\ Check => IInv'
<1> SUFFICES ASSUME IInv, Check PROVE IInv'
  OBVIOUS
<1>1. /\ pc = "check" /\ afterLoss' = (afterLoss /\ ~Forgives)
      /\ checked' = IF type \in CurrentTypes THEN Verified ELSE checked
      /\ UNCHANGED <<config, wasDuty, forceBrake, didIdle, trail, type, local, slaves,
                     idles>>
  BY DEF Check, mode
<1>2. Holds => /\ pulses' = Restarted(pulses) /\ before' = Restarted(pulses)
               /\ servoError' = servoError /\ inRow' = inRow
  BY DEF Check
<1>3. ~Holds => /\ servoError' = FALSE /\ inRow' = (inRow /\ SafeStarts)
                /\ pulses' = pulses /\ before' = before
  BY DEF Check
<1>4. \/ Holds /\ servoError /\ Ends
      \/ ~(Holds /\ servoError) /\ Goes
  BY DEF Check, IInv, TypeOK
<1>5. /\ pc' \in {"wait", "drive"} /\ (pc' = "drive" => held' = Holds /\ asked' = asked)
      /\ servo' \in Servo /\ loaded' \in 0..MinPulses /\ held' \in BOOLEAN
      /\ asked' \in {"zero", "brake", "fwd", "rev"}
  <2>1. CASE Ends
    BY <2>1, EndsType
  <2>2. CASE Goes
    <3>1. Holds \in BOOLEAN
      BY Zenon DEF Holds
    <3>2. QED  BY <2>2, <3>1 DEF Goes, IInv, TypeOK
  <2>3. QED  BY <1>4, <2>1, <2>2
<1>6. ~Holds => Verified
  BY <1>1, ReleasedIsVerified DEF IInv
<1>7. Restarted(pulses) \in 0..MinPulses
  BY MinPulsesAssumption DEF IInv, TypeOK, Restarted
<1>8. TypeOK'
  <2>1. pulses' \in 0..MinPulses /\ before' \in 0..MinPulses
    BY <1>2, <1>3, <1>7 DEF IInv, TypeOK
  <2>2. servoError' \in BOOLEAN /\ inRow' \in BOOLEAN
    BY <1>2, <1>3 DEF IInv, TypeOK
  <2>3. checked' \in BOOLEAN /\ afterLoss' \in BOOLEAN
    <3>1. Verified \in BOOLEAN /\ (afterLoss /\ ~Forgives) \in BOOLEAN
      BY Zenon DEF Verified
    <3>2. QED  BY <3>1, <1>1 DEF IInv, TypeOK
  <2>4. QED  BY <1>1, <1>5, <2>1, <2>2, <2>3 DEF IInv, TypeOK
<1>9. Counted'
  <2>1. SUFFICES ASSUME inRow' PROVE Settled'
    BY <1>5 DEF Counted
  <2>2. inRow /\ (~Holds => SafeStarts)
    BY <2>1, <1>2, <1>3
  <2>3. pulses <= idles \/ (pulses < MinPulses /\ pulses = before)
    BY <1>1, <2>2 DEF IInv, Counted
  <2>4. CASE Holds
    <3>1. Restarted(pulses) <= idles
      BY <2>3, MinPulsesAssumption DEF IInv, TypeOK, Restarted
    <3>2. QED  BY <2>4, <3>1, <1>1, <1>2 DEF Settled
  <2>5. CASE ~Holds
    <3>1. pulses = MinPulses
      BY <2>2, <2>5, MinPulsesAssumption DEF Holds, IInv, TypeOK
    <3>2. pulses <= idles
      BY <2>3, <3>1, MinPulsesAssumption DEF IInv, TypeOK
    <3>3. QED  BY <3>1, <3>2, <2>5, <1>1, <1>3, MinPulsesAssumption DEF Settled
  <2>6. QED  BY <2>4, <2>5
<1>10. LossKept'
  <2>1. SUFFICES ASSUME afterLoss' PROVE LossKept'
    BY DEF LossKept
  <2>2. afterLoss /\ Holds
    BY <2>1, <1>1, <1>6 DEF Forgives
  <2>3. servoError /\ inRow /\ local \in {"none", "brake"} /\ slaves \in {"none", "brake"}
    BY <2>2 DEF IInv, LossKept
  <2>4. pc' = "wait"
    BY <1>4, <2>2, <2>3 DEF Ends
  <2>5. QED  BY <2>2, <2>3, <2>4, <1>1, <1>2 DEF LossKept
<1>11. IdleKept' /\ Earned' /\ Kinds'
  BY <1>1, <1>5 DEF IInv, IdleKept, Earned, Kinds
<1>12. Cleared'
  BY <1>1, <1>5, <1>6 DEF Cleared
<1>13. VerifiedDriveButSmart' /\ ReverseNeedsIdle'
  BY <1>1 DEF IInv, Kinds, VerifiedDriveButSmart, VerifiedDrive, ReverseNeedsIdle
<1>14. QED  BY <1>8, <1>9, <1>10, <1>11, <1>12, <1>13 DEF IInv

\* What is sent at the end.
LEMMA DriveInv ==
  ASSUME IInv, NEW ready \in BOOLEAN, Drive(ready)
  PROVE  IInv'
<1>1. /\ pc = "drive" /\ Ends
      /\ UNCHANGED <<config, pulses, before, servoError, forceBrake, didIdle, trail, type,
                     idles, inRow, checked, afterLoss>>
  BY DEF Drive, mode, history
<1>2. /\ pc' = "wait" /\ servo' \in Servo /\ loaded' \in 0..MinPulses /\ held' \in BOOLEAN
      /\ asked' \in {"zero", "brake", "fwd", "rev"}
  BY <1>1, EndsType
<1>3. ~afterLoss
  BY <1>1 DEF IInv, LossKept
<1>4. Current \in {"zero", "brake_zero", "brake", "fwd", "rev"}
      /\ (Current \in {"fwd", "rev"} => ~held /\ Current = asked)
  BY DEF Current, IInv, TypeOK
<1>5. \/ local' = "duty"
      \/ type \in CurrentTypes /\ local' = Current
      \/ type \notin CurrentTypes /\ local' = local
  BY DEF Drive
<1>6. slaves' \in {"none", "zero", "brake", "fwd", "rev", "duty", "follow"}
  BY DEF Drive, IInv, TypeOK
<1>7. wasDuty' \in BOOLEAN
  <2>1. SmartDuty(ready) \in BOOLEAN
    BY DEF SmartDuty
  <2>2. QED  BY <2>1 DEF Drive, IInv, TypeOK
<1>8. TypeOK'
  BY <1>1, <1>2, <1>4, <1>5, <1>6, <1>7 DEF IInv, TypeOK
<1>9. Counted' /\ LossKept' /\ IdleKept' /\ Earned' /\ Kinds' /\ Cleared'
  BY <1>1, <1>2, <1>3 DEF IInv, Counted, Settled, LossKept, IdleKept, Earned, Kinds, Cleared
<1>10. VerifiedDriveButSmart'
  BY <1>1, <1>4, <1>5 DEF IInv, Cleared, VerifiedDriveButSmart, VerifiedDrive
<1>11. ReverseNeedsIdle'
  BY <1>1, <1>4, <1>5 DEF IInv, Earned, ReverseNeedsIdle
<1>12. QED  BY <1>8, <1>9, <1>10, <1>11 DEF IInv

\* An evaluation without a control type.
LEMMA SkipInv == IInv /\ Skip => IInv'
<1> SUFFICES ASSUME IInv, Skip PROVE IInv'
  OBVIOUS
<1>1. /\ pc = "switch" /\ Ends
      /\ UNCHANGED <<config, pulses, before, servoError, wasDuty, forceBrake, didIdle,
                     trail, type, local, slaves, idles, inRow, checked, afterLoss>>
  BY DEF Skip, mode, history
<1>2. /\ pc' = "wait" /\ servo' \in Servo /\ loaded' \in 0..MinPulses /\ held' \in BOOLEAN
      /\ asked' \in {"zero", "brake", "fwd", "rev"}
  BY <1>1, EndsType
<1>3. QED
  BY <1>1, <1>2 DEF IInv, TypeOK, Counted, Settled, LossKept, IdleKept, Earned, Kinds,
     Cleared, VerifiedDriveButSmart, VerifiedDrive, ReverseNeedsIdle

LEMMA NextInv == IInv /\ [Next]_vars => IInv'
<1> SUFFICES ASSUME IInv, [Next]_vars PROVE IInv'
  OBVIOUS
<1>1. CASE Copy
  BY <1>1, CopyInv
<1>2. CASE ResetCount
  BY <1>2, ResetInv
<1>3. CASE Disabled \/ SignalLost \/ (\E s \in Servo, fault \in BOOLEAN : Look(s, fault))
  BY <1>3, WaitInv
<1>4. CASE Continue
  <2>1. CASE Skip
    BY <2>1, SkipInv
  <2>2. CASE \E r \in Speeds : Switch(r)
    BY <2>2, SwitchInv
  <2>3. CASE StoreCount
    BY <2>3, StoreInv
  <2>4. CASE \E ready \in BOOLEAN : Test(ready) \/ Drive(ready)
    BY <2>4, TestInv, DriveInv
  <2>5. CASE Set
    BY <2>5, SetInv
  <2>6. CASE Check
    BY <2>6, CheckInv
  <2>7. QED  BY <1>4, <2>1, <2>2, <2>3, <2>4, <2>5, <2>6 DEF Continue
<1>5. CASE UNCHANGED vars
  BY <1>5 DEF vars, mode, evaluation, history, IInv, TypeOK, Counted, Settled, LossKept,
     IdleKept, Earned, Kinds, Cleared, VerifiedDriveButSmart, VerifiedDrive,
     ReverseNeedsIdle
<1>6. QED  BY <1>1, <1>2, <1>3, <1>4, <1>5 DEF Next, Evaluate

-----------------------------------------------------------------------------
\* Every variable keeps its type.
THEOREM PpmTypeCorrect == Spec => []TypeOK
<1>1. IInv => TypeOK  BY DEF IInv
<1>2. QED  BY <1>1, InitInv, NextInv, PTL DEF Spec

\* Safe start: whatever configurations come between the steps of an evaluation, the
\* motor is driven only by what passed a comparison after MinPulses idle evaluations
\* in a row, or with safe start off; but with the duty cycle of smart reverse, for
\* which it is false.
THEOREM DriveIsVerified == Spec => []VerifiedDriveButSmart
<1>1. IInv => VerifiedDriveButSmart  BY DEF IInv
<1>2. QED  BY <1>1, InitInv, NextInv, PTL DEF Spec

\* After a lost signal nothing is sent to any controller before that, in any mode.
THEOREM LossHolds == Spec => []LossHoldsAll
<1>1. IInv => LossHoldsAll  BY DEF IInv, LossKept, LossHoldsAll
<1>2. QED  BY <1>1, InitInv, NextInv, PTL DEF Spec

\* Reverse with hysteresis takes braking and an idle input after forward.
THEOREM ReverseIsEarned == Spec => []ReverseNeedsIdle
<1>1. IInv => ReverseNeedsIdle  BY DEF IInv
<1>2. QED  BY <1>1, InitInv, NextInv, PTL DEF Spec
=============================================================================
