------------------------------- MODULE AppPpm -------------------------------
(***************************************************************************)
(* The thread of applications/app_ppm.c: at least every 2 ms it turns the  *)
(* servo input into a command for the motor, and with multi_esc for the    *)
(* controllers on the CAN bus. Safe start holds the motor until the input  *)
(* was idle for MinPulses evaluations, after a start, a lost signal or a   *)
(* fault.                                                                  *)
(*                                                                         *)
(* An evaluation takes its inputs from classes of values: the servo value  *)
(* after deadband, curve and ramp, the speed against max_erpm_for_dir with *)
(* its hysteresis, and what else the branches of the code ask for. It is   *)
(* as many steps as it loads what other threads write: the receivers that  *)
(* configure the app come between any two of them, and so also between the *)
(* load and the store of the counter.                                      *)
(***************************************************************************)
EXTENDS Integers

CONSTANTS MinPulses,  \* MIN_PULSES_WITHOUT_POWER
          Types       \* the control types that are configured

\* "set" is a duty cycle or a speed, "pos" a position.
CurrentTypes == {"current", "brake", "smart_rev", "rev_hyst"}
AllTypes == CurrentTypes \cup {"none", "set", "pos"}
ASSUME MinPulsesAssumption == MinPulses \in Nat \ {0}
ASSUME TypesAssumption == Types \subseteq AllTypes

SafeModes == {"disabled", "regular", "no_fault"}
Configs == [type : Types, safe : SafeModes]

\* "idle" is 0 after the deadband, "near" a value below 0.02; full reverse is below
\* -0.92, weak reverse above -0.1.
Servo == {"full_rev", "rev", "weak_rev", "idle", "near", "fwd"}
Reverse == {"full_rev", "rev", "weak_rev"}
Speeds == {"fast_fwd", "band", "slow_fwd", "slow_rev", "fast_rev"}

VARIABLES
  config,
  pulses,      \* pulses_without_power, no larger than MinPulses
  before,      \* pulses_without_power_before
  servoError, forceBrake, didIdle, wasDuty,
  pc,          \* what the thread does next
  servo,       \* the servo value of the evaluation
  type,        \* the case of the switch that it took
  loaded,      \* the counter, between its load and its store
  asked,       \* what its servo value asks for, in the current types
  held,        \* the current is set to 0
  local, slaves,   \* the last command it has sent, here and to the others
  idles,       \* idle evaluations in a row since the counter was reset
  inRow,       \* safe start was in force in all of them
  checked,     \* what this evaluation sends was found to be verified
  afterLoss,   \* the signal was lost and the input has not been idle since
  trail        \* of the last forward command, braking and idling: how far it got

mode == <<forceBrake, didIdle, trail>>
evaluation == <<servo, type, loaded, asked, held>>
history == <<idles, inRow, checked, afterLoss>>
vars == <<config, pulses, before, servoError, wasDuty, mode, pc, evaluation,
          local, slaves, history>>

Init ==
  /\ config \in Configs
  /\ pulses = 0 /\ before = 0
  /\ servoError = FALSE /\ forceBrake = TRUE /\ didIdle = 0 /\ wasDuty = FALSE
  /\ pc = "wait"
  /\ servo = "idle" /\ type = "none" /\ loaded = 0 /\ asked = "zero" /\ held = FALSE
  /\ local = "none" /\ slaves = "none"
  /\ idles = 0 /\ inRow = TRUE /\ checked = FALSE /\ afterLoss = FALSE
  /\ trail = "forward"

Capped(n) == IF n > MinPulses THEN MinPulses ELSE n

-----------------------------------------------------------------------------
(* app_ppm_configure, in the threads that receive a configuration. The copy  *)
(* of the structure is not atomic, calls may overlap, and what is copied is  *)
(* in force before the counter is reset.                                     *)

Copy ==
  /\ \/ \E t \in Types : config' = [config EXCEPT !.type = t]
     \/ \E m \in SafeModes : config' = [config EXCEPT !.safe = m]
  /\ UNCHANGED <<pulses, before, servoError, wasDuty, mode, pc, evaluation,
                 local, slaves, history>>

\* Between the load and the store of the counter the reset is lost, and the row of
\* idle evaluations goes on.
ResetCount ==
  /\ pulses' = 0
  /\ IF pc = "store" THEN UNCHANGED <<idles, inRow>> ELSE idles' = 0 /\ inRow' = TRUE
  /\ UNCHANGED <<config, before, servoError, wasDuty, mode, pc, evaluation,
                 local, slaves, checked, afterLoss>>

-----------------------------------------------------------------------------
(* ppm_thread: before the evaluation *)

\* app_is_output_disabled: the input is decoded, and that is all.
Disabled ==
  /\ pc = "wait"
  /\ local' = "none" /\ slaves' = "none"
  /\ UNCHANGED <<config, pulses, before, servoError, wasDuty, mode, pc, evaluation,
                 history>>

\* No pulse for the timeout: all brake with the timeout's current. Mutant: it is
\* forgotten that there was no signal.
ForgetError == servoError
ErrorAfterLoss == TRUE
SignalLost ==
  /\ pc = "wait"
  /\ pulses' = 0
  /\ servoError' = ErrorAfterLoss
  /\ local' = "brake" /\ slaves' \in {"none", "brake"}
  /\ idles' = 0 /\ inRow' = TRUE
  /\ afterLoss' = TRUE
  /\ UNCHANGED <<config, before, wasDuty, mode, pc, evaluation, checked>>

Disturbs(fault) == fault /\ config.safe # "no_fault"

\* The counter after the look at the fault. Mutant: a fault does not reset it.
KeepsCount(fault) == pulses
AfterFault(fault) == IF Disturbs(fault) THEN 0 ELSE pulses

Look(s, fault) ==
  /\ pc = "wait" /\ pc' = "switch"
  /\ servo' = s
  /\ pulses' = AfterFault(fault)
  /\ IF Disturbs(fault) THEN idles' = 0 /\ inRow' = TRUE ELSE UNCHANGED <<idles, inRow>>
  /\ local' = "none" /\ slaves' = "none" /\ checked' = FALSE
  /\ UNCHANGED <<config, before, servoError, wasDuty, mode, type, loaded, asked, held,
                 afterLoss>>

\* Its local variables are not used any more.
Ends == pc' = "wait" /\ servo' = "idle" /\ loaded' = 0 /\ asked' = "zero" /\ held' = FALSE

-----------------------------------------------------------------------------
(* ppm_thread: the switch over the control type *)

\* PPM_CTRL_TYPE_CURRENT_BRAKE_REV_HYST
TooFast(r) == IF forceBrake THEN r \in {"fast_fwd", "band"} ELSE r = "fast_fwd"

\* did_idle_once when the input is idle, and when it brakes a motor that does not
\* turn fast backwards. Mutants: every idle counts; braking again is enough.
IdleCounts(d) == IF d > 0 THEN d + 1 ELSE d
AfterIdle(d) == IF d = 1 THEN 2 ELSE d
BrakingCounts(d) == IF d = 0 THEN 1 ELSE 2
AfterBraking(d) == IF d = 2 THEN 2 ELSE 1

Idled(s, r) ==
  LET d == IF TooFast(r) # forceBrake THEN 0 ELSE didIdle
  IN  CASE s = "idle" -> IF TooFast(r) THEN d ELSE AfterIdle(d)
        [] s \in {"near", "fwd"} -> IF r = "fast_rev" THEN d ELSE 0
        [] s \in Reverse /\ TooFast(r) -> d
        [] s \in Reverse /\ ~TooFast(r) /\ r # "fast_rev" -> AfterBraking(d)
        [] OTHER -> IF d = 1 THEN 1 ELSE 2

\* current_mode_brake
Brakes(s, r) ==
  CASE config.type = "rev_hyst" -> s \in Reverse /\ (TooFast(r) \/ Idled(s, r) = 1)
    [] config.type \in {"brake", "smart_rev"} -> s \in Reverse
    [] OTHER -> FALSE

Along(s) == CASE s \in Reverse -> "rev" [] s = "idle" -> "zero" [] OTHER -> "fwd"

\* What the servo value alone asks for in the current types; the other controllers
\* are sent it relative to their own limits.
Asked(s, r) == IF Brakes(s, r) THEN "brake" ELSE Along(s)

\* How far the trail from a forward command over braking to idling has got.
\* Fast backwards the motor may go on backwards.
Trail(s, r) ==
  CASE s \in {"near", "fwd"} /\ r # "fast_rev" -> "forward"
    [] s \in Reverse /\ r = "fast_rev" -> "idled"
    [] s \in Reverse /\ r # "fast_rev" /\ trail = "forward" -> "braked"
    [] s = "idle" /\ trail = "braked" -> "idled"
    [] OTHER -> trail

IsIdle(s) == s = "idle" \/ (config.type = "pos" /\ s = "near")

\* The idle evaluations in a row; enough of them stay enough.
Row(s) == CASE idles = MinPulses -> MinPulses
            [] idles # MinPulses /\ IsIdle(s) -> idles + 1
            [] OTHER -> 0

\* Without a control type the evaluation ends here.
Skip ==
  /\ pc = "switch" /\ config.type = "none"
  /\ Ends
  /\ UNCHANGED <<config, pulses, before, servoError, wasDuty, mode, type, local, slaves,
                 history>>

AfterSwitch(t) == IF t \in CurrentTypes THEN "check" ELSE "test"

Switch(r) ==
  /\ pc = "switch" /\ config.type # "none"
  /\ type' = config.type
  /\ asked' = IF config.type \in CurrentTypes THEN Asked(servo, r) ELSE "zero"
  /\ IF config.type = "rev_hyst"
     THEN forceBrake' = TooFast(r) /\ didIdle' = Idled(servo, r) /\ trail' = Trail(servo, r)
     ELSE UNCHANGED mode
  /\ loaded' = IF IsIdle(servo) THEN pulses ELSE 0
  /\ pc' = IF IsIdle(servo) THEN "store" ELSE AfterSwitch(config.type)
  /\ idles' = Row(servo)
  /\ UNCHANGED <<config, pulses, before, servoError, wasDuty, servo, held, local, slaves,
                 inRow, checked, afterLoss>>

\* pulses_without_power++
StoreCount ==
  /\ pc = "store" /\ pc' = AfterSwitch(type)
  /\ pulses' = Capped(loaded + 1)
  /\ loaded' = 0
  /\ UNCHANGED <<config, before, servoError, wasDuty, mode, servo, type, asked, held,
                 local, slaves, history>>

SafeStarts == config.safe # "disabled"
Holds == pulses < MinPulses /\ SafeStarts

\* Where the counter is compared the input was idle long enough, safe start is off,
\* or it was off when the counter was not started anew.
Verified == ~SafeStarts \/ ~inRow \/ idles = MinPulses
Forgives == Verified /\ ~Holds

\* The duty cycle, speed or position; ready is a motor near the position, or in
\* position control already.
Test(ready) ==
  /\ pc = "test"
  /\ pc' = IF Holds \/ (type = "pos" /\ ~ready) THEN "check" ELSE "set"
  /\ checked' = Verified
  /\ afterLoss' = (afterLoss /\ ~Forgives)
  /\ UNCHANGED <<config, pulses, before, servoError, wasDuty, mode, evaluation, local,
                 slaves, idles, inRow>>

Set ==
  /\ pc = "set" /\ pc' = "check"
  /\ local' = Along(servo)
  /\ UNCHANGED <<config, pulses, before, servoError, wasDuty, mode, evaluation, slaves,
                 history>>

-----------------------------------------------------------------------------
(* ppm_thread: safe start *)

\* Not idle: it did not count. Mutant: counted, it starts anew.
RestartCounted(n) == IF n # before THEN 0 ELSE n
Restarted(n) == IF n = before THEN 0 ELSE n

Goes == pc' = "drive" /\ held' = Holds /\ UNCHANGED <<servo, loaded, asked>>

Check ==
  /\ pc = "check"
  /\ IF Holds
     THEN /\ pulses' = Restarted(pulses) /\ before' = Restarted(pulses)
          /\ IF servoError THEN Ends ELSE Goes
          /\ UNCHANGED <<servoError, inRow>>
     ELSE /\ servoError' = FALSE
          /\ Goes
          /\ inRow' = (inRow /\ SafeStarts)
          /\ UNCHANGED <<pulses, before>>
  /\ checked' = IF type \in CurrentTypes THEN Verified ELSE checked
  /\ afterLoss' = (afterLoss /\ ~Forgives)
  /\ UNCHANGED <<config, wasDuty, mode, type, local, slaves, idles>>

\* PPM_CTRL_TYPE_CURRENT_SMART_REV: ready is a small duty cycle and current.
SmartDuty(ready) ==
  config.type = "smart_rev"
    /\ ((servo = "full_rev" /\ ready) \/ (wasDuty /\ servo \in {"full_rev", "rev"}))

\* The current that is set: 0 while held.
Current == CASE ~held -> asked
             [] held /\ asked = "brake" -> "brake_zero"
             [] OTHER -> "zero"

\* In the duty cycle and speed types the others follow this controller.
Forwards == type = "set" /\ local # "none"

\* multi_esc may change between the sends: each is made or not.
Drive(ready) ==
  /\ pc = "drive" /\ Ends
  /\ wasDuty' = IF config.type = "smart_rev" THEN SmartDuty(ready) ELSE wasDuty
  /\ local' = CASE SmartDuty(ready) -> "duty"
                [] ~SmartDuty(ready) /\ type \in CurrentTypes -> Current
                [] OTHER -> local
  /\ slaves' \in {"none"}
       \cup (IF SmartDuty(ready) THEN {"duty"} ELSE {})
       \cup (IF Forwards THEN {"follow"} ELSE {})
       \cup (IF type \in CurrentTypes /\ ~SmartDuty(ready) THEN {asked} ELSE {})
  /\ UNCHANGED <<config, pulses, before, servoError, mode, type, history>>

\* What the thread does with an input; it goes on with it whatever comes between.
Continue ==
  \/ Skip
  \/ \E r \in Speeds : Switch(r)
  \/ StoreCount
  \/ \E ready \in BOOLEAN : Test(ready) \/ Drive(ready)
  \/ Set
  \/ Check

Evaluate == (\E s \in Servo, fault \in BOOLEAN : Look(s, fault)) \/ Continue

-----------------------------------------------------------------------------
Next ==
  \/ Copy
  \/ ResetCount
  \/ Disabled
  \/ SignalLost
  \/ Evaluate

Spec == Init /\ [][Next]_vars

\* The thread wakes up at least every 2 ms.
FairSpec == Spec /\ WF_vars(Evaluate)

-----------------------------------------------------------------------------
TypeOK ==
  /\ config \in Configs
  /\ pulses \in 0..MinPulses /\ before \in 0..MinPulses /\ loaded \in 0..MinPulses
  /\ servoError \in BOOLEAN /\ forceBrake \in BOOLEAN /\ wasDuty \in BOOLEAN
  /\ didIdle \in 0..2
  /\ pc \in {"wait", "switch", "store", "test", "set", "check", "drive"}
  /\ servo \in Servo /\ type \in AllTypes /\ held \in BOOLEAN
  /\ asked \in {"zero", "brake", "fwd", "rev"}
  /\ local \in {"none", "zero", "brake_zero", "brake", "fwd", "rev", "duty"}
  /\ slaves \in {"none", "zero", "brake", "fwd", "rev", "duty", "follow"}
  /\ idles \in 0..MinPulses
  /\ inRow \in BOOLEAN /\ checked \in BOOLEAN /\ afterLoss \in BOOLEAN
  /\ trail \in {"forward", "braked", "idled"}

\* "Check if idle has been verified for some pulses before driving the motor": what
\* drives the motor passed a comparison of the counter at which safe start was off
\* or the input had been idle for MinPulses evaluations in a row since the counter
\* was reset by a fault, a lost signal or a configuration. A reset that is lost is
\* none; and if safe start was off meanwhile, the count need not be in a row until
\* the next reset.
VerifiedDrive == local \in {"fwd", "rev", "duty"} => checked

\* It is so for every command but one (app_ppm.c drives the motor backwards with the
\* duty cycle of PPM_CTRL_TYPE_CURRENT_SMART_REV).
VerifiedDriveButSmart == local # "duty" => VerifiedDrive

\* When the signal comes back, no controller is sent anything, whatever the mode and
\* the configurations meanwhile, before the input was idle for long enough or safe
\* start was off.
LossHoldsAll == afterLoss => local \in {"none", "brake"} /\ slaves \in {"none", "brake"}

\* "If there was a idle in between then allow going backwards": an input that asked
\* for forward must brake and then be idle before reverse drives the motor, unless
\* the motor turns fast backwards already.
ReverseNeedsIdle == type = "rev_hyst" /\ local = "rev" => trail = "idled"

\* Safe start ends: with a control type, an idle input and no fault the counter gets
\* there and stays.
Quiet == <>[](config.type # "none") /\ <>[][Look("idle", FALSE) \/ Continue]_vars
SafeStartEnds == Quiet => <>[](pulses = MinPulses)
=============================================================================
