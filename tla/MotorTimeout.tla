---------------------------- MODULE MotorTimeout ----------------------------
(***************************************************************************)
(* The timeout thread of timeout.c over the gate of MotorGate: it releases *)
(* the motor when no command has come for timeout_msec or while a kill     *)
(* switch is set, and brakes it when a brake current is configured: for    *)
(* that it calls through the gate as any client does. The routines that    *)
(* measure a motor save its settings, replace them by a minute, no brake   *)
(* and no kill switch, and put them back.                                  *)
(*                                                                         *)
(* Faults, boot and reconfiguration are MotorGate's subject and held still *)
(* here, and the start of the PWM by the interrupt is not told from that   *)
(* of the drive. A minute never passes during a measurement (the longest   *)
(* gives up after ten seconds), so that under "measuring" nothing times    *)
(* out.                                                                    *)
(***************************************************************************)
EXTENDS MotorGate

CONSTANTS
  Thread,     \* the timeout thread, one of the clients of the gate
  KillInputs, \* kill switches in use: the input pin, the scripts' set-kill-sw
  HasTimeout, \* is timeout_msec of the application settings not zero?
  KillTicks,  \* the 20 ms a kill switch ignores input, in ticks
  Period      \* ticks of the timer thread per pass of the timeout thread at most; 0: any

ASSUME TimeoutAssumption ==
  Thread \in Clients /\ KillInputs \subseteq {"pin", "ext"} /\ HasTimeout \in BOOLEAN
  /\ KillTicks \in Nat \ {0} /\ Period \in Nat

VARIABLES
  stale,      \* more than timeout_msec since last_update_time
  switches,   \* the kill switches that are set: the pin, kill_sw_ext_set
  brakes,     \* is timeout_brake_current of the application settings not zero?
  tcfg,       \* the settings in force: of the application, or measuring
  saved,      \* per client: the settings a measurement will put back
  overlap,    \* a history variable: may settings have been put back out of order?
  expired,    \* has_timeout
  killed,     \* kill_sw_active
  tmo         \* the timeout thread: step, selected motor, kill_sw, ticks slept

inputVars == <<stale, switches>>
cfgVars == <<brakes, tcfg, saved, overlap>>
tmoVars == <<expired, killed, tmo>>
timeoutVars == <<gateVars, inputVars, cfgVars, tmoVars>>

Senders == Clients \ {Thread}
LastMotor == IF 2 \in Motors THEN 2 ELSE 1

TInit ==
  /\ Init /\ ~persistent
  /\ stale = FALSE /\ switches = {}
  /\ brakes \in BOOLEAN
  /\ tcfg = "app"
  /\ overlap = FALSE
  /\ saved = [c \in Clients |-> "app"]
  /\ expired = FALSE /\ killed = FALSE
  /\ tmo = [pc |-> "read", motor |-> 1, kill |-> FALSE, slept |-> 0]

-----------------------------------------------------------------------------
(* Inputs *)

\* A kill switch is moved: the pin, or set-kill-sw of a script.
Move(k) ==
  /\ switches' = IF k \in switches THEN switches \ {k} ELSE switches \cup {k}
  /\ UNCHANGED <<gateVars, stale, cfgVars, tmoVars>>

\* Nothing has called timeout_reset for longer than timeout_msec.
Age == HasTimeout /\ stale' = TRUE
       /\ UNCHANGED <<gateVars, switches, cfgVars, tmoVars>>

-----------------------------------------------------------------------------
(* Clients *)

\* Senders of commands call timeout_reset after the command.
TApply(c) ==
  /\ Apply(c)
  /\ stale' = FALSE
  /\ UNCHANGED <<switches, cfgVars, tmoVars>>

\* The settings that were in force are in a local variable of c.
Measures(c) == cl[c].det \/ cl[c].pc = "measure"
OthersMeasure(c) == \E d \in Senders \ {c} : Measures(d)

SaveConfig(c) ==
  /\ saved' = [saved EXCEPT ![c] = tcfg]
  /\ tcfg' = "measuring"
  /\ overlap' = (overlap \/ OthersMeasure(c))
  /\ stale' = FALSE
  /\ UNCHANGED <<brakes, switches>>

RestoreConfig(c) ==
  /\ tcfg' = saved[c]
  /\ overlap' = (overlap /\ (OthersMeasure(c) \/ saved[c] # "app"))
  /\ UNCHANGED <<brakes, saved, inputVars>>

TDetect(c, m) == Detect(c, m) /\ SaveConfig(c) /\ UNCHANGED tmoVars
TDetectEnd(c) == DetectEnd(c) /\ RestoreConfig(c) /\ UNCHANGED tmoVars
TMeasureDrive(c) == MeasureDrive(c) /\ SaveConfig(c) /\ UNCHANGED tmoVars
\* Mutant: a measurement ends without putting the settings back.
TMeasureEndKeeps(c, stop) ==
  MeasureEnd(c, stop) /\ UNCHANGED <<cfgVars, inputVars, tmoVars>>
TMeasureEnd(c, stop) == MeasureEnd(c, stop) /\ RestoreConfig(c) /\ UNCHANGED tmoVars

\* What leaves the timeout module alone.
Untimed(c) ==
  /\ \/ \E m \in Motors, k \in Commands : Call(c, m, k)
     \/ Gate(c)
     \/ \E t \in EstopTicks : Estop(c, t)
     \/ EstopRelease(c)
     \/ OverrideOnce(c)
     \/ \E m \in Motors : MeasureLock(c, m)
  /\ UNCHANGED <<inputVars, cfgVars, tmoVars>>

-----------------------------------------------------------------------------
(* The timeout thread, every 10 ms *)

Goes(pc) == tmo' = [tmo EXCEPT !.pc = pc]

Killing == (tcfg = "app" /\ "pin" \in switches) \/ "ext" \in switches
TimedOut == tcfg = "app" /\ stale

\* The switch and the time are looked at once; expired is withdrawn in passing.
TmoRead ==
  /\ tmo.pc = "read"
  /\ IF Killing \/ TimedOut
     THEN /\ tmo' = [tmo EXCEPT !.pc = "release", !.kill = Killing]
          /\ UNCHANGED <<expired, killed>>
     ELSE /\ tmo' = [tmo EXCEPT !.pc = "sleep", !.slept = 0]
          /\ expired' = FALSE
          /\ killed' = FALSE
  /\ UNCHANGED <<gateVars, inputVars, cfgVars>>

\* Mutant: the thread only unlocks.
TmoReleaseNever ==
  /\ tmo.pc = "release"
  /\ locked' = [locked EXCEPT ![tmo.motor] = FALSE]
  /\ tmo' = [tmo EXCEPT !.pc = "brake", !.motor = 1]
  /\ UNCHANGED <<bootVars, foc, latch, ignore, token, faultVars, tick, cl,
                 inputVars, cfgVars, expired, killed>>

\* Released at the edge only, unlocked each time; both act on the motor this
\* thread selected last.
TmoRelease ==
  LET m == tmo.motor
  IN  /\ tmo.pc = "release"
      /\ foc' = IF expired \/ killed THEN foc ELSE [foc EXCEPT ![m] = Released(@)]
      /\ locked' = [locked EXCEPT ![m] = FALSE]
      /\ tmo' = [tmo EXCEPT !.pc = "brake", !.motor = 1]
      /\ UNCHANGED <<bootVars, latch, ignore, token, faultVars, tick, cl,
                     inputVars, cfgVars, expired, killed>>

BrakeCommand == IF brakes /\ tcfg = "app" THEN "brake" ELSE "coast"

AfterBrake(m) == IF m = LastMotor THEN "ignore" ELSE "brake"
NextBrakedPast(m) == m + 1   \* mutant
NextBraked(m) == IF m = LastMotor THEN m ELSE 2

\* Mutant: the brake too is commanded at the edge only.
TmoBrakeAtEdge ==
  /\ tmo.pc = "brake"
  /\ \/ ~expired /\ Call(Thread, tmo.motor, BrakeCommand)
     \/ Gate(Thread) \/ Apply(Thread)
     \/ expired /\ UNCHANGED gateVars
  /\ tmo' = IF cl'[Thread].pc # "idle" THEN tmo
            ELSE [tmo EXCEPT !.pc = AfterBrake(tmo.motor), !.motor = NextBraked(tmo.motor)]
  /\ UNCHANGED <<inputVars, cfgVars, expired, killed>>

\* mc_interface_set_brake_current, gate and drive, for one motor after the other.
TmoBrake ==
  /\ tmo.pc = "brake"
  /\ Call(Thread, tmo.motor, BrakeCommand) \/ Gate(Thread) \/ Apply(Thread)
  /\ tmo' = IF cl'[Thread].pc # "idle" THEN tmo
            ELSE [tmo EXCEPT !.pc = AfterBrake(tmo.motor), !.motor = NextBraked(tmo.motor)]
  /\ UNCHANGED <<inputVars, cfgVars, expired, killed>>

TmoIgnore ==
  /\ tmo.pc = "ignore"
  /\ ignore' = IF tmo.kill THEN [m \in Motors |-> KillTicks] ELSE ignore
  /\ expired' = (expired \/ ~tmo.kill)
  /\ killed' = tmo.kill
  /\ tmo' = [tmo EXCEPT !.pc = "sleep", !.kill = FALSE, !.slept = 0]
  /\ UNCHANGED <<bootVars, foc, latch, lockVars, faultVars, tick, cl, inputVars, cfgVars>>

TmoWake ==
  /\ tmo.pc = "sleep"
  /\ Goes("read")
  /\ UNCHANGED <<gateVars, inputVars, cfgVars, expired, killed>>

TimeoutThread == TmoRead \/ TmoRelease \/ TmoBrake \/ TmoIgnore \/ TmoWake

(* The timer thread: nothing is latched and no condition lasts here, so that *)
(* its tasks are the ignore time alone, and only they lower it: the loads     *)
(* before the store are one.                                                  *)

TLoad ==
  /\ TickAt("check") /\ ignore[tick.motor] > 0
  /\ Period = 0 \/ tmo.slept < Period
  /\ tick' = [tick EXCEPT !.pc = "store", !.reg = ignore[tick.motor] - 1]
  /\ tmo' = IF Period = 0 THEN tmo ELSE [tmo EXCEPT !.slept = @ + 1]
  /\ UNCHANGED ignore

TStore ==
  /\ TickAt("store")
  /\ ignore' = [ignore EXCEPT ![tick.motor] = tick.reg]
  /\ tick' = [pc |-> "check", motor |-> NextMotor(tick.motor), reg |-> 0]
  /\ UNCHANGED tmo

\* The motor whose time is not running is passed over.
TSkip ==
  /\ TickAt("check") /\ ignore[tick.motor] <= 0
  /\ tick' = [tick EXCEPT !.motor = NextMotor(@)]
  /\ UNCHANGED <<ignore, tmo>>

TTick ==
  /\ TLoad \/ TStore \/ TSkip
  /\ UNCHANGED <<bootVars, foc, latch, lockVars, faultVars, cl, inputVars, cfgVars,
                 expired, killed>>

-----------------------------------------------------------------------------
TClientStep(c) ==
  \/ TApply(c) \/ Untimed(c)
  \/ \E m \in Motors : TDetect(c, m)
  \/ TDetectEnd(c)
  \/ TMeasureDrive(c)
  \/ \E stop \in BOOLEAN : TMeasureEnd(c, stop)

Drives == (\E m \in Motors : FocTimer(m)) /\ UNCHANGED <<inputVars, cfgVars, tmoVars>>

TNext ==
  \/ \E k \in KillInputs : Move(k)
  \/ Age
  \/ \E c \in Senders : TClientStep(c)
  \/ Drives
  \/ TTick
  \/ TimeoutThread

TSpec == TInit /\ [][TNext]_timeoutVars

TFairSpec ==
  /\ TSpec
  /\ WF_timeoutVars(TimeoutThread)
  /\ SF_timeoutVars(TTick)
  /\ \A m \in Motors : SF_timeoutVars(FocTimer(m) /\ Drives)
-----------------------------------------------------------------------------
Configs == {"app", "measuring"}

\* Every variable keeps its type.
TTypeOK ==
  /\ TypeOK
  /\ stale \in BOOLEAN /\ switches \subseteq KillInputs
  /\ brakes \in BOOLEAN /\ overlap \in BOOLEAN
  /\ tcfg \in Configs /\ saved \in [Clients -> Configs]
  /\ expired \in BOOLEAN /\ killed \in BOOLEAN
  /\ tmo \in [pc : {"read", "release", "brake", "ignore", "sleep"},
              motor : Motors, kill : BOOLEAN, slept : 0..Period]

NoMeasurement == \A c \in Clients : cl[c].pc \notin {"lock", "measure", "series"}
Bridging(m) == foc[m].state = "running"
Braking(m) == brakes /\ foc[m].mode = "brake"

\* "Enable timeout", say the measurements where they end: when nobody measures
\* or detects, the settings of the application are in force. Each routine puts back
\* what it found, so two threads that overlap may leave a minute in force for good:
\* nothing is promised from such an overlap on until the settings of the application
\* are put back with nobody else measuring.
ConfigRestored == (\A c \in Clients : ~Measures(c)) /\ ~overlap => tcfg = "app"

\* Once no command comes any more the motor is released for good, or braked if a
\* brake current is configured, with whatever locks, ignore times and calls in
\* flight the clients left behind (documentation/comm_can.md: the brake current "can
\* be used to brake the motor when timeout occurs. By default it is 0, which just
\* releases the motor").
TimeoutReleases ==
  <>[](stale /\ tcfg = "app" /\ switches = {} /\ NoMeasurement)
    => <>[](\A m \in Motors : ~Bridging(m) \/ Braking(m))

\* A kill switch that is set while the thread sleeps releases the motor, or brakes
\* it if a brake current is configured, whatever is locked, if no call is on its way
\* to the drive and neither a timeout nor an earlier kill withholds the release at
\* the edge.
KillReleases ==
  \A m \in Motors :
    [](/\ [](Killing /\ NoMeasurement /\ \A c \in Senders : ~Heads(c, m))
       /\ ~expired /\ ~killed /\ tmo.pc = "sleep"
       => <>[](~Bridging(m) \/ Braking(m)))

\* "When state is set to 1 the motor is disabled and optionally braking [...] as long
\* as any of them is active the motor will be disabled" (lispBM/README.md,
\* set-kill-sw): whoever is in the middle of a call, if nobody measures or detects.
KillDisables ==
  [](NoMeasurement /\ \A c \in Clients : ~cl[c].det)
    => \A m \in Motors : []([](switches # {}) => <>(~Bridging(m) \/ Braking(m)))
=============================================================================
