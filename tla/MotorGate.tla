----------------------------- MODULE MotorGate -----------------------------
(***************************************************************************)
(* The gate every motor command of the firmware passes, and what shuts it: *)
(* motor/mc_interface.c (try_input, lock, ignore_input, the fault thread,  *)
(* the 1 ms timer thread) over the FOC drive state of motor/mcpwm_foc.c.   *)
(*                                                                         *)
(* Threads of equal priority are preempted between any two steps (ChibiOS  *)
(* round robin), interrupts between any two steps of any thread, and the   *)
(* fault thread (HIGHPRIO - 3) runs before every other thread as soon as   *)
(* it is signalled: NoFaultWork is the guard of all other threads.         *)
(***************************************************************************)
EXTENDS Integers

CONSTANTS
  Motors,      \* 1..1 on a single-motor board, 1..2 with HW_HAS_DUAL_MOTORS
  Clients,     \* threads that call the mc_interface_ functions
  Commands,    \* the kinds of motor command the clients send
  Codes,       \* fault codes that interrupts and threads raise
  Drv,         \* the code of the gate driver's fault pin
  NoFault,     \* FAULT_CODE_NONE
  StopTicks,   \* m_fault_stop_time_ms, in ticks of the timer thread
  EstopTicks,  \* the durations an emergency stop asks for, in ticks
  MinIsZero    \* is cc_min_current configured to zero?

AllCommands == {"duty", "slow", "drive", "zero", "brake", "coast", "release"}

ASSUME MotorsAssumption == Motors \in {1..1, 1..2}
ASSUME CommandsAssumption == Commands \subseteq AllCommands
ASSUME CodesAssumption == Drv \in Codes /\ NoFault \notin Codes
ASSUME TicksAssumption == StopTicks \in Nat \ {0} /\ EstopTicks \subseteq Nat
ASSUME MinAssumption == MinIsZero \in BOOLEAN

VARIABLES
  persistent,  \* m_persistent_fault # FAULT_CODE_NONE, latched by main() before init
  initDone,    \* m_init_done of mcpwm_foc.c
  hwOn,        \* timers, ADC and its interrupt are set up
  foc,         \* per motor: the drive state of motor_all_state_t
  latch,       \* per motor: m_fault_now
  ignore,      \* per motor: m_ignore_iterations
  locked,      \* per motor: m_lock_enabled
  token,       \* per motor: m_lock_override_once
  fdata,       \* m_fault_data: the one slot every fault_stop call writes
  pend,        \* event flag of the fault thread
  fthr,        \* the fault thread: waiting, or with half of fdata copied
  cond,        \* physical fault conditions, a set of <<motor, code>>
  tick,        \* the timer thread: step, motor and the register it computes in
  cl           \* per client: step, motor, command, was input to be ignored when
               \* it was first looked at?, is it a detection routine?

bootVars == <<persistent, initDone, hwOn>>
lockVars == <<locked, token>>
faultVars == <<fdata, pend, fthr, cond>>
gateVars == <<bootVars, foc, latch, ignore, lockVars, faultVars, tick, cl>>

-----------------------------------------------------------------------------
(* The drive state, as a record, and what the functions of mcpwm_foc.c do. *)

Modes == {"none", "duty", "current", "brake"}
Ending == {"current", "brake"}   \* the modes timer_update may end

Drive == [state : {"off", "running"}, mode : Modes, amps : BOOLEAN,
          released : BOOLEAN, phase : BOOLEAN, pwm : BOOLEAN]

Idle == [state |-> "off", mode |-> "none", amps |-> FALSE,
         released |-> FALSE, phase |-> FALSE, pwm |-> FALSE]

\* stop_pwm: mode and state first, then the hardware and the set points.
Stopped(d) == [d EXCEPT !.mode = "none", !.state = "off", !.amps = FALSE, !.pwm = FALSE]

Started(d) == IF d.state = "running" THEN d
              ELSE [d EXCEPT !.released = FALSE, !.state = "running"]

SetDuty(d) == Started([d EXCEPT !.mode = "duty"])

\* set_pid_speed below s_pid_min_erpm changes the mode but starts nothing.
SetSlowSpeed(d) == [d EXCEPT !.mode = "duty"]

\* set_current and set_brake_current: fabsf(current) < cc_min_current returns
\* early; never so when the minimum is 0.
SetCurrent(d, mode, amps) ==
  LET s == [d EXCEPT !.mode = mode, !.amps = amps]
  IN  IF amps \/ MinIsZero THEN Started(s) ELSE s

Released(d) == [d EXCEPT !.mode = "current", !.amps = FALSE, !.released = TRUE]

\* The measurements write the drive state themselves: they pass no gate.
Measuring(d) == [d EXCEPT !.phase = TRUE, !.mode = "current", !.amps = TRUE,
                          !.released = FALSE, !.state = "running"]

Commanded(d, k) == CASE k = "duty"    -> SetDuty(d)
                     [] k = "slow"    -> SetSlowSpeed(d)
                     [] k = "drive"   -> SetCurrent(d, "current", TRUE)
                     [] k = "zero"    -> SetCurrent(d, "current", FALSE)
                     [] k = "brake"   -> SetCurrent(d, "brake", TRUE)
                     [] k = "coast"   -> SetCurrent(d, "brake", FALSE)
                     [] k = "release" -> Released(d)

-----------------------------------------------------------------------------
(* mc_interface_try_input *)

Ignoring(m) == ignore[m] # 0

\* The value that is returned: m_ignore_iterations, a first load.
FirstLoadNone(m) == FALSE   \* mutant: the ignore time is not looked at
FirstLoad(m) == Ignoring(m)

-----------------------------------------------------------------------------
GateSteps == {"second", "locked", "override", "token", "inited", "apply"}
Steps == GateSteps \cup {"idle", "estop", "lock", "measure", "series",
                        "deinit", "reinit", "init"}
Client == [pc : Steps, motor : Motors, cmd : AllCommands, ign : BOOLEAN, det : BOOLEAN]
NoClient == [pc |-> "idle", motor |-> 1, cmd |-> "zero", ign |-> FALSE, det |-> FALSE]

Init ==
  /\ persistent \in BOOLEAN
  /\ initDone = ~persistent
  /\ hwOn = ~persistent
  /\ foc = [m \in Motors |-> Idle]
  /\ latch = [m \in Motors |-> NoFault]
  /\ ignore = [m \in Motors |-> 0]
  /\ locked = [m \in Motors |-> FALSE]
  /\ token = [m \in Motors |-> FALSE]
  /\ fdata = [code |-> NoFault, motor |-> 1]
  /\ pend = FALSE
  /\ fthr = [pc |-> "wait", motor |-> 1]
  /\ cond = {}
  /\ tick = [pc |-> "check", motor |-> 1, reg |-> 0]
  /\ cl = [c \in Clients |-> NoClient]

NoFaultWork == ~pend /\ fthr.pc = "wait"

At(c, pc) == NoFaultWork /\ cl[c].pc = pc
Goto(c, pc) == cl' = [cl EXCEPT ![c].pc = pc]
Return(c) == cl' = [cl EXCEPT ![c] = [@ EXCEPT !.pc = "idle", !.cmd = "zero", !.ign = FALSE]]

-----------------------------------------------------------------------------
(* Client threads: a mc_interface_set_ call is the gate, then the drive. The *)
(* gate is one load of a shared flag after the other.                       *)

\* A persistent fault returns at once; else the first load of the ignore time.
Call(c, m, k) ==
  /\ At(c, "idle")
  /\ ~persistent
  /\ cl[c].det => m = cl[c].motor
  /\ cl' = [cl EXCEPT ![c] = [@ EXCEPT !.pc = "second", !.motor = m, !.cmd = k,
                                       !.ign = FirstLoad(m)]]
  /\ UNCHANGED <<bootVars, foc, latch, ignore, lockVars, faultVars, tick>>

\* A call that returns a refusal anyway has nothing more to change.
Through(c) == IF cl[c].ign THEN Return(c) ELSE Goto(c, "inited")

\* The second load: the lock is not looked at while input is ignored.
SecondLoad(c) ==
  /\ At(c, "second")
  /\ IF Ignoring(cl[c].motor) THEN Through(c) ELSE Goto(c, "locked")
  /\ UNCHANGED <<bootVars, foc, latch, ignore, lockVars, faultVars, tick>>

TestLock(c) ==
  /\ At(c, "locked")
  /\ IF locked[cl[c].motor] THEN Goto(c, "override") ELSE Through(c)
  /\ UNCHANGED <<bootVars, foc, latch, ignore, lockVars, faultVars, tick>>

TestOverride(c) ==
  /\ At(c, "override")
  /\ IF token[cl[c].motor] THEN Goto(c, "token") ELSE Return(c)
  /\ UNCHANGED <<bootVars, foc, latch, ignore, lockVars, faultVars, tick>>

\* m_lock_override_once was read as true; now it is cleared.
TakeToken(c) ==
  /\ At(c, "token")
  /\ token' = [token EXCEPT ![cl[c].motor] = FALSE]
  /\ Through(c)
  /\ UNCHANGED <<bootVars, foc, latch, ignore, locked, faultVars, tick>>

TestInit(c) ==
  /\ At(c, "inited")
  /\ IF initDone THEN Goto(c, "apply") ELSE Return(c)
  /\ UNCHANGED <<bootVars, foc, latch, ignore, lockVars, faultVars, tick>>

Apply(c) ==
  /\ At(c, "apply")
  /\ foc' = [foc EXCEPT ![cl[c].motor] = Commanded(@, cl[c].cmd)]
  /\ Return(c)
  /\ UNCHANGED <<bootVars, latch, ignore, lockVars, faultVars, tick>>

Gate(c) == SecondLoad(c) \/ TestLock(c) \/ TestOverride(c) \/ TakeToken(c) \/ TestInit(c)

\* COMM_MOTOR_ESTOP: ignore input on every motor, then release every motor.
Estop(c, t) ==
  /\ At(c, "idle")
  /\ ignore' = [m \in Motors |-> t]
  /\ Goto(c, "estop")
  /\ UNCHANGED <<bootVars, foc, latch, lockVars, faultVars, tick>>

EstopRelease(c) ==
  /\ At(c, "estop")
  /\ foc' = [m \in Motors |-> Released(foc[m])]
  /\ Goto(c, "idle")
  /\ UNCHANGED <<bootVars, latch, ignore, lockVars, faultVars, tick>>

\* A detection routine of conf_general.c locks the motor, and before each of
\* its own commands allows just one.
Detect(c, m) ==
  /\ At(c, "idle")
  /\ ~cl[c].det
  /\ locked' = [locked EXCEPT ![m] = TRUE]
  /\ cl' = [cl EXCEPT ![c] = [@ EXCEPT !.det = TRUE, !.motor = m]]
  /\ UNCHANGED <<bootVars, foc, latch, ignore, token, faultVars, tick>>

OverrideOnce(c) ==
  /\ At(c, "idle")
  /\ cl[c].det
  /\ token' = [token EXCEPT ![cl[c].motor] = TRUE]
  /\ UNCHANGED <<bootVars, foc, latch, ignore, locked, faultVars, tick, cl>>

DetectEnd(c) ==
  /\ At(c, "idle")
  /\ cl[c].det
  /\ locked' = [locked EXCEPT ![cl[c].motor] = FALSE]
  /\ cl' = [cl EXCEPT ![c].det = FALSE]
  /\ UNCHANGED <<bootVars, foc, latch, ignore, token, faultVars, tick>>

\* A measurement locks the motor and then drives it without asking the gate.
\* stop_after = FALSE leaves it driven: the same thread measures again.
MeasureLock(c, m) ==
  /\ \/ At(c, "idle") /\ ~cl[c].det
     \/ At(c, "series") /\ m = cl[c].motor
  /\ locked' = [locked EXCEPT ![m] = TRUE]
  /\ cl' = [cl EXCEPT ![c] = [@ EXCEPT !.pc = "lock", !.motor = m]]
  /\ UNCHANGED <<bootVars, foc, latch, ignore, token, faultVars, tick>>

MeasureDrive(c) ==
  /\ At(c, "lock")
  /\ foc' = [foc EXCEPT ![cl[c].motor] = Measuring(@)]
  /\ Goto(c, "measure")
  /\ UNCHANGED <<bootVars, latch, ignore, lockVars, faultVars, tick>>

MeasureEnd(c, stop) ==
  LET m == cl[c].motor
      faulty == persistent \/ latch[m] # NoFault   \* mc_interface_get_fault
  IN  /\ At(c, "measure")
      /\ faulty => stop
      /\ foc' = [foc EXCEPT ![m] = IF stop THEN Stopped([@ EXCEPT !.phase = FALSE]) ELSE @]
      /\ locked' = [locked EXCEPT ![m] = FALSE]
      /\ Goto(c, IF stop THEN "idle" ELSE "series")
      /\ UNCHANGED <<bootVars, latch, ignore, token, faultVars, tick>>

-----------------------------------------------------------------------------
(* Interrupts and the FOC timer thread *)

\* The ADC interrupt runs the current controller, which starts the bridge.
AdcIsr(m) ==
  /\ hwOn
  /\ foc[m].state = "running"
  /\ ~foc[m].pwm
  /\ foc' = [foc EXCEPT ![m].pwm = TRUE]
  /\ UNCHANGED <<bootVars, latch, ignore, lockVars, faultVars, tick, cl>>

\* timer_update ends the modulation once nothing asks for current. The
\* minimum is raised for a released motor: of motor 1, whoever is asked about.
FocTimer(m) ==
  /\ NoFaultWork
  /\ initDone
  /\ foc[m].state = "running" /\ foc[m].mode \in Ending
  /\ ~foc[m].phase /\ ~foc[m].amps
  /\ MinIsZero => foc[1].released
  /\ foc' = [foc EXCEPT ![m] = Stopped(@)]
  /\ UNCHANGED <<bootVars, latch, ignore, lockVars, faultVars, tick, cl>>

\* A physical condition appears or goes away.
Condition(m, f) ==
  /\ cond' = IF <<m, f>> \in cond THEN cond \ {<<m, f>>} ELSE cond \cup {<<m, f>>}
  /\ UNCHANGED <<bootVars, foc, latch, ignore, lockVars, fdata, pend, fthr, tick, cl>>

\* mc_interface_mc_timer_isr calls fault_stop in every cycle with the condition.
IsrFault(m, f) ==
  /\ hwOn
  /\ <<m, f>> \in cond
  /\ fdata' = [code |-> f, motor |-> m]
  /\ pend' = TRUE
  /\ UNCHANGED <<bootVars, foc, latch, ignore, lockVars, fthr, cond, tick, cl>>

-----------------------------------------------------------------------------
(* The fault thread *)

\* The struct is copied member by member; an interrupt may write in between.
FaultCopy ==
  /\ pend /\ fthr.pc = "wait"
  /\ pend' = FALSE
  /\ fthr' = [pc |-> "copied", motor |-> fdata.motor]
  /\ UNCHANGED <<bootVars, foc, latch, ignore, lockVars, fdata, cond, tick, cl>>

\* Mutant: any fault that is latched already keeps the motor from being stopped.
FaultHandleAnyKnown ==
  LET m == fthr.motor
  IN  /\ fthr.pc = "copied"
      /\ ignore' = [ignore EXCEPT ![m] = StopTicks]
      /\ foc' = [foc EXCEPT ![m] = IF latch[m] # NoFault THEN @ ELSE Stopped(@)]
      /\ latch' = [latch EXCEPT ![m] = fdata.code]
      /\ fthr' = [fthr EXCEPT !.pc = "wait"]
      /\ UNCHANGED <<bootVars, lockVars, fdata, pend, cond, tick, cl>>

\* A fault that is latched already only extends the time input is ignored.
FaultHandle ==
  LET m == fthr.motor
      f == fdata.code
      known == latch[m] = f
  IN  /\ fthr.pc = "copied"
      /\ ignore' = [ignore EXCEPT ![m] = StopTicks]
      /\ foc' = [foc EXCEPT ![m] = IF known THEN @ ELSE Stopped(@)]
      /\ latch' = [latch EXCEPT ![m] = f]
      /\ fthr' = [fthr EXCEPT !.pc = "wait"]
      /\ UNCHANGED <<bootVars, lockVars, fdata, pend, cond, tick, cl>>

-----------------------------------------------------------------------------
(* The timer thread: run_timer_tasks for one motor after the other *)

TickAt(pc) == NoFaultWork /\ tick.pc = pc
NextMotor(m) == IF m + 1 \in Motors THEN m + 1 ELSE 1

\* Mutants: the time left is not looked at; a latched fault is never cleared.
TickCheckUnguarded ==
  /\ TickAt("check")
  /\ tick' = [tick EXCEPT !.pc = "load"]
  /\ UNCHANGED <<bootVars, foc, latch, ignore, lockVars, faultVars, cl>>
TickCheckSticky ==
  /\ TickAt("check")
  /\ tick' = [tick EXCEPT !.pc = IF ignore[tick.motor] > 0 THEN "load" ELSE "rest"]
  /\ UNCHANGED <<bootVars, foc, latch, ignore, lockVars, faultVars, cl>>

\* m_ignore_iterations > 0, a first load; the pin is read when it is not.
TickCheck ==
  LET m == tick.motor
  IN  /\ TickAt("check")
      /\ tick' = [tick EXCEPT !.pc = IF ignore[m] > 0 THEN "load"
                                     ELSE IF <<m, Drv>> \in cond THEN "rest" ELSE "clear"]
      /\ UNCHANGED <<bootVars, foc, latch, ignore, lockVars, faultVars, cl>>

\* m_ignore_iterations-- is a second load, a subtraction and a store.
TickLoad ==
  /\ TickAt("load")
  /\ tick' = [tick EXCEPT !.pc = "store", !.reg = ignore[tick.motor] - 1]
  /\ UNCHANGED <<bootVars, foc, latch, ignore, lockVars, faultVars, cl>>

TickStore ==
  /\ TickAt("store")
  /\ ignore' = [ignore EXCEPT ![tick.motor] = tick.reg]
  /\ tick' = [tick EXCEPT !.pc = "rest", !.reg = 0]
  /\ UNCHANGED <<bootVars, foc, latch, lockVars, faultVars, cl>>

TickClear ==
  /\ TickAt("clear")
  /\ latch' = [latch EXCEPT ![tick.motor] = NoFault]
  /\ tick' = [tick EXCEPT !.pc = "rest"]
  /\ UNCHANGED <<bootVars, foc, ignore, lockVars, faultVars, cl>>

\* The rest of the tasks may raise a fault too (current offsets, encoder).
\* A thread's fault_stop writes the slot in two steps.
TickRest ==
  LET m == tick.motor
  IN  /\ TickAt("rest")
      /\ \/ /\ tick' = [tick EXCEPT !.pc = "check", !.motor = NextMotor(m)]
            /\ UNCHANGED fdata
         \/ \E f \in Codes :
              /\ <<m, f>> \in cond
              /\ f # Drv
              /\ fdata' = [fdata EXCEPT !.code = f]
              /\ tick' = [tick EXCEPT !.pc = "raise"]
      /\ UNCHANGED <<bootVars, foc, latch, ignore, lockVars, pend, fthr, cond, cl>>

TickRaise ==
  LET m == tick.motor
  IN  /\ TickAt("raise")
      /\ fdata' = [fdata EXCEPT !.motor = m]
      /\ pend' = TRUE
      /\ tick' = [tick EXCEPT !.pc = "check", !.motor = NextMotor(m)]
      /\ UNCHANGED <<bootVars, foc, latch, ignore, lockVars, fthr, cond, cl>>

-----------------------------------------------------------------------------
(* mc_interface_set_configuration with another motor_type *)

\* A persistent fault leaves the peripherals uninitialised from then on.
AfterDeinitAlways == "reinit"   \* mutant: initialised again all the same
AfterDeinit == IF persistent THEN "idle" ELSE "reinit"

\* mcpwm_foc_deinit returns at once when nothing is initialised; otherwise
\* m_init_done goes first and the peripherals once the threads have stopped.
Deinit(c) ==
  /\ At(c, "idle")
  /\ ~cl[c].det
  /\ initDone' = FALSE
  /\ Goto(c, IF initDone THEN "deinit" ELSE AfterDeinit)
  /\ UNCHANGED <<persistent, hwOn, foc, latch, ignore, lockVars, faultVars, tick>>

PeripheryOff(c) ==
  /\ At(c, "deinit")
  /\ hwOn' = FALSE
  /\ foc' = [m \in Motors |-> [foc[m] EXCEPT !.pwm = FALSE]]
  /\ Goto(c, AfterDeinit)
  /\ UNCHANGED <<persistent, initDone, latch, ignore, lockVars, faultVars, tick>>

\* mcpwm_foc_init clears the drive state under the system lock ...
PeripheryOn(c) ==
  /\ At(c, "reinit")
  /\ foc' = [m \in Motors |-> Idle]
  /\ hwOn' = TRUE
  /\ Goto(c, "init")
  /\ UNCHANGED <<persistent, initDone, latch, ignore, lockVars, faultVars, tick>>

\* ... and sets m_init_done last.
InitDone(c) ==
  /\ At(c, "init")
  /\ initDone' = TRUE
  /\ Goto(c, "idle")
  /\ UNCHANGED <<persistent, hwOn, foc, latch, ignore, lockVars, faultVars, tick>>

-----------------------------------------------------------------------------
ClientStep(c) ==
  \/ \E m \in Motors, k \in Commands : Call(c, m, k)
  \/ Gate(c)
  \/ Apply(c)
  \/ \E t \in EstopTicks : Estop(c, t)
  \/ EstopRelease(c)
  \/ \E m \in Motors : Detect(c, m)
  \/ OverrideOnce(c)
  \/ DetectEnd(c)
  \/ \E m \in Motors : MeasureLock(c, m)
  \/ MeasureDrive(c)
  \/ \E stop \in BOOLEAN : MeasureEnd(c, stop)
  \/ Deinit(c)
  \/ PeripheryOff(c)
  \/ PeripheryOn(c)
  \/ InitDone(c)

TickStep == TickCheck \/ TickLoad \/ TickStore \/ TickClear \/ TickRest \/ TickRaise

FaultThread == FaultCopy \/ FaultHandle

Next ==
  \/ \E c \in Clients : ClientStep(c)
  \/ \E m \in Motors : AdcIsr(m) \/ FocTimer(m)
  \/ \E m \in Motors, f \in Codes : Condition(m, f) \/ IsrFault(m, f)
  \/ FaultThread
  \/ TickStep

Spec == Init /\ [][Next]_gateVars

\* The threads and interrupts the scheduler keeps running: the fault thread and
\* the 1 ms threads, and the interrupt that repeats a fault while its cause
\* lasts. Clients and physical conditions owe nothing.
FairSpec ==
  /\ Spec
  /\ WF_gateVars(FaultThread)
  /\ SF_gateVars(TickStep)
  /\ \A m \in Motors : SF_gateVars(FocTimer(m))
  /\ \A m \in Motors, f \in Codes : WF_gateVars(IsrFault(m, f))

-----------------------------------------------------------------------------
Ticker == [pc : {"check", "load", "store", "clear", "rest", "raise"},
           motor : Motors, reg : Nat \cup {-1}]

\* Every variable keeps its type. The counter may reach -1: TickLoad does not
\* look again at what TickCheck saw.
TypeOK ==
  /\ persistent \in BOOLEAN /\ initDone \in BOOLEAN /\ hwOn \in BOOLEAN
  /\ foc \in [Motors -> Drive]
  /\ latch \in [Motors -> Codes \cup {NoFault}]
  /\ ignore \in [Motors -> Nat \cup {-1}]
  /\ locked \in [Motors -> BOOLEAN]
  /\ token \in [Motors -> BOOLEAN]
  /\ fdata \in [code : Codes \cup {NoFault}, motor : Motors]
  /\ pend \in BOOLEAN
  /\ fthr \in [pc : {"wait", "copied"}, motor : Motors]
  /\ cond \subseteq Motors \X Codes
  /\ tick \in Ticker
  /\ cl \in [Clients -> Client]

\* A latched persistent fault means that no bridge is ever driven, whatever is
\* sent, measured or reconfigured (mc_interface_set_persistent_fault): the
\* measurements pass no gate, so it is the hardware that has to stay off.
PersistentBlocksPwm == persistent => \A m \in Motors : ~foc[m].pwm

\* What keeps both: the step between the two loads of the counter never finds
\* it negative already ...
CounterOK == tick.pc = "load" => ignore[tick.motor] >= 0

\* ... and with a latched persistent fault nobody gets to set the peripherals up.
BootOK ==
  persistent => /\ ~hwOn /\ ~initDone
                /\ \A m \in Motors : ~foc[m].pwm
                /\ \A c \in Clients : cl[c].pc \notin {"deinit", "reinit", "init"}

\* The inductive invariant of MotorProofs.
GateInv == TypeOK /\ CounterOK /\ BootOK

-----------------------------------------------------------------------------
\* With the flags as they are now, the call of c goes through to the drive.
Passes(c) ==
  LET m == cl[c].motor
      open == ~locked[m] \/ token[m]
  IN  \/ cl[c].pc \in {"inited", "apply"}
      \/ /\ ~cl[c].ign
         /\ \/ cl[c].pc = "second" /\ (Ignoring(m) \/ open)
            \/ cl[c].pc = "locked" /\ open
            \/ cl[c].pc = "override" /\ token[m]
            \/ cl[c].pc = "token"

Heads(c, m) == cl[c].motor = m /\ (Passes(c) \/ cl[c].pc = "lock")
Quiet(m) == foc[m].state = "off" /\ \A c \in Clients : ~Heads(c, m)
Closed(m) == persistent \/ Ignoring(m) \/ (locked[m] /\ ~token[m])

\* A call that found no ignore time at its first load has still to decide.
Undecided(m, pcs) == \E c \in Clients : cl[c].motor = m /\ ~cl[c].ign /\ cl[c].pc \in pcs
LockOpens(m) == ~(locked[m] /\ ~token[m])'
IgnoreBegins(m) == ~Ignoring(m) /\ Ignoring(m)'

\* While the gate of a motor is closed, a stopped motor that no call is on its way
\* to stays stopped and no call gets on its way, but a measurement. A call loads the
\* flags one after the other, so there are two ways in: the lock is opened before
\* the call has looked at it (input may be ignored again by then), and an ignore
\* time begins between its two loads of that, which makes it skip the lock of a
\* motor that was locked all the time.
ClosedGateHolds ==
  [][\A m \in Motors : Quiet(m) /\ Closed(m) =>
       \/ Quiet(m)'
       \/ \E c \in Clients : MeasureLock(c, m)
       \/ Undecided(m, {"second", "locked", "override"}) /\ LockOpens(m)
       \/ Undecided(m, {"second"}) /\ IgnoreBegins(m)]_gateVars

\* A fault condition that lasts stops the motor, unless that same fault is
\* latched already: however the interrupt, the copy of the fault slot and
\* calls in flight interleave, a driven bridge is switched off.
FaultStopsMotor ==
  \A m \in Motors, f \in Codes :
    []([](cond = {<<m, f>>} /\ hwOn) /\ latch[m] # f => <>(~foc[m].pwm))

\* Once the conditions are gone and nobody asks to ignore input any more, input
\* is accepted again and no fault stays latched.
FaultsClear ==
  <>[](cond = {}) /\ <>[][\A c \in Clients, t \in EstopTicks : ~Estop(c, t)]_gateVars
    => <>[](\A m \in Motors : ignore[m] = 0 /\ latch[m] = NoFault)
=============================================================================
