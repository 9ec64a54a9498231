---------------------------- MODULE MotorProofs ----------------------------
(***************************************************************************)
(* Proofs about the motor gate, and about the timeout thread over it.      *)
(*                                                                         *)
(* The gate (MotorGate): type correctness and its two safety properties,   *)
(* for any number of clients, any commands, fault codes and durations.     *)
(* The timeout thread (MotorTimeout): types, and that the settings a       *)
(* measurement replaces are put back.                                      *)
(***************************************************************************)
EXTENDS MotorTimeout, TLAPS

-----------------------------------------------------------------------------
(* The drive operators return drive states. *)

\* A drive state stays one under each thing a function of mcpwm_foc.c does to it.
LEMMA DriveOperators ==
  ASSUME NEW d \in Drive, NEW k \in AllCommands
  PROVE  /\ Commanded(d, k) \in Drive
         /\ Stopped(d) \in Drive
         /\ Stopped([d EXCEPT !.phase = FALSE]) \in Drive
         /\ Released(d) \in Drive
         /\ Measuring(d) \in Drive
         /\ [d EXCEPT !.pwm = TRUE] \in Drive
         /\ [d EXCEPT !.pwm = FALSE] \in Drive
         /\ Idle \in Drive
<1>1. Stopped(d) \in Drive /\ Stopped([d EXCEPT !.phase = FALSE]) \in Drive
  BY DEF Stopped, Drive, Modes
<1>2. Released(d) \in Drive /\ Measuring(d) \in Drive /\ Idle \in Drive
  BY DEF Released, Measuring, Idle, Drive, Modes
<1>3. /\ [d EXCEPT !.pwm = TRUE] \in Drive
      /\ [d EXCEPT !.pwm = FALSE] \in Drive
  BY DEF Drive
<1>4. \A e \in Drive : Started(e) \in Drive
  BY DEF Started, Drive, Modes
<1>5. \A n \in {"current", "brake"}, a \in BOOLEAN : SetCurrent(d, n, a) \in Drive
  <2> TAKE n \in {"current", "brake"}, a \in BOOLEAN
  <2> DEFINE s == [d EXCEPT !.mode = n, !.amps = a]
  <2>1. s \in Drive
    BY DEF Drive, Modes
  <2>2. SetCurrent(d, n, a) = s \/ SetCurrent(d, n, a) = Started(s)
    BY DEF SetCurrent
  <2> QED BY <1>4, <2>1, <2>2
<1>6. SetDuty(d) \in Drive /\ SetSlowSpeed(d) \in Drive
  BY <1>4 DEF SetDuty, SetSlowSpeed, Drive, Modes
<1>7. Commanded(d, k) \in Drive
  BY <1>2, <1>5, <1>6 DEF Commanded, AllCommands
<1>8. QED BY <1>1, <1>2, <1>3, <1>7

\* None of them drives the bridge: only the ADC interrupt does.
LEMMA NoneStartsPwm ==
  ASSUME NEW d \in Drive, NEW k \in AllCommands, ~d.pwm
  PROVE  /\ ~Commanded(d, k).pwm
         /\ ~Stopped(d).pwm
         /\ ~Stopped([d EXCEPT !.phase = FALSE]).pwm
         /\ ~Released(d).pwm
         /\ ~Measuring(d).pwm
<1>1. /\ ~Stopped(d).pwm
      /\ ~Stopped([d EXCEPT !.phase = FALSE]).pwm
      /\ ~Released(d).pwm
      /\ ~Measuring(d).pwm
  BY DEF Stopped, Released, Measuring, Drive
<1>2. \A n \in {"current", "brake"}, a \in BOOLEAN : ~SetCurrent(d, n, a).pwm
  BY DEF SetCurrent, Started, Drive
<1>3. ~SetDuty(d).pwm /\ ~SetSlowSpeed(d).pwm
  BY DEF SetDuty, SetSlowSpeed, Started, Drive
<1>4. ~Commanded(d, k).pwm
  BY <1>1, <1>2, <1>3 DEF Commanded, AllCommands
<1>5. QED BY <1>1, <1>4

-----------------------------------------------------------------------------
(* The inductive invariant *)

\* Initially every motor is idle, the gate open, and the peripherals are off
\* if the fault is latched.
LEMMA GateInvInit == Init => GateInv
<1> SUFFICES ASSUME Init PROVE GateInv
  OBVIOUS
<1>1. 1 \in Motors
  BY MotorsAssumption
<1>2. Idle \in Drive /\ ~Idle.pwm
  BY DEF Idle, Drive, Modes
<1>3. TypeOK
  BY <1>1, <1>2 DEF Init, TypeOK, NoClient, Client, Steps, Ticker, AllCommands
<1>4. CounterOK
  BY DEF Init, CounterOK
<1>5. BootOK
  BY <1>2 DEF Init, BootOK, NoClient
<1>6. QED BY <1>3, <1>4, <1>5 DEF GateInv

\* What a call does up to the drive: it moves on, and may take the token.
GateEffect(c) ==
  /\ cl' \in [Clients -> Client]
  /\ token' \in [Motors -> BOOLEAN]
  /\ \A d \in Clients \ {c} : cl'[d] = cl[d]
  /\ cl'[c].pc \in GateSteps \cup {"idle"} /\ cl'[c].det = cl[c].det
  /\ cl[c].pc \in GateSteps \cup {"idle"}
  /\ UNCHANGED <<bootVars, foc, latch, ignore, locked, faultVars, tick>>

LEMMA GateMoves ==
  ASSUME TypeOK, NEW c \in Clients, NEW p \in GateSteps \cup {"idle"},
         Goto(c, p) \/ Return(c) \/ Through(c)
  PROVE  /\ cl' \in [Clients -> Client]
         /\ \A d \in Clients \ {c} : cl'[d] = cl[d]
         /\ cl'[c].pc \in GateSteps \cup {"idle"} /\ cl'[c].det = cl[c].det
<1>1. cl \in [Clients -> Client] /\ cl[c] \in Client
  BY DEF TypeOK
<1>2. ASSUME NEW q \in GateSteps \cup {"idle"}
      PROVE  [cl[c] EXCEPT !.pc = q] \in Client
  BY <1>1, <1>2 DEF Client, Steps, GateSteps
<1>3. [cl[c] EXCEPT !.pc = "idle", !.cmd = "zero", !.ign = FALSE] \in Client
  BY <1>1, ZenonT(40) DEF Client, Steps, AllCommands
<1>4. PICK q \in GateSteps \cup {"idle"} : Goto(c, q) \/ Return(c)
  BY DEF Through, GateSteps
<1>5. cl'[c] \in Client /\ cl'[c].pc \in GateSteps \cup {"idle"} /\ cl'[c].det = cl[c].det
  <2>1. CASE Goto(c, q)
    <3>1. cl'[c] = [cl[c] EXCEPT !.pc = q]
      BY <1>1, <2>1 DEF Goto
    <3>2. QED  BY <1>1, <1>2, <3>1 DEF Client
  <2>2. CASE Return(c)
    <3>1. cl'[c] = [cl[c] EXCEPT !.pc = "idle", !.cmd = "zero", !.ign = FALSE]
      BY <1>1, <2>2 DEF Return
    <3>2. QED  BY <1>1, <1>3, <3>1 DEF Client
  <2>3. QED  BY <1>4, <2>1, <2>2
<1>6. /\ DOMAIN cl' = Clients /\ \A d \in Clients \ {c} : cl'[d] = cl[d]
      /\ cl' = [d \in Clients |-> cl'[d]]
  BY <1>1, <1>4 DEF Goto, Return
<1>7. \A d \in Clients : cl'[d] \in Client
  BY <1>1, <1>5, <1>6
<1>8. QED  BY <1>5, <1>6, <1>7

\* Each load of the gate, and the store of the token.
LEMMA GateHasEffect ==
  ASSUME TypeOK, NEW c \in Clients, Gate(c)
  PROVE  GateEffect(c)
<1> USE DEF At, GateEffect, lockVars
<1>1. CASE SecondLoad(c)
  <2>1. Through(c) \/ Goto(c, "locked")
    BY <1>1 DEF SecondLoad
  <2>2. QED  BY <1>1, <2>1, GateMoves DEF SecondLoad, TypeOK, GateSteps
<1>2. CASE TestLock(c)
  <2>1. Through(c) \/ Goto(c, "override")
    BY <1>2 DEF TestLock
  <2>2. QED  BY <1>2, <2>1, GateMoves DEF TestLock, TypeOK, GateSteps
<1>3. CASE TestOverride(c)
  <2>1. Return(c) \/ Goto(c, "token")
    BY <1>3 DEF TestOverride
  <2>2. QED  BY <1>3, <2>1, GateMoves DEF TestOverride, TypeOK, GateSteps
<1>4. CASE TakeToken(c)
  <2>1. Through(c) /\ token' = [token EXCEPT ![cl[c].motor] = FALSE]
    BY <1>4 DEF TakeToken
  <2>2. token' \in [Motors -> BOOLEAN]
    BY <2>1 DEF TypeOK
  <2>3. QED  BY <1>4, <2>1, <2>2, GateMoves DEF TakeToken, GateSteps
<1>5. CASE TestInit(c)
  <2>1. Return(c) \/ Goto(c, "apply")
    BY <1>5 DEF TestInit
  <2>2. QED  BY <1>5, <2>1, GateMoves DEF TestInit, TypeOK, GateSteps
<1>6. QED  BY <1>1, <1>2, <1>3, <1>4, <1>5 DEF Gate

LEMMA CallHasEffect ==
  ASSUME TypeOK, NEW c \in Clients, NEW m \in Motors, NEW k \in AllCommands, Call(c, m, k)
  PROVE  GateEffect(c)
<1>1. cl \in [Clients -> Client] /\ cl[c] \in Client
  BY DEF TypeOK
<1>2. FirstLoad(m) \in BOOLEAN
  BY DEF FirstLoad, Ignoring
<1> DEFINE next == [cl[c] EXCEPT !.pc = "second", !.motor = m, !.cmd = k, !.ign = FirstLoad(m)]
<1>3. cl' = [cl EXCEPT ![c] = next]
  BY DEF Call
<1>4. next \in Client /\ next.pc = "second" /\ next.det = cl[c].det
  BY <1>1, <1>2 DEF Client, Steps, GateSteps
<1> HIDE DEF next
<1>5. /\ cl' \in [Clients -> Client]
      /\ cl'[c] = next
      /\ \A d \in Clients \ {c} : cl'[d] = cl[d]
  BY <1>1, <1>3, <1>4
<1>6. QED  BY <1>4, <1>5 DEF Call, At, GateEffect, GateSteps, lockVars, TypeOK

LEMMA EffectKeepsInv ==
  ASSUME GateInv, NEW c \in Clients, GateEffect(c)
  PROVE  GateInv'
<1>1. TypeOK'
  BY DEF GateInv, TypeOK, GateEffect, bootVars, faultVars
<1>2. CounterOK'
  BY DEF GateInv, CounterOK, GateEffect
<1>3. BootOK'
  <2>1. cl'[c].pc \notin {"deinit", "reinit", "init"}
    BY DEF GateEffect, GateSteps
  <2>2. QED  BY <2>1 DEF GateInv, BootOK, GateEffect, bootVars
<1>4. QED  BY <1>1, <1>2, <1>3 DEF GateInv

LEMMA CallKeepsInv ==
  ASSUME GateInv, NEW c \in Clients, NEW m \in Motors, NEW k \in AllCommands, Call(c, m, k)
  PROVE  GateInv'
BY CallHasEffect, EffectKeepsInv DEF GateInv

LEMMA GateKeepsInv ==
  ASSUME GateInv, NEW c \in Clients, Gate(c)
  PROVE  GateInv'
BY GateHasEffect, EffectKeepsInv DEF GateInv

\* The command that reaches the drive.
LEMMA ApplyKeepsInv ==
  ASSUME GateInv, NEW c \in Clients, Apply(c)
  PROVE  GateInv'
<1>0. TypeOK /\ CounterOK /\ BootOK
  BY DEF GateInv
<1>1. cl[c].motor \in Motors /\ cl[c].cmd \in AllCommands
  BY <1>0 DEF TypeOK, Client
<1>2. /\ Commanded(foc[cl[c].motor], cl[c].cmd) \in Drive
      /\ ~foc[cl[c].motor].pwm => ~Commanded(foc[cl[c].motor], cl[c].cmd).pwm
  BY <1>0, <1>1, DriveOperators, NoneStartsPwm DEF TypeOK
<1>3. /\ foc' \in [Motors -> Drive]
      /\ \A m \in Motors : ~foc[m].pwm => ~foc'[m].pwm
  BY <1>0, <1>1, <1>2 DEF TypeOK, Apply
<1>4. /\ cl' \in [Clients -> Client]
      /\ \A d \in Clients \ {c} : cl'[d] = cl[d]
      /\ cl'[c].pc \in GateSteps \cup {"idle"}
  BY <1>0, GateMoves DEF Apply
<1>5. TypeOK'
  BY <1>0, <1>3, <1>4 DEF TypeOK, Apply, bootVars, lockVars, faultVars
<1>6. CounterOK'
  BY <1>0 DEF CounterOK, Apply
<1>7. BootOK'
  <2>1. cl'[c].pc \notin {"deinit", "reinit", "init"}
    BY <1>4 DEF GateSteps
  <2>2. QED  BY <1>0, <1>3, <1>4, <2>1 DEF BootOK, Apply, bootVars
<1>8. QED  BY <1>5, <1>6, <1>7 DEF GateInv

\* Every step of every thread and interrupt keeps the invariant.
LEMMA GateInvNext == GateInv /\ [Next]_gateVars => GateInv'
<1> SUFFICES ASSUME TypeOK, CounterOK, BootOK, [Next]_gateVars PROVE GateInv'
  BY DEF GateInv
<1>0. "zero" \in AllCommands
  BY DEF AllCommands
<1>1. CASE Next
  <2>1. ASSUME NEW c \in Clients, NEW m \in Motors, NEW k \in Commands, Call(c, m, k) PROVE GateInv'
    BY <2>1, CallKeepsInv, CommandsAssumption DEF GateInv
  <2>2. ASSUME NEW c \in Clients, Gate(c) PROVE GateInv'
    BY <2>2, GateKeepsInv DEF GateInv
  <2>3. ASSUME NEW c \in Clients, Apply(c) PROVE GateInv'
    BY <2>3, ApplyKeepsInv DEF GateInv
  <2>4. ASSUME NEW c \in Clients, NEW t \in EstopTicks, Estop(c, t) PROVE GateInv'
    <3>1. cl' \in [Clients -> Client]
      BY <2>4 DEF TypeOK, Estop, At, Goto, Client, Steps
    <3>2. TypeOK'
      BY <2>4, <3>1, TicksAssumption DEF TypeOK, Estop, At, bootVars, lockVars,
      faultVars
    <3>3. CounterOK'
      BY <2>4, TicksAssumption DEF TypeOK, CounterOK, Estop, At, Ticker, bootVars,
      lockVars, faultVars
    <3>4. BootOK'
      BY <2>4, NoneStartsPwm, <1>0 DEF TypeOK, BootOK, Estop, At, Goto,
      bootVars, lockVars, faultVars
    <3>5. QED BY <3>2, <3>3, <3>4 DEF GateInv
  <2>5. ASSUME NEW c \in Clients, EstopRelease(c) PROVE GateInv'
    <3>1. \A m \in Motors : Released(foc[m]) \in Drive
      BY <2>5, DriveOperators, <1>0 DEF TypeOK
    <3>2. foc' \in [Motors -> Drive]
      BY <2>5, <3>1 DEF TypeOK, EstopRelease
    <3>3. cl' \in [Clients -> Client]
      BY <2>5 DEF TypeOK, EstopRelease, At, Goto, Client, Steps
    <3>4. TypeOK'
      BY <2>5, <3>1, <3>2, <3>3, TicksAssumption DEF TypeOK, EstopRelease, At,
      bootVars, lockVars, faultVars
    <3>5. CounterOK'
      BY <2>5, TicksAssumption DEF TypeOK, CounterOK, EstopRelease, At, bootVars,
      lockVars, faultVars
    <3>6. \A m \in Motors : ~foc[m].pwm => ~Released(foc[m]).pwm
      BY NoneStartsPwm, <1>0 DEF TypeOK
    <3>7. BootOK'
      BY <2>5, <3>6 DEF TypeOK, BootOK, EstopRelease, At, Goto, bootVars,
      lockVars, faultVars
    <3>8. QED BY <3>4, <3>5, <3>7 DEF GateInv
  <2>6. ASSUME NEW c \in Clients, NEW m \in Motors, Detect(c, m) PROVE GateInv'
    <3>1. cl' \in [Clients -> Client]
      BY <2>6, ZenonT(40) DEF TypeOK, Detect, At, Client, Steps
    <3>2. TypeOK'
      BY <2>6, <3>1, TicksAssumption DEF TypeOK, Detect, At, bootVars, lockVars,
      faultVars
    <3>3. CounterOK'
      BY <2>6, TicksAssumption DEF TypeOK, CounterOK, Detect, At, bootVars,
      lockVars, faultVars
    <3>4. BootOK'
      BY <2>6, NoneStartsPwm, <1>0 DEF TypeOK, BootOK, Detect, At,
      Goto, bootVars, lockVars, faultVars
    <3>5. QED BY <3>2, <3>3, <3>4 DEF GateInv
  <2>7. ASSUME NEW c \in Clients, OverrideOnce(c) PROVE GateInv'
    <3>1. TypeOK'
      BY <2>7, TicksAssumption DEF TypeOK, OverrideOnce, At, bootVars, lockVars,
      faultVars
    <3>2. CounterOK'
      BY <2>7, TicksAssumption DEF TypeOK, CounterOK, OverrideOnce, At, bootVars,
      lockVars, faultVars
    <3>3. BootOK'
      BY <2>7, NoneStartsPwm, <1>0 DEF TypeOK, BootOK, OverrideOnce,
      At, Goto, bootVars, lockVars, faultVars
    <3>4. QED BY <3>1, <3>2, <3>3 DEF GateInv
  <2>8. ASSUME NEW c \in Clients, DetectEnd(c) PROVE GateInv'
    <3>1. cl' \in [Clients -> Client]
      BY <2>8, ZenonT(40) DEF TypeOK, DetectEnd, At, Client, Steps
    <3>2. TypeOK'
      BY <2>8, <3>1, TicksAssumption DEF TypeOK, DetectEnd, At, bootVars,
      lockVars, faultVars
    <3>3. CounterOK'
      BY <2>8, TicksAssumption DEF TypeOK, CounterOK, DetectEnd, At, bootVars,
      lockVars, faultVars
    <3>4. BootOK'
      BY <2>8, NoneStartsPwm, <1>0 DEF TypeOK, BootOK, DetectEnd, At,
      Goto, bootVars, lockVars, faultVars
    <3>5. QED BY <3>2, <3>3, <3>4 DEF GateInv
  <2>9. ASSUME NEW c \in Clients, NEW m \in Motors, MeasureLock(c, m) PROVE GateInv'
    <3>1. [cl[c] EXCEPT !.pc = "lock", !.motor = m] \in Client
      BY <2>9 DEF TypeOK, Client, Steps
    <3>2. cl' \in [Clients -> Client]
      BY <2>9, <3>1 DEF TypeOK, MeasureLock
    <3>3. TypeOK'
      BY <2>9, <3>1, <3>2, TicksAssumption DEF TypeOK, MeasureLock, At, bootVars,
      lockVars, faultVars
    <3>4. CounterOK'
      BY <2>9, TicksAssumption DEF TypeOK, CounterOK, MeasureLock, At, bootVars,
      lockVars, faultVars
    <3>5. BootOK'
      BY <2>9, NoneStartsPwm, <1>0 DEF TypeOK, BootOK, MeasureLock, At,
      Goto, bootVars, lockVars, faultVars
    <3>6. QED BY <3>3, <3>4, <3>5 DEF GateInv
  <2>10. ASSUME NEW c \in Clients, MeasureDrive(c) PROVE GateInv'
    <3>1. cl[c].motor \in Motors
      BY <2>10 DEF TypeOK, Client
    <3>2. Measuring(foc[cl[c].motor]) \in Drive
      BY <2>10, <3>1, DriveOperators, <1>0 DEF TypeOK
    <3>3. foc' \in [Motors -> Drive]
      BY <2>10, <3>2 DEF TypeOK, MeasureDrive
    <3>4. cl' \in [Clients -> Client]
      BY <2>10 DEF TypeOK, MeasureDrive, At, Goto, Client, Steps
    <3>5. TypeOK'
      BY <2>10, <3>1, <3>2, <3>3, <3>4, TicksAssumption DEF TypeOK, MeasureDrive,
      At, bootVars, lockVars, faultVars
    <3>6. CounterOK'
      BY <2>10, TicksAssumption DEF TypeOK, CounterOK, MeasureDrive, At, bootVars,
      lockVars, faultVars
    <3>7. ~foc[cl[c].motor].pwm => ~Measuring(foc[cl[c].motor]).pwm
      BY <3>1, NoneStartsPwm, <1>0 DEF TypeOK
    <3>8. BootOK'
      BY <2>10, <3>7 DEF TypeOK, BootOK, MeasureDrive, At, Goto, bootVars,
      lockVars, faultVars
    <3>9. QED BY <3>5, <3>6, <3>8 DEF GateInv
  <2>11. ASSUME NEW c \in Clients, NEW stop \in BOOLEAN, MeasureEnd(c, stop) PROVE GateInv'
    <3>1. cl[c].motor \in Motors
      BY <2>11 DEF TypeOK, Client
    <3>2. Stopped([foc[cl[c].motor] EXCEPT !.phase = FALSE]) \in Drive
      BY <2>11, <3>1, DriveOperators, <1>0 DEF TypeOK
    <3>3. foc' \in [Motors -> Drive]
      BY <2>11, <3>2 DEF TypeOK, MeasureEnd
    <3>4. cl' \in [Clients -> Client]
      BY <2>11 DEF TypeOK, MeasureEnd, At, Goto, Client, Steps
    <3>5. TypeOK'
      BY <2>11, <3>1, <3>2, <3>3, <3>4, TicksAssumption DEF TypeOK, MeasureEnd,
      At, bootVars, lockVars, faultVars
    <3>6. CounterOK'
      BY <2>11, TicksAssumption DEF TypeOK, CounterOK, MeasureEnd, At, bootVars,
      lockVars, faultVars
    <3>7. ~foc[cl[c].motor].pwm => ~Stopped([foc[cl[c].motor] EXCEPT !.phase = FALSE]).pwm
      BY <3>1, NoneStartsPwm, <1>0 DEF TypeOK
    <3>8. BootOK'
      BY <2>11, <3>7 DEF TypeOK, BootOK, MeasureEnd, At, Goto, bootVars, lockVars,
      faultVars
    <3>9. QED BY <3>5, <3>6, <3>8 DEF GateInv
  <2>12. ASSUME NEW c \in Clients, Deinit(c) PROVE GateInv'
    <3>1. cl' \in [Clients -> Client]
      BY <2>12 DEF TypeOK, Deinit, At, Goto, AfterDeinit, Client, Steps
    <3>2. TypeOK'
      BY <2>12, <3>1, TicksAssumption DEF TypeOK, Deinit, At, AfterDeinit,
      bootVars, lockVars, faultVars
    <3>3. CounterOK'
      BY <2>12, TicksAssumption DEF TypeOK, CounterOK, Deinit, At, AfterDeinit,
      bootVars, lockVars, faultVars
    <3>4. BootOK'
      BY <2>12, NoneStartsPwm, <1>0 DEF TypeOK, BootOK, Deinit, At,
      AfterDeinit, Goto, bootVars, lockVars, faultVars
    <3>5. QED BY <3>2, <3>3, <3>4 DEF GateInv
  <2>13. ASSUME NEW c \in Clients, PeripheryOff(c) PROVE GateInv'
    <3>1. \A m \in Motors : [foc[m] EXCEPT !.pwm = FALSE] \in Drive
      BY <2>13, DriveOperators, <1>0 DEF TypeOK
    <3>2. foc' \in [Motors -> Drive]
      BY <2>13, <3>1 DEF TypeOK, PeripheryOff
    <3>3. [cl[c] EXCEPT !.pc = AfterDeinit] \in Client
      BY <2>13 DEF TypeOK, AfterDeinit, Client, Steps
    <3>4. cl' \in [Clients -> Client]
      BY <2>13, <3>3 DEF TypeOK, PeripheryOff, Goto
    <3>5. TypeOK'
      BY <2>13, <3>1, <3>2, <3>3, <3>4, TicksAssumption DEF TypeOK, PeripheryOff,
      At, AfterDeinit, bootVars, lockVars, faultVars
    <3>6. CounterOK'
      BY <2>13, TicksAssumption DEF TypeOK, CounterOK, PeripheryOff, At,
      AfterDeinit, bootVars, lockVars, faultVars
    <3>7. BootOK'
      BY <2>13, NoneStartsPwm, <1>0 DEF TypeOK, BootOK, PeripheryOff,
      At, AfterDeinit, Goto, bootVars, lockVars, faultVars
    <3>8. QED BY <3>5, <3>6, <3>7 DEF GateInv
  <2>14. ASSUME NEW c \in Clients, PeripheryOn(c) PROVE GateInv'
    <3>1. foc' \in [Motors -> Drive]
      BY <2>14 DEF TypeOK, PeripheryOn, Idle, Drive, Modes
    <3>2. cl' \in [Clients -> Client]
      BY <2>14 DEF TypeOK, PeripheryOn, At, Goto, Client, Steps
    <3>3. TypeOK'
      BY <2>14, <3>1, <3>2, TicksAssumption DEF TypeOK, PeripheryOn, At, bootVars,
      lockVars, faultVars
    <3>4. CounterOK'
      BY <2>14, TicksAssumption DEF TypeOK, CounterOK, PeripheryOn, At, bootVars,
      lockVars, faultVars
    <3>5. BootOK'
      BY <2>14, NoneStartsPwm, <1>0 DEF TypeOK, BootOK, PeripheryOn,
      At, Goto, bootVars, lockVars, faultVars
    <3>6. QED BY <3>3, <3>4, <3>5 DEF GateInv
  <2>15. ASSUME NEW c \in Clients, InitDone(c) PROVE GateInv'
    <3>1. cl' \in [Clients -> Client]
      BY <2>15 DEF TypeOK, InitDone, At, Goto, Client, Steps
    <3>2. TypeOK'
      BY <2>15, <3>1, TicksAssumption DEF TypeOK, InitDone, At, bootVars,
      lockVars, faultVars
    <3>3. CounterOK'
      BY <2>15, TicksAssumption DEF TypeOK, CounterOK, InitDone, At, bootVars,
      lockVars, faultVars
    <3>4. BootOK'
      BY <2>15, NoneStartsPwm, <1>0 DEF TypeOK, BootOK, InitDone, At,
      Goto, bootVars, lockVars, faultVars
    <3>5. QED BY <3>2, <3>3, <3>4 DEF GateInv
  <2>16. ASSUME NEW m \in Motors, AdcIsr(m) PROVE GateInv'
    <3>1. [foc[m] EXCEPT !.pwm = TRUE] \in Drive
      BY <2>16, DriveOperators, <1>0 DEF TypeOK
    <3>2. foc' \in [Motors -> Drive]
      BY <2>16, <3>1 DEF TypeOK, AdcIsr
    <3>3. TypeOK'
      BY <2>16, <3>1, <3>2, TicksAssumption DEF TypeOK, AdcIsr, bootVars,
      lockVars, faultVars
    <3>4. CounterOK'
      BY <2>16, TicksAssumption DEF TypeOK, CounterOK, AdcIsr, bootVars, lockVars,
      faultVars
    <3>5. BootOK'
      BY <2>16, NoneStartsPwm, <1>0 DEF TypeOK, BootOK, AdcIsr,
      bootVars, lockVars, faultVars
    <3>6. QED BY <3>3, <3>4, <3>5 DEF GateInv
  <2>17. ASSUME NEW m \in Motors, FocTimer(m) PROVE GateInv'
    <3>1. Stopped(foc[m]) \in Drive
      BY <2>17, DriveOperators, <1>0 DEF TypeOK
    <3>2. foc' \in [Motors -> Drive]
      BY <2>17, <3>1 DEF TypeOK, FocTimer
    <3>3. TypeOK'
      BY <2>17, <3>1, <3>2, TicksAssumption DEF TypeOK, FocTimer, bootVars,
      lockVars, faultVars
    <3>4. CounterOK'
      BY <2>17, TicksAssumption DEF TypeOK, CounterOK, FocTimer, bootVars,
      lockVars, faultVars
    <3>5. BootOK'
      BY <2>17, NoneStartsPwm, <1>0 DEF TypeOK, BootOK, FocTimer,
      bootVars, lockVars, faultVars
    <3>6. QED BY <3>3, <3>4, <3>5 DEF GateInv
  <2>18. ASSUME NEW m \in Motors, NEW f \in Codes, Condition(m, f) PROVE GateInv'
    <3>1. TypeOK'
      BY <2>18, TicksAssumption DEF TypeOK, Condition, bootVars, lockVars,
      faultVars
    <3>2. CounterOK'
      BY <2>18, TicksAssumption DEF TypeOK, CounterOK, Condition, bootVars,
      lockVars, faultVars
    <3>3. BootOK'
      BY <2>18, NoneStartsPwm, <1>0 DEF TypeOK, BootOK, Condition,
      bootVars, lockVars, faultVars
    <3>4. QED BY <3>1, <3>2, <3>3 DEF GateInv
  <2>19. ASSUME NEW m \in Motors, NEW f \in Codes, IsrFault(m, f) PROVE GateInv'
    <3>1. TypeOK'
      BY <2>19, TicksAssumption DEF TypeOK, IsrFault, bootVars, lockVars,
      faultVars
    <3>2. CounterOK'
      BY <2>19, TicksAssumption DEF TypeOK, CounterOK, IsrFault, bootVars,
      lockVars, faultVars
    <3>3. BootOK'
      BY <2>19, NoneStartsPwm, <1>0 DEF TypeOK, BootOK, IsrFault,
      bootVars, lockVars, faultVars
    <3>4. QED BY <3>1, <3>2, <3>3 DEF GateInv
  <2>20. ASSUME FaultCopy PROVE GateInv'
    <3>1. TypeOK'
      BY <2>20, TicksAssumption DEF TypeOK, FaultCopy, bootVars, lockVars,
      faultVars
    <3>2. CounterOK'
      BY <2>20, TicksAssumption DEF TypeOK, CounterOK, FaultCopy, bootVars,
      lockVars, faultVars
    <3>3. BootOK'
      BY <2>20, NoneStartsPwm, <1>0 DEF TypeOK, BootOK, FaultCopy,
      bootVars, lockVars, faultVars
    <3>4. QED BY <3>1, <3>2, <3>3 DEF GateInv
  <2>21. ASSUME FaultHandle PROVE GateInv'
    <3>1. fthr.motor \in Motors
      BY <2>21 DEF TypeOK
    <3>2. Stopped(foc[fthr.motor]) \in Drive
      BY <2>21, <3>1, DriveOperators, <1>0 DEF TypeOK
    <3>3. foc' \in [Motors -> Drive]
      BY <2>21, <3>2 DEF TypeOK, FaultHandle
    <3>4. TypeOK'
      BY <2>21, <3>1, <3>2, <3>3, TicksAssumption DEF TypeOK, FaultHandle,
      bootVars, lockVars, faultVars
    <3>5. CounterOK'
      BY <2>21, TicksAssumption DEF TypeOK, CounterOK, FaultHandle, bootVars,
      lockVars, faultVars
    <3>6. BootOK'
      BY <2>21, NoneStartsPwm, <1>0 DEF TypeOK, BootOK, FaultHandle,
      bootVars, lockVars, faultVars
    <3>7. QED BY <3>4, <3>5, <3>6 DEF GateInv
  <2>22. ASSUME TickCheck PROVE GateInv'
    <3>1. tick' \in Ticker
      BY <2>22 DEF TypeOK, TickCheck, TickAt, Ticker
    <3>2. TypeOK'
      BY <2>22, <3>1, TicksAssumption DEF TypeOK, TickCheck, TickAt, bootVars,
      lockVars, faultVars
    <3>3. CounterOK'
      BY <2>22, TicksAssumption DEF TypeOK, CounterOK, TickCheck, TickAt, Ticker,
      bootVars, lockVars, faultVars
    <3>4. BootOK'
      BY <2>22, NoneStartsPwm, <1>0 DEF TypeOK, BootOK, TickCheck,
      TickAt, bootVars, lockVars, faultVars
    <3>5. QED BY <3>2, <3>3, <3>4 DEF GateInv
  <2>23. ASSUME TickLoad PROVE GateInv'
    <3>1. tick.motor \in Motors /\ ignore[tick.motor] \in Nat
      BY <2>23 DEF TypeOK, CounterOK, TickLoad, TickAt, Ticker
    <3>2. ignore[tick.motor] - 1 \in Nat \cup {-1}
      BY <2>23, <3>1 DEF TypeOK
    <3>3. tick' \in Ticker
      BY <2>23, <3>1, <3>2 DEF TypeOK, TickLoad, TickAt, Ticker
    <3>4. TypeOK'
      BY <2>23, <3>1, <3>2, <3>3, TicksAssumption DEF TypeOK, TickLoad, TickAt,
      bootVars, lockVars, faultVars
    <3>5. CounterOK'
      BY <2>23, TicksAssumption DEF TypeOK, CounterOK, TickLoad, TickAt, Ticker,
      bootVars, lockVars, faultVars
    <3>6. BootOK'
      BY <2>23, NoneStartsPwm, <1>0 DEF TypeOK, BootOK, TickLoad,
      TickAt, bootVars, lockVars, faultVars
    <3>7. QED BY <3>4, <3>5, <3>6 DEF GateInv
  <2>24. ASSUME TickStore PROVE GateInv'
    <3>1. tick' \in Ticker
      BY <2>24 DEF TypeOK, TickStore, TickAt, Ticker
    <3>2. ignore' \in [Motors -> Nat \cup {-1}]
      BY <2>24 DEF TypeOK, TickStore, Ticker
    <3>3. TypeOK'
      BY <2>24, <3>1, <3>2, TicksAssumption DEF TypeOK, TickStore, TickAt,
      bootVars, lockVars, faultVars
    <3>4. CounterOK'
      BY <2>24, TicksAssumption DEF TypeOK, CounterOK, TickStore, TickAt, Ticker,
      bootVars, lockVars, faultVars
    <3>5. BootOK'
      BY <2>24, NoneStartsPwm, <1>0 DEF TypeOK, BootOK, TickStore,
      TickAt, bootVars, lockVars, faultVars
    <3>6. QED BY <3>3, <3>4, <3>5 DEF GateInv
  <2>25. ASSUME TickClear PROVE GateInv'
    <3>1. tick' \in Ticker
      BY <2>25 DEF TypeOK, TickClear, TickAt, Ticker
    <3>2. TypeOK'
      BY <2>25, <3>1, TicksAssumption DEF TypeOK, TickClear, TickAt, bootVars,
      lockVars, faultVars
    <3>3. CounterOK'
      BY <2>25, TicksAssumption DEF TypeOK, CounterOK, TickClear, TickAt, Ticker,
      bootVars, lockVars, faultVars
    <3>4. BootOK'
      BY <2>25, NoneStartsPwm, <1>0 DEF TypeOK, BootOK, TickClear,
      TickAt, bootVars, lockVars, faultVars
    <3>5. QED BY <3>2, <3>3, <3>4 DEF GateInv
  <2>26. ASSUME TickRest PROVE GateInv'
    <3>1. NextMotor(tick.motor) \in Motors
      BY <2>26, MotorsAssumption DEF TypeOK, NextMotor, Ticker
    <3>2. tick' \in Ticker
      BY <2>26, <3>1 DEF TypeOK, TickRest, TickAt, Ticker
    <3>3. TypeOK'
      BY <2>26, <3>1, <3>2, TicksAssumption DEF TypeOK, TickRest, TickAt,
      bootVars, lockVars, faultVars
    <3>4. CounterOK'
      BY <2>26, TicksAssumption DEF TypeOK, CounterOK, TickRest, TickAt, Ticker,
      bootVars, lockVars, faultVars
    <3>5. BootOK'
      BY <2>26, NoneStartsPwm, <1>0 DEF TypeOK, BootOK, TickRest,
      TickAt, bootVars, lockVars, faultVars
    <3>6. QED BY <3>3, <3>4, <3>5 DEF GateInv
  <2>27. ASSUME TickRaise PROVE GateInv'
    <3>1. NextMotor(tick.motor) \in Motors
      BY <2>27, MotorsAssumption DEF TypeOK, NextMotor, Ticker
    <3>2. tick' \in Ticker
      BY <2>27, <3>1 DEF TypeOK, TickRaise, TickAt, Ticker
    <3>3. fdata' \in [code : Codes \cup {NoFault}, motor : Motors]
      BY <2>27 DEF TypeOK, TickRaise, Ticker
    <3>4. TypeOK'
      BY <2>27, <3>1, <3>2, <3>3, TicksAssumption DEF TypeOK, TickRaise, TickAt,
      bootVars, lockVars, faultVars
    <3>5. CounterOK'
      BY <2>27, TicksAssumption DEF TypeOK, CounterOK, TickRaise, TickAt, Ticker,
      bootVars, lockVars, faultVars
    <3>6. BootOK'
      BY <2>27, NoneStartsPwm, <1>0 DEF TypeOK, BootOK, TickRaise,
      TickAt, bootVars, lockVars, faultVars
    <3>7. QED BY <3>4, <3>5, <3>6 DEF GateInv
  <2>28. QED
    BY <1>1, <2>1, <2>2, <2>3, <2>4, <2>5, <2>6, <2>7, <2>8, <2>9, <2>10, <2>11,
    <2>12, <2>13, <2>14, <2>15, <2>16, <2>17, <2>18, <2>19, <2>20, <2>21, <2>22,
    <2>23, <2>24, <2>25, <2>26, <2>27 DEF Next, ClientStep, TickStep,
    FaultThread
<1>2. CASE UNCHANGED gateVars
  BY <1>2 DEF gateVars, bootVars, lockVars, faultVars, TypeOK, CounterOK, BootOK, GateInv
<1>3. QED BY <1>1, <1>2

-----------------------------------------------------------------------------
(* What the invariant is for *)

\* The invariant holds of every behaviour.
LEMMA GateInvHolds == Spec => []GateInv
<1>1. Init => GateInv
  BY GateInvInit
<1>2. GateInv /\ [Next]_gateVars => GateInv'
  BY GateInvNext
<1>3. QED BY <1>1, <1>2, PTL DEF Spec

\* Type correctness: in particular the counter of the ignore time never falls
\* below -1, whatever the timer thread and the writers of it interleave.
THEOREM TypeCorrect == Spec => []TypeOK
<1>1. GateInv => TypeOK
  BY DEF GateInv
<1>2. QED BY <1>1, GateInvHolds, PTL

\* With a latched persistent fault no bridge is ever driven.
THEOREM PersistentSafe == Spec => []PersistentBlocksPwm
<1>1. GateInv => PersistentBlocksPwm
  BY DEF GateInv, BootOK, PersistentBlocksPwm
<1>2. QED BY <1>1, GateInvHolds, PTL

\* A motor stays stopped with no call on its way, or one of the two ways in opens.
Kept(m) ==
  \/ Quiet(m)'
  \/ Undecided(m, {"second", "locked", "override"}) /\ LockOpens(m)
  \/ Undecided(m, {"second"}) /\ IgnoreBegins(m)

\* No step of a call that does not pass gets it on its way.
LEMMA GateStaysShut ==
  ASSUME GateInv, NEW c \in Clients, Gate(c), NEW m \in Motors, Quiet(m)
  PROVE  Quiet(m)'
<1>1. cl \in [Clients -> Client] /\ token \in [Motors -> BOOLEAN] /\ cl[c] \in Client
  BY DEF GateInv, TypeOK
<1>2. GateEffect(c)
  BY GateHasEffect DEF GateInv
<1>3. ~Heads(c, m)' /\ cl'[c].motor = cl[c].motor
  <2>1. ASSUME Return(c)
        PROVE  cl'[c].pc = "idle" /\ cl'[c].motor = cl[c].motor
    BY <1>1, <2>1 DEF Return, Client
  <2>2. ASSUME NEW p \in Steps, Goto(c, p)
        PROVE  /\ cl'[c].pc = p /\ cl'[c].motor = cl[c].motor
               /\ cl'[c].ign = cl[c].ign /\ cl'[c].cmd = cl[c].cmd
    BY <1>1, <2>2 DEF Goto, Client
  <2>3. ~Heads(c, m)
    BY DEF Quiet
  <2>4. UNCHANGED <<locked, ignore>>
    BY <1>2 DEF GateEffect
  <2> USE DEF At, Heads, Passes, Ignoring, Steps, GateSteps
  <2>5. CASE SecondLoad(c)
    <3>1. UNCHANGED token
      BY <2>5 DEF SecondLoad, lockVars
    <3>2. CASE Return(c)
      BY <2>1, <3>2
    <3>3. CASE Goto(c, "inited") /\ ~cl[c].ign /\ Ignoring(cl[c].motor)
      <4>1. cl[c].pc = "second"
        BY <2>5 DEF SecondLoad
      <4>2. QED  BY <2>2, <2>3, <3>3, <4>1
    <3>4. CASE Goto(c, "locked") /\ ~Ignoring(cl[c].motor)
      <4>1. cl[c].pc = "second"
        BY <2>5 DEF SecondLoad
      <4>2. QED  BY <2>2, <2>3, <2>4, <3>1, <3>4, <4>1
    <3>5. QED  BY <2>5, <3>2, <3>3, <3>4 DEF SecondLoad, Through
  <2>6. CASE TestLock(c)
    <3>1. UNCHANGED token /\ cl[c].pc = "locked"
      BY <2>6 DEF TestLock, lockVars
    <3>2. CASE Return(c)
      BY <2>1, <3>2
    <3>3. CASE Goto(c, "inited") /\ ~cl[c].ign /\ ~locked[cl[c].motor]
      BY <2>2, <2>3, <3>1, <3>3
    <3>4. CASE Goto(c, "override") /\ locked[cl[c].motor]
      BY <2>2, <2>3, <2>4, <3>1, <3>4
    <3>5. QED  BY <2>6, <3>2, <3>3, <3>4 DEF TestLock, Through
  <2>7. CASE TestOverride(c)
    <3>1. UNCHANGED token /\ cl[c].pc = "override"
      BY <2>7 DEF TestOverride, lockVars
    <3>2. CASE Return(c)
      BY <2>1, <3>2
    <3>3. CASE Goto(c, "token") /\ token[cl[c].motor]
      BY <2>2, <2>3, <3>1, <3>3
    <3>4. QED  BY <2>7, <3>2, <3>3 DEF TestOverride
  <2>8. CASE TakeToken(c)
    <3>1. cl[c].pc = "token"
      BY <2>8 DEF TakeToken
    <3>2. CASE Return(c)
      BY <2>1, <3>2
    <3>3. CASE Goto(c, "inited") /\ ~cl[c].ign
      BY <2>2, <2>3, <3>1, <3>3
    <3>4. QED  BY <2>8, <3>2, <3>3 DEF TakeToken, Through
  <2>9. CASE TestInit(c)
    <3>1. cl[c].pc = "inited"
      BY <2>9 DEF TestInit
    <3>2. CASE Return(c)
      BY <2>1, <3>2
    <3>3. CASE Goto(c, "apply")
      BY <2>2, <2>3, <3>1, <3>3
    <3>4. QED  BY <2>9, <3>2, <3>3 DEF TestInit
  <2>10. QED  BY <2>5, <2>6, <2>7, <2>8, <2>9 DEF Gate
<1>4. ASSUME NEW d \in Clients \ {c}
      PROVE  ~Heads(d, m)'
  <2>1. ~Heads(d, m) /\ cl'[d] = cl[d] /\ UNCHANGED <<locked, ignore>>
    BY <1>2 DEF Quiet, GateEffect
  <2>2. token'[m] => token[m]
    BY <1>1 DEF Gate, SecondLoad, TestLock, TestOverride, TakeToken, TestInit, lockVars
  <2>3. QED  BY <2>1, <2>2 DEF Heads, Passes, Ignoring
<1>5. foc'[m].state = "off"
  BY <1>2 DEF Quiet, GateEffect
<1>6. QED  BY <1>3, <1>4, <1>5 DEF Quiet

\* A call that begins at a closed gate does not pass it.
LEMMA CallFindsItShut ==
  ASSUME GateInv, NEW c \in Clients, NEW x \in Motors, NEW k \in AllCommands, Call(c, x, k),
         NEW m \in Motors, Quiet(m), Closed(m)
  PROVE  Quiet(m)'
<1>1. cl \in [Clients -> Client] /\ cl[c] \in Client
  BY DEF GateInv, TypeOK
<1>2. UNCHANGED <<bootVars, foc, ignore, locked, token>>
  BY DEF Call, lockVars
<1>3. /\ cl'[c].pc = "second" /\ cl'[c].motor = x /\ cl'[c].ign = Ignoring(x)
      /\ \A d \in Clients \ {c} : cl'[d] = cl[d]
  <2>1. cl' = [cl EXCEPT ![c] = [@ EXCEPT !.pc = "second", !.motor = x, !.cmd = k,
                                          !.ign = FirstLoad(x)]]
    BY DEF Call
  <2>2. QED  BY <1>1, <2>1 DEF Client, FirstLoad
<1>4. ~persistent
  BY DEF Call
<1>5. ~Heads(c, m)'
  BY <1>2, <1>3, <1>4 DEF Heads, Passes, Closed, Ignoring
<1>6. \A d \in Clients \ {c} : ~Heads(d, m)'
  BY <1>2, <1>3 DEF Quiet, Heads, Passes, Ignoring
<1>7. QED  BY <1>2, <1>5, <1>6 DEF Quiet

\* Whatever else happens: who gets on the way was undecided, and found the lock
\* opened or skips it for an ignore time that begins now.
LEMMA OthersKeepQuiet ==
  ASSUME NEW m \in Motors, Quiet(m), foc'[m].state = "off",
         \A d \in Clients : \/ cl'[d] = cl[d]
                            \/ cl'[d].motor # m
                            \/ cl'[d].pc \notin GateSteps \cup {"lock"}
  PROVE  Kept(m)
<1> SUFFICES ASSUME ~Quiet(m)' PROVE Kept(m)
  BY DEF Kept
<1>1. PICK d \in Clients : Heads(d, m)'
  BY DEF Quiet
<1>2. ~Heads(d, m)
  BY DEF Quiet
<1>3. cl'[d] = cl[d] /\ cl[d].motor = m
  BY <1>1 DEF Heads, Passes, GateSteps
<1>4. ~cl[d].ign /\ cl[d].pc \in {"second", "locked", "override"}
  BY <1>1, <1>2, <1>3 DEF Heads, Passes
<1>5. CASE ~locked'[m] \/ token'[m]
  BY <1>3, <1>4, <1>5 DEF Kept, Undecided, LockOpens
<1>6. CASE ~(~locked'[m] \/ token'[m])
  <2>1. cl[d].pc = "second" /\ Ignoring(m)'
    BY <1>1, <1>3, <1>4, <1>6 DEF Heads, Passes
  <2>2. ~Ignoring(m)
    BY <1>2, <1>3, <1>4, <2>1 DEF Heads, Passes
  <2>3. QED  BY <1>3, <1>4, <2>1, <2>2 DEF Kept, Undecided, IgnoreBegins
<1>7. QED  BY <1>5, <1>6

\* Every step, but the lock of a measurement.
LEMMA ClosedGateStep ==
  ASSUME GateInv, Next, NEW m \in Motors, Quiet(m), Closed(m)
  PROVE  Kept(m) \/ \E c \in Clients : MeasureLock(c, m)
<1>0. /\ cl \in [Clients -> Client] /\ foc \in [Motors -> Drive]
      /\ foc[m].state = "off" /\ \A c \in Clients : ~Heads(c, m)
  BY DEF GateInv, TypeOK, Quiet
<1> DEFINE Still == /\ foc'[m].state = "off"
                    /\ \A d \in Clients : \/ cl'[d] = cl[d]
                                          \/ cl'[d].motor # m
                                          \/ cl'[d].pc \notin GateSteps \cup {"lock"}
<1>1. ASSUME Still PROVE Kept(m)
  BY <1>1, OthersKeepQuiet
<1> USE DEF At, Goto, GateSteps
<1>2. ASSUME NEW c \in Clients, NEW x \in Motors, NEW k \in Commands, Call(c, x, k)
      PROVE  Kept(m)
  BY <1>2, CallFindsItShut, CommandsAssumption DEF Kept
<1>3. ASSUME NEW c \in Clients, Gate(c)
      PROVE  Kept(m)
  BY <1>3, GateStaysShut DEF Kept
<1>4. ASSUME NEW c \in Clients, Apply(c)
      PROVE  Kept(m)
  <2>1. cl[c].motor # m
    BY <1>0, <1>4 DEF Apply, Heads, Passes
  <2>2. foc'[m] = foc[m]
    BY <1>0, <1>4, <2>1 DEF Apply
  <2>3. cl'[c].pc = "idle" /\ \A d \in Clients \ {c} : cl'[d] = cl[d]
    BY <1>0, <1>4 DEF Apply, Return, Client
  <2>4. QED  BY <1>0, <1>1, <2>2, <2>3
<1>5. ASSUME NEW c \in Clients, NEW t \in EstopTicks, Estop(c, t)
      PROVE  Kept(m)
  BY <1>0, <1>1, <1>5 DEF Estop, Client
<1>6. ASSUME NEW c \in Clients, EstopRelease(c)
      PROVE  Kept(m)
  BY <1>0, <1>1, <1>6 DEF EstopRelease, Released, Drive, Client
<1>7. ASSUME NEW c \in Clients, NEW x \in Motors, Detect(c, x)
      PROVE  Kept(m)
  BY <1>0, <1>1, <1>7 DEF Detect, Client
<1>8. ASSUME NEW c \in Clients, OverrideOnce(c) \/ DetectEnd(c)
      PROVE  Kept(m)
  BY <1>0, <1>1, <1>8 DEF OverrideOnce, DetectEnd, Client
<1>9. ASSUME NEW c \in Clients, NEW x \in Motors, MeasureLock(c, x)
      PROVE  Kept(m) \/ \E d \in Clients : MeasureLock(d, m)
  <2>1. CASE x = m
    BY <1>9, <2>1
  <2>2. CASE x # m
    BY <1>0, <1>1, <1>9, <2>2 DEF MeasureLock, Client
  <2>3. QED BY <2>1, <2>2
<1>10. ASSUME NEW c \in Clients, MeasureDrive(c)
       PROVE  Kept(m)
  <2>1. cl[c].motor # m
    BY <1>0, <1>10 DEF MeasureDrive, Heads
  <2>2. QED  BY <1>0, <1>1, <1>10, <2>1 DEF MeasureDrive, Client
<1>11. ASSUME NEW c \in Clients, NEW stop \in BOOLEAN, MeasureEnd(c, stop)
       PROVE  Kept(m)
  BY <1>0, <1>1, <1>11 DEF MeasureEnd, Stopped, Drive, Client
<1>12. ASSUME NEW c \in Clients, Deinit(c) \/ InitDone(c)
       PROVE  Kept(m)
  BY <1>0, <1>1, <1>12 DEF Deinit, InitDone, AfterDeinit, Client
<1>13. ASSUME NEW c \in Clients, PeripheryOff(c) \/ PeripheryOn(c)
       PROVE  Kept(m)
  BY <1>0, <1>1, <1>13 DEF PeripheryOff, PeripheryOn, AfterDeinit, Idle, Drive, Client
<1>14. ASSUME NEW x \in Motors, AdcIsr(x) \/ FocTimer(x)
       PROVE  Kept(m)
  BY <1>0, <1>1, <1>14 DEF AdcIsr, FocTimer, Stopped, Drive
<1>15. ASSUME NEW x \in Motors, NEW f \in Codes, Condition(x, f) \/ IsrFault(x, f)
       PROVE  Kept(m)
  BY <1>0, <1>1, <1>15 DEF Condition, IsrFault
<1>16. CASE FaultThread
  <2>1. foc'[m].state = "off"
    <3>1. CASE FaultCopy
      BY <1>0, <3>1 DEF FaultCopy
    <3>2. CASE FaultHandle
      <4>1. foc'[m] = foc[m] \/ foc'[m] = Stopped(foc[m])
        BY <1>0, <3>2 DEF FaultHandle
      <4>2. QED  BY <1>0, <4>1 DEF Stopped, Drive
    <3>3. QED  BY <1>16, <3>1, <3>2 DEF FaultThread
  <2>2. UNCHANGED cl
    BY <1>16 DEF FaultThread, FaultCopy, FaultHandle
  <2>3. QED  BY <1>1, <2>1, <2>2
<1>17. CASE TickStep
  BY <1>0, <1>1, <1>17 DEF TickStep, TickCheck, TickLoad, TickStore, TickClear, TickRest,
                           TickRaise, TickAt
<1>18. QED
  BY <1>2, <1>3, <1>4, <1>5, <1>6, <1>7, <1>8, <1>9, <1>10, <1>11, <1>12, <1>13, <1>14,
     <1>15, <1>16, <1>17 DEF Next, ClientStep

\* The closed gate holds in every behaviour: besides a measurement, the two ways in
\* of a call that is still loading the flags are the only ones.
THEOREM ClosedGate == Spec => ClosedGateHolds
<1> DEFINE Holds == \A m \in Motors : Quiet(m) /\ Closed(m) =>
                     \/ Quiet(m)'
                     \/ \E c \in Clients : MeasureLock(c, m)
                     \/ Undecided(m, {"second", "locked", "override"}) /\ LockOpens(m)
                     \/ Undecided(m, {"second"}) /\ IgnoreBegins(m)
<1>1. GateInv /\ [Next]_gateVars => [Holds]_gateVars
  BY ClosedGateStep DEF Kept
<1>2. QED BY <1>1, GateInvHolds, PTL DEF Spec, ClosedGateHolds
-----------------------------------------------------------------------------
(* The timeout thread. *)

\* The timeout thread: step, selected motor, kill_sw, ticks slept.
TmoState == [pc : {"read", "release", "brake", "ignore", "sleep"},
             motor : Motors, kill : BOOLEAN, slept : 0..Period]

\* The variables of the timeout module keep their types ...
TimeTypes ==
  /\ stale \in BOOLEAN /\ switches \subseteq KillInputs
  /\ brakes \in BOOLEAN /\ overlap \in BOOLEAN
  /\ tcfg \in Configs /\ saved \in [Clients -> Configs]
  /\ expired \in BOOLEAN /\ killed \in BOOLEAN
  /\ tmo \in TmoState

\* ... and the thread, which changes the gate, keeps the invariant of the gate.
TInv == GateInv /\ TimeTypes

-----------------------------------------------------------------------------
\* Whatever senders and drives do is a step of the gate.
LEMMA SendersStepTheGate ==
  ASSUME TNext, ~TimeoutThread, ~TTick
  PROVE  [Next]_gateVars
<1>1. ASSUME NEW k \in KillInputs, Move(k) PROVE [Next]_gateVars
  BY <1>1 DEF Move
<1>2. CASE Age
  BY <1>2 DEF Age
<1>3. ASSUME NEW c \in Senders, TClientStep(c) PROVE [Next]_gateVars
  <2>1. ClientStep(c)
    <3>1. CASE TApply(c) \/ Untimed(c)
      BY <3>1 DEF TApply, Untimed, ClientStep
    <3>2. CASE (\E m \in Motors : TDetect(c, m)) \/ TDetectEnd(c)
      BY <3>2 DEF TDetect, TDetectEnd, ClientStep
    <3>3. CASE TMeasureDrive(c) \/ \E stop \in BOOLEAN : TMeasureEnd(c, stop)
      BY <3>3 DEF TMeasureDrive, TMeasureEnd, ClientStep
    <3>4. QED  BY <1>3, <3>1, <3>2, <3>3 DEF TClientStep
  <2>2. QED  BY <2>1 DEF Next, Senders
<1>4. CASE Drives
  BY <1>4 DEF Drives, Next
<1>5. QED  BY <1>1, <1>2, <1>3, <1>4 DEF TNext

\* The timer thread lowers a positive counter.
LEMMA TimerKeepsGate ==
  ASSUME TInv, TTick
  PROVE  GateInv'
<1>1. TypeOK /\ CounterOK /\ BootOK
  BY DEF TInv, GateInv
<1>2. UNCHANGED <<bootVars, foc, latch, lockVars, faultVars, cl>>
  BY DEF TTick
<1>3. tick.motor \in Motors /\ tick.reg \in Nat \cup {-1} /\ ignore[tick.motor] \in Nat \cup {-1}
  BY <1>1 DEF TypeOK, Ticker
<1>4. NextMotor(tick.motor) \in Motors
  BY <1>3, MotorsAssumption DEF NextMotor
<1>5. tick' \in Ticker /\ tick'.pc # "load"
  <2>1. CASE TLoad
    <3>1. ignore[tick.motor] - 1 \in Nat \cup {-1}
      BY <1>3, <2>1 DEF TLoad
    <3>2. tick' = [tick EXCEPT !.pc = "store", !.reg = ignore[tick.motor] - 1]
      BY <2>1 DEF TLoad
    <3>3. QED  BY <1>1, <3>1, <3>2 DEF TypeOK, Ticker
  <2>2. CASE TStore
    BY <1>4, <2>2 DEF TStore, Ticker
  <2>3. CASE TSkip
    BY <1>1, <1>4, <2>3 DEF TSkip, TickAt, TypeOK, Ticker
  <2>4. QED  BY <2>1, <2>2, <2>3 DEF TTick
<1>6. ignore' \in [Motors -> Nat \cup {-1}]
  BY <1>1, <1>3 DEF TTick, TLoad, TStore, TSkip, TypeOK
<1>7. TypeOK'
  BY <1>1, <1>2, <1>5, <1>6 DEF TypeOK, bootVars, lockVars, faultVars
<1>8. CounterOK'
  BY <1>5 DEF CounterOK
<1>9. BootOK'
  BY <1>1, <1>2 DEF BootOK, bootVars
<1>10. QED  BY <1>7, <1>8, <1>9 DEF GateInv

\* The thread leaves faults, boot and the timer thread alone, starts no bridge, and
\* commands the brake through the gate.
LEMMA ThreadKeepsGate ==
  ASSUME TInv, TimeoutThread
  PROVE  GateInv'
<1>1. TypeOK /\ CounterOK /\ BootOK /\ tmo.motor \in Motors /\ Thread \in Clients
  BY TimeoutAssumption DEF TInv, GateInv, TimeTypes, TmoState
<1>2. CASE TmoRead \/ TmoWake
  BY <1>1, <1>2 DEF TmoRead, TmoWake, gateVars, bootVars, lockVars, faultVars,
                    TypeOK, CounterOK, BootOK, GateInv
<1>3. CASE TmoRelease
  <2>1. Released(foc[tmo.motor]) \in Drive
        /\ (~foc[tmo.motor].pwm => ~Released(foc[tmo.motor]).pwm)
    <3>1. foc[tmo.motor] \in Drive /\ "zero" \in AllCommands
      BY <1>1 DEF TypeOK, AllCommands
    <3>2. QED  BY <3>1, DriveOperators, NoneStartsPwm
  <2>2. /\ foc' \in [Motors -> Drive]
        /\ \A m \in Motors : ~foc[m].pwm => ~foc'[m].pwm
    BY <1>1, <1>3, <2>1 DEF TmoRelease, TypeOK
  <2>3. TypeOK'
    BY <1>1, <1>3, <2>2 DEF TmoRelease, TypeOK, bootVars, faultVars
  <2>4. CounterOK'
    BY <1>1, <1>3 DEF TmoRelease, CounterOK
  <2>5. BootOK'
    BY <1>1, <1>3, <2>2 DEF TmoRelease, BootOK, bootVars
  <2>6. QED  BY <2>3, <2>4, <2>5 DEF GateInv
<1>4. CASE TmoBrake
  <2>1. BrakeCommand \in AllCommands
    BY DEF BrakeCommand, AllCommands
  <2>2. Call(Thread, tmo.motor, BrakeCommand) \/ Gate(Thread) \/ Apply(Thread)
    BY <1>4 DEF TmoBrake
  <2>3. QED  BY <1>1, <2>1, <2>2, CallKeepsInv, GateKeepsInv, ApplyKeepsInv DEF GateInv
<1>5. CASE TmoIgnore
  <2>1. ignore' \in [Motors -> Nat \cup {-1}] /\ (tick.pc = "load" => ignore'[tick.motor] >= 0)
    BY <1>1, <1>5, TimeoutAssumption DEF TmoIgnore, TypeOK, CounterOK, Ticker
  <2>2. TypeOK'
    BY <1>1, <1>5, <2>1 DEF TmoIgnore, TypeOK, bootVars, lockVars, faultVars
  <2>3. CounterOK'
    BY <1>5, <2>1 DEF TmoIgnore, CounterOK
  <2>4. BootOK'
    BY <1>1, <1>5 DEF TmoIgnore, BootOK, bootVars
  <2>5. QED  BY <2>2, <2>3, <2>4 DEF GateInv
<1>6. QED  BY <1>2, <1>3, <1>4, <1>5 DEF TimeoutThread

-----------------------------------------------------------------------------
LEMMA TInvInit == TInit => TInv
<1> SUFFICES ASSUME TInit PROVE TInv
  OBVIOUS
<1>1. GateInv
  BY GateInvInit DEF TInit
<1>2. 1 \in Motors
  BY MotorsAssumption
<1>3. TimeTypes
  <2>1. tmo = [pc |-> "read", motor |-> 1, kill |-> FALSE, slept |-> 0] /\ 0 \in 0..Period
    BY TimeoutAssumption DEF TInit
  <2>2. tmo \in TmoState
    BY <1>2, <2>1 DEF TmoState
  <2>3. QED  BY <2>2 DEF TInit, TimeTypes, Configs
<1>4. QED  BY <1>1, <1>3 DEF TInv

\* The thread reads, and goes on or sleeps; it is counted how long.
LEMMA ThreadSteps ==
  \A t \in TmoState, k \in BOOLEAN :
    /\ [t EXCEPT !.pc = "release", !.kill = k] \in TmoState
    /\ [t EXCEPT !.pc = "sleep", !.slept = 0] \in TmoState
    /\ [t EXCEPT !.pc = "sleep", !.kill = FALSE, !.slept = 0] \in TmoState
    /\ [t EXCEPT !.pc = "read"] \in TmoState
    /\ t.slept < Period => [t EXCEPT !.slept = @ + 1] \in TmoState
<1>1. 0 \in 0..Period /\ \A i \in 0..Period : i < Period => i + 1 \in 0..Period
  BY TimeoutAssumption
<1>2. QED  BY <1>1 DEF TmoState

\* Each action keeps the types of the timeout module.
LEMMA TimeTypesNext == TInv /\ [TNext]_timeoutVars => TimeTypes'
<1> SUFFICES ASSUME TInv, [TNext]_timeoutVars PROVE TimeTypes'
  OBVIOUS
<1>0. TimeTypes
  BY DEF TInv
<1> USE DEF TimeTypes, Configs, inputVars, cfgVars, tmoVars
<1>1. ASSUME NEW k \in KillInputs, Move(k) PROVE TimeTypes'
  BY <1>0, <1>1 DEF Move
<1>2. CASE Age
  BY <1>0, <1>2 DEF Age
<1>3. ASSUME NEW c \in Senders, TClientStep(c) PROVE TimeTypes'
  <2>0. c \in Clients
    BY DEF Senders
  <2>1. CASE TApply(c) \/ Untimed(c)
    BY <1>0, <2>1 DEF TApply, Untimed
  <2>2. CASE (\E m \in Motors : TDetect(c, m)) \/ TMeasureDrive(c)
    <3>1. SaveConfig(c) /\ UNCHANGED tmoVars
      BY <2>2 DEF TDetect, TMeasureDrive
    <3>2. overlap' \in BOOLEAN
      BY <3>1, <1>0, Zenon DEF SaveConfig, OthersMeasure
    <3>3. QED  BY <1>0, <2>0, <3>1, <3>2 DEF SaveConfig
  <2>3. CASE TDetectEnd(c) \/ \E stop \in BOOLEAN : TMeasureEnd(c, stop)
    <3>1. RestoreConfig(c) /\ UNCHANGED tmoVars
      BY <2>3 DEF TDetectEnd, TMeasureEnd
    <3>2. overlap' \in BOOLEAN
      BY <3>1, <1>0, Zenon DEF RestoreConfig, OthersMeasure
    <3>3. QED  BY <1>0, <2>0, <3>1, <3>2 DEF RestoreConfig
  <2>4. QED  BY <1>3, <2>1, <2>2, <2>3 DEF TClientStep
<1>4. CASE Drives
  BY <1>0, <1>4 DEF Drives
<1>5. CASE TTick
  <2>1. tmo' \in TmoState
    BY <1>0, <1>5, ThreadSteps DEF TTick, TLoad, TStore, TSkip
  <2>2. QED  BY <1>0, <1>5, <2>1 DEF TTick
<1>6. CASE TmoRead \/ TmoWake
  <2>1. Killing \in BOOLEAN
    BY DEF Killing
  <2>2. \/ tmo' = [tmo EXCEPT !.pc = "release", !.kill = Killing]
        \/ tmo' = [tmo EXCEPT !.pc = "sleep", !.slept = 0]
        \/ tmo' = [tmo EXCEPT !.pc = "read"]
    BY <1>6 DEF TmoRead, TmoWake, Goes
  <2>3. tmo' \in TmoState
    BY <1>0, <2>1, <2>2, ThreadSteps
  <2>4. UNCHANGED <<inputVars, cfgVars>> /\ expired' \in BOOLEAN /\ killed' \in BOOLEAN
    BY <1>0, <1>6 DEF TmoRead, TmoWake
  <2>5. QED  BY <1>0, <2>3, <2>4
<1>7. CASE TmoRelease
  <2>1. 1 \in Motors
    BY MotorsAssumption
  <2>2. QED  BY <1>0, <1>7, <2>1 DEF TmoRelease, TmoState
<1>8. CASE TmoBrake
  <2>1. NextBraked(tmo.motor) \in Motors /\ AfterBrake(tmo.motor) \in {"ignore", "brake"}
    BY <1>0, MotorsAssumption DEF TmoState, NextBraked, AfterBrake, LastMotor
  <2>2. \/ tmo' = tmo
        \/ tmo' = [tmo EXCEPT !.pc = AfterBrake(tmo.motor), !.motor = NextBraked(tmo.motor)]
    BY <1>8 DEF TmoBrake
  <2>3. tmo' \in TmoState
    BY <1>0, <2>1, <2>2 DEF TmoState
  <2>4. QED  BY <1>0, <1>8, <2>3 DEF TmoBrake
<1>9. CASE TmoIgnore
  <2>1. expired' \in BOOLEAN /\ killed' \in BOOLEAN
    BY <1>0, <1>9 DEF TmoIgnore, TmoState
  <2>2. tmo' \in TmoState
    BY <1>0, <1>9, ThreadSteps DEF TmoIgnore
  <2>3. QED  BY <1>0, <1>9, <2>1, <2>2 DEF TmoIgnore
<1>10. CASE UNCHANGED timeoutVars
  BY <1>0, <1>10 DEF timeoutVars
<1>11. QED
  BY <1>1, <1>2, <1>3, <1>4, <1>5, <1>6, <1>7, <1>8, <1>9, <1>10 DEF TNext, TimeoutThread

LEMMA TInvNext == TInv /\ [TNext]_timeoutVars => TInv'
<1> SUFFICES ASSUME TInv, [TNext]_timeoutVars PROVE TInv'
  OBVIOUS
<1>1. CASE TimeoutThread
  BY <1>1, ThreadKeepsGate, TimeTypesNext DEF TInv
<1>2. CASE TTick
  BY <1>2, TimerKeepsGate, TimeTypesNext DEF TInv
<1>3. CASE ~TimeoutThread /\ ~TTick
  <2>1. [Next]_gateVars
    BY <1>3, SendersStepTheGate DEF timeoutVars
  <2>2. QED  BY <2>1, GateInvNext, TimeTypesNext DEF TInv
<1>4. QED  BY <1>1, <1>2, <1>3

\* Every variable of the gate and of the timeout module keeps its type, with the
\* timeout thread releasing, unlocking and braking beside the clients.
THEOREM TimeoutTypeCorrect == TSpec => []TTypeOK
<1>1. TInv => TTypeOK
  BY DEF TInv, GateInv, TimeTypes, TmoState, TTypeOK
<1>2. QED  BY <1>1, TInvInit, TInvNext, PTL DEF TSpec

-----------------------------------------------------------------------------
(* The settings a measurement puts back *)

\* A detection does not measure the other way at the same time.
OneWay(c) == cl[c].det => cl[c].pc \notin {"lock", "measure", "series"}

\* Without an overlap at most one thread measures, and what it saved is the
\* application's; when none does, the application's is in force.
Sole(c) == Measures(c) => saved[c] = "app" /\ ~OthersMeasure(c)
Saves ==
  /\ \A c \in Senders : OneWay(c)
  /\ ~overlap => \A c \in Senders : Sole(c)
  /\ ~overlap /\ (\A c \in Senders : ~Measures(c)) => tcfg = "app"

\* A sender's own steps, by what they do to the settings: begin, end or neither.
Begins(c) == /\ ~Measures(c) /\ SaveConfig(c)
             /\ Measures(c)'
Ends(c) == /\ Measures(c) /\ RestoreConfig(c)
           /\ ~Measures(c)'
GoesOn(c) == Measures(c)' = Measures(c) /\ UNCHANGED cfgVars

LEMMA SenderSteps ==
  ASSUME NEW c \in Senders, TInv, Saves, TClientStep(c)
  PROVE  /\ Begins(c) \/ Ends(c) \/ GoesOn(c)
         /\ OneWay(c)'
         /\ \A d \in Clients \ {c} : cl'[d] = cl[d]
<1>1. cl \in [Clients -> Client] /\ c \in Clients /\ cl[c] \in Client /\ TypeOK
  BY DEF TInv, GateInv, TypeOK, Senders
<1>2. OneWay(c)
  BY DEF Saves
<1> DEFINE Result == /\ Begins(c) \/ Ends(c) \/ GoesOn(c)
                     /\ OneWay(c)'
                     /\ \A d \in Clients \ {c} : cl'[d] = cl[d]
<1> USE DEF At, Goto, Measures, OneWay, GoesOn
<1>3. ASSUME GateEffect(c), UNCHANGED cfgVars
      PROVE  Result
  BY <1>3 DEF GateEffect, GateSteps
<1>4. CASE TApply(c)
  <2>1. /\ cl[c].pc = "apply" /\ cl'[c].pc = "idle" /\ cl'[c].det = cl[c].det
        /\ \A d \in Clients \ {c} : cl'[d] = cl[d]
    BY <1>1, <1>4 DEF TApply, Apply, Return, Client
  <2>2. QED  BY <1>4, <2>1 DEF TApply
<1>5. CASE Untimed(c)
  <2>1. UNCHANGED cfgVars
    BY <1>5 DEF Untimed
  <2>2. ASSUME NEW m \in Motors, NEW k \in Commands, Call(c, m, k)
        PROVE  Result
    BY <1>1, <1>3, <2>1, <2>2, CallHasEffect, CommandsAssumption
  <2>3. CASE Gate(c)
    BY <1>1, <1>3, <2>1, <2>3, GateHasEffect
  <2>4. CASE (\E t \in EstopTicks : Estop(c, t)) \/ EstopRelease(c)
    BY <1>1, <2>1, <2>4 DEF Estop, EstopRelease, Client
  <2>5. CASE OverrideOnce(c)
    BY <1>2, <2>1, <2>5 DEF OverrideOnce
  <2>6. ASSUME NEW m \in Motors, MeasureLock(c, m)
        PROVE  Result
    <3>1. /\ cl'[c].pc = "lock" /\ cl'[c].det = cl[c].det /\ ~cl[c].det
          /\ cl[c].pc \in {"idle", "series"}
          /\ \A d \in Clients \ {c} : cl'[d] = cl[d]
      BY <1>1, <1>2, <2>6 DEF MeasureLock, Client
    <3>2. QED  BY <2>1, <3>1
  <2>7. QED  BY <1>5, <2>2, <2>3, <2>4, <2>5, <2>6 DEF Untimed
<1>6. ASSUME NEW m \in Motors, TDetect(c, m)
      PROVE  Result
  <2>1. /\ cl[c].pc = "idle" /\ ~cl[c].det /\ cl'[c].pc = "idle" /\ cl'[c].det
        /\ \A d \in Clients \ {c} : cl'[d] = cl[d]
    BY <1>1, <1>6 DEF TDetect, Detect, Client
  <2>2. QED  BY <1>6, <2>1 DEF TDetect, Begins
<1>7. CASE TDetectEnd(c)
  <2>1. /\ cl[c].pc = "idle" /\ cl[c].det /\ cl'[c].pc = "idle" /\ ~cl'[c].det
        /\ \A d \in Clients \ {c} : cl'[d] = cl[d]
    BY <1>1, <1>7 DEF TDetectEnd, DetectEnd, Client
  <2>2. QED  BY <1>7, <2>1 DEF TDetectEnd, Ends
<1>8. CASE TMeasureDrive(c)
  <2>1. /\ cl[c].pc = "lock" /\ ~cl[c].det /\ cl'[c].pc = "measure" /\ ~cl'[c].det
        /\ \A d \in Clients \ {c} : cl'[d] = cl[d]
    BY <1>1, <1>2, <1>8 DEF TMeasureDrive, MeasureDrive, Client
  <2>2. QED  BY <1>8, <2>1 DEF TMeasureDrive, Begins
<1>9. ASSUME NEW stop \in BOOLEAN, TMeasureEnd(c, stop)
      PROVE  Result
  <2>1. /\ cl[c].pc = "measure" /\ ~cl[c].det /\ cl'[c].pc \in {"idle", "series"} /\ ~cl'[c].det
        /\ \A d \in Clients \ {c} : cl'[d] = cl[d]
    BY <1>1, <1>2, <1>9 DEF TMeasureEnd, MeasureEnd, Client
  <2>2. QED  BY <1>9, <2>1 DEF TMeasureEnd, Ends
<1>10. QED  BY <1>4, <1>5, <1>6, <1>7, <1>8, <1>9 DEF TClientStep

LEMMA SenderKeepsSaves ==
  ASSUME NEW c \in Senders, TInv, Saves, TClientStep(c)
  PROVE  Saves'
<1>1. /\ Begins(c) \/ Ends(c) \/ GoesOn(c)
      /\ OneWay(c)'
      /\ \A d \in Senders \ {c} : cl'[d] = cl[d]
  BY SenderSteps DEF Senders
<1>2. saved \in [Clients -> Configs] /\ c \in Clients
  BY DEF TInv, TimeTypes, Senders
<1>3. \A d \in Senders : OneWay(d)'
  BY <1>1 DEF Saves, OneWay
<1>4. \A d \in Senders \ {c} : Measures(d)' = Measures(d)
  BY <1>1 DEF Measures
<1>5. OthersMeasure(c)' = OthersMeasure(c)
  BY <1>4 DEF OthersMeasure
<1> DEFINE Rest == /\ ~overlap' => \A d \in Senders : Sole(d)'
                   /\ ~overlap' /\ (\A d \in Senders : ~Measures(d)') => tcfg' = "app"
<1>6. CASE Begins(c)
  <2>1. /\ overlap' = (overlap \/ OthersMeasure(c)) /\ Measures(c)' /\ ~Measures(c)
        /\ saved'[c] = tcfg
    BY <1>2, <1>6 DEF Begins, SaveConfig
  <2>2. ASSUME ~overlap'
        PROVE  \A d \in Senders : Sole(d)'
    <3>1. ~overlap /\ ~OthersMeasure(c)
      BY <2>1, <2>2
    <3>2. \A d \in Senders \ {c} : ~Measures(d)
      BY <3>1 DEF OthersMeasure
    <3>3. tcfg = "app"
      BY <2>1, <3>1, <3>2 DEF Saves
    <3>4. Sole(c)'
      BY <1>5, <2>1, <3>1, <3>3 DEF Sole
    <3>5. \A d \in Senders \ {c} : Sole(d)'
      BY <1>4, <3>2 DEF Sole
    <3>6. QED  BY <3>4, <3>5
  <2>3. QED  BY <1>3, <2>1, <2>2 DEF Saves
<1>7. CASE Ends(c)
  <2>1. /\ overlap' = (overlap /\ (OthersMeasure(c) \/ saved[c] # "app"))
        /\ tcfg' = saved[c] /\ ~Measures(c)' /\ Measures(c)
    BY <1>7 DEF Ends, RestoreConfig
  <2>2. ASSUME ~overlap'
        PROVE  saved[c] = "app" /\ ~OthersMeasure(c)
    BY <2>1, <2>2 DEF Saves, Sole
  <2>3. ASSUME ~overlap', NEW d \in Senders
        PROVE  ~Measures(d)'
    BY <1>4, <2>1, <2>2, <2>3 DEF OthersMeasure
  <2>4. QED  BY <1>3, <2>1, <2>2, <2>3 DEF Saves, Sole
<1>8. CASE GoesOn(c)
  <2>1. UNCHANGED <<tcfg, saved, overlap>> /\ \A d \in Senders : Measures(d)' = Measures(d)
    BY <1>4, <1>8 DEF GoesOn, cfgVars
  <2>2. \A d \in Senders : OthersMeasure(d)' = OthersMeasure(d)
    BY <2>1 DEF OthersMeasure
  <2>3. \A d \in Senders : Sole(d)' = Sole(d)
    BY <2>1, <2>2 DEF Sole
  <2>4. QED  BY <1>3, <2>1, <2>3 DEF Saves
<1>9. QED  BY <1>1, <1>6, <1>7, <1>8

LEMMA SavesInit == TInit => Saves
BY DEF TInit, Init, NoClient, Saves, Sole, OneWay, Measures, Senders

LEMMA SavesNext == TInv /\ Saves /\ [TNext]_timeoutVars => Saves'
<1> SUFFICES ASSUME TInv, Saves, [TNext]_timeoutVars PROVE Saves'
  OBVIOUS
<1>1. ASSUME UNCHANGED cfgVars, \A d \in Senders : cl'[d] = cl[d]
      PROVE  Saves'
  <2>1. \A d \in Senders : Measures(d)' = Measures(d) /\ OneWay(d)' = OneWay(d)
    BY <1>1 DEF Measures, OneWay
  <2>2. \A d \in Senders : OthersMeasure(d)' = OthersMeasure(d)
    BY <2>1 DEF OthersMeasure
  <2>3. \A d \in Senders : Sole(d)' = Sole(d)
    BY <1>1, <2>1, <2>2 DEF Sole, cfgVars
  <2>4. QED  BY <1>1, <2>1, <2>3 DEF Saves, cfgVars
<1>2. ASSUME NEW c \in Senders, TClientStep(c) PROVE Saves'
  BY <1>2, SenderKeepsSaves
<1>3. ASSUME NEW k \in KillInputs, Move(k) PROVE Saves'
  BY <1>1, <1>3 DEF Move, gateVars
<1>4. CASE Age
  BY <1>1, <1>4 DEF Age, gateVars
<1>5. CASE Drives
  BY <1>1, <1>5 DEF Drives, FocTimer
<1>6. CASE TTick
  BY <1>1, <1>6 DEF TTick
<1>7. CASE TmoBrake
  <2>1. \A d \in Clients \ {Thread} : cl'[d] = cl[d]
    <3>1. tmo.motor \in Motors /\ BrakeCommand \in AllCommands /\ Thread \in Clients /\ TypeOK
      BY TimeoutAssumption DEF TInv, GateInv, TimeTypes, TmoState, BrakeCommand, AllCommands
    <3>2. CASE Call(Thread, tmo.motor, BrakeCommand) \/ Gate(Thread)
      <4>1. GateEffect(Thread)
        BY <3>1, <3>2, CallHasEffect, GateHasEffect
      <4>2. QED  BY <4>1 DEF GateEffect
    <3>3. CASE Apply(Thread)
      BY <3>1, <3>3, GateMoves DEF Apply
    <3>4. QED  BY <1>7, <3>2, <3>3 DEF TmoBrake
  <2>2. QED  BY <1>1, <1>7, <2>1 DEF TmoBrake, Senders
<1>8. CASE TmoRead \/ TmoRelease \/ TmoIgnore \/ TmoWake
  BY <1>1, <1>8 DEF TmoRead, TmoRelease, TmoIgnore, TmoWake, gateVars
<1>9. CASE UNCHANGED timeoutVars
  BY <1>1, <1>9 DEF timeoutVars, gateVars
<1>10. QED  BY <1>2, <1>3, <1>4, <1>5, <1>6, <1>7, <1>8, <1>9 DEF TNext, TimeoutThread

\* When nobody measures or detects, the settings of the application are in force,
\* however the routines of the threads follow upon each other and the timeout thread
\* comes in between: but after an overlap of two, until the application's settings
\* are put back with nobody else measuring.
THEOREM SettingsComeBack == TSpec => []ConfigRestored
<1>1. TInit => TInv /\ Saves
  BY TInvInit, SavesInit
<1>2. TInv /\ Saves /\ [TNext]_timeoutVars => TInv' /\ Saves'
  BY TInvNext, SavesNext
<1>3. Saves => ConfigRestored
  BY DEF Saves, Senders, ConfigRestored
<1>4. QED  BY <1>1, <1>2, <1>3, PTL DEF TSpec
=============================================================================
