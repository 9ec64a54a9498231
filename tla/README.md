# A TLA+ verification development for the xESC firmware

The xESC firmware is a VESC-derived motor controller firmware: a few dozen
ChibiOS threads and interrupts on one STM32F4 core that share plain global
variables. Its loops and filters are numeric and out of TLC's reach. What can be
checked, and is hard to test, is everything around them: who may start the
motor and what stops it, what survives a power loss, what happens to a command
that several threads hand over at once, which packets survive a bus that loses
and interleaves frames, what a board decides about itself before it drives a motor, and when a
remote control's input may do so. That is what this directory models.

Paths are those of the repository. `PROJECT.json` lists the components, every
run, the code lines of every definition (`map`), one mutant of the code
definitions per checked property, the disagreements found, the hazards and the
theorems.

## 1. The system

Execution model. ChibiOS schedules by priority, round robin among equals
(quantum of 4 ticks at 10 kHz). Nearly all threads have `NORMALPRIO`: the
1 ms timer thread, the timeout thread, the receivers of USB, UART and CAN, the
blocking thread, the apps. They may be preempted between any two accesses to
shared variables. The reader of the CAN frames runs at `NORMALPRIO + 1`, the
fault thread at `HIGHPRIO - 3`, the flash check at `LOWPRIO`. Interrupts (ADC,
timers) come between any two steps. `utils_sys_lock_cnt` masks interrupts, and
flash writes run inside it.

| Component | State | Operations | Shares / calls | Hard behaviour | Correct means |
|---|---|---|---|---|---|
| Motor gate, faults, drive state (`motor/mc_interface.c`, `motor/mcpwm_foc.c`) | ignore time, lock, one-shot override, latched fault, persistent fault, `m_init_done`, one fault slot, drive state | `mc_interface_set_*`, `try_input`, `lock*`, `ignore_input*`, `release_motor*`, `fault_stop`, reconfiguration, measurements | called by every app, command, CAN and the timeout; drives FOC | test and use apart; unlocked decrement; one slot for all faults; interrupts | a closed gate starts nothing; a fault stops the motor; everything opens again |
| Timeout and kill switch (`timeout.c`) | time of last command, settings, `has_timeout`, `kill_sw_active`, watchdog counters | `timeout_reset`, `timeout_configure`, the 10 ms thread | brakes and releases through the gate; measurements save and restore its settings | edge-triggered release, overlapping save and restore | no commands, no motion; settings come back |
| Detection (`conf_general.c`, `motor/mcpwm_foc.c`) | saved configurations, lock, timeout settings | detect parameters, resistance, inductance, linkage, offset calibration | locks the gate, drives past it | error paths, overlap | everything restored, nobody else drives |
| EEPROM emulation (`driver/eeprom.c`) | two flash pages, headers and slots | `EE_Init`, `EE_ReadVariable`, `EE_WriteVariable`, page transfer, format | below every stored configuration | power loss in every step | each write whole or not at all |
| Configuration storage (`conf_general.c`, `datatypes.h`) | records with CRC, `g_backup` in surviving RAM | init, read, store of motor, app, custom, backup data | releases the motor, masks interrupts, writes the EEPROM | torn records, partial failure, return codes | read whole or not at all; device keeps its CAN id |
| Blocking commands (`comm/commands.c`) | one buffer, length, motor, reply function, `is_blocking` | accept, discard, run, reply | receivers to the blocking thread by an event | equal priorities, boot | one at a time, never stuck |
| CAN transport (`comm/comm_can.c`) | three receive buffers, frame ring, last id | send buffer, fill, process, ping, status | `commands_process_packet` of the receiver | lost and interleaved frames | only whole packets, buffers heal |
| Serial framing (`comm/packet.c`, used by `comm/comm_usb.c`, `applications/app_uartcomm.c`) | receive buffer with two pointers, `bytes_left` | process byte, send packet, reset | `commands_process_packet` of the receiver | lost, damaged and inserted bytes; a port restarted by the packet it is processing | only what was sent, in order and once; nothing that arrived whole is skipped |
| Boot and identity (`main.c`, `hwconf/xtech/xesc_all_variants`, `flash_helper.c`) | OTP pairs, `g_xesc2_variant`, fatal flag, persistent fault, stored CRC and its flag | detect the variant, verify the image, latch the fault, set up the PWM, the integrity thread, `otp_brand` | latches the fault of the gate; writes flash | power loss in any cell, flash damage while running, two terminals | invalid means off; a changed image is not run for intact; a rebranding applies |
| Firmware update (`flash_helper.c`) | new app area, code areas, CRCs | erase, write, verify, boot loader | commands | partial writes | nothing unverified runs |
| Pools, worker, events (`util/mempools.c`, `util/worker.c`, `events.c`) | taken flags, one job, ring | allocate, free, execute, add | everywhere | no locks | no double use |
| Input apps (`applications/app_ppm.c` and others) | `pulses_without_power`, `servoError`, direction state | the PPM thread, configure | gate, timeout, other controllers over CAN | stale input, reconfiguration at any time | safe start; reverse is earned |
| BMS, shutdown (`bms.c`, `hwconf/shutdown.c`) | node values, sampling | periodic threads | gate, storage | nodes come and go, order at power off | limits in force, data stored |
| Six-step drive, encoders, mathematics, gate drivers, IMU | numeric state | - | the gate | numeric | not a matter for TLC |
| UAVCAN, NRF/LoRa, LispBM, terminal, OTP tool, vendored code | - | - | - | - | see section 8 |

The hazards, one line each, with the code line where they bite and the
properties that watch them, are in `PROJECT.json` under `hazards`.

## 2. The modules

| Module | Models | Extends |
|---|---|---|
| `MotorGate` | gate, lock, ignore time, fault thread, timer thread, drive state, measurements, reinitialisation | - |
| `MotorTimeout` | timeout thread, kill switches, saved settings | composes with `MotorGate` |
| `EepromStore` | abstract: an atomic store | - |
| `Eeprom` | two pages, transfer, recovery, power loss; refines `EepromStore` | - |
| `ConfStore` | records with CRC and backup over the abstract store | `EepromStore` |
| `BlockingCmd` | hand-over of blocking commands | - |
| `CanBuffer` | fragments and receive buffers | - |
| `PacketChannel` | abstract: a channel that loses packets | - |
| `PacketFraming` | frames on a serial line, resynchronisation; refines `PacketChannel` | - |
| `Boot` | identity, image CRC, persistent fault, integrity thread, `otp_brand` | - |
| `AppPpm` | the PPM app: safe start, lost signal, direction logic, forwarding | - |
| `MCEeprom`, `MCCanBuffer`, `MCPacketFraming` | sequences and functions that instantiate constants for TLC | the modules of their names |
| `MotorProofs`, `EepromProofs`, `ConfStoreProofs`, `BlockingCmdProofs`, `CanBufferProofs`, `BootProofs`, `AppPpmProofs`, `PacketFramingProofs` | theorems and proofs | the modules of their names (`MotorProofs`: `MotorTimeout`, which extends `MotorGate`), `TLAPS` |

Definitions that a comment calls a mutant are plausible bugs of the code; they
take part in no specification. They exist to show that the properties notice.

### MotorGate

| Variable | Code |
|---|---|
| `persistent`, `initDone`, `hwOn` | `m_persistent_fault`; `m_init_done`; are timers and ADC set up |
| `foc[m]` | of `motor_all_state_t`: `m_state`, `m_control_mode` (whether `timer_update` may end it), is a current asked for, `m_motor_released`, `m_phase_override`, is the bridge driven |
| `latch`, `ignore`, `locked`, `token` | `m_fault_now`, `m_ignore_iterations`, `m_lock_enabled`, `m_lock_override_once` |
| `fdata`, `pend`, `fthr` | `m_fault_data`, the event of the fault thread, what it has copied |
| `cond` | the physical conditions that faults are raised for |
| `tick` | `run_timer_tasks`: its step and the register of `m_ignore_iterations--` |
| `cl` | a thread: its step, its motor, its command, whether it is a detection |

A command is one step per load of a shared flag, as in the code: `Call` tests the
persistent fault and loads `m_ignore_iterations` for the result of
`mc_interface_try_input` (line 1868), `SecondLoad` loads it again for the lock
(line 1870), then `TestLock`, `TestOverride`, `TakeToken` (the override is read and
cleared apart), `TestInit`, and `Apply` calls the drive; anything may come between.
So there are two ways into a closed gate, and `ClosedGateHolds` names both: the lock
is opened before a call looks at it, and an ignore time that begins between the two
loads makes a call skip the lock. The decrement of the
ignore time is four accesses (`TickCheck`, `TickLoad`, `TickStore`, or
`TickClear`). The fault slot is written member by member by threads, at once by
interrupts, and copied in two steps by the fault thread. `NoFaultWork` says that
the fault thread comes before every other thread. Commands are of five kinds,
by what they do to the drive state: duty, a speed below the minimum (sets a
mode, starts nothing), a current, a current of zero, a release. Everything that
feeds back from the motor is abstracted: `m_current_off_delay`, field weakening
and the ramps only delay.

### MotorTimeout

`TmoRead` evaluates the kill switch and the elapsed time, `TmoRelease` is the
edge-triggered release with the unlock, `TmoBrake` calls
`mc_interface_set_brake_current` for one motor after the other, `TmoIgnore` ends the
pass. For these calls the thread is a client of the gate as any other (`Thread`), with
the same steps. `brakes` is whether `timeout_brake_current` of the application is not
zero: the call then brakes ("brake"), else it lets the motor coast ("coast"). `switches` holds
the kill switches that are set (`Move` flips one). Time is a flag (`stale`):
nothing has called `timeout_reset` for `timeout_msec`. `tcfg` and `saved` are the
settings in force and those in the local variables of measurements and detections;
`overlap` is a history variable: measurements overlapped, and may have put settings
back out of order. Under "measuring" (one minute) nothing times out;
the longest routine gives up after ten seconds. One step each: release with
unlock, and saving the settings with the lock of a detection; no other thread
can tell them apart in a way the properties see. Faults and reconfiguration are
`MotorGate`'s subject and held still, so the timer thread's tasks are the ignore time
alone (`TLoad`, `TStore`, `TSkip`), and the start of the PWM by the interrupt is not
told from that of the drive. `Period` is how many ticks of the timer thread a pass of
the timeout thread takes at most; 0 leaves the two threads free of each other.

### Eeprom and EepromStore

A page is a header status and a sequence of slots. A slot is programmed value
first, address second (`ProgramData`, `ProgramAddress`), and a slot whose value
is `0xFFFF` is, until it has its address, indistinguishable from erased flash
(`AfterLoss`). `MarkReceive` to `MarkValid` are `EE_PageTransfer`; `Boot` is the
decision table of `EE_Init`, which takes up a transfer that was cut off in
another order (valid first, then erase). `PowerLoss` may come after any step. An
erase and a half word are each one step. `Store!StoreSpec` is checked as a
property: `Stored` names, for every state of the pages, which page counts for
which variable.

### ConfStore

The records of `conf_general.c` over `EepromStore`. Instead of hundreds of half
words the app configuration has three (the controller id, the rest, the CRC), the
backup two and a custom variable two. The CRC is collision-free by construction.
Any of `Threads` may store a record (`StoreVar`, `StoreApp`, `StoreBackup`), waits for
the motor (`NotReleased`, `MotorReleased`), and writes it with interrupts masked: `call`
is the one record being written. After an app configuration interrupts are on again
before `SetId` takes the id into the backup and the thread waits to store that
(`conf_general.c:421-425`): another thread's store may come between, and the older id
may be the one that stays in the backup. `Crash(keep)` is a power loss (the backup in
RAM is lost) or a watchdog reset (it is not). `FlashError` covers a write that failed
before or after it took effect. `confirmed`, `tried` and `settled` are history variables.

### BlockingCmd

Each field of the hand-over (`memcpy` in two halves, length, flag, motor, reply
function, event) is one step of the receiver in the order of the code (`After`),
and each read is one of the blocking thread. Packets come from the start: USB is
processed before `main_init_done`, and the boot sleeps for half a second.
`clash` is a history variable: calls that may have written over each other's
fields, because one was accepted while another was between the test of
`is_blocking` and its setting, or before the blocking thread was ready. It is
cleared by an acceptance that finds everybody idle.

### CanBuffer

A fragment is its packet and its position: which sender it is from is not on
the wire, and the model does not use it either. `AtOffset` and `First` are the
search for a buffer, `Put` the copy and the new offset, `Process` the frame that
closes a packet, with the reset of all buffers when none fits. Frames of one
thread keep their order (transmit FIFO, one mutex); different threads and nodes
interleave; `Lose` drops any frame. `mixed` is a history variable: a frame was lost, or
arrived while another packet under way was at its offset or no buffer was left
(`Apart`), and the buffers have not all been empty since. The direct call of
`decode_msg` on boards with two motors (`comm_can.c:293`) is not modelled.

### PacketFraming and PacketChannel

`rx`, `read` and `left` are the buffer between the two pointers of
`packet_state`, the read pointer and `bytes_left`. `ProcessByte` is all of
`packet_process_byte`: the shift when the buffer is full, the byte that only
counts down (`Wait`), and the search that tries every offset, takes whole
packets and throws away what cannot begin one (`Look`, `Decode`): `Loop` is that
loop, a function of the offset, and `Found` one turn of it. A byte on the
wire carries its value and, for the CRC, which payload it belongs to: a CRC
matches its own payload only. It also remembers which packet it was sent in, so
that the properties can speak of packets that arrived whole. The line loses,
changes and inserts single bytes (`Lose`, `Garble`, `Insert`); `Restart` clears
the port between two bytes, and `ProcessRestart` is a packet that does so from
inside the loop that found it. `Channel!Spec` is checked as a property.

### Boot

`PowerOn` is the detection of the variant, `VerifyImage`, `WriteFlag` and
`WriteCrc` are `flash_helper_verify_flash_memory`, `LatchFault` and
`McInterfaceInit` what `main` does with the result; `CheckChunk` is one part of
the integrity thread's sum. A pair has three cells (magic and version, data,
CRC), which `otp_brand` programs in that order, and a power loss leaves any
prefix with the next cell `Mixed`: flash bits are only cleared, so programming a
cell twice is `And`. `otp_brand` chooses a pair and programs it later; `TerminalFree`
is the mutex of the terminal (`comm/commands.c`), without which two terminals would
choose the same one. The host tool writes any pair that has no magic, without
`--force` (with it, it programs over pairs that are in use, which is not modelled), while a
debugger holds the device in reset (`HostBrands`, `HostCutOff`). The highest valid pair
wins, so a brand below one (`Below`) does not apply, whatever `otp_brand` prints. The image is a vector of damage counts; a CRC is the vector
it was computed over. `latest` and `born` are history variables. A failed
verification and a failed program halt for good, as in the code.

### AppPpm

`Disabled`, `SignalLost` and `Look` are the ways out of the top of the loop of
`ppm_thread`; `Continue` is an evaluation, in as many steps as it loads what the
threads that configure the app write: the switch over the control type, with the load
of the counter (`Switch`), its store (`StoreCount`), the comparison and the command of
the duty, speed and position types (`Test`, `Set`), the comparison for all (`Check`),
and what is sent at the end (`Drive`). `Copy` and `ResetCount` are
`app_ppm_configure`: the structure is copied field by field, then the counter reset;
calls of several threads may overlap. Either comes between any two steps, also
between `Switch` and `StoreCount`: then the reset is lost.

Inputs are classes of values that the branches tell apart: the servo value after
deadband, curve and ramp, the speed with its hysteresis, whether duty cycle and
current are low. `local` and `slaves` are the last commands that were sent; a
configuration leaves them, and what was sent last stays in force until something else
is. `Idled` is `did_idle_once`. `idles`, `inRow`, `checked`, `afterLoss` and `trail`
are history variables: idle evaluations in a row since the counter was reset, whether
safe start was on in all of them, whether what is being sent passed a comparison that
was verified. Abstracted: ramping and traction control, start, stop and detaching of
the servo, whether the gate accepts what is sent.

## 3. What is checked

Passing runs (TLC, all behaviours of the instance, no deadlock):

| Run | Shows | Bounds and why they suffice |
|---|---|---|
| `gate` | `TypeOK`; `PersistentBlocksPwm`: with a latched persistent fault no bridge is driven, whatever is sent, measured or reconfigured; `ClosedGateHolds`: while the gate is closed a quiet motor stays quiet, except for a measurement and the two ways in of a call between two of its loads; `FaultStopsMotor`: a lasting new fault stops the motor; `FaultsClear`: faults and ignore times run out after their causes | one motor and one client that may do everything, so every step of it meets every step of the interrupts, the fault thread and the timer thread; two fault codes (one the driver pin) that overwrite each other in the slot and the latch; commands that start, that end by themselves and that release; an ignore time of 1, which is under way, over, or set anew. 764,856 states. Several clients, two motors, longer times and the other commands are covered by the theorems |
| `timeout` | `TTypeOK`; `ConfigRestored`: settings are back once nobody measures, unless measurements overlapped; `TimeoutReleases`: once commands stop coming the motor stops, or brakes with a configured brake current, and stays so; `KillReleases`: a kill switch set between two passes does the same | one motor, one sender and the timeout thread as clients of the gate, with and without a brake current; the external kill switch, faults held still; an ignore time of one tick and timer ticks free of the passes (`Period` 0), which includes every length; no emergency stops, whose ignore times `gate` has. Overlapping measurements, more clients and motors are covered by the theorems of section 5. 851,808 states |
| `eeprom` | `ImplementsStore`, `ReadsStored`, `TypeOK` | two variables, two values (one `0xFFFF`), two power losses: a transfer and a recovery of it are each cut off once, and pages swap both ways; 7 slots, the fewest that meet `Room` (section 5) |
| `conf` | `ConfirmedReads`, `ConfWhole`, `IdSurvives`, `ConfTypeOK` | two threads, so that every step of a store meets every step of another; two words per half word give four configurations, the other records one value each (`Others`), as nothing depends on what is in them; crashes and errors are unbounded. 8,333,379 states |
| `blocking` | `TypeOK`, `AcceptsAgain`, `AcceptedRuns`: a command that was accepted without a clash finds the thread waiting and is itself the one that is run, and `RunsOneCallWithoutClash`: what is run is one call whole, unless calls have written over each other, and nothing of such a clash stays | two receivers from boot on, one motor, one command: a call is told by its sender. 551,644 states |
| `can` | `WholeWhenApart`: packets whose frames interleave without two of them being at the same offset are each processed whole, with their last frame; `GetsThrough`, `TypeOK` | packets of two and three fragments, two senders, the three buffers of the code; losses unbounded. 92,003 states |
| `packet` | `ImplementsChannel`: only what was sent is processed, in order and once; `NoneSkipped`: what arrived whole is delivered or still whole in the buffer, with fewer than six damages; `NeverOutOfSpace`; `PromptWhenClean`; `TypeOK` | bytes of 4 values instead of 256 and payloads of at most 4 instead of 512, so that both forms of the length occur and every byte value may look like a header, a length, a CRC or the stop byte; payloads that look like headers, and one too long to send; three packets and two damages of any kind anywhere, so that a damage may hit a packet, the resynchronisation after it and the packet that resynchronises |
| `boot` | `FallbackNeverArmed`: a board without an identity never gets its PWM; `ChangedIsNotIntact`: an image that changed since its CRC was stored is not taken for intact; `BrandApplies`: after a reset the board is what it was last branded above all valid pairs, or was being branded when that was cut off, which for a first brand may also leave the fallback; `RotIsFound`: a damage found while running leads to a reset and a halt, or to a repaired flag; `TypeOK` | two pairs, so that a brand is above, below or beside another, a known and an unknown identity, two terminals kept apart by `terminal_mutex`, an image of two parts, one power loss, two damages (image and flag, image and CRC, the same part twice). 1,143,846 states |
| `app_ppm` | `VerifiedDriveButSmart`: what drives the motor passed a comparison after enough idle evaluations in a row since the counter was reset, or with safe start off, but for the duty cycle of smart reverse; `LossHoldsAll`: after a lost signal no controller gets anything but a brake until then; `ReverseNeedsIdle`: forward, brake, idle, then reverse; `SafeStartEnds`: with an idle input the counter gets to its limit and stays there; `TypeOK` | the control types that differ (braking without reverse is smart reverse without its duty cycle), all safe start modes, configured between any two steps, `MIN_PULSES_WITHOUT_POWER` 2 instead of 50: the counter can be 0, counting and at its limit. 1,507,338 states, three minutes |

Counters are bounded by the constants `StopTicks`, `EstopTicks`, `KillTicks`
(durations), `Slots`, `MaxLosses`, `MaxRot` (flash, power losses, damages),
`MaxSent`, `MaxHarm` (packets and damages on a line), `MinPulses` (the value the
counter is compared with). Nothing else is cut. Deadlock is checked but in two
runs: in `packet` the sender may have nothing more to send, and in `boot` a device
whose image is damaged halts for good.

Disagreements. Three more runs each check one sentence of a comment or a document
that the code does not keep; `findings` in `PROJECT.json` quotes it:

| Run | Property | What happens |
|---|---|---|
| `timeout_kill` | `KillDisables` | a command in flight starts the motor after the kill switch has released it; the release is not repeated and the motor keeps running while the switch is set |
| `eeprom_init` | `FormatsBlankOnly` | power lost between the last two steps of a recovery leaves two valid pages, and the next `EE_Init` formats both |
| `ppm_smart` | `VerifiedDrive` | safe start sets the current to 0, and in the smart reverse mode a full reverse input then sets the reverse duty cycle all the same |

What the passing runs leave out because of this, and what else the models reach
without a property against it:

- `eeprom` sets `LossAnywhere` to FALSE, which excludes exactly the loss of
  `eeprom_init`. It also stays below the number of losses at which recoveries
  that were cut off have filled the receiving page: each appends its copies
  again, and with 4 slots and 4 losses `EE_Init` returns `PAGE_FULL` at every
  boot, and what was stored is not read. `NoneFull` and `Room` (section 5) say
  when that cannot be.
- `EepromStore` holds the variables in the table (`Tabled`). `conf_general_init`
  makes "sure that all relevant virtual addresses are assigned for page swapping"
  (`conf_general.c:67`), but lines 71 to 89 leave out those from
  `EEPROM_BASE_MCCONF_2` on, where boards with `HW_HAS_DUAL_MOTORS` store the second
  configuration (line 488), although `NB_OF_VAR` has room for it: the first transfer
  drops it. `eeprom` has every variable in the table; `EepromImplementsStore` is
  about any others beside it.
- `gate` has no emergency stop of 0 ms. One that falls between the test and the
  decrement of `m_ignore_iterations` leaves -1, which `TypeOK` admits and nothing
  counts down; `FaultsClear` does not hold then.
- No property says that a hold is never shortened: an emergency stop, a kill switch
  and the decrement that loses an update all shorten the time of a latched
  fault, and two calls may take one override.
- `timeout` has one measuring thread. Two overlapping ones may restore each other's
  settings and leave the timeout at a minute, without a kill switch, for good:
  `ConfigRestored` promises nothing from such an overlap on until the application's
  settings are put back with nobody else measuring.
- `MinIsZero` is FALSE in the runs of `MotorTimeout`: with `cc_min_current` 0 the
  timeout's own brake command starts the modulation after the release, and
  `TimeoutReleases` does not hold. Measurements pass no gate and start a motor
  under a kill switch; the properties about kill switches except them
  (`NoMeasurement`).
- `conf`: a store of a custom variable that gave up waiting for the motor returns
  100 (`conf_general.c:301`), which is true; `NotReleased` puts it into `confirmed`
  although it is not stored, and no property speaks of `confirmed.var`. The
  comment at line 266 promises a boolean.
- `blocking`: `RunsOneCall` itself does not hold. The comment at
  `commands.c:1654` promises one command at a time, but `is_blocking` is tested at
  1678 and set three lines on, so two receivers of equal priority pass together
  and mix their fields; and a command that is accepted before `main()` has
  finished loses its protection when the thread starts (line 2048).
- `packet`: `NoneSkipped` has one exception, `Eaten`. The start byte 3 of a long
  frame is also the stop byte; when a packet lost its stop byte, the next frame's
  start byte completes it and the whole frame behind it is lost. It also has a
  limit: fewer damages than the six bytes of the shortest frame. When an inserted
  byte looks like the start of a long packet whose own bytes are lost one by one, an
  earlier frame can take their place, and is swallowed as payload when the CRC
  matches: TLC finds that with eight damages (bytes of 8 values, a payload of 17).
- `boot`: the flag that says that the CRC is stored is written before the CRC
  (`flash_helper.c:343`, and the comment at line 319): a power loss between the two
  leaves a device that halts at every boot. `WriteFlag` and `PowerLoss` reach it.
- `boot`: `otp_brand` programs the first blank pair while the detection takes the
  highest valid one, so that after the host tool has written a higher pair,
  "programmed OK [...] Power-cycle to apply." (line 549 of the variants) does not
  apply: the run has such brands, and `BrandApplies` says that the board then stays
  what it is. A first brand that was cut off leaves a magic without an identity, and the
  board is the fallback until it is branded again. Also, the repository's README (line
  122) and the comment at line 446 give `otp_brand` a pair argument that the code does
  not take.
- `conf`: after two stores that overlapped the backup may have the id of the older one.
  A torn store later then gives the device that id: `IdSurvives` allows it for a store
  that was still under way when the newer one was settled (`UnderWay`), never for one
  that had ended.
- `app_ppm`: while safe start holds in the current types, only this controller's
  current is 0; with `multi_esc` the others are sent what the servo value asks
  for, so the properties about `VerifiedDrive` are about `local` only. A drive that has
  passed its comparison when a configuration comes is sent once more after it. The
  increment of the counter (line 296 and its like) may lose the reset of a
  configuration (line 62): the old count then goes on, and a configuration that puts
  safe start in force may drive at once if it was off before. After a configuration,
  and while safe start holds, the duty, speed and position types send nothing, and the
  last command stays in force: the timeout does not end it while pulses come, as lines
  126 to 128 reset that.

## 4. Fairness

- `MotorGate`: weak fairness of the fault thread, which has nearly the highest
  priority, and of the interrupt that repeats a fault while its cause lasts.
  Strong fairness of the 1 ms threads (`TickStep`, `FocTimer`): a fault thread
  that is woken again and again disables them in between, but handles a fault in
  microseconds and sleeps. Clients and physical conditions owe nothing.
- `MotorTimeout`: the same for the timeout thread (nothing disables it here),
  the timer thread and the FOC timer.
- `BlockingCmd`: a thread goes on with what it has begun; every command ends.
- `Boot`: `main` runs on, and the integrity thread, of the lowest priority, gets to
  run. That nothing loses power again is not assumed: the number of losses is
  bounded.
- `AppPpm`: the thread wakes at least every 2 ms and finishes what it has begun; that
  its input is idle, a control type set and nobody configures is a hypothesis of `SafeStartEnds`.
- `CanBuffer`: a thread sends all of a packet it has begun; that frames stop
  being lost is a hypothesis of the property, not fairness.
- `PacketFraming`, `Eeprom` and `ConfStore` assume none.

## 5. What is proved

The theorems hold for every value of the constants that satisfies the named
assumptions of the module, which TLC evaluates in its run.

| Module | Theorems | For any |
|---|---|---|
| `MotorProofs`, over `MotorGate` | `TypeCorrect`, `PersistentSafe` (`PersistentBlocksPwm`), `ClosedGate` (`ClosedGateHolds`) | clients, commands, fault codes, durations; one or two motors |
| `MotorProofs`, over `MotorTimeout` | `TimeoutTypeCorrect` (`TTypeOK`), `SettingsComeBack` (`ConfigRestored`) | the same, kill switches, ignore times, brake currents |
| `EepromProofs` | `EepromTypeCorrect` (`TypeOK`), `EepromImplementsStore` (`ImplementsStore`), `ReadsWhatIsStored` and `ReadsStoredUnlessFull` (`ReadsStored`); but for the types, power is not lost inside `EE_Init` with both pages valid | variables, tables, values, slots, power losses |
| `ConfStoreProofs` | `ConfTypeCorrect`, `ConfirmedIsRead`, `ReadsWhole` (`ConfWhole`), `KeepsId` (`IdSurvives`) | threads, numbers of calls, losses, errors; other values in the store; words of one bit |
| `BlockingCmdProofs` | `BlockingTypeCorrect`, `RunsWhatWasAccepted` (`RunsOneCallWithoutClash`) | receivers, motors, commands |
| `CanBufferProofs` | `CanTypeCorrect`, `WholeAsLongAsApart` (`WholeWhenApart`) | senders, packets, lengths, numbers of buffers |
| `BootProofs` | `BootTypeCorrect`, `FallbackStaysOff` (`FallbackNeverArmed`), `DamageIsSeen` (`ChangedIsNotIntact`), `BrandIsApplied` (`BrandApplies`) | pairs, identities, terminals, image sizes, losses and damages |
| `PacketFramingProofs` | `PacketTypeCorrect`, `SpaceSuffices` (`NeverOutOfSpace`), `PacketsImplementChannel` (`ImplementsChannel`), `CleanLinePrompt` (`PromptWhenClean`), `NoneIsSkipped` (`NoneSkipped`) | payloads, values of a byte (256 included), longest payload (512 included), looks of the CRC, noise, packets, damages |
| `AppPpmProofs` | `PpmTypeCorrect`, `DriveIsVerified` (`VerifiedDriveButSmart`), `LossHolds` (`LossHoldsAll`), `ReverseIsEarned` (`ReverseNeedsIdle`) | safe start counts, control types |

`MotorGate`. Neither invariant is inductive alone. `GateInv` is `TypeOK /\
CounterOK /\ BootOK`. `CounterOK` says that between the test of the counter and
its second load the counter is not negative: without it `TickLoad` could go below
-1. It holds because only `TickStore` writes a negative value and the timer
thread is not elsewhere then. `BootOK` says that a persistent fault implies that
peripherals are off, `m_init_done` is clear and nobody is inside a
reinitialisation: without the last part a thread that was past the test could
still set the hardware up, and since measurements pass no gate, the hardware is
all that keeps the bridge off. `GateInvInit` and `GateInvNext` (one step per
action) give `GateInvHolds`; `ClosedGateStep` is the action property, one step
per action: `GateStaysShut` and `CallFindsItShut` for the loads of a call, and
`OthersKeepQuiet` for the rest. The theorems hold also for `MinIsZero` and for emergency stops of
0 ms.

`MotorTimeout`. Every step of a client, a drive or the timer thread is one of the
gate (`GateSteps`), so `GateInvNext` carries over; the timeout thread's own steps
keep `GateInv` because they start no bridge (`ThreadKeepsGate`). For the settings,
`Saves` adds that, unless measurements have overlapped, at most one thread measures and
has saved the application's settings, and that a detection does not measure resistances
at the same time: it is this nesting that would save the settings of a measurement.

`Eeprom`. `EInv` is the types, `Shape` and `Phases`. `Shape` holds whatever is running:
an erased page is empty, and a page that receives beside the old one consists of
copies of what is current in that (`Kept`), but for the variable it was begun for,
which comes first (`First`).
So copies that cut-off recoveries append again say the same as the earlier ones, and a
slot that was cut off has a value but no address and says nothing (`Torn`, `CutOf`).
`Phases` is, for each step of each routine, what is in the pages then: while copying,
every variable the routine has passed is in the new page (`Done`); when
the old page is erased, all are (`Complete`). Each step of a routine is a lemma of its
own (`WriteStep` to `LossStep`) that gives the next phase and the effect on `Stored`:
none, or, in the step that writes the address, the value that is written (`Effect`). So
each step is a step of `EepromStore`, or a stutter where the variable is not in the
table.
`ReadsStored` can fail only where `EE_Init` gave up on a full page: that is
`ReadsStoredUnlessFull`. How often recoveries have to be cut off for that is
`ReadsWhatIsStored`: a page gets at most the variables of the table in each attempt,
so `Room`, more slots than `Len(VarTab) * (MaxLosses + 1)`, is enough (`RInv`). A page
of 16 KB has 4095 slots; `Room` is a bound for the worst case, in which every attempt
copies everything.

`ConfStore`. `IInv` has eight parts. `Stored`: a CRC in the store is that of a
configuration somebody tried to store. `Sound` and `Progress`: the call under way
writes a body with its own CRC, and has written the cells before the next.
`Requested`: the write under way is that of this cell. `Kept`: a confirmed
configuration is read and no store of one is under way. `Settled`: the backup has
the id of such a configuration, in flash and in RAM. `ThreadTypes`: a thread that stores a
configuration stores one that counts as tried, so that the id it will put into the backup,
however late, is allowed. (`Types` is the rest.)
`EffectKeeps` is the heart: whether a half word takes effect or not, nothing of
this is lost, so that returning, going on and crashing differ only in what the
call does next. `CrcInjective` excludes that a mix of two configurations has the
CRC of a third. The 16-bit CRC of the code may collide; the model leaves that out,
and its words are bits so that its `Crc` cannot.

`BlockingCmd`. `TypeOK` and, without a clash, four parts about where a call is:
in the hands of one receiver with the fields behind it written (`HandingOver`),
signalled and whole in the buffer (`Signalled`), being read (`Taken`), or over
(`Between`).

`CanBuffer`. Beside `TypeOK` (no buffer is longer than the longest packet, `Fits`) the
invariant says that, unless `mixed`, every packet under way has a buffer of its own
with its fragments so far, and no buffer holds anything else (`Home`). A frame that
arrives `Apart` finds exactly its own buffer at its offset (`FindsOwn`), or takes an
empty one, so `FillHomes` and `ProcessHomes` carry the assignment on; from `Clean`
buffers it begins anew (`CleanHomes`). `LeastNat`, `FirstIsOne` and `FirstOfOne` are
about the search for a buffer, `PutTypes` about the copy.

`Boot`. `Armed`: with the PWM set up no fatal error was latched and the variant
is no fallback. `Imaged`: the image has its type, which no other mark shares.
`Computed`: the stored CRC is blank, spoilt, or that of the image at the time it
was stored. For `BrandApplies`, `Branding`: a terminal that brands is the only one, and
has a pair without a magic. `Ordered`: a pair whose first cell is blank is blank, as
cells are programmed in order. `Identified`: what the detection would find now is one of
`latest`, and no identity, or a spoilt pair, is found only if `latest` explains it.
`WriteKeeps` is the heart, for `otp_brand` and the host tool alike: a pair without a magic
that is programmed, wholly or in part, becomes the active one if it is whole and
above the valid ones, and changes nothing that is found otherwise.

`PacketFraming`. The loop of `packet_process_byte` is a function that calls itself.
That it is well defined for every buffer is `LoopIs`: a function of the last k
offsets exists for every k, for the least k without one would have a predecessor with
one (`LeastNat`). `Downwards` is the same argument for what holds of every offset. The
induction theorems of the library, which the provers cannot instantiate, are not
needed. `TryDecodeIs` says what is found at an offset in three cases, `DecodeIs`
what the loop returns. `PInv` then has `Sizes`, that the bytes there are and the
bytes waited for are at most the longest frame, which is why the buffer never runs out;
and `Lined`: the CRCs between the two ends are of packets after the last one
processed, in order and each once. A packet is processed only where a CRC matches,
and the search goes on behind it, so `Lined` makes every step one of the channel
(`PacketStep`). `Clean` says that on an undamaged line there is one frame between the
ends and no byte is waited for that does not come. For `NoneSkipped`, `Kept` has
`Traced`: a CRC is as far behind the bytes of earlier packets as it was sent
behind the start of its own, but for one byte per damage. The only way to skip a whole
frame is to take it for payload of a later packet; its bytes and the later header's
would have to be in the place of lost ones, and a frame has at least six (`Scan`,
`NoneOver`, `KeptStep`). The CRC of the model matches its own payload only; a
collision of the 16-bit CRC is left out.

`AppPpm`. `Counted` relates the counter of the code to the history of the inputs
(`idles`): between evaluations it is not ahead of them (`Settled`), and within one only
where the comparison will start it anew; what was loaded and is not stored yet has its
own clause, since a reset in between is lost. `LossKept` relates the flag `servoError`
to `afterLoss`, `IdleKept` `did_idle_once` to `trail`, and `Kinds`, `Cleared` and
`Earned` say, for each step of an evaluation, what was found before it. Without them the
code's state could claim idleness that the input never had.

## 6. What is only model-checked

- Liveness under fairness (`FaultStopsMotor`, `FaultsClear`, `TimeoutReleases`,
  `KillReleases`, `AcceptsAgain`, `AcceptedRuns`, `GetsThrough`, `RotIsFound`,
  `SafeStartEnds`), which the prover cannot do.

No module uses a RECURSIVE operator.

## 7. Plan

Modelled, checked and, as above, proved: the modules of section 2. What a
continuation would take up, in this order:

1. `Detection` (`conf_general.c`, `mcpwm_foc.c`): lock, override and restore with
   every error path and `mcpwm_foc_dc_cal`, which unlocks a motor that another
   routine may have locked (`mcpwm_foc.c:2681`), over the gate.
2. The watchdog in `MotorTimeout`: fed threads, flash writes, reset while driven.
3. `CanPing` (`comm/comm_can.c`): ping (two threads share `ping_tp` and the last id,
   line 660), reply path, `rx_buffer_last_id`, frame ring; the rings of USB and UART.
4. `Mempools`, `Worker`, `Events` (`util/`, `events.c`): claims without a lock.
5. The ADC, nunchuk and PAS apps, `bms.c`, `hwconf/shutdown.c`; firmware update
   (`flash_helper.c`, `bootloader`).

## 8. Not modelled, and why

- Control loops, observers, encoders, digital filters, IMU fusion, the six-step
  drive's commutation: floating point.
- Gate driver registers, UAVCAN, NRF and LoRa: peripheral protocols; the radios
  are not on xESC boards.
- LispBM: the interpreter is vendored; its bindings call the functions above.
- Terminal, logging, serialisation of the configuration: formatting.
- ChibiOS and other vendored code, by far the most of the lines of the repository:
  what the models assume of it is in section 1.
- Flash: an erase that a power loss interrupts may leave any contents; the models
  take it as one step. The contents of the code areas (firmware, QML, Lisp) are
  not modelled, only the CRC of the running image.
- Time: durations are ticks or flags; the watchdog period is not modelled.
- The mutexes and byte rings of USB and UART: what the framing sees of them, lost
  bytes and restarts, is.
