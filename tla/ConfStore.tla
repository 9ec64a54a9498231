------------------------------ MODULE ConfStore ------------------------------
(***************************************************************************)
(* What conf_general.c keeps in the emulated EEPROM, over the store of     *)
(* EepromStore: a custom variable of two half words, the app configuration *)
(* with its CRC, and the backup data with the CAN id that a device whose   *)
(* configuration is lost goes back to.                                     *)
(*                                                                         *)
(* Any thread may store a record, each at its own pace: it waits for the   *)
(* motor to be released, writes the record half word by half word, and     *)
(* after an app configuration goes on to the backup. Only the writing is   *)
(* done with interrupts masked, so that no other thread comes in between;  *)
(* a power loss, a watchdog reset or a flash error may. The motor          *)
(* configuration is stored and read like the app configuration, without    *)
(* the backup.                                                             *)
(***************************************************************************)
EXTENDS EepromStore, Naturals, Sequences

CONSTANTS Threads,   \* that store records: receivers, the terminal, the shutdown
          Words,     \* what a half word of a configuration may be
          Others,    \* what one of the other records may be
          DefaultId  \* HW_DEFAULT_ID

Kinds == {"var", "app", "backup"}
Cells == [var |-> <<"hi", "lo">>, app |-> <<"id", "rest", "crc">>,
          backup |-> <<"odometer", "can_id">>]

ASSUME CellsAssumption == Vars = UNION {{Cells[k][i] : i \in DOMAIN Cells[k]} : k \in Kinds}
ASSUME WordsAssumption ==
  Words \subseteq {0, 1} /\ {0, DefaultId} \subseteq Words /\ Others \subseteq Words
ASSUME ValuesAssumption == 0..3 \subseteq Values /\ None \notin Words \X Words

VARIABLES
  thr,       \* per thread: where it is in a store routine, the kind, what it stores
  call,      \* the record being written: kind, step, next cell, words, thread
  ram,       \* g_backup, in memory that survives a reset; None when it is lost
  confirmed, \* history, per kind: what a call that returned true has stored
  tried,     \* history: app configurations since the last one stored with its backup
  settled    \* history: has there been such a one?

histVars == <<confirmed, tried, settled>>
confVars == <<storeVars, thr, call, ram, histVars>>

\* app_calc_crc over the two words of the body: no two bodies share theirs.
Crc(body) == 2 * body[1] + body[2]

Off == [kind |-> "var", pc |-> "off", idx |-> 1, val |-> <<>>]
Ready == [Off EXCEPT !.pc = "idle"]
Writing(k, val) == [kind |-> k, pc |-> "write", idx |-> 1, val |-> val]

Idle == [pc |-> "idle", kind |-> "var", val |-> <<0, 0>>]
Waiting(k, val) == [pc |-> "wait", kind |-> k, val |-> val]

ConfInit ==
  /\ StoreInit
  /\ thr = [t \in Threads |-> Idle]
  /\ call = Off
  /\ ram = None
  /\ confirmed = [k \in {"var", "app"} |-> None]
  /\ tried = {}
  /\ settled = FALSE

-----------------------------------------------------------------------------
(* Reading: None stands for what is not there, or fails its CRC *)

Read(k) == [i \in DOMAIN Cells[k] |-> store[Cells[k][i]]]
Complete(r) == \A i \in DOMAIN r : r[i] # None

ReadVar == IF Complete(Read("var")) THEN Read("var") ELSE None

ReadAppUnchecked == LET r == Read("app")   \* mutant: the CRC is not compared
                    IN  IF Complete(r) THEN <<r[1], r[2]>> ELSE None
ReadApp == LET r == Read("app")
           IN  IF Complete(r) /\ r[3] = Crc(r) THEN <<r[1], r[2]>> ELSE None

\* A configuration that is lost leaves the default, but the id of the backup.
CanId == IF ReadApp = None THEN ram[2] ELSE ReadApp[1]

\* conf_general_init: from the EEPROM, else from RAM, else the defaults.
LoadedRamOnly == IF ram # None THEN ram ELSE <<0, DefaultId>>   \* mutant
Loaded == IF Complete(Read("backup")) THEN Read("backup")
          ELSE IF ram # None THEN ram ELSE <<0, DefaultId>>

\* The motor is not set up yet, and there is no other thread: the backup is stored
\* without a wait.
Boot ==
  /\ call.pc = "off"
  /\ ram' = Loaded
  /\ call' = Writing("backup", Loaded)
  /\ UNCHANGED <<storeVars, thr, histVars>>

-----------------------------------------------------------------------------
(* Storing. With interrupts masked for a record, no thread gets on. *)

\* The distance driven is counted, or set, in RAM.
Drive(odometer) ==
  /\ call.pc = "idle"
  /\ ram' = <<odometer, ram[2]>>
  /\ UNCHANGED <<storeVars, thr, call, histVars>>

Begins(t, k, val) ==
  /\ call.pc = "idle" /\ thr[t].pc = "idle"
  /\ thr' = [thr EXCEPT ![t] = Waiting(k, val)]
  /\ UNCHANGED <<storeVars, call, ram, confirmed, settled>>

StoreVar(t, v) == Begins(t, "var", v) /\ UNCHANGED tried

StoreApp(t, body) == Begins(t, "app", body) /\ tried' = tried \cup {body}

\* From the shutdown routines.
StoreBackup(t) == Begins(t, "backup", <<0, 0>>) /\ UNCHANGED tried

\* A motor that another thread keeps driving is not released within 3 s.
NotReleased(t) ==
  /\ call.pc = "idle" /\ thr[t].pc = "wait"
  /\ thr' = [thr EXCEPT ![t] = Idle]
  /\ confirmed' = IF thr[t].kind = "var" THEN [confirmed EXCEPT !.var = thr[t].val]
                  ELSE confirmed   \* store_eeprom_var returns 100, the others false
  /\ UNCHANGED <<storeVars, call, ram, tried, settled>>

\* The words of a record are read when the lock is held: the backup as the RAM
\* has it then.
Record(k, val) == CASE k = "var" -> val
                    [] k = "app" -> Append(val, Crc(val))
                    [] k = "backup" -> ram

\* A stored app configuration takes its id into the backup, and stores that,
\* even if a half word of the configuration failed.
MotorReleased(t) ==
  /\ call.pc = "idle" /\ thr[t].pc = "wait"
  /\ call' = Writing(thr[t].kind, Record(thr[t].kind, thr[t].val))
  /\ thr' = [thr EXCEPT ![t] = IF thr[t].kind = "app" THEN [thr[t] EXCEPT !.pc = "id"] ELSE Idle]
  /\ confirmed' = [k \in DOMAIN confirmed |-> IF k = thr[t].kind THEN None ELSE confirmed[k]]
  /\ UNCHANGED <<storeVars, ram, tried, settled>>

\* Interrupts are on again: other stores may come between the two.
SetId(t) ==
  /\ call.pc = "idle" /\ thr[t].pc = "id"
  /\ ram' = <<ram[1], thr[t].val[1]>>
  /\ thr' = [thr EXCEPT ![t] = Waiting("backup", <<0, 0>>)]
  /\ UNCHANGED <<storeVars, call, histVars>>

\* Configurations whose store has not got as far as their id.
UnderWay == {thr[t].val : t \in {u \in Threads : thr[u].kind = "app"}}

Return(ok) ==
  LET body == <<call.val[1], call.val[2]>>
      current == confirmed.app # None /\ ok /\ call.kind = "backup"
                   /\ confirmed.app[1] = call.val[2]
  IN  /\ call' = Ready
      /\ confirmed' = [k \in DOMAIN confirmed |-> IF ok /\ k = call.kind THEN body ELSE confirmed[k]]
      /\ tried' = IF current THEN {confirmed.app} \cup UnderWay ELSE tried
      /\ settled' = (settled \/ current)
      /\ UNCHANGED <<thr, ram>>

\* Mutants: the last half word is left out, or one too many is written.
AdvancePast ==
  IF call.idx > Len(call.val) THEN Return(TRUE)
  ELSE call' = [call EXCEPT !.idx = @ + 1] /\ UNCHANGED <<thr, ram, histVars>>
AdvanceShort ==
  IF call.idx >= Len(call.val) - 1 THEN Return(TRUE)
  ELSE call' = [call EXCEPT !.idx = @ + 1] /\ UNCHANGED <<thr, ram, histVars>>

Advance ==
  IF call.idx = Len(call.val) THEN Return(TRUE)
  ELSE call' = [call EXCEPT !.idx = @ + 1] /\ UNCHANGED <<thr, ram, histVars>>

Cell == Cells[call.kind][call.idx]

\* EE_WriteVariable programs nothing when the value is stored already.
WriteSame ==
  /\ call.pc = "write" /\ request = None
  /\ store[Cell] = call.val[call.idx]
  /\ Advance
  /\ UNCHANGED storeVars

WriteCell ==
  /\ call.pc = "write"
  /\ store[Cell] # call.val[call.idx]
  /\ Request(Cell, call.val[call.idx])
  /\ UNCHANGED <<thr, call, ram, histVars>>

Written == Commit /\ Advance

\* No room, or an operation of a page transfer failed after the write took effect.
FlashError == (Commit \/ Abandon) /\ Return(FALSE)

\* Power is lost, or only the watchdog resets, which keeps the RAM.
Crash(keep) ==
  /\ call.pc # "off"
  /\ call' = Off
  /\ thr' = [t \in Threads |-> Idle]
  /\ ram' = IF keep THEN ram ELSE None
  /\ request # None => Commit \/ Abandon
  /\ request = None => UNCHANGED storeVars
  /\ UNCHANGED histVars

-----------------------------------------------------------------------------
ConfNext ==
  \/ Boot
  \/ \E x \in Others : Drive(x)
  \/ \E t \in Threads :
       \/ \E x, y \in Others : StoreVar(t, <<x, y>>)
       \/ \E x, y \in Words : StoreApp(t, <<x, y>>)
       \/ StoreBackup(t)
       \/ NotReleased(t) \/ MotorReleased(t) \/ SetId(t)
  \/ WriteSame \/ WriteCell \/ Written \/ FlashError
  \/ \E keep \in BOOLEAN : Crash(keep)

ConfSpec == ConfInit /\ [][ConfNext]_confVars

-----------------------------------------------------------------------------
Bodies == Words \X Words

\* Every variable keeps its type, and no cell of a record is passed over.
ConfTypeOK ==
  /\ store \in [Vars -> Values \cup {None}]
  /\ request \in [var : Vars, dat : Values] \cup {None}
  /\ thr \in [Threads -> [pc : {"idle", "wait", "id"}, kind : Kinds, val : Words \X Words]]
  /\ call \in [kind : Kinds, pc : {"off", "idle", "write"}, idx : 1..3, val : Seq(Values)]
  /\ call.pc = "write" => call.idx \in DOMAIN call.val
  /\ ram \in Bodies \cup {None} /\ (call.pc # "off" => ram # None)
  /\ confirmed \in [{"var", "app"} -> Bodies \cup {None}]
  /\ tried \subseteq Bodies /\ settled \in BOOLEAN

\* A configuration that a call confirmed is read back until the next one is
\* written, whatever power losses and other records come between.
ConfirmedReads == confirmed.app # None => ReadApp = confirmed.app

\* Whenever a configuration can be read, it is the last one that was stored with its
\* backup, one that somebody tried to store since, or was still storing then, or the
\* default: never a mix of two, wherever power was lost.
ConfWhole == call.pc = "idle" => ReadApp \in tried \cup {None}

\* Nor does a torn write cost the device its address: the CAN id after a boot is
\* that of one of those configurations, the default only before there was one.
IdSurvives == call.pc = "idle" /\ settled => CanId \in {body[1] : body \in tried}
=============================================================================
