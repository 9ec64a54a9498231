------------------------------- MODULE Eeprom -------------------------------
(***************************************************************************)
(* The EEPROM emulation of driver/eeprom.c: two flash pages that are logs  *)
(* of (value, address) slots, one of them valid, and the transfer of what  *)
(* is still current to the other page when one is full. Power may be lost  *)
(* between any two programming or erasing operations of the flash; EE_Init *)
(* puts the pages right at the next boot.                                  *)
(*                                                                         *)
(* A page erase and the programming of a half word are each one step.      *)
(***************************************************************************)
EXTENDS Integers, Sequences, SequencesExt

CONSTANTS
  Vars,        \* the virtual addresses that are written
  VarTab,      \* VirtAddVarTab: those of them that transfers copy, in order
  Values,      \* half words
  Blank,       \* 0xFFFF, the half word that programs nothing
  None,
  Slots,       \* (value, address) slots of a page behind its header
  MaxLosses,   \* bound: power losses of a behaviour
  LossAnywhere \* may power be lost while EE_Init has both pages valid?

ASSUME VarsAssumption == VarTab \in Seq(Vars) /\ IsInjective(VarTab)
ASSUME SlotsAssumption == Slots \in Nat /\ Slots > Len(VarTab)
ASSUME ValuesAssumption == Blank \in Values /\ None \notin Values
ASSUME NoneAssumption == None \notin Vars \cup {0, 1} \cup [var : Vars, dat : Values]
ASSUME LossAssumption == MaxLosses \in Nat /\ LossAnywhere \in BOOLEAN

VARIABLES
  page,   \* per page: header status and the slots programmed so far
  op,     \* the routine under way and its local variables
  losses  \* power losses so far

vars == <<page, op, losses>>

Pages == {0, 1}
Other(p) == 1 - p

\* A slot whose address was not programmed is lost to the page, unless its
\* value was Blank: then it is still erased flash.
Slot == [dat : Values, var : Vars \cup {None}]
Empty == [status |-> "erased", slots |-> <<>>]

-----------------------------------------------------------------------------
(* Reading *)

\* The value in the last slot of a page with this address, None without one.
LastIn(p, v) ==
  LET hits == {i \in DOMAIN page[p].slots : page[p].slots[i].var = v}
  IN  IF hits = {} THEN None ELSE page[p].slots[Max(hits)].dat

\* EE_FindValidPage, for reading and for writing: None is NO_VALID_PAGE.
ReadPage == IF page[0].status = "valid" THEN 0
            ELSE IF page[1].status = "valid" THEN 1 ELSE None

WritePage ==
  IF page[1].status = "valid" THEN IF page[0].status = "receive" THEN 0 ELSE 1
  ELSE IF page[0].status = "valid" THEN IF page[1].status = "receive" THEN 1 ELSE 0
  ELSE None

ReadVariable(v) == IF ReadPage = None THEN None ELSE LastIn(ReadPage, v)

Full(p) == Len(page[p].slots) = Slots

-----------------------------------------------------------------------------
Idle == [kind |-> "none", pc |-> "idle", var |-> None, dat |-> None,
         new |-> 0, idx |-> 1, first |-> FALSE]

Init ==
  /\ page = [p \in Pages |-> Empty]
  /\ op = [Idle EXCEPT !.pc = "off"]
  /\ losses = 0

Doing(pc) == op.pc = pc
Then(pc) == op' = [op EXCEPT !.pc = pc]
SetStatus(p, status) == page' = [page EXCEPT ![p].status = status]

-----------------------------------------------------------------------------
(* EE_WriteVariable *)

\* A write of the value that is stored already returns at once.
WriteVariable(v, d) ==
  /\ Doing("idle")
  /\ ReadPage # None
  /\ ReadVariable(v) # d
  /\ op' = [Idle EXCEPT !.kind = "write", !.pc = "dat", !.first = TRUE,
                        !.var = v, !.dat = d, !.new = Other(ReadPage)]
  /\ UNCHANGED <<page, losses>>

\* A full page starts EE_PageTransfer to the other one; a transfer that finds
\* that one full as well gives up.
PageFull ==
  /\ op' = IF op.kind = "write" THEN [op EXCEPT !.kind = "transfer", !.pc = "receive"]
           ELSE Idle
  /\ UNCHANGED page

\* Mutant: the end of the page is not noticed.
ProgramDataPast ==
  /\ Doing("dat")
  /\ page' = [page EXCEPT ![WritePage].slots = Append(@, [dat |-> op.dat, var |-> None])]
  /\ Then("var")
  /\ UNCHANGED losses

\* EE_VerifyPageFullWriteVariable: the value goes to the first erased slot ...
ProgramData ==
  /\ Doing("dat")
  /\ IF Full(WritePage) THEN PageFull
     ELSE /\ page' = [page EXCEPT ![WritePage].slots =
                        Append(@, [dat |-> op.dat, var |-> None])]
          /\ Then("var")
  /\ UNCHANGED losses

\* ... and then the virtual address.
Addressed(slots, v) == [slots EXCEPT ![Len(slots)].var = v]

ProgramAddress ==
  /\ Doing("var")
  /\ page' = [page EXCEPT ![WritePage].slots = Addressed(@, op.var)]
  /\ op' = IF op.kind = "write" THEN Idle
           ELSE [op EXCEPT !.pc = "copy", !.first = FALSE]
  /\ UNCHANGED losses

-----------------------------------------------------------------------------
(* EE_PageTransfer, and the transfer EE_Init takes up again *)

MarkReceive ==
  /\ Doing("receive")
  /\ SetStatus(op.new, "receive")
  /\ Then("dat")
  /\ UNCHANGED losses

\* Mutant: EE_Init copies every variable, also the one that was written.
IsWrittenForgotten(v) == op.var = v

\* EE_Init takes the variable of the first slot for the one that was written.
IsWritten(v) ==
  IF op.kind = "recover"
  THEN page[op.new].slots # <<>> /\ Head(page[op.new].slots).var = v
  ELSE op.var = v

\* The variables still to be copied from here on: those that were ever written.
Current(i) == ~IsWritten(VarTab[i]) /\ ReadVariable(VarTab[i]) # None

\* The written one is remembered in var while a transfer copies the others.
CopyNext ==
  LET left == {i \in op.idx..Len(VarTab) : Current(i)}
      v == VarTab[Min(left)]
  IN  /\ Doing("copy")
      /\ IF left = {}
         THEN Then(IF op.kind = "recover" THEN "valid" ELSE "erase") /\ UNCHANGED page
         ELSE IF Full(WritePage) THEN PageFull
         ELSE /\ page' = [page EXCEPT ![WritePage].slots =
                            Append(@, [dat |-> ReadVariable(v), var |-> None])]
              /\ op' = [op EXCEPT !.pc = "copied", !.idx = Min(left)]
      /\ UNCHANGED losses

CopyAddress ==
  /\ Doing("copied")
  /\ page' = [page EXCEPT ![WritePage].slots = Addressed(@, VarTab[op.idx])]
  /\ op' = [op EXCEPT !.pc = "copy", !.idx = @ + 1]
  /\ UNCHANGED losses

\* EE_PageTransfer erases the old page and then marks the new one valid;
\* EE_Init marks it valid first.
EraseOld ==
  /\ Doing("erase")
  /\ page' = [page EXCEPT ![Other(op.new)] = Empty]
  /\ op' = IF op.kind = "recover" THEN Idle ELSE [op EXCEPT !.pc = "valid"]
  /\ UNCHANGED losses

MarkValid ==
  /\ Doing("valid")
  /\ SetStatus(op.new, "valid")
  /\ op' = IF op.kind = "recover" THEN [op EXCEPT !.pc = "erase"] ELSE Idle
  /\ UNCHANGED losses

-----------------------------------------------------------------------------
(* EE_Init *)

Statuses(s, t) == {page[0].status, page[1].status} = {s, t}
HasStatus(s) == CHOOSE p \in Pages : page[p].status = s

\* Mutant: a transfer that was cut off is not taken up again.
BootNoRecover ==
  /\ Doing("off")
  /\ op' = IF \E p \in Pages : page[p].status = "valid" THEN Idle
           ELSE IF Statuses("erased", "receive")
           THEN [Idle EXCEPT !.kind = "promote", !.pc = "valid", !.new = HasStatus("receive")]
           ELSE [Idle EXCEPT !.kind = "format", !.pc = "erase0"]
  /\ UNCHANGED <<page, losses>>

Boot ==
  /\ Doing("off")
  /\ op' = IF Statuses("erased", "valid") THEN Idle
           ELSE IF Statuses("erased", "receive")
           THEN [Idle EXCEPT !.kind = "promote", !.pc = "valid", !.new = HasStatus("receive")]
           ELSE IF Statuses("receive", "valid")
           THEN [Idle EXCEPT !.kind = "recover", !.pc = "copy", !.new = HasStatus("receive")]
           ELSE [Idle EXCEPT !.kind = "format", !.pc = "erase0"]
  /\ UNCHANGED <<page, losses>>

\* EE_Format: page 0 is erased and valid, then page 1 is erased.
FormatErase ==
  /\ Doing("erase0")
  /\ page' = [page EXCEPT ![0] = Empty]
  /\ Then("valid0")
  /\ UNCHANGED losses

FormatValid ==
  /\ Doing("valid0")
  /\ SetStatus(0, "valid")
  /\ Then("erase1")
  /\ UNCHANGED losses

FormatEnd ==
  /\ Doing("erase1")
  /\ page' = [page EXCEPT ![1] = Empty]
  /\ op' = Idle
  /\ UNCHANGED losses

\* Power is lost. A slot of which nothing was programmed is erased flash still.
Unprogrammed(s) == s.dat = Blank /\ s.var = None
AfterLoss(p) ==
  LET s == page[p].slots
  IN  IF s # <<>> /\ Unprogrammed(Last(s)) THEN Front(s) ELSE s

PowerLoss ==
  /\ losses < MaxLosses
  /\ ~Doing("off")
  /\ LossAnywhere \/ ~(op.kind = "recover" /\ Doing("erase"))
  /\ page' = [p \in Pages |-> [page[p] EXCEPT !.slots = AfterLoss(p)]]
  /\ op' = [Idle EXCEPT !.pc = "off"]
  /\ losses' = losses + 1

-----------------------------------------------------------------------------
Next ==
  \/ \E v \in Vars, d \in Values : WriteVariable(v, d)
  \/ ProgramData \/ ProgramAddress
  \/ MarkReceive \/ CopyNext \/ CopyAddress \/ EraseOld \/ MarkValid
  \/ Boot \/ FormatErase \/ FormatValid \/ FormatEnd
  \/ PowerLoss

Spec == Init /\ [][Next]_vars

-----------------------------------------------------------------------------
\* Every variable keeps its type, and no page holds more slots than it has.
TypeOK ==
  /\ page \in [Pages -> [status : {"erased", "receive", "valid"}, slots : Seq(Slot)]]
  /\ \A p \in Pages : Len(page[p].slots) <= Slots
  /\ op \in [kind : {"none", "write", "transfer", "recover", "promote", "format"},
             pc : {"off", "idle", "dat", "var", "receive", "copy", "copied",
                   "erase", "valid", "erase0", "valid0", "erase1"},
             var : Vars \cup {None}, dat : Values \cup {None},
             new : Pages, idx : 1..(Len(VarTab) + 1), first : BOOLEAN]
  /\ losses \in 0..MaxLosses

-----------------------------------------------------------------------------
(* The refinement of EepromStore *)

\* The page a transfer was filling holds the new variable, and the valid page
\* every other one, until the old page is gone; with two valid pages the one
\* that is about to be erased no longer counts.
Receiver == {p \in Pages : page[p].status = "receive"}
Takes(p, v) == page[p].slots # <<>> /\ Head(page[p].slots).var = v

Stored(v) ==
  IF \E p \in Receiver : page[Other(p)].status = "erased" \/ Takes(p, v)
  THEN LastIn(CHOOSE p \in Receiver : TRUE, v)
  ELSE IF Statuses("valid", "valid") THEN LastIn(op.new, v)
  ELSE ReadVariable(v)

\* Only the variables in the table are stored for good: a transfer copies no other.
Tabled == {VarTab[i] : i \in 1..Len(VarTab)}

Requested ==
  IF op.first /\ op.var \in Tabled THEN [var |-> op.var, dat |-> op.dat] ELSE None

Store == INSTANCE EepromStore
         WITH Vars <- Tabled, store <- [v \in Tabled |-> Stored(v)], request <- Requested

\* The two pages implement a store of the variables in the table: however often
\* power is lost, and wherever, each write happens whole or not at all and no other
\* variable moves, whatever is written beside the table.
ImplementsStore == Store!StoreSpec

\* Between two routines a read returns what is stored: no transfer that power
\* losses cut off is left behind unfinished.
ReadsStored == Doing("idle") => \A v \in Vars : ReadVariable(v) = Stored(v)

\* EE_Init "restores the pages to a known good state after a power loss": it
\* formats no page that holds data, also if power is lost again during EE_Init.
FormatsBlankOnly ==
  Doing("erase0") => \A p \in Pages, v \in Vars : LastIn(p, v) = None
=============================================================================
