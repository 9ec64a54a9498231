----------------------------- MODULE BlockingCmd -----------------------------
(***************************************************************************)
(* The hand-over of blocking commands in comm/commands.c: the threads that *)
(* receive packets (USB, UART, CAN, scripts) copy a command into the one   *)
(* buffer of the blocking thread, with the motor it is for and the         *)
(* function to reply with, and signal that thread.                         *)
(*                                                                         *)
(* All of these threads have priority NORMALPRIO: round robin may preempt  *)
(* them between any two accesses to the shared variables.                  *)
(***************************************************************************)
CONSTANTS Receivers, \* the threads that process packets
          Motors,    \* motors a command may be for
          Cmds,      \* blocking commands
          None

Call == [from : Receivers, motor : Motors, cmd : Cmds]

ASSUME NoneAssumption == None \notin Call

VARIABLES
  is_blocking,
  buf,     \* the shared variables: each field the call that wrote it last
  flag,    \* the event flag of the blocking thread
  rcv,     \* per receiver: its step and the call it hands over
  blk,     \* the blocking thread: its step and what it has read
  clash    \* a history variable: may calls have written over each other?

vars == <<is_blocking, buf, flag, rcv, blk, clash>>

\* blocking_thread_cmd_buffer (a memcpy may be cut anywhere), _cmd_len and
\* _motor, send_func_blocking.
Shared == {"head", "tail", "len", "motor", "reply"}
Nothing == [f \in Shared |-> None]

Init ==
  /\ is_blocking = FALSE
  /\ buf = Nothing
  /\ flag = FALSE
  /\ rcv = [r \in Receivers |-> [pc |-> "idle", call |-> None]]
  /\ blk = [pc |-> "boot", got |-> Nothing]
  /\ clash = FALSE

-----------------------------------------------------------------------------
(* commands_process_packet *)

At(r, pc) == rcv[r].pc = pc

\* A command that comes while is_blocking is set is discarded.
Discard(c) == At(c.from, "idle") /\ is_blocking /\ UNCHANGED vars

Unused == blk.pc = "wait" /\ ~flag /\ \A r \in Receivers : At(r, "idle")

Accept(c) ==
  /\ At(c.from, "idle")
  /\ ~is_blocking
  /\ rcv' = [rcv EXCEPT ![c.from] = [pc |-> "head", call |-> c]]
  /\ clash' = \/ blk.pc = "boot"
              \/ \E r \in Receivers : rcv[r].pc \in {"head", "tail", "len", "busy"}
              \/ clash /\ ~Unused
  /\ UNCHANGED <<is_blocking, buf, flag, blk>>

\* Mutants: is_blocking is set after the signal, or not at all.
AfterSignalFirst ==
  [head |-> "tail", tail |-> "len", len |-> "motor", motor |-> "reply",
   reply |-> "signal", signal |-> "busy", busy |-> "idle"]
AfterNotSet ==
  [head |-> "tail", tail |-> "len", len |-> "motor", busy |-> "motor",
   motor |-> "reply", reply |-> "signal", signal |-> "idle"]
After ==
  [head |-> "tail", tail |-> "len", len |-> "busy", busy |-> "motor",
   motor |-> "reply", reply |-> "signal", signal |-> "idle"]

ProceedKeeps(r) == rcv' = [rcv EXCEPT ![r].pc = After[@]]   \* mutant
Proceed(r) ==
  LET next == After[rcv[r].pc]
  IN  rcv' = [rcv EXCEPT ![r].pc = next, ![r].call = IF next = "idle" THEN None ELSE @]

Write(r, f) ==
  /\ At(r, f)
  /\ buf' = [buf EXCEPT ![f] = rcv[r].call]
  /\ Proceed(r)
  /\ UNCHANGED <<is_blocking, flag, blk, clash>>

SetBlocking(r) ==
  /\ At(r, "busy")
  /\ is_blocking' = TRUE
  /\ Proceed(r)
  /\ UNCHANGED <<buf, flag, blk, clash>>

Signal(r) ==
  /\ At(r, "signal")
  /\ flag' = TRUE
  /\ Proceed(r)
  /\ UNCHANGED <<is_blocking, buf, blk, clash>>

-----------------------------------------------------------------------------
(* blocking_thread *)

\* Also the first time: what was accepted before then no longer blocks others.
Ready ==
  /\ blk.pc \in {"boot", "ready"}
  /\ is_blocking' = FALSE
  /\ blk' = [blk EXCEPT !.pc = "wait"]
  /\ UNCHANGED <<buf, flag, rcv, clash>>

WakeReleases ==   \* mutant: others are let in as soon as the command is taken up
  /\ blk.pc = "wait"
  /\ flag
  /\ flag' = FALSE
  /\ is_blocking' = FALSE
  /\ blk' = [blk EXCEPT !.pc = "motor"]
  /\ UNCHANGED <<buf, rcv, clash>>
\* chEvtWaitAny clears the flag: signals that came twice are one.
Wake ==
  /\ blk.pc = "wait"
  /\ flag
  /\ flag' = FALSE
  /\ blk' = [blk EXCEPT !.pc = "motor"]
  /\ UNCHANGED <<is_blocking, buf, rcv, clash>>

Take(f, pc) ==
  /\ blk' = [pc |-> pc, got |-> [blk.got EXCEPT ![f] = buf[f]]]
  /\ UNCHANGED <<is_blocking, buf, flag, rcv, clash>>

SelectMotor == blk.pc = "motor" /\ Take("motor", "len")
ReadLen == blk.pc = "len" /\ Take("len", "head")
ReadHead == blk.pc = "head" /\ Take("head", "tail")
ReadTail == blk.pc = "tail" /\ Take("tail", "run")

\* The command has been run; the result goes where send_func_blocking says now.
Reply == blk.pc = "run" /\ Take("reply", "replied")

Finished ==
  /\ blk.pc = "replied"
  /\ blk' = [blk EXCEPT !.pc = "ready"]
  /\ UNCHANGED <<is_blocking, buf, flag, rcv, clash>>

-----------------------------------------------------------------------------
HandOver(r) == (\E f \in Shared : Write(r, f)) \/ SetBlocking(r) \/ Signal(r)

BlockingThread ==
  Ready \/ Wake \/ SelectMotor \/ ReadLen \/ ReadHead \/ ReadTail \/ Reply \/ Finished

Next ==
  \/ \E c \in Call : Accept(c) \/ Discard(c)
  \/ \E r \in Receivers : HandOver(r)
  \/ BlockingThread

Spec == Init /\ [][Next]_vars

\* Every thread goes on with what it has begun, and every command ends; that
\* packets come is not assumed.
FairSpec ==
  /\ Spec
  /\ WF_vars(BlockingThread)
  /\ \A r \in Receivers : WF_vars(HandOver(r))

-----------------------------------------------------------------------------
\* Every variable keeps its type, and a receiver has a call in hand or is idle.
TypeOK ==
  /\ is_blocking \in BOOLEAN /\ flag \in BOOLEAN
  /\ buf \in [Shared -> Call \cup {None}]
  /\ rcv \in [Receivers -> [pc : Shared \cup {"idle", "busy", "signal"}, call : Call \cup {None}]]
  /\ \A r \in Receivers : At(r, "idle") <=> rcv[r].call = None
  /\ clash \in BOOLEAN
  /\ blk \in [pc : (Shared \ {"reply"}) \cup {"boot", "ready", "wait", "run", "replied"},
              got : [Shared -> Call \cup {None}]]

\* Whatever receivers race for the buffer, is_blocking is cleared again and
\* again: no order of hand-overs leaves the blocking thread asleep behind a flag
\* that discards every command for good.
AcceptsAgain == []<>~is_blocking

Accepted(c) == rcv[c.from] = [pc |-> "signal", call |-> c] /\ ~clash
Runs(c) == blk.pc = "run" /\ \A f \in Shared \ {"reply"} : blk.got[f] = c

\* A command that was accepted and has not clashed with another finds the thread
\* waiting, so that no run under way can be taken for its own, and is itself the one
\* that is run, on its own motor. Of receivers that passed the test of is_blocking
\* together (a clash) all but the last to write lose their command: nothing is
\* promised of these.
AcceptedRuns == \A c \in Call : [](Accepted(c) => blk.pc = "wait" /\ <>Runs(c))

\* "Only one of them runs at any given time ... If other blocking commands come
\* before the previous one has finished, they are discarded": what is run is one
\* call's command, on that call's motor, answered to that call's sender.
RunsOneCall == blk.pc = "replied" => \A f, g \in Shared : blk.got[f] = blk.got[g]

\* The flag is tested here and set three lines later, so RunsOneCall does not hold of
\* receivers that pass together, or before the thread has started. But nothing of
\* such a clash is left once a command is accepted by an idle thread.
RunsOneCallWithoutClash == ~clash => RunsOneCall
=============================================================================
