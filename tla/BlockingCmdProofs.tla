-------------------------- MODULE BlockingCmdProofs --------------------------
(***************************************************************************)
(* Proofs about the hand-over of blocking commands, for any number of      *)
(* receivers, motors and commands.                                         *)
(***************************************************************************)
EXTENDS BlockingCmd, TLAPS

Steps == Shared \cup {"idle", "busy", "signal"}

\* The fields that a receiver at a step has written, and those the blocking thread
\* has read.
WrittenAt(pc) ==
  CASE pc = "tail" -> {"head"}
    [] pc = "len" -> {"head", "tail"}
    [] pc \in {"busy", "motor"} -> {"head", "tail", "len"}
    [] pc = "reply" -> {"head", "tail", "len", "motor"}
    [] pc = "signal" -> Shared
    [] OTHER -> {}
ReadAt(pc) ==
  CASE pc = "len" -> {"motor"}
    [] pc = "head" -> {"motor", "len"}
    [] pc = "tail" -> {"motor", "len", "head"}
    [] pc = "run" -> {"motor", "len", "head", "tail"}
    [] pc = "replied" -> Shared
    [] OTHER -> {}
Running == {"motor", "len", "head", "tail", "run", "replied"}

\* Without a clash a receiver that hands over is alone and the blocking thread
\* waits for it. While is_blocking is not yet set the command is incomplete; from
\* the signal on nobody writes until the thread is ready again.
HandingOver ==
  \A r \in Receivers : ~At(r, "idle") =>
    /\ \A q \in Receivers \ {r} : At(q, "idle")
    /\ blk.pc = "wait" /\ ~flag
    /\ is_blocking <=> rcv[r].pc \in {"motor", "reply", "signal"}
    /\ \A f \in WrittenAt(rcv[r].pc) : buf[f] = rcv[r].call
Whole == \A f, g \in Shared : buf[f] = buf[g]
Signalled == flag => blk.pc = "wait" /\ is_blocking /\ Whole
Taken ==
  blk.pc \in Running => /\ is_blocking /\ ~flag /\ Whole
                        /\ \A f \in ReadAt(blk.pc) : blk.got[f] = buf[f]
Between == (blk.pc = "boot" => ~flag) /\ (blk.pc = "ready" => is_blocking /\ ~flag)

IInv == TypeOK /\ (~clash => HandingOver /\ Signalled /\ Taken /\ Between)

-----------------------------------------------------------------------------
\* A step of a receiver changes nothing but where this receiver is.
LEMMA ProceedStep ==
  ASSUME TypeOK, NEW r \in Receivers, ~At(r, "idle"), Proceed(r)
  PROVE  /\ rcv' \in [Receivers -> [pc : Steps, call : Call \cup {None}]]
         /\ rcv'[r].pc = After[rcv[r].pc]
         /\ After[rcv[r].pc] # "idle" => rcv'[r].call = rcv[r].call
         /\ \A q \in Receivers \ {r} : rcv'[q] = rcv[q]
         /\ \A q \in Receivers : rcv'[q].pc = "idle" <=> rcv'[q].call = None
<1> DEFINE next == After[rcv[r].pc]
<1>1. rcv[r] \in [pc : Steps, call : Call \cup {None}] /\ rcv[r].pc # "idle"
      /\ rcv[r].call # None
  BY DEF TypeOK, Steps, At
<1>2. next \in Steps
  BY <1>1 DEF After, Steps, Shared
<1>3. rcv' = [rcv EXCEPT ![r].pc = next, ![r].call = IF next = "idle" THEN None ELSE @]
  BY DEF Proceed
<1> HIDE DEF next
<1>4. /\ rcv'[r] = [rcv[r] EXCEPT !.pc = next, !.call = IF next = "idle" THEN None ELSE @]
      /\ \A q \in Receivers \ {r} : rcv'[q] = rcv[q]
      /\ DOMAIN rcv' = Receivers
  BY <1>3 DEF TypeOK
<1>5. rcv'[r].pc = next /\ rcv'[r].call = IF next = "idle" THEN None ELSE rcv[r].call
  BY <1>1, <1>4
<1>6. rcv' \in [Receivers -> [pc : Steps, call : Call \cup {None}]]
  BY <1>1, <1>2, <1>3 DEF TypeOK, Steps
<1>7. \A q \in Receivers : rcv'[q].pc = "idle" <=> rcv'[q].call = None
  <2>1. rcv'[r].pc = "idle" <=> rcv'[r].call = None
    BY <1>1, <1>5
  <2>2. \A q \in Receivers \ {r} : rcv'[q].pc = "idle" <=> rcv'[q].call = None
    BY <1>4 DEF TypeOK, At
  <2>3. QED  BY <2>1, <2>2
<1>8. QED  BY <1>4, <1>5, <1>6, <1>7 DEF next

LEMMA TypeInit == Init => TypeOK
<1> SUFFICES ASSUME Init PROVE TypeOK
  OBVIOUS
<1>1. is_blocking \in BOOLEAN /\ flag \in BOOLEAN /\ clash \in BOOLEAN
  BY Zenon DEF Init
<1>2. Nothing \in [Shared -> Call \cup {None}]
  BY DEF Nothing
<1>3. QED  BY <1>1, <1>2 DEF Init, TypeOK, At

LEMMA TypeNext == TypeOK /\ [Next]_vars => TypeOK'
<1> SUFFICES ASSUME TypeOK, [Next]_vars PROVE TypeOK'
  OBVIOUS
<1> USE DEF Steps
<1>1. ASSUME NEW c \in Call, Accept(c) PROVE TypeOK'
  BY <1>1, NoneAssumption DEF Accept, TypeOK, Call, At, Shared
<1>2. ASSUME NEW c \in Call, Discard(c) PROVE TypeOK'
  BY <1>2 DEF Discard, TypeOK, vars, At
<1>3. ASSUME NEW r \in Receivers, NEW f \in Shared, Write(r, f) PROVE TypeOK'
  <2>1. ~At(r, "idle") /\ rcv[r].call \in Call \cup {None}
    BY <1>3 DEF Write, At, Shared, TypeOK
  <2>2. buf' \in [Shared -> Call \cup {None}]
    BY <1>3, <2>1 DEF Write, TypeOK
  <2>3. QED  BY <1>3, <2>1, <2>2, ProceedStep DEF Write, TypeOK, At
<1>4. ASSUME NEW r \in Receivers, SetBlocking(r) PROVE TypeOK'
  <2>1. ~At(r, "idle")
    BY <1>4 DEF SetBlocking, At
  <2>2. is_blocking' \in BOOLEAN
    BY <1>4, Zenon DEF SetBlocking
  <2>3. QED  BY <1>4, <2>1, <2>2, ProceedStep DEF SetBlocking, TypeOK, At
<1>5. ASSUME NEW r \in Receivers, Signal(r) PROVE TypeOK'
  <2>1. ~At(r, "idle")
    BY <1>5 DEF Signal, At
  <2>2. flag' \in BOOLEAN
    BY <1>5, Zenon DEF Signal
  <2>3. QED  BY <1>5, <2>1, <2>2, ProceedStep DEF Signal, TypeOK, At
<1>6. CASE BlockingThread
  <2>1. is_blocking' \in BOOLEAN /\ flag' \in BOOLEAN
    BY <1>6, Zenon DEF BlockingThread, Ready, Wake, SelectMotor, ReadLen, ReadHead, ReadTail,
                       Reply, Finished, Take, TypeOK
  <2>2. blk' \in [pc : (Shared \ {"reply"}) \cup {"boot", "ready", "wait", "run", "replied"},
                  got : [Shared -> Call \cup {None}]]
    BY <1>6 DEF BlockingThread, Ready, Wake, SelectMotor, ReadLen, ReadHead, ReadTail,
                Reply, Finished, Take, TypeOK, Shared
  <2>3. buf' = buf /\ rcv' = rcv /\ clash' = clash
    BY <1>6 DEF BlockingThread, Ready, Wake, SelectMotor, ReadLen, ReadHead, ReadTail,
                Reply, Finished, Take
  <2>4. QED  BY <2>1, <2>2, <2>3 DEF TypeOK, At
<1>7. CASE UNCHANGED vars
  BY <1>7 DEF TypeOK, vars, At
<1>8. QED
  BY <1>1, <1>2, <1>3, <1>4, <1>5, <1>6, <1>7 DEF Next, HandOver

-----------------------------------------------------------------------------
LEMMA InvInit == Init => IInv
<1> SUFFICES ASSUME Init PROVE IInv
  OBVIOUS
<1>1. TypeOK
  BY TypeInit
<1>2. HandingOver /\ Signalled /\ Taken /\ Between
  BY DEF Init, HandingOver, Signalled, Taken, Between, At, Running
<1>3. QED  BY <1>1, <1>2 DEF IInv

\* A command that is accepted without a clash finds the thread waiting and the other
\* receivers idle.
LEMMA AcceptInv ==
  ASSUME IInv, NEW c \in Call, Accept(c), ~clash'
  PROVE  HandingOver' /\ Signalled' /\ Taken' /\ Between'
<1>1. TypeOK /\ c.from \in Receivers
  BY DEF IInv, Call
<1>2. /\ ~is_blocking /\ blk.pc # "boot"
      /\ \A r \in Receivers : rcv[r].pc \notin {"head", "tail", "len", "busy"}
      /\ clash => Unused
  BY DEF Accept
<1>3. Unused
  <2>1. CASE clash
    BY <2>1, <1>2
  <2>2. CASE ~clash
    <3>1. HandingOver /\ Signalled /\ Taken /\ Between
      BY <2>2 DEF IInv
    <3>2. \A r \in Receivers : At(r, "idle")
      BY <3>1, <1>1, <1>2 DEF HandingOver, At, TypeOK, Shared
    <3>3. blk.pc = "wait" /\ ~flag
      <4>1. blk.pc \in (Shared \ {"reply"}) \cup {"boot", "ready", "wait", "run", "replied"}
        BY <1>1 DEF TypeOK
      <4>2. blk.pc \notin Running
        BY <3>1, <1>2 DEF Taken
      <4>3. ~flag /\ blk.pc \notin {"boot", "ready"}
        BY <3>1, <1>2 DEF Signalled, Between
      <4>4. QED  BY <4>1, <4>2, <4>3 DEF Shared, Running
    <3>4. QED  BY <3>2, <3>3 DEF Unused
  <2>3. QED  BY <2>1, <2>2
<1>4. /\ rcv' = [rcv EXCEPT ![c.from] = [pc |-> "head", call |-> c]]
      /\ is_blocking' = is_blocking /\ buf' = buf /\ flag' = flag /\ blk' = blk
  BY DEF Accept
<1>5. /\ rcv'[c.from].pc = "head"
      /\ \A q \in Receivers \ {c.from} : rcv'[q].pc = "idle"
      /\ blk'.pc = "wait" /\ ~flag' /\ ~is_blocking'
  BY <1>1, <1>2, <1>3, <1>4 DEF Unused, At, TypeOK
<1>6. WrittenAt("head") = {}
  BY DEF WrittenAt
<1>7. HandingOver'
  BY <1>1, <1>5, <1>6 DEF HandingOver, At
<1>8. QED  BY <1>5, <1>7 DEF Signalled, Taken, Between, Running

\* What a receiver writes while the others are idle.
LEMMA HandOverInv ==
  ASSUME IInv, NEW r \in Receivers, HandOver(r), ~clash'
  PROVE  HandingOver' /\ Signalled' /\ Taken' /\ Between'
<1>1. TypeOK /\ ~At(r, "idle") /\ Proceed(r) /\ blk' = blk /\ clash' = clash
  BY DEF IInv, HandOver, Write, SetBlocking, Signal, At, Shared
<1>2. HandingOver /\ Signalled /\ Taken /\ Between
  BY <1>1 DEF IInv
<1>3. /\ \A q \in Receivers \ {r} : At(q, "idle")
      /\ blk.pc = "wait" /\ ~flag
      /\ is_blocking <=> rcv[r].pc \in {"motor", "reply", "signal"}
      /\ \A f \in WrittenAt(rcv[r].pc) : buf[f] = rcv[r].call
  BY <1>1, <1>2 DEF HandingOver
<1>4. /\ rcv'[r].pc = After[rcv[r].pc]
      /\ rcv'[r].pc # "idle" => rcv'[r].call = rcv[r].call
      /\ \A q \in Receivers \ {r} : rcv'[q].pc = "idle"
  BY <1>1, <1>3, ProceedStep DEF At
<1>5. Taken' /\ Between'
  BY <1>1, <1>3 DEF Taken, Between, Running
<1>6. ASSUME NEW f \in Shared, Write(r, f)
      PROVE  HandingOver' /\ Signalled'
  <2>1. /\ rcv[r].pc = f /\ is_blocking' = is_blocking /\ flag' = flag
        /\ buf' = [buf EXCEPT ![f] = rcv[r].call]
    BY <1>6 DEF Write, At
  <2>2. After[f] # "idle" /\ (After[f] \in {"motor", "reply", "signal"} <=> f \in {"motor", "reply"})
        /\ WrittenAt(After[f]) \subseteq WrittenAt(f) \cup {f}
    BY DEF After, WrittenAt, Shared
  <2>3. \A g \in WrittenAt(After[f]) : buf'[g] = rcv[r].call
    BY <1>1, <1>3, <2>1, <2>2 DEF TypeOK
  <2>4. HandingOver'
    BY <1>1, <1>3, <1>4, <2>1, <2>2, <2>3 DEF HandingOver, At, Shared
  <2>5. QED  BY <2>1, <2>4, <1>3 DEF Signalled
<1>7. ASSUME SetBlocking(r) PROVE HandingOver' /\ Signalled'
  <2>1. /\ rcv[r].pc = "busy" /\ is_blocking' = TRUE /\ flag' = flag /\ buf' = buf
    BY <1>7 DEF SetBlocking, At
  <2>2. After["busy"] = "motor" /\ WrittenAt("motor") = WrittenAt("busy")
    BY DEF After, WrittenAt
  <2>3. HandingOver'
    BY <1>1, <1>3, <1>4, <2>1, <2>2 DEF HandingOver, At
  <2>4. QED  BY <2>1, <2>3, <1>3 DEF Signalled
<1>8. ASSUME Signal(r) PROVE HandingOver' /\ Signalled'
  <2>1. /\ rcv[r].pc = "signal" /\ is_blocking' = is_blocking /\ buf' = buf
    BY <1>8 DEF Signal, At
  <2>2. After["signal"] = "idle" /\ WrittenAt("signal") = Shared
    BY DEF After, WrittenAt
  <2>3. HandingOver'
    BY <1>4, <2>1, <2>2 DEF HandingOver, At
  <2>4. QED  BY <2>1, <2>2, <2>3, <1>1, <1>3 DEF Signalled, Whole
<1>9. QED  BY <1>5, <1>6, <1>7, <1>8 DEF HandOver

\* While the blocking thread has a command nobody writes.
LEMMA BlockingInv ==
  ASSUME IInv, BlockingThread, ~clash'
  PROVE  HandingOver' /\ Signalled' /\ Taken' /\ Between'
<1>1. TypeOK /\ buf' = buf /\ rcv' = rcv /\ clash' = clash
  BY DEF IInv, BlockingThread, Ready, Wake, SelectMotor, ReadLen, ReadHead, ReadTail,
         Reply, Finished, Take
<1>2. HandingOver /\ Signalled /\ Taken /\ Between
  BY <1>1 DEF IInv
<1>3. CASE Ready
  <2>1. /\ blk.pc \in {"boot", "ready"} /\ ~is_blocking' /\ flag' = flag /\ blk'.pc = "wait"
    BY <1>1, <1>3 DEF Ready, TypeOK
  <2>2. ~flag /\ \A r \in Receivers : At(r, "idle")
    BY <1>2, <2>1 DEF HandingOver, Between
  <2>3. QED  BY <1>1, <2>1, <2>2 DEF HandingOver, Signalled, Taken, Between, Running, At
<1>4. CASE Wake
  <2>1. flag /\ ~flag' /\ is_blocking' = is_blocking /\ blk'.pc = "motor"
    BY <1>1, <1>4 DEF Wake, TypeOK
  <2>2. is_blocking /\ Whole /\ \A r \in Receivers : At(r, "idle")
    BY <1>2, <2>1 DEF HandingOver, Signalled
  <2>3. ReadAt("motor") = {}
    BY DEF ReadAt
  <2>4. QED  BY <1>1, <2>1, <2>2, <2>3
             DEF HandingOver, Signalled, Taken, Between, Running, Whole, At
<1>5. ASSUME NEW f \in Shared, NEW pc, blk.pc \in Running, pc \in Running, Take(f, pc),
             ReadAt(pc) \subseteq ReadAt(blk.pc) \cup {f}
      PROVE  HandingOver' /\ Signalled' /\ Taken' /\ Between'
  <2>1. /\ is_blocking' = is_blocking /\ flag' = flag
        /\ blk' = [pc |-> pc, got |-> [blk.got EXCEPT ![f] = buf[f]]]
    BY <1>5 DEF Take
  <2>2. /\ is_blocking /\ ~flag /\ Whole
        /\ \A g \in ReadAt(blk.pc) : blk.got[g] = buf[g]
    BY <1>2, <1>5 DEF Taken
  <2>3. \A r \in Receivers : At(r, "idle")
    BY <1>2, <1>5 DEF HandingOver, Running
  <2>4. blk.got \in [Shared -> Call \cup {None}] /\ ReadAt(pc) \subseteq Shared
    BY <1>1 DEF TypeOK, ReadAt, Shared
  <2>5. \A g \in ReadAt(pc) : blk'.got[g] = buf[g]
    BY <1>5, <2>1, <2>2, <2>4
  <2>6. Taken'
    BY <1>1, <2>1, <2>2, <2>5 DEF Taken, Whole
  <2>7. QED  BY <1>1, <1>5, <2>1, <2>2, <2>3, <2>6
             DEF HandingOver, Signalled, Between, Running, At
<1>6. CASE SelectMotor \/ ReadLen \/ ReadHead \/ ReadTail \/ Reply
  BY <1>5, <1>6 DEF SelectMotor, ReadLen, ReadHead, ReadTail, Reply, Running, ReadAt, Shared
<1>7. CASE Finished
  <2>1. blk.pc = "replied" /\ blk'.pc = "ready" /\ is_blocking' = is_blocking /\ flag' = flag
    BY <1>1, <1>7 DEF Finished, TypeOK
  <2>2. is_blocking /\ ~flag /\ \A r \in Receivers : At(r, "idle")
    BY <1>2, <2>1 DEF HandingOver, Taken, Running
  <2>3. QED  BY <1>1, <2>1, <2>2 DEF HandingOver, Signalled, Taken, Between, Running, At
<1>8. QED  BY <1>3, <1>4, <1>6, <1>7 DEF BlockingThread

LEMMA InvNext == IInv /\ [Next]_vars => IInv'
<1> SUFFICES ASSUME IInv, [Next]_vars, ~clash'
             PROVE  HandingOver' /\ Signalled' /\ Taken' /\ Between'
  BY TypeNext DEF IInv
<1>1. CASE \E c \in Call : Accept(c)
  BY <1>1, AcceptInv
<1>2. CASE UNCHANGED vars
  BY <1>2 DEF IInv, vars, HandingOver, Signalled, Taken, Between, Whole, At
<1>3. CASE \E c \in Call : Discard(c)
  BY <1>2, <1>3 DEF Discard
<1>4. CASE \E r \in Receivers : HandOver(r)
  BY <1>4, HandOverInv
<1>5. CASE BlockingThread
  BY <1>5, BlockingInv
<1>6. QED  BY <1>1, <1>2, <1>3, <1>4, <1>5 DEF Next

-----------------------------------------------------------------------------
\* Every variable keeps its type.
THEOREM BlockingTypeCorrect == Spec => []TypeOK
<1>1. QED  BY TypeInit, TypeNext, PTL DEF Spec

\* Whatever receivers there are: a command that was accepted while no other was on
\* its way runs with its own bytes, length, motor and reply function.
THEOREM RunsWhatWasAccepted == Spec => []RunsOneCallWithoutClash
<1>1. IInv => RunsOneCallWithoutClash
  BY DEF IInv, Taken, Whole, Running, ReadAt, RunsOneCallWithoutClash, RunsOneCall
<1>2. QED  BY <1>1, InvInit, InvNext, PTL DEF Spec
=============================================================================
