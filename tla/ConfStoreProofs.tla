--------------------------- MODULE ConfStoreProofs ---------------------------
(***************************************************************************)
(* Proofs about the configuration storage: types, and that configurations  *)
(* are read whole and the CAN id survives, for any number of calls, power  *)
(* losses, resets and flash errors.                                        *)
(***************************************************************************)
EXTENDS ConfStore, SequenceTheorems, TLAPS

\* The cells hold words. A CRC that is stored is that of a configuration that
\* somebody tried to store.
Stored(st, tr) ==
  /\ st \in [Vars -> Values \cup {None}]
  /\ \A v \in Vars \ {"crc"} : st[v] \in Words \cup {None}
  /\ st["crc"] # None => \E body \in tr : st["crc"] = Crc(body)

\* The backup that is stored has the id of such a configuration.
Ids(tr) == {body[1] : body \in tr}
BackedUp(st, tr) == st["odometer"] # None /\ st["can_id"] # None /\ st["can_id"] \in Ids(tr)

\* What a call stores: the body of a configuration with its CRC, or what the RAM has
\* for the backup.
Sound ==
  call.pc = "write" =>
    /\ call.kind \in Kinds
    /\ call.val \in Seq(Values) /\ Len(call.val) = Len(Cells[call.kind])
    /\ call.val[1] \in Words /\ call.val[2] \in Words
    /\ call.kind = "app" =>
         <<call.val[1], call.val[2]>> \in tried /\ call.val[3] = Crc(call.val)
    /\ call.kind = "backup" => ram = <<call.val[1], call.val[2]>>

\* The cells before the next one are written.
Progress ==
  call.pc = "write" =>
       /\ call.idx \in 1..Len(call.val)
       /\ \A j \in 1..call.idx - 1 : store[Cells[call.kind][j]] = call.val[j]

Requested == request # None => call.pc = "write" /\ request = [var |-> Cell, dat |-> call.val[call.idx]]

\* A configuration is confirmed while nobody writes one, and is read.
Kept == confirmed.app # None =>
          ReadApp = confirmed.app /\ ~(call.kind = "app" /\ call.pc = "write")

Calls == [kind : Kinds, pc : {"off", "idle", "write"}, idx : 1..3, val : Seq(Values)]

Types ==
  /\ call \in Calls
  /\ ram \in Bodies \cup {None} /\ (call.pc # "off" => ram \in Bodies)
  /\ confirmed \in [{"var", "app"} -> Bodies \cup {None}]
  /\ tried \subseteq Bodies /\ settled \in BOOLEAN

\* A configuration whose store is under way is one that somebody tries to store, and
\* only such a store goes on to the id.
ThreadTypes ==
  /\ thr \in [Threads -> [pc : {"idle", "wait", "id"}, kind : Kinds, val : Words \X Words]]
  /\ \A t \in Threads : thr[t].pc = "id" => thr[t].kind = "app"
  /\ \A t \in Threads : thr[t].kind = "app" => thr[t].val \in tried

Settled == settled => BackedUp(store, tried) /\ (ram # None => ram[2] \in Ids(tried))

IInv ==
  /\ Stored(store, tried) /\ Types /\ ThreadTypes
  /\ Sound /\ Progress /\ Requested /\ Kept /\ Settled

-----------------------------------------------------------------------------
\* The cells of the three kinds of records.
LEMMA CellFacts ==
  /\ Vars = {"hi", "lo", "id", "rest", "crc", "odometer", "can_id"}
  /\ Cells["var"] = <<"hi", "lo">> /\ Cells["app"] = <<"id", "rest", "crc">>
  /\ Cells["backup"] = <<"odometer", "can_id">>
  /\ Len(Cells["var"]) = 2 /\ Len(Cells["app"]) = 3 /\ Len(Cells["backup"]) = 2
<1>1. /\ Cells["var"] = <<"hi", "lo">> /\ Cells["app"] = <<"id", "rest", "crc">>
      /\ Cells["backup"] = <<"odometer", "can_id">>
  BY DEF Cells
<1>2. /\ DOMAIN Cells["var"] = {1, 2} /\ DOMAIN Cells["app"] = {1, 2, 3}
      /\ DOMAIN Cells["backup"] = {1, 2}
  BY <1>1
<1>3. UNION {{Cells[k][i] : i \in DOMAIN Cells[k]} : k \in Kinds}
        = {"hi", "lo", "id", "rest", "crc", "odometer", "can_id"}
  BY <1>1, <1>2 DEF Kinds
<1>4. QED  BY <1>1, <1>3, CellsAssumption

\* Two words make a record that can be stored.
LEMMA WordPairs ==
  ASSUME NEW a \in Words, NEW b \in Words
  PROVE  /\ <<a, b>> \in Seq(Values) /\ Len(<<a, b>>) = 2 /\ <<a, b>> \in Bodies
         /\ LET app == Append(<<a, b>>, Crc(<<a, b>>))
            IN  /\ app \in Seq(Values) /\ Len(app) = 3
                /\ app[1] = a /\ app[2] = b /\ app[3] = Crc(<<a, b>>)
<1>1. a \in {0, 1} /\ b \in {0, 1}
  BY WordsAssumption
<1>2. a \in Values /\ b \in Values
  <2>1. a \in 0..3 /\ b \in 0..3
    BY <1>1
  <2>2. QED  BY <2>1, ValuesAssumption
<1>3. Crc(<<a, b>>) \in Values
  <2>1. Crc(<<a, b>>) \in 0..3
    BY <1>1 DEF Crc
  <2>2. QED  BY <2>1, ValuesAssumption
<1>4. <<a, b>> \in Seq(Values) /\ <<a, b>> \in Bodies /\ Len(<<a, b>>) = 2
  BY <1>2 DEF Bodies
<1>5. \A s \in Seq(Values), c \in Values :
        /\ Append(s, c) \in Seq(Values) /\ Len(Append(s, c)) = Len(s) + 1
        /\ \A i \in 1..Len(s) : Append(s, c)[i] = s[i]
        /\ Append(s, c)[Len(s) + 1] = c
  BY AppendProperties
<1>6. LET app == Append(<<a, b>>, Crc(<<a, b>>))
      IN  /\ app \in Seq(Values) /\ Len(app) = 3
          /\ app[1] = a /\ app[2] = b /\ app[3] = Crc(<<a, b>>)
  <2> DEFINE s == <<a, b>>
  <2>1. s \in Seq(Values) /\ Len(s) = 2 /\ s[1] = a /\ s[2] = b /\ Crc(s) \in Values
    BY <1>3, <1>4
  <2> DEFINE c == Crc(s)
             app == Append(s, c)
  <2> HIDE DEF s, c
  <2>2. s \in Seq(Values) /\ c \in Values /\ Len(s) = 2
    BY <2>1 DEF c
  <2>3. /\ app \in Seq(Values) /\ Len(app) = Len(s) + 1
        /\ \A i \in 1..Len(s) : app[i] = s[i]
        /\ app[Len(s) + 1] = c
    BY <1>5, <2>2, Zenon
  <2> HIDE DEF app
  <2>4. Len(app) = 3 /\ app[1] = s[1] /\ app[2] = s[2] /\ app[3] = c
    BY <2>2, <2>3
  <2>5. QED  BY <2>1, <2>3, <2>4 DEF s, c, app
<1>7. QED  BY <1>4, <1>6

\* Off and idle, no call is under way.
LEMMA IdleCalls == {Off, Ready} \subseteq Calls
<1>1. PICK e : e = <<>> /\ e \in Seq(Values)
  BY EmptySeq
<1>2. /\ Off = [kind |-> "var", pc |-> "off", idx |-> 1, val |-> e]
      /\ Ready = [kind |-> "var", pc |-> "idle", idx |-> 1, val |-> e]
  BY <1>1 DEF Off, Ready
<1>3. e \in Seq(Values)
  BY <1>1
<1>4. QED  BY <1>2, <1>3 DEF Kinds, Calls

\* Two bodies with the same CRC are the same.
LEMMA CrcInjective ==
  ASSUME NEW b \in Bodies, NEW c \in Bodies, Crc(b) = Crc(c)
  PROVE  b = c
<1>1. b = <<b[1], b[2]>> /\ c = <<c[1], c[2]>>
  BY DEF Bodies
<1>2. b[1] \in {0, 1} /\ b[2] \in {0, 1} /\ c[1] \in {0, 1} /\ c[2] \in {0, 1}
  BY WordsAssumption DEF Bodies
<1>3. b[1] = c[1] /\ b[2] = c[2]
  BY <1>2 DEF Crc
<1>4. QED  BY <1>1, <1>3

\* The configuration that is read.
AppOf(st) ==
  IF /\ st["id"] # None /\ st["rest"] # None /\ st["crc"] # None
     /\ st["crc"] = 2 * st["id"] + st["rest"]
  THEN <<st["id"], st["rest"]>> ELSE None

LEMMA ReadsAppOf == ReadApp = AppOf(store)
<1> DEFINE r == Read("app")
<1>1. DOMAIN Cells["app"] = {1, 2, 3}
  BY CellFacts
<1>2. DOMAIN r = {1, 2, 3} /\ r[1] = store["id"] /\ r[2] = store["rest"] /\ r[3] = store["crc"]
  BY <1>1, CellFacts DEF Read
<1>3. Complete(r) <=> store["id"] # None /\ store["rest"] # None /\ store["crc"] # None
  BY <1>2 DEF Complete
<1>4. QED  BY <1>2, <1>3 DEF ReadApp, Crc, AppOf

LEMMA ReadsAppOfNext == ReadApp' = AppOf(store')
<1>1. (ReadApp = AppOf(store))'
  BY ReadsAppOf, PTL
<1>2. QED  BY <1>1 DEF AppOf

-----------------------------------------------------------------------------
\* The cell that is written next, and what goes there.
LEMMA CellCases ==
  ASSUME Sound, Progress, call.pc = "write"
  PROVE  /\ \/ call.kind = "var" /\ call.idx = 1 /\ Cell = "hi"
            \/ call.kind = "var" /\ call.idx = 2 /\ Cell = "lo"
            \/ call.kind = "app" /\ call.idx = 1 /\ Cell = "id"
            \/ call.kind = "app" /\ call.idx = 2 /\ Cell = "rest"
            \/ call.kind = "app" /\ call.idx = 3 /\ Cell = "crc"
            \/ call.kind = "backup" /\ call.idx = 1 /\ Cell = "odometer"
            \/ call.kind = "backup" /\ call.idx = 2 /\ Cell = "can_id"
         /\ Len(call.val) = IF call.kind = "app" THEN 3 ELSE 2
         /\ call.val[call.idx] \in Values
<1>1. call.kind \in Kinds /\ call.idx \in 1..Len(call.val) /\ Len(call.val) = Len(Cells[call.kind])
  BY DEF Sound, Progress
<1>2. call.val[call.idx] \in Values
  BY <1>1, ElementOfSeq DEF Sound
<1>3. CASE call.kind = "var"
  BY <1>1, <1>2, <1>3, CellFacts DEF Cell
<1>4. CASE call.kind = "app"
  BY <1>1, <1>2, <1>4, CellFacts DEF Cell
<1>5. CASE call.kind = "backup"
  BY <1>1, <1>2, <1>5, CellFacts DEF Cell
<1>6. QED  BY <1>1, <1>3, <1>4, <1>5 DEF Kinds

\* The half word of the call takes effect, or it does not.
Effect == store' = store \/ store' = [store EXCEPT ![Cell] = call.val[call.idx]]

\* Either way the cells stay sound, those written before stay what they are, and
\* the backup and a confirmed configuration are not lost.
LEMMA EffectKeeps ==
  ASSUME IInv, call.pc = "write", Effect
  PROVE  /\ Stored(store', tried)
         /\ \A j \in 1..call.idx - 1 : store'[Cells[call.kind][j]] = call.val[j]
         /\ settled => BackedUp(store', tried)
         /\ confirmed.app # None => AppOf(store') = confirmed.app
<1> DEFINE new == call.val[call.idx]
<1>1. CASE store' = store
  BY <1>1, ReadsAppOf DEF IInv, Progress, Settled, Kept, Stored, BackedUp, AppOf
<1>2. CASE store' = [store EXCEPT ![Cell] = new]
  <2>1. new \in Values /\ Cell \in Vars
    BY CellCases, CellFacts DEF IInv
  <2>2. Cell # "crc" => new \in Words
    BY CellCases DEF IInv, Sound
  <2>3. Cell = "crc" => \E body \in tried : new = Crc(body)
    <3>1. SUFFICES ASSUME Cell = "crc"
                   PROVE  \E body \in tried : new = Crc(body)
      OBVIOUS
    <3>2. call.kind = "app" /\ call.idx = 3
      BY <3>1, CellCases DEF IInv
    <3>3. new = Crc(<<call.val[1], call.val[2]>>) /\ <<call.val[1], call.val[2]>> \in tried
      BY <3>2 DEF IInv, Sound, Crc
    <3>4. QED  BY <3>3
  <2>4. store \in [Vars -> Values \cup {None}] /\ store'[Cell] = new
        /\ \A v \in Vars \ {Cell} : store'[v] = store[v]
    BY <1>2, <2>1 DEF IInv, Stored
  <2>5. Stored(store', tried)
    <3>1. store' \in [Vars -> Values \cup {None}]
      BY <1>2, <2>1, <2>4
    <3>2. \A v \in Vars \ {"crc"} : store'[v] \in Words \cup {None}
      BY <2>2, <2>4 DEF IInv, Stored
    <3>3. store'["crc"] # None => \E body \in tried : store'["crc"] = Crc(body)
      BY <2>3, <2>4, CellFacts DEF IInv, Stored
    <3>4. QED  BY <3>1, <3>2, <3>3 DEF Stored
  <2>6. \A j \in 1..call.idx - 1 : store'[Cells[call.kind][j]] = call.val[j]
    <3>1. SUFFICES ASSUME NEW j \in 1..call.idx - 1
                   PROVE  store'[Cells[call.kind][j]] = call.val[j]
      OBVIOUS
    <3>2. Cells[call.kind][j] \in Vars \ {Cell}
      BY CellCases, CellFacts DEF IInv
    <3>3. store[Cells[call.kind][j]] = call.val[j]
      BY DEF IInv, Progress
    <3>4. QED  BY <2>4, <3>2, <3>3
  <2>7. settled => BackedUp(store', tried)
    <3>1. SUFFICES ASSUME settled
                   PROVE  BackedUp(store', tried)
      OBVIOUS
    <3>2. BackedUp(store, tried) /\ (ram # None => ram[2] \in Ids(tried))
      BY <3>1 DEF IInv, Settled
    <3>3. CASE Cell \notin {"odometer", "can_id"}
      BY <2>4, <3>2, <3>3, CellFacts DEF BackedUp
    <3>4. CASE Cell = "odometer"
      BY <2>1, <2>4, <3>2, <3>4, CellFacts, StoreAssumption DEF BackedUp
    <3>5. CASE Cell = "can_id"
      <4>1. call.kind = "backup" /\ call.idx = 2 /\ ram = <<call.val[1], call.val[2]>>
        BY <3>5, CellCases DEF IInv, Sound
      <4>2. ram # None
        BY ValuesAssumption DEF IInv, Types, Bodies
      <4>3. new \in Ids(tried)
        BY <3>2, <4>1, <4>2
      <4>4. QED  BY <2>1, <2>4, <3>2, <3>5, <4>3, CellFacts, StoreAssumption DEF BackedUp
    <3>6. QED  BY <3>3, <3>4, <3>5
  <2>8. confirmed.app # None => AppOf(store') = confirmed.app
    <3>1. SUFFICES ASSUME confirmed.app # None
                   PROVE  AppOf(store') = confirmed.app
      OBVIOUS
    <3>2. call.kind # "app" /\ AppOf(store) = confirmed.app
      BY <3>1, ReadsAppOf DEF IInv, Kept
    <3>3. Cell \notin {"id", "rest", "crc"}
      BY <3>2, CellCases DEF IInv
    <3>4. store'["id"] = store["id"] /\ store'["rest"] = store["rest"] /\ store'["crc"] = store["crc"]
      BY <2>4, <3>3, CellFacts
    <3>5. QED  BY <3>2, <3>4 DEF AppOf
  <2>9. QED  BY <2>5, <2>6, <2>7, <2>8
<1>3. QED  BY <1>1, <1>2 DEF Effect

-----------------------------------------------------------------------------
\* The threads are where they were, and what is tried is still tried.
LEMMA SameThreads ==
  ASSUME ThreadTypes, thr' = thr, UnderWay \subseteq tried' \/ tried \subseteq tried'
  PROVE  ThreadTypes'
<1>1. \A t \in Threads : thr[t].kind = "app" => thr[t].val \in UnderWay /\ thr[t].val \in tried
  BY DEF ThreadTypes, UnderWay
<1>2. \A t \in Threads : thr[t].kind = "app" => thr[t].val \in tried'
  BY <1>1
<1>3. QED  BY <1>2 DEF ThreadTypes

\* A call returns.
LEMMA ReturnInv ==
  ASSUME IInv, call.pc = "write", Effect, request' = None, NEW ok \in BOOLEAN, Return(ok),
         ok => call.idx = Len(call.val) /\ store'[Cell] = call.val[call.idx]
  PROVE  IInv'
<1> DEFINE body == <<call.val[1], call.val[2]>>
           current == confirmed.app # None /\ ok /\ call.kind = "backup"
                        /\ confirmed.app[1] = call.val[2]
<1>1. /\ Stored(store', tried)
      /\ \A j \in 1..call.idx - 1 : store'[Cells[call.kind][j]] = call.val[j]
      /\ settled => BackedUp(store', tried)
      /\ confirmed.app # None => AppOf(store') = confirmed.app
  BY EffectKeeps
<1>2. body \in Bodies /\ ram \in Bodies /\ ram # None
  BY ValuesAssumption DEF IInv, Sound, Types, Bodies
<1>3. confirmed' = [k \in DOMAIN confirmed |-> IF ok /\ k = call.kind THEN body ELSE confirmed[k]]
  BY DEF Return
<1>4. /\ tried' = (IF current THEN {confirmed.app} \cup UnderWay ELSE tried)
      /\ settled' = (settled \/ current)
  BY DEF Return
<1>5. call' = Ready /\ call'.pc = "idle" /\ UNCHANGED <<thr, ram>>
  BY DEF Return, Ready, Off
<1>6. \A j \in 1..Len(call.val) : ok => store'[Cells[call.kind][j]] = call.val[j]
  <2>1. SUFFICES ASSUME NEW j \in 1..Len(call.val), ok
                 PROVE  store'[Cells[call.kind][j]] = call.val[j]
    OBVIOUS
  <2>2. CASE j = call.idx
    BY <2>1, <2>2 DEF Cell
  <2>3. CASE j # call.idx
    <3>1. call.idx = Len(call.val) /\ Len(call.val) \in Nat
      BY <2>1, LenProperties DEF IInv, Sound
    <3>2. j \in 1..call.idx - 1
      BY <2>3, <3>1
    <3>3. QED  BY <1>1, <3>2
  <2>4. QED  BY <2>2, <2>3
<1>7. UnderWay \subseteq tried
  BY DEF UnderWay, IInv, ThreadTypes
<1>8. Types'
  <2>1. call' \in Calls
    BY <1>5, IdleCalls
  <2>2. confirmed' \in [{"var", "app"} -> Bodies \cup {None}]
    BY <1>2, <1>3 DEF IInv, Types
  <2>3. confirmed.app # None => confirmed.app \in Bodies
    BY DEF IInv, Types
  <2>4. tried' \subseteq Bodies
    BY <1>4, <1>7, <2>3 DEF IInv, Types
  <2>5. settled' \in BOOLEAN
    BY <1>4 DEF IInv, Types
  <2>6. QED  BY <1>2, <1>5, <2>1, <2>2, <2>4, <2>5 DEF Types
<1>9. ThreadTypes'
  BY <1>4, <1>5, SameThreads DEF IInv
<1>10. Sound' /\ Progress' /\ Requested'
  BY <1>5 DEF Sound, Progress, Requested
<1>11. Kept'
  <2>1. ~(call'.kind = "app" /\ call'.pc = "write")
    BY <1>5
  <2>2. CASE ok /\ call.kind = "app"
    <3>1. Len(call.val) = 3
      BY <2>2, CellFacts DEF IInv, Sound
    <3>2. store'["id"] = call.val[1] /\ store'["rest"] = call.val[2] /\ store'["crc"] = call.val[3]
      BY <1>6, <2>2, <3>1, CellFacts
    <3>3. call.val[3] = 2 * call.val[1] + call.val[2]
      BY <2>2 DEF IInv, Sound, Crc
    <3>4. call.val[1] # None /\ call.val[2] # None /\ call.val[3] # None
      BY <3>1, StoreAssumption, ElementOfSeq DEF IInv, Sound
    <3>5. AppOf(store') = body
      BY <3>2, <3>3, <3>4 DEF AppOf
    <3>6. confirmed'["app"] = body
      BY <1>3, <2>2 DEF IInv, Types
    <3>7. QED  BY <2>1, <3>5, <3>6, ReadsAppOfNext DEF Kept
  <2>3. CASE ~(ok /\ call.kind = "app")
    <3>1. confirmed'["app"] = confirmed["app"]
      BY <1>3, <2>3 DEF IInv, Types
    <3>2. QED  BY <1>1, <2>1, <3>1, ReadsAppOfNext DEF Kept
  <2>4. QED  BY <2>2, <2>3
<1>12. Stored(store', tried') /\ Settled'
  <2>1. CASE current
    <3>1. AppOf(store') = confirmed.app /\ confirmed.app # None /\ confirmed.app \in tried'
      BY <1>1, <1>4, <2>1
    <3>2. /\ store'["crc"] = 2 * store'["id"] + store'["rest"]
          /\ confirmed.app = <<store'["id"], store'["rest"]>>
      BY <3>1 DEF AppOf
    <3>3. store'["crc"] = Crc(confirmed.app)
      BY <3>2 DEF Crc
    <3>4. Stored(store', tried')
      BY <1>1, <3>1, <3>3 DEF Stored
    <3>5. Len(call.val) = 2
      BY <2>1, CellFacts DEF IInv, Sound
    <3>6. store'["odometer"] = call.val[1] /\ store'["can_id"] = call.val[2]
      BY <1>6, <2>1, <3>5, CellFacts
    <3>7. call.val[1] # None /\ call.val[2] # None
      BY <3>5, StoreAssumption, ElementOfSeq DEF IInv, Sound
    <3>8. call.val[2] \in Ids(tried')
      BY <2>1, <3>1 DEF Ids
    <3>9. ram' = ram /\ ram[2] = call.val[2]
      BY <1>5, <2>1 DEF IInv, Sound
    <3>10. QED  BY <3>4, <3>6, <3>7, <3>8, <3>9 DEF Settled, BackedUp
  <2>2. CASE ~current
    <3>1. tried' = tried /\ settled' = settled /\ ram' = ram
      BY <1>4, <1>5, <2>2 DEF IInv, Types
    <3>2. QED  BY <1>1, <3>1 DEF IInv, Settled
  <2>3. QED  BY <2>1, <2>2
<1>13. QED  BY <1>8, <1>9, <1>10, <1>11, <1>12 DEF IInv

\* A half word was written: the next one follows, or the call returns.
LEMMA AdvanceInv ==
  ASSUME IInv, call.pc = "write", Effect, store'[Cell] = call.val[call.idx], request' = None,
         Advance
  PROVE  IInv'
<1>1. CASE call.idx = Len(call.val)
  BY <1>1, ReturnInv DEF Advance
<1>2. CASE call.idx # Len(call.val)
  <2>1. call' = [call EXCEPT !.idx = call.idx + 1] /\ UNCHANGED <<thr, ram, histVars>>
    BY <1>2 DEF Advance
  <2>2. /\ Stored(store', tried)
        /\ \A j \in 1..call.idx - 1 : store'[Cells[call.kind][j]] = call.val[j]
        /\ settled => BackedUp(store', tried)
        /\ confirmed.app # None => AppOf(store') = confirmed.app
    BY EffectKeeps
  <2>3. Len(call.val) \in {2, 3} /\ call.idx \in 1..Len(call.val)
    BY CellCases DEF IInv, Progress
  <2>4. /\ call'.kind = call.kind /\ call'.pc = "write" /\ call'.val = call.val
        /\ call'.idx = call.idx + 1 /\ call'.idx \in 1..Len(call.val)
    BY <1>2, <2>1, <2>3 DEF IInv, Types, Calls
  <2>5. Types'
    <3>1. call.idx + 1 \in 1..3
      <4>1. CASE Len(call.val) = 2
        BY <2>3, <1>2, <4>1
      <4>2. CASE Len(call.val) = 3
        BY <2>3, <1>2, <4>2
      <4>3. QED  BY <2>3, <4>1, <4>2
    <3>2. call' \in Calls
      BY <2>1, <3>1 DEF IInv, Types, Calls
    <3>3. QED  BY <2>1, <2>4, <3>2 DEF IInv, Types, histVars
  <2>6. Sound' /\ Requested'
    BY <2>1, <2>4 DEF IInv, Sound, Requested, histVars
  <2>7. Progress'
    <3>1. SUFFICES ASSUME NEW j \in 1..call'.idx - 1
                   PROVE  store'[Cells[call.kind][j]] = call.val[j]
      BY <2>4 DEF Progress
    <3>2. CASE j = call.idx
      BY <3>2 DEF Cell
    <3>3. CASE j # call.idx
      <4>1. j \in 1..call.idx - 1
        BY <2>3, <2>4, <3>3
      <4>2. QED  BY <2>2, <4>1
    <3>4. QED  BY <3>2, <3>3
  <2>8. Kept'
    BY <2>1, <2>2, <2>4, ReadsAppOfNext DEF IInv, Kept, histVars
  <2>9. Stored(store', tried') /\ Settled'
    BY <2>1, <2>2 DEF IInv, Settled, histVars
  <2>10. ThreadTypes'
    BY <2>1, SameThreads DEF IInv, histVars
  <2>11. QED  BY <2>5, <2>6, <2>7, <2>8, <2>9, <2>10 DEF IInv
<1>3. QED  BY <1>1, <1>2

-----------------------------------------------------------------------------
\* A thread that stores nothing.
LEMMA IdleThread ==
  /\ Idle \in [pc : {"idle", "wait", "id"}, kind : Kinds, val : Words \X Words]
  /\ Idle.pc = "idle" /\ Idle.kind = "var"
BY WordsAssumption DEF Idle, Kinds

LEMMA InitInv == ConfInit => IInv
<1> SUFFICES ASSUME ConfInit PROVE IInv
  OBVIOUS
<1>1. call = Off /\ call.pc = "off"
  BY DEF ConfInit, Off
<1>2. Types
  BY <1>1, IdleCalls DEF ConfInit, Types
<1>3. Stored(store, tried)
  BY CellFacts DEF ConfInit, StoreInit, Stored
<1>4. Sound /\ Progress /\ Requested
  BY <1>1 DEF ConfInit, StoreInit, Sound, Progress, Requested
<1>5. Kept /\ Settled
  BY DEF ConfInit, Kept, Settled
<1>6. ThreadTypes
  BY IdleThread DEF ConfInit, ThreadTypes
<1>7. QED  BY <1>2, <1>3, <1>4, <1>5, <1>6 DEF IInv

\* A step that leaves the cells alone reads the same configuration.
LEMMA SameReads ==
  ASSUME UNCHANGED store
  PROVE  ReadApp' = ReadApp
BY ReadsAppOf, ReadsAppOfNext DEF AppOf

\* The device starts: the backup is read, and stored again.
LEMMA BootInv == IInv /\ Boot => IInv'
<1> SUFFICES ASSUME IInv, Boot PROVE IInv'
  OBVIOUS
<1> DEFINE b == Read("backup")
<1>1. DOMAIN b = {1, 2} /\ b[1] = store["odometer"] /\ b[2] = store["can_id"]
      /\ b = <<store["odometer"], store["can_id"]>>
  <2>1. DOMAIN Cells["backup"] = {1, 2} /\ DOMAIN Cells["backup"] = 1..2
    BY CellFacts
  <2>2. QED  BY <2>1, CellFacts DEF Read
<1>2. Complete(b) <=> store["odometer"] # None /\ store["can_id"] # None
  BY <1>1 DEF Complete
<1>3. Loaded \in Bodies /\ (settled => Loaded[2] \in Ids(tried))
  <2>1. CASE Complete(b)
    <3>1. Loaded = b
      BY <2>1 DEF Loaded
    <3>2. store["odometer"] \in Words /\ store["can_id"] \in Words
      BY <1>2, <2>1, CellFacts DEF IInv, Stored
    <3>3. b \in Bodies
      BY <1>1, <3>2, WordPairs
    <3>4. settled => b[2] \in Ids(tried)
      BY <1>1 DEF IInv, Settled, BackedUp
    <3>5. QED  BY <3>1, <3>3, <3>4
  <2>2. CASE ~Complete(b)
    <3>1. ~settled
      BY <1>2, <2>2 DEF IInv, Settled, BackedUp
    <3>2. <<0, DefaultId>> \in Bodies
      BY WordsAssumption, WordPairs
    <3>3. Loaded \in Bodies
      BY <2>2, <3>2 DEF Loaded, IInv, Types
    <3>4. QED  BY <3>1, <3>3
  <2>3. QED  BY <2>1, <2>2
<1>4. PICK x \in Words, y \in Words : Loaded = <<x, y>>
  BY <1>3 DEF Bodies
<1>5. Loaded \in Seq(Values) /\ Len(Loaded) = 2 /\ Loaded[1] \in Words /\ Loaded[2] \in Words
      /\ Loaded = <<Loaded[1], Loaded[2]>>
  BY <1>4, WordPairs
<1>6. /\ call'.kind = "backup" /\ call'.pc = "write" /\ call'.idx = 1 /\ call'.val = Loaded
      /\ call' = [kind |-> "backup", pc |-> "write", idx |-> 1, val |-> Loaded]
  BY DEF Boot, Writing
<1>7. ram' = Loaded /\ request = None /\ UNCHANGED <<storeVars, thr, histVars>>
  BY DEF Boot, IInv, Requested
<1>8. Types'
  <2>1. call' \in Calls
    BY <1>5, <1>6 DEF Kinds, Calls
  <2>2. QED  BY <1>3, <1>7, <2>1 DEF IInv, Types, histVars
<1>9. Sound' /\ Progress' /\ Requested'
  <2>1. Sound'
    BY <1>5, <1>6, <1>7, CellFacts DEF Sound, Kinds
  <2>2. Progress'
    <3>1. Len(call'.val) = 2 /\ call'.idx = 1 /\ call'.pc = "write"
      BY <1>5, <1>6
    <3>2. QED  BY <3>1 DEF Progress
  <2>3. QED  BY <1>7, <2>1, <2>2 DEF Requested, storeVars
<1>10. Kept'
  BY <1>6, <1>7, SameReads DEF IInv, Kept, storeVars, histVars
<1>11. Stored(store', tried') /\ Settled'
  BY <1>3, <1>7 DEF IInv, Settled, storeVars, histVars
<1>12. ThreadTypes'
  BY <1>7, SameThreads DEF IInv, histVars
<1>13. QED  BY <1>8, <1>9, <1>10, <1>11, <1>12 DEF IInv

\* While nothing is written, the threads get on: what is tried grows, and the id in RAM
\* is that of a configuration that was tried.
LEMMA ThreadStepInv ==
  ASSUME IInv, call.pc = "idle", UNCHANGED <<storeVars, call, settled>>, Types', ThreadTypes',
         tried \subseteq tried', confirmed'.app = confirmed.app,
         settled => ram'[2] \in Ids(tried')
  PROVE  IInv'
<1>1. UNCHANGED <<store, request>>
  BY DEF storeVars
<1>2. Sound' /\ Progress' /\ Requested'
  BY <1>1 DEF IInv, Sound, Progress, Requested
<1>3. Kept'
  BY <1>1, SameReads DEF IInv, Kept
<1>4. Ids(tried) \subseteq Ids(tried')
  BY DEF Ids
<1>5. Stored(store', tried')
  BY <1>1 DEF IInv, Stored
<1>6. Settled'
  BY <1>1, <1>4 DEF IInv, Settled, BackedUp
<1>7. QED  BY <1>2, <1>3, <1>5, <1>6 DEF IInv

\* The id in RAM, whenever the device is up.
LEMMA RamFacts ==
  ASSUME IInv, call.pc # "off"
  PROVE  ram \in Bodies /\ ram[1] \in Words /\ ram[2] \in Words
         /\ (settled => ram[2] \in Ids(tried))
BY ValuesAssumption DEF IInv, Types, Bodies, Settled

\* One thread moves, to a state that has its type.
LEMMA OneThread ==
  ASSUME IInv, NEW t \in Threads,
         NEW e \in [pc : {"idle", "wait", "id"}, kind : Kinds, val : Words \X Words],
         thr' = [thr EXCEPT ![t] = e],
         e.pc = "id" => e.kind = "app", e.kind = "app" => e.val \in tried', tried \subseteq tried'
  PROVE  ThreadTypes'
BY DEF IInv, ThreadTypes

\* The distance is counted in RAM.
LEMMA DriveInv == ASSUME IInv, NEW x \in Others, Drive(x) PROVE IInv'
<1>1. call.pc = "idle" /\ ram' = <<x, ram[2]>> /\ UNCHANGED <<storeVars, thr, call, histVars>>
  BY DEF Drive
<1>2. x \in Words /\ ram[2] \in Words /\ (settled => ram[2] \in Ids(tried))
  BY <1>1, RamFacts, WordsAssumption
<1>3. Types'
  BY <1>1, <1>2 DEF IInv, Types, Bodies, histVars
<1>4. ThreadTypes'
  BY <1>1, SameThreads DEF IInv, histVars
<1>5. QED  BY <1>1, <1>2, <1>3, <1>4, ThreadStepInv DEF histVars

\* A store routine begins.
LEMMA BeginsInv ==
  ASSUME IInv, NEW t \in Threads, NEW k \in Kinds, NEW v \in Bodies, Begins(t, k, v),
         tried' \subseteq Bodies, tried \subseteq tried', k = "app" => v \in tried'
  PROVE  IInv'
<1>1. /\ call.pc = "idle" /\ thr' = [thr EXCEPT ![t] = Waiting(k, v)]
      /\ UNCHANGED <<storeVars, call, ram, confirmed, settled>>
  BY DEF Begins
<1>2. /\ Waiting(k, v) \in [pc : {"idle", "wait", "id"}, kind : Kinds, val : Words \X Words]
      /\ Waiting(k, v).pc = "wait" /\ Waiting(k, v).kind = k /\ Waiting(k, v).val = v
  BY DEF Waiting, Bodies
<1>3. ThreadTypes'
  BY <1>1, <1>2, OneThread
<1>4. Types'
  BY <1>1 DEF IInv, Types
<1>5. settled => ram'[2] \in Ids(tried')
  BY <1>1, RamFacts DEF Ids
<1>6. QED  BY <1>1, <1>3, <1>4, <1>5, ThreadStepInv

LEMMA StoreVarInv ==
  ASSUME IInv, NEW t \in Threads, NEW x \in Others, NEW y \in Others, StoreVar(t, <<x, y>>)
  PROVE  IInv'
<1>1. <<x, y>> \in Bodies
  BY WordsAssumption DEF Bodies
<1>2. Begins(t, "var", <<x, y>>) /\ tried' = tried /\ tried \subseteq Bodies
  BY DEF StoreVar, IInv, Types
<1>3. QED  BY <1>1, <1>2, BeginsInv DEF Kinds

LEMMA StoreAppInv ==
  ASSUME IInv, NEW t \in Threads, NEW x \in Words, NEW y \in Words, StoreApp(t, <<x, y>>)
  PROVE  IInv'
<1>1. <<x, y>> \in Bodies
  BY DEF Bodies
<1>2. Begins(t, "app", <<x, y>>) /\ tried' = tried \cup {<<x, y>>} /\ tried \subseteq Bodies
  BY DEF StoreApp, IInv, Types
<1>3. QED  BY <1>1, <1>2, BeginsInv DEF Kinds

LEMMA StoreBackupInv == ASSUME IInv, NEW t \in Threads, StoreBackup(t) PROVE IInv'
<1>1. <<0, 0>> \in Bodies
  BY WordsAssumption DEF Bodies
<1>2. Begins(t, "backup", <<0, 0>>) /\ tried' = tried /\ tried \subseteq Bodies
  BY DEF StoreBackup, IInv, Types
<1>3. QED  BY <1>1, <1>2, BeginsInv DEF Kinds

\* The motor is not released in time: the call gives up.
LEMMA NotReleasedInv == ASSUME IInv, NEW t \in Threads, NotReleased(t) PROVE IInv'
<1>1. /\ call.pc = "idle" /\ thr' = [thr EXCEPT ![t] = Idle]
      /\ UNCHANGED <<storeVars, call, ram, tried, settled>>
  BY DEF NotReleased
<1>2. thr[t].val \in Bodies
  BY DEF IInv, ThreadTypes, Bodies
<1>3. confirmed'.app = confirmed.app /\ confirmed' \in [{"var", "app"} -> Bodies \cup {None}]
  BY <1>2 DEF NotReleased, IInv, Types
<1>4. Types'
  BY <1>1, <1>3 DEF IInv, Types
<1>5. ThreadTypes'
  BY <1>1, IdleThread, OneThread
<1>6. settled => ram'[2] \in Ids(tried')
  BY <1>1, RamFacts
<1>7. QED  BY <1>1, <1>3, <1>4, <1>5, <1>6, ThreadStepInv

\* An app configuration takes its id into the backup.
LEMMA SetIdInv == ASSUME IInv, NEW t \in Threads, SetId(t) PROVE IInv'
<1>1. /\ call.pc = "idle" /\ thr[t].pc = "id" /\ ram' = <<ram[1], thr[t].val[1]>>
      /\ thr' = [thr EXCEPT ![t] = Waiting("backup", <<0, 0>>)]
      /\ UNCHANGED <<storeVars, call, histVars>>
  BY DEF SetId
<1>2. thr[t].val \in tried /\ thr[t].val \in Words \X Words
  BY <1>1 DEF IInv, ThreadTypes
<1>3. thr[t].val[1] \in Ids(tried) /\ thr[t].val[1] \in Words
  BY <1>2 DEF Ids
<1>4. ram' \in Bodies /\ ram'[2] = thr[t].val[1]
  BY <1>1, <1>3, RamFacts DEF Bodies
<1>5. Types'
  BY <1>1, <1>4 DEF IInv, Types, histVars
<1>6. /\ Waiting("backup", <<0, 0>>) \in [pc : {"idle", "wait", "id"}, kind : Kinds,
                                           val : Words \X Words]
      /\ Waiting("backup", <<0, 0>>).pc = "wait" /\ Waiting("backup", <<0, 0>>).kind = "backup"
  BY WordsAssumption DEF Waiting, Kinds
<1>7. ThreadTypes'
  BY <1>1, <1>6, OneThread DEF histVars
<1>8. QED  BY <1>1, <1>3, <1>4, <1>5, <1>7, ThreadStepInv DEF histVars

\* The words of each kind of record.
LEMMA RecordFacts ==
  ASSUME NEW k \in Kinds, NEW v \in Bodies, ram \in Bodies
  PROVE  LET r == Record(k, v)
         IN  /\ r \in Seq(Values) /\ Len(r) = Len(Cells[k])
             /\ r[1] \in Words /\ r[2] \in Words
             /\ k = "app" => <<r[1], r[2]>> = v /\ r[3] = Crc(r)
             /\ k = "backup" => ram = <<r[1], r[2]>>
<1>1. PICK a \in Words, b \in Words : v = <<a, b>>
  BY DEF Bodies
<1>2. PICK c \in Words, d \in Words : ram = <<c, d>>
  BY DEF Bodies
<1>3. CASE k = "var"
  BY <1>1, <1>3, WordPairs, CellFacts DEF Record
<1>4. CASE k = "app"
  <2>1. Record(k, v) = Append(<<a, b>>, Crc(<<a, b>>))
    BY <1>1, <1>4 DEF Record
  <2> DEFINE r == Append(<<a, b>>, Crc(<<a, b>>))
  <2>2. /\ r \in Seq(Values) /\ Len(r) = 3
        /\ r[1] = a /\ r[2] = b /\ r[3] = Crc(<<a, b>>)
    BY WordPairs
  <2> HIDE DEF r
  <2>3. Crc(r) = Crc(<<a, b>>)
    BY <2>2 DEF Crc
  <2>4. QED  BY <1>1, <1>4, <2>1, <2>2, <2>3, CellFacts DEF r
<1>5. CASE k = "backup"
  BY <1>2, <1>5, WordPairs, CellFacts DEF Record
<1>6. QED  BY <1>3, <1>4, <1>5 DEF Kinds

\* It is released: what was confirmed of the record is about to be overwritten.
LEMMA MotorReleasedInv == ASSUME IInv, NEW t \in Threads, MotorReleased(t) PROVE IInv'
<1> DEFINE k == thr[t].kind
           v == thr[t].val
           r == Record(k, v)
           e == IF k = "app" THEN [thr[t] EXCEPT !.pc = "id"] ELSE Idle
<1>1. /\ call.pc = "idle" /\ call' = Writing(k, r) /\ thr' = [thr EXCEPT ![t] = e]
      /\ UNCHANGED <<storeVars, ram, tried, settled>>
      /\ confirmed' = [i \in DOMAIN confirmed |-> IF i = k THEN None ELSE confirmed[i]]
  BY DEF MotorReleased
<1>2. k \in Kinds /\ v \in Bodies /\ (k = "app" => v \in tried)
  BY DEF IInv, ThreadTypes, Bodies
<1>3. ram \in Bodies
  BY <1>1, RamFacts
<1>4. /\ r \in Seq(Values) /\ Len(r) = Len(Cells[k])
      /\ r[1] \in Words /\ r[2] \in Words
      /\ k = "app" => <<r[1], r[2]>> = v /\ r[3] = Crc(r)
      /\ k = "backup" => ram = <<r[1], r[2]>>
  BY <1>2, <1>3, RecordFacts
<1>5. ThreadTypes'
  <2>1. /\ e \in [pc : {"idle", "wait", "id"}, kind : Kinds, val : Words \X Words]
        /\ e.pc = "id" => e.kind = "app"
        /\ e.kind = "app" => e.val \in tried
    <3>1. CASE k = "app"
      BY <1>2, <3>1 DEF IInv, ThreadTypes
    <3>2. CASE k # "app"
      BY <3>2, IdleThread
    <3>3. QED  BY <3>1, <3>2
  <2> HIDE DEF e
  <2>2. QED  BY <1>1, <2>1, OneThread
<1> HIDE DEF k, v, r, e
<1>6. /\ call'.kind = k /\ call'.pc = "write" /\ call'.idx = 1 /\ call'.val = r
      /\ call' \in Calls
  BY <1>1, <1>2, <1>4 DEF Writing, Calls
<1>7. /\ confirmed' \in [{"var", "app"} -> Bodies \cup {None}]
      /\ confirmed'.app = IF k = "app" THEN None ELSE confirmed.app
  BY <1>1 DEF IInv, Types
<1>8. Types'
  BY <1>1, <1>3, <1>6, <1>7 DEF IInv, Types
<1>9. Sound'
  <2>1. Crc(call'.val) = Crc(r)
    BY <1>6
  <2>2. QED  BY <1>1, <1>2, <1>4, <1>6, <2>1 DEF Sound, Crc
<1>10. Progress' /\ Requested'
  <2>1. Len(r) = 2 \/ Len(r) = 3
    BY <1>2, <1>4, CellFacts DEF Kinds
  <2>2. 1 \in 1..Len(r)
    BY <2>1
  <2>3. Progress'
    BY <1>6, <2>2 DEF Progress
  <2>4. QED  BY <1>1, <2>3 DEF IInv, Requested, storeVars
<1>11. Kept'
  BY <1>1, <1>6, <1>7, SameReads DEF IInv, Kept, storeVars
<1>12. Stored(store', tried') /\ Settled'
  BY <1>1 DEF IInv, Settled, storeVars
<1>13. QED  BY <1>5, <1>8, <1>9, <1>10, <1>11, <1>12 DEF IInv

\* The cell has its value already.
LEMMA WriteSameInv == IInv /\ WriteSame => IInv'
BY AdvanceInv DEF WriteSame, Effect, storeVars

\* The write of a cell is requested, and nothing else changes.
LEMMA WriteCellInv == IInv /\ WriteCell => IInv'
<1> SUFFICES ASSUME IInv, WriteCell PROVE IInv'
  OBVIOUS
<1>1. call.pc = "write" /\ request' = [var |-> Cell, dat |-> call.val[call.idx]]
      /\ UNCHANGED <<store, thr, call, ram, histVars>>
  BY DEF WriteCell, Request
<1>2. Requested'
  BY <1>1 DEF Requested, Cell
<1>3. Types' /\ Sound' /\ Progress' /\ Kept'
  BY <1>1, SameReads DEF IInv, Types, Sound, Progress, Kept, histVars
<1>4. Stored(store', tried') /\ Settled'
  BY <1>1 DEF IInv, Settled, histVars
<1>5. ThreadTypes'
  BY <1>1, SameThreads DEF IInv, histVars
<1>6. QED  BY <1>2, <1>3, <1>4, <1>5 DEF IInv

\* The write that is requested is that of the next cell: it takes effect, or not.
LEMMA RequestEffect ==
  /\ IInv /\ Commit => /\ call.pc = "write" /\ request' = None /\ Effect
                       /\ store'[Cell] = call.val[call.idx]
  /\ IInv /\ Abandon => call.pc = "write" /\ request' = None /\ Effect
<1>1. ASSUME IInv, Commit
      PROVE  /\ call.pc = "write" /\ request' = None /\ Effect
             /\ store'[Cell] = call.val[call.idx]
  <2>1. call.pc = "write" /\ request = [var |-> Cell, dat |-> call.val[call.idx]]
    BY <1>1 DEF Commit, IInv, Requested
  <2>2. store' = [store EXCEPT ![Cell] = call.val[call.idx]] /\ request' = None
    BY <1>1, <2>1 DEF Commit
  <2>3. Cell \in DOMAIN store
    BY <1>1, <2>1, CellCases, CellFacts DEF IInv, Stored
  <2>4. QED  BY <2>1, <2>2, <2>3 DEF Effect
<1>2. ASSUME IInv, Abandon
      PROVE  call.pc = "write" /\ request' = None /\ Effect
  BY <1>2 DEF Abandon, IInv, Requested, Effect
<1>3. QED  BY <1>1, <1>2

LEMMA WrittenInv == IInv /\ Written => IInv'
BY RequestEffect, AdvanceInv DEF Written

LEMMA FlashErrorInv == IInv /\ FlashError => IInv'
BY RequestEffect, ReturnInv DEF FlashError

\* The device loses its power or is reset, with or without the write under way.
LEMMA CrashInv == ASSUME IInv, NEW keep \in BOOLEAN, Crash(keep) PROVE IInv'
<1>1. /\ call' = Off /\ call'.pc = "off" /\ ram' \in {ram, None} /\ UNCHANGED histVars
      /\ thr' = [t \in Threads |-> Idle]
  BY DEF Crash, Off
<1>2. /\ request' = None
      /\ Stored(store', tried)
      /\ settled => BackedUp(store', tried)
      /\ confirmed.app # None => AppOf(store') = confirmed.app
  <2>1. CASE request # None
    BY <2>1, RequestEffect, EffectKeeps DEF Crash
  <2>2. CASE request = None
    BY <2>2, ReadsAppOf DEF Crash, storeVars, IInv, Settled, Kept, Stored, BackedUp, AppOf
  <2>3. QED  BY <2>1, <2>2
<1>3. Types'
  BY <1>1, IdleCalls DEF IInv, Types, histVars
<1>4. Sound' /\ Progress' /\ Requested'
  BY <1>1, <1>2 DEF Sound, Progress, Requested
<1>5. Kept'
  BY <1>1, <1>2, ReadsAppOfNext DEF Kept, histVars
<1>6. Stored(store', tried') /\ Settled'
  BY <1>1, <1>2 DEF IInv, Settled, histVars
<1>7. ThreadTypes'
  BY <1>1, IdleThread DEF ThreadTypes
<1>8. QED  BY <1>3, <1>4, <1>5, <1>6, <1>7 DEF IInv

\* Every step keeps the invariant.
LEMMA NextInv == IInv /\ [ConfNext]_confVars => IInv'
<1> SUFFICES ASSUME IInv, [ConfNext]_confVars PROVE IInv'
  OBVIOUS
<1>1. CASE Boot
  BY <1>1, BootInv
<1>2. ASSUME NEW x \in Others, Drive(x) PROVE IInv'
  BY <1>2, DriveInv
<1>3. ASSUME NEW t \in Threads, NEW x \in Others, NEW y \in Others, StoreVar(t, <<x, y>>)
      PROVE  IInv'
  BY <1>3, StoreVarInv
<1>4. ASSUME NEW t \in Threads, NEW x \in Words, NEW y \in Words, StoreApp(t, <<x, y>>)
      PROVE  IInv'
  BY <1>4, StoreAppInv
<1>5. ASSUME NEW t \in Threads, StoreBackup(t) PROVE IInv'
  BY <1>5, StoreBackupInv
<1>6. ASSUME NEW t \in Threads, NotReleased(t) \/ MotorReleased(t) \/ SetId(t) PROVE IInv'
  BY <1>6, NotReleasedInv, MotorReleasedInv, SetIdInv
<1>7. CASE WriteSame
  BY <1>7, WriteSameInv
<1>8. CASE WriteCell
  BY <1>8, WriteCellInv
<1>9. CASE Written
  BY <1>9, WrittenInv
<1>10. CASE FlashError
  BY <1>10, FlashErrorInv
<1>11. ASSUME NEW keep \in BOOLEAN, Crash(keep) PROVE IInv'
  BY <1>11, CrashInv
<1>12. CASE UNCHANGED confVars
  <2>1. UNCHANGED <<store, request, thr, call, ram, confirmed, tried, settled>>
    BY <1>12 DEF confVars, storeVars, histVars
  <2>2. Types' /\ Sound' /\ Progress' /\ Requested' /\ Kept'
    BY <2>1, SameReads DEF IInv, Types, Sound, Progress, Requested, Kept, Cell
  <2>3. Stored(store', tried') /\ Settled'
    BY <2>1 DEF IInv, Settled
  <2>4. ThreadTypes'
    BY <2>1, SameThreads DEF IInv
  <2>5. QED  BY <2>2, <2>3, <2>4 DEF IInv
<1>13. QED
  BY <1>1, <1>2, <1>3, <1>4, <1>5, <1>6, <1>7, <1>8, <1>9, <1>10, <1>11, <1>12 DEF ConfNext

LEMMA AlwaysInv == ConfSpec => []IInv
BY InitInv, NextInv, PTL DEF ConfSpec

-----------------------------------------------------------------------------
\* Every variable of the configuration storage keeps its type, and no store routine
\* passes over a cell of its record.
THEOREM ConfTypeCorrect == ConfSpec => []ConfTypeOK
<1>1. IInv => ConfTypeOK
  <2> SUFFICES ASSUME IInv PROVE ConfTypeOK
    OBVIOUS
  <2>1. request \in [var : Vars, dat : Values] \cup {None}
    BY CellCases, CellFacts DEF IInv, Requested
  <2>2. call.pc = "write" => call.idx \in DOMAIN call.val
    BY DEF IInv, Progress, Types
  <2>3. call.pc # "off" => ram # None
    BY ValuesAssumption DEF IInv, Types, Bodies
  <2>4. QED  BY <2>1, <2>2, <2>3 DEF IInv, Stored, Types, Calls, ThreadTypes, ConfTypeOK
<1>2. QED  BY <1>1, AlwaysInv, PTL

\* A configuration that a call confirmed is read back until the next one is written,
\* for any number of power losses, resets, flash errors and other records in between.
THEOREM ConfirmedIsRead == ConfSpec => []ConfirmedReads
<1>1. IInv => ConfirmedReads
  BY DEF IInv, Kept, ConfirmedReads
<1>2. QED  BY <1>1, AlwaysInv, PTL

\* The configuration read is one that somebody stored: the CRC that goes with it is
\* that of a body that was tried, and no other body has that CRC.
LEMMA ReadsTried ==
  ASSUME IInv
  PROVE  ReadApp \in tried \cup {None}
<1>1. SUFFICES ASSUME ReadApp # None
               PROVE  ReadApp \in tried
  OBVIOUS
<1>2. /\ ReadApp = <<store["id"], store["rest"]>>
      /\ store["id"] # None /\ store["rest"] # None /\ store["crc"] # None
      /\ store["crc"] = 2 * store["id"] + store["rest"]
  BY <1>1, ReadsAppOf DEF AppOf
<1>3. ReadApp \in Bodies /\ store["crc"] = Crc(ReadApp)
  <2>1. store["id"] \in Words /\ store["rest"] \in Words
    BY <1>2, CellFacts DEF IInv, Stored
  <2>2. QED  BY <1>2, <2>1, WordPairs DEF Crc
<1>4. PICK body \in tried : store["crc"] = Crc(body)
  BY <1>2 DEF IInv, Stored
<1>5. body \in Bodies
  BY DEF IInv, Types
<1>6. ReadApp = body
  BY <1>3, <1>4, <1>5, CrcInjective
<1>7. QED  BY <1>6

\* Between two calls the device reads no mix of two configurations, wherever power
\* was lost while the half words of one were written.
THEOREM ReadsWhole == ConfSpec => []ConfWhole
<1>1. IInv => ConfWhole
  BY ReadsTried DEF ConfWhole
<1>2. QED  BY <1>1, AlwaysInv, PTL

\* Once a configuration was stored with its backup, the device keeps the CAN id of
\* one that was stored, even when the configuration itself is lost.
THEOREM KeepsId == ConfSpec => []IdSurvives
<1>1. IInv => IdSurvives
  <2> SUFFICES ASSUME IInv, call.pc = "idle", settled
               PROVE  CanId \in {body[1] : body \in tried}
    BY DEF IdSurvives
  <2>1. ram # None
    BY ValuesAssumption DEF IInv, Types, Bodies
  <2>2. ram[2] \in Ids(tried)
    BY <2>1 DEF IInv, Settled
  <2>3. CASE ReadApp = None
    BY <2>2, <2>3 DEF CanId, Ids
  <2>4. CASE ReadApp # None
    BY <2>4, ReadsTried DEF CanId
  <2>5. QED  BY <2>3, <2>4
<1>2. QED  BY <1>1, AlwaysInv, PTL
=============================================================================
