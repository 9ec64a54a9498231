---------------------------- MODULE EepromStore ----------------------------
(* What driver/eeprom.c promises its callers: a store of variables in which  *)
(* a write that ends, or is cut off by a power loss, has happened whole or   *)
(* not at all, and in which nothing else changes.                            *)
CONSTANTS Vars, Values, None

ASSUME StoreAssumption == None \notin Values

VARIABLES
  store,   \* the value of each variable, None before its first write
  request  \* the write under way, None between writes

storeVars == <<store, request>>

StoreInit == store = [v \in Vars |-> None] /\ request = None

Request(v, d) ==
  /\ request = None
  /\ request' = [var |-> v, dat |-> d]
  /\ UNCHANGED store

Commit ==
  /\ request # None
  /\ store' = [store EXCEPT ![request.var] = request.dat]
  /\ request' = None

\* Power loss before the write took effect, or a flash page with no room left.
Abandon ==
  /\ request # None
  /\ request' = None
  /\ UNCHANGED store

StoreNext == Commit \/ Abandon \/ \E v \in Vars, d \in Values : Request(v, d)

StoreSpec == StoreInit /\ [][StoreNext]_storeVars
=============================================================================
