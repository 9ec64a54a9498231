------------------------------ MODULE MCEeprom ------------------------------
(* A small instance of Eeprom: two variables, in the order of transfers. *)
EXTENDS Eeprom

CONSTANTS a, b
MCVarTab == <<a, b>>
=============================================================================
