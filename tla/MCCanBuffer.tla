----------------------------- MODULE MCCanBuffer -----------------------------
(* Small instances of CanBuffer: packets of two and of three fragments. *)
EXTENDS CanBuffer, TLC

CONSTANTS two, three
MCLength == (two :> 2) @@ (three :> 3)
=============================================================================
