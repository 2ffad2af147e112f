------------------------------ MODULE MCLogView ------------------------------
(***************************************************************************)
(* Instances of LogView for TLC.                                           *)
(***************************************************************************)
EXTENDS LogView

CONSTANTS d1, d2, l1, l2
=============================================================================
