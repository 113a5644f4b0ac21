------------------------------ MODULE MCCoreSocket ------------------------------
(* CoreSocket for TLC: two tasks, one started while the other is at work. *)
EXTENDS CoreSocket
=============================================================================
