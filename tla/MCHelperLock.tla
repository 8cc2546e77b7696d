---------------------------- MODULE MCHelperLock ----------------------------
(* Small instance of HelperLock for TLC. *)
EXTENDS HelperLock
==============================================================================
