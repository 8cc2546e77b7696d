---------------------------- MODULE MCLogonSession ----------------------------
(* Small instance of LogonSession for TLC: the services' session and those of *)
(* three people.                                                             *)
EXTENDS LogonSession
==============================================================================
