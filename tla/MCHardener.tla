----------------------------- MODULE MCHardener -----------------------------
(* Small instance of Hardener for TLC: the measures of the shipped cleanup *)
(* DB on the XLSTART directory and two paths in it, the two measures the   *)
(* code supports but the DB does not use, one on the wrong type of path,   *)
(* and one that nobody knows.                                              *)
EXTENDS Hardener

MCDests == {"XLSTART", "Book1", "NEGS"}

Take(a, t, d) == [action |-> a, type |-> t, dest |-> d]
Request(n, r, ms) == [name |-> n, repeat |-> r, measures |-> ms]

Slacker == Request("Slacker", FALSE, <<Take("rm_replaceDir_setRO", "file", "Book1"),
                                       Take("setRO", "dir", "XLSTART")>>)
Laroux == Request("Laroux", TRUE, <<Take("rm_replaceDir_setRO", "file", "NEGS"),
                                    Take("clean_setRO", "file", "Book1")>>)
Wipe == Request("Wipe", FALSE, <<Take("clean_setRO", "dir", "XLSTART"),
                                 Take("rm_replaceDir_setRO", "dir", "XLSTART"),
                                 Take("unsupported", "dir", "XLSTART")>>)
Block == Request("Block", TRUE, <<Take("replaceFile_setRO", "dir", "XLSTART"),
                                  Take("setRO", "file", "NEGS")>>)
MCQueues == [1..3 -> {Slacker, Laroux, Wipe, Block}]
==============================================================================
