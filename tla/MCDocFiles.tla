---------------------------- MODULE MCDocFiles ----------------------------
(* Small instance of DocFiles for TLC: two documents, the two solutions of *)
(* the shipped cleanup DB and one with an operation nobody implements.     *)
EXTENDS DocFiles

Module(n, b) == [name |-> n, bad |-> b]
MCWorkbooks ==
  {<<>>,
   <<Module("ThisWorkbook", TRUE)>>,
   <<Module("ThisWorkbook", FALSE), Module("foxz", TRUE)>>,
   <<Module("foxz", TRUE), Module("ThisWorkbook", TRUE)>>}
MCSolutions ==
  {[op |-> "remediate", dest |-> "ThisWorkbook"],
   [op |-> "rm_module", dest |-> "foxz"],
   [op |-> "unknown", dest |-> "foxz"]}
==============================================================================
