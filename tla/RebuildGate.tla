----------------------------- MODULE RebuildGate -----------------------------
(***************************************************************************)
(* What the lock of the Excel worker really promises, once its forced      *)
(* rebuild is taken into account: a room for documents, with one seat at   *)
(* first and one more for every rebuild.  A mutual-exclusion lock would    *)
(* have one seat for ever.  ExcelWorker is shown to implement this gate.   *)
(***************************************************************************)
EXTENDS Naturals, FiniteSets

CONSTANT Docs           \* the documents that may enter

VARIABLES inside,       \* the documents that are in the critical section
          seats         \* how many may be there at once

gateVars == <<inside, seats>>

GateInit == inside = {} /\ seats = 1

Enter(d) ==
  /\ d \notin inside
  /\ Cardinality(inside) < seats
  /\ inside' = inside \cup {d}
  /\ UNCHANGED seats

Leave(d) ==
  /\ d \in inside
  /\ inside' = inside \ {d}
  /\ UNCHANGED seats

Widen ==
  /\ seats' = seats + 1
  /\ UNCHANGED inside

GateNext == (\E d \in Docs : Enter(d) \/ Leave(d)) \/ Widen

GateSpec == GateInit /\ [][GateNext]_gateVars
==============================================================================
