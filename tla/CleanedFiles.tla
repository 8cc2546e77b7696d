---------------------------- MODULE CleanedFiles ----------------------------
(***************************************************************************)
(* What the helper promises of the files it is sent, whoever asks for what *)
(* and however often, fails or crashes: a document is at its first name,   *)
(* where it changes only by being cleaned, one cleaning on top of another, *)
(* until it moves, as it is, to its second name, where it stays for good.  *)
(*                                                                         *)
(* DocFiles is shown to implement this: requests, goroutines, the lock,    *)
(* the time between opening and saving, and backups are not in it.         *)
(***************************************************************************)
CONSTANTS
  Paths,            \* the documents
  Workbooks,        \* what they may hold at first
  Cleanings(_)      \* Cleanings(c): what a cleaning may make of c

VARIABLES
  first,       \* first[p]: what is at p, as a set: {c}, or {} when nothing is
  second       \* second[p]: what is at its second name

files == <<first, second>>

FilesInit ==
  /\ \E original \in [Paths -> Workbooks] : first = [p \in Paths |-> {original[p]}]
  /\ second = [p \in Paths |-> {}]

\* Every cleaning is one of what is there: none is based on what was there once.
Cleaned(p) ==
  /\ \E c \in first[p] : \E d \in Cleanings(c) : first' = [first EXCEPT ![p] = {d}]
  /\ UNCHANGED second

Renamed(p) ==
  /\ first[p] # {}
  /\ second' = [second EXCEPT ![p] = first[p]]
  /\ first' = [first EXCEPT ![p] = {}]

FilesNext == \E p \in Paths : Cleaned(p) \/ Renamed(p)

FilesSpec == FilesInit /\ [][FilesNext]_files
==============================================================================
