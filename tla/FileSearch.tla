----------------------------- MODULE FileSearch -----------------------------
(***************************************************************************)
(* The agent's search for documents (cmd/aioagent/main.go:156-261): the    *)
(* boosted searcher, which reads the MFT of the volume, or the general     *)
(* one, which walks the directory; and the consumer, which drops what is   *)
(* not on the local disk.  When the boosted one cannot work, the channel   *)
(* they share is replaced and the general one starts over.                 *)
(*                                                                         *)
(* Abstracted: a path is whether each searcher reports it.                 *)
(***************************************************************************)
EXTENDS AgentStart, Functions

VARIABLES
  fallback,     \* triggeredErrFallback
  chan,         \* searcherOptChan: the number of the channel it holds
  closed,       \* the channels that are closed
  searcher,     \* where the searcher that was started last is
  todo,         \* what it will still report
  consumer,     \* where the consumer that was started last is
  source,       \* the channel that consumer ranges over
  item,         \* what it has received
  list          \* searcherFoundList

searcherVars == <<searcher, todo>>
consumerVars == <<consumer, source, item, list>>
searchVars == <<fallback, chan, closed, searcherVars, consumerVars>>

None == "none"

ASSUME SearchAssumption == None \notin Files

SearchInit ==
  /\ fallback = FALSE
  /\ chan = 1 /\ closed = {}
  /\ searcher = "off" /\ todo = {}
  /\ consumer = "off" /\ source = 0 /\ item = None
  /\ list = <<>>

-----------------------------------------------------------------------------
(* main: two rounds, each joined by wg.Wait. *)

StartBoosted ==
  /\ main = "search" /\ input.boostable
  /\ main' = "waitBoosted" /\ searcher' = "mft" /\ consumer' = "started"
  /\ UNCHANGED <<input, http, fallback, chan, closed, todo, source, item, list, agent>>

SkipBoosted ==
  /\ main = "search" /\ ~input.boostable
  /\ main' = "decide" /\ fallback' = TRUE
  /\ UNCHANGED <<input, http, chan, closed, searcherVars, consumerVars, agent>>

\* wg.Wait: whatever was started has returned.
Joined == searcher \in {"off", "returned"} /\ consumer \in {"off", "returned"}

JoinBoosted ==
  /\ main = "waitBoosted" /\ Joined
  /\ main' = "decide"
  /\ UNCHANGED <<input, http, fallback, chan, closed, searcherVars, consumerVars, agent>>

ClosesOldAlways == TRUE
ClosesOld == ~input.boostable

\* The old channel was closed by the boosted searcher, or is closed here.  A new
\* consumer and the general searcher start.
FallBack ==
  /\ main = "decide" /\ fallback
  /\ closed' = (IF ClosesOld THEN closed \cup {chan} ELSE closed)
  /\ chan' = 2
  /\ main' = "waitGeneral" /\ searcher' = "walk" /\ consumer' = "started"
  /\ UNCHANGED <<input, http, fallback, todo, source, item, list, agent>>

BoostedWasEnough ==
  /\ main = "decide" /\ ~fallback
  /\ main' = "waitGeneral"
  /\ UNCHANGED <<input, http, fallback, chan, closed, searcherVars, consumerVars, agent>>

JoinGeneral ==
  /\ main = "waitGeneral" /\ Joined
  /\ main' = "searched"
  /\ UNCHANGED <<input, http, fallback, chan, closed, searcherVars, consumerVars, agent>>

SearchMainStep ==
  StartBoosted \/ SkipBoosted \/ JoinBoosted \/ FallBack \/ BoostedWasEnough \/ JoinGeneral

-----------------------------------------------------------------------------
(* The searchers. *)

\* The volume, its MFT or the path cannot be used: all found out before the first
\* file is reported.  The deferred close comes first, then the flag or the exit.
BoostedFails ==
  /\ searcher = "mft"
  /\ closed' = closed \cup {chan}
  /\ \/ searcher' = "returned" /\ fallback' = TRUE /\ UNCHANGED agent
     \/ agent' = "exit5" /\ UNCHANGED <<searcher, fallback>>
  /\ UNCHANGED <<input, http, main, chan, todo, consumerVars>>

\* The MFT reader compares the path's prefix, and its letter case, where the file
\* system ignores it; the walk loses what it may not list.
Reported ==
  CASE searcher = "mft" /\ input.exactCase -> input.under \cup input.beside
    [] searcher = "mft" /\ ~input.exactCase -> {}
    [] searcher = "walk" -> input.under \ input.denied

BeginSearch ==
  /\ searcher \in {"mft", "walk"}
  /\ searcher' = "reporting" /\ todo' = Reported
  /\ UNCHANGED <<input, http, main, fallback, chan, closed, consumerVars, agent>>

\* The channel is unbuffered: the consumer takes what the searcher sends.
Report ==
  /\ searcher = "reporting" /\ consumer = "receiving" /\ source = chan
  /\ \E f \in todo : todo' = todo \ {f} /\ item' = f
  /\ consumer' = "checking"
  /\ UNCHANGED <<input, http, main, fallback, chan, closed, searcher, source, list, agent>>

SearchEnds ==
  /\ searcher = "reporting" /\ todo = {}
  /\ searcher' = "returned" /\ closed' = closed \cup {chan}
  /\ UNCHANGED <<input, http, main, fallback, chan, todo, consumerVars, agent>>

SearcherStep == BoostedFails \/ BeginSearch \/ Report \/ SearchEnds

-----------------------------------------------------------------------------
(* The consumer. *)

\* range searcherOptChan: the variable is read when the goroutine runs.
BeginConsuming ==
  /\ consumer = "started"
  /\ consumer' = "receiving" /\ source' = chan
  /\ UNCHANGED <<input, http, main, fallback, chan, closed, searcherVars, item, list, agent>>

KeepsAnything(f) == TRUE
Keeps(f) == f \in input.local

Check ==
  /\ consumer = "checking"
  /\ consumer' = "receiving" /\ item' = None
  /\ list' = (IF Keeps(item) THEN Append(list, item) ELSE list)
  /\ UNCHANGED <<input, http, main, fallback, chan, closed, searcherVars, source, agent>>

ConsumingEnds ==
  /\ consumer = "receiving" /\ source \in closed
  /\ consumer' = "returned"
  /\ UNCHANGED <<input, http, main, fallback, chan, closed, searcherVars, source, item, list, agent>>

ConsumerStep == BeginConsuming \/ Check \/ ConsumingEnds

-----------------------------------------------------------------------------
(* Properties. *)

SearchTypeOK ==
  /\ fallback \in BOOLEAN /\ chan \in 1..2 /\ closed \subseteq 1..2
  /\ searcher \in {"off", "mft", "walk", "reporting", "returned"} /\ todo \subseteq Files
  /\ consumer \in {"off", "started", "receiving", "checking", "returned"}
  /\ source \in 0..chan
  /\ (consumer = "checking") <=> (item # None)
  /\ list \in Seq(Files)

\* A searcher never sends on a closed channel, and nobody closes a closed one,
\* either of which is a panic, although two searchers and main close channels
\* and main replaces one (main.go:230-235, filesearcher.go:13).
ClosesOnce ==
  Up => /\ searcher \in {"mft", "walk", "reporting"} => chan \notin closed
        /\ main = "decide" /\ fallback /\ ClosesOld => chan \notin closed

\* "The path to the files you want to scan" (main.go:40): what is below it, and on
\* the local disk.
ToBeScanned == input.under \cap input.local

\* The boosted search compares strings where the file system compares paths: with
\* actionPath in another letter case it may find nothing, and with a sibling whose
\* name begins like actionPath it may find too much
\* (filesearcher_booster_windows.go:161).
MayMissAll == ~fallback /\ ~input.exactCase
MayTakeBeside == ~fallback /\ input.beside # {}

\* When the search is over, whichever searchers ran, no file is listed twice, every
\* file below actionPath is listed that is on the local disk and the walk may list,
\* and no other is: but for the two faults named above, which the boosted search
\* alone has (main.go:40, 164-178, 203-261).
ListIsExact ==
  main = "searched" /\ ~input.noDiskScan =>
    /\ IsInjective(list)
    /\ ~MayMissAll => ToBeScanned \ (IF fallback THEN input.denied ELSE {}) \subseteq Range(list)
    /\ Range(list) \subseteq ToBeScanned \cup (IF MayTakeBeside THEN input.beside \cap input.local ELSE {})
==============================================================================
