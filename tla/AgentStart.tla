----------------------------- MODULE AgentStart -----------------------------
(***************************************************************************)
(* The agent from its start to the search (cmd/aioagent/main.go:54-156):   *)
(* one goroutine that checks its arguments, reads the cleanup database,    *)
(* asks whether it is up to date, and exits at the first thing that fails. *)
(*                                                                         *)
(* Telemetry (telemetry/general.go, betterstack.go) runs in the goroutine  *)
(* that reports, over HTTP clients without a time limit, while the update  *)
(* checker allows itself five seconds.                                     *)
(*                                                                         *)
(* Abstracted: what goes over HTTP, what is logged, and the -help flag.    *)
(***************************************************************************)
EXTENDS Naturals, Sequences, FiniteSets

CONSTANTS
  Files,        \* the files of the volume
  Inputs        \* what the agent may be given: the records described below

VARIABLES
  input,        \* what it is given: flags, privileges, volume, detections
  main,         \* where main is
  http,         \* the goroutines that are in a telemetry call
  agent         \* "up", or how the process ended

startVars == <<input, main, http, agent>>

\* The fields of an input.
\*   noDiskScan, dryRun, hardening: the flags
\*   boostable: elevated, on NTFS, and not forbidden by the noPriv flag
\*   exactCase: actionPath is written in the letter case the volume has
\*   under:     the files under actionPath with a name the search wants
\*   beside:    those whose path only BEGINS with actionPath ("/Users2/...")
\*   denied:    those under it that walking does not report: it may not list them,
\*              or their name is wanted only for where actionPath is
\*   local:     those that are on the local disk and not empty
\*   rules[f]:  the rules that YARA matches in f, none if f cannot be read
\*   lines:     a result list; a line is its rule, if any, and how long its path is
ASSUME StartAssumption ==
  /\ IsFiniteSet(Files)
  /\ \A i \in Inputs :
       /\ {i.noDiskScan, i.dryRun, i.hardening, i.boostable, i.exactCase} \subseteq BOOLEAN
       /\ i.under \subseteq Files /\ i.beside \subseteq Files \ i.under
       /\ i.denied \subseteq i.under /\ i.local \subseteq Files
       /\ DOMAIN i.rules = Files

Up == agent = "up"
Posts(a) == http' = http \cup {a}
Exits(code) == agent' = code /\ UNCHANGED <<main, http>>

\* telemetry.Init asks the world for the public IP address first.
StartInit ==
  /\ input \in Inputs
  /\ main = "arguments" /\ http = {"main"} /\ agent = "up"

-----------------------------------------------------------------------------
\* The action path is no directory, or the list is no file.
CheckArguments ==
  /\ main = "arguments"
  /\ \/ main' = "database" /\ UNCHANGED <<http, agent>>
     \/ Exits("exit-1")
  /\ UNCHANGED input

\* What XChacha20Decrypt refuses is reported before the exit.  What is shorter than
\* nonce, checksum and tag together it does not refuse: it panics, for the length
\* of the plain text would be negative.
DecryptFails ==
  \/ main' = "failing" /\ Posts("main") /\ UNCHANGED agent
  \/ Exits("outOfRange")

\* The database may also be missing, or no JSON, neither of which is reported.
ReadDatabase ==
  /\ main = "database"
  /\ \/ main' = "update" /\ Posts("main") /\ UNCHANGED agent
     \/ Exits("exit-1") \/ DecryptFails
  /\ UNCHANGED input

GiveUp == main = "failing" /\ Exits("exit-1") /\ UNCHANGED input

\* CheckUpdateFromInternet: the latest versions, or an error within five seconds.
UpdateAnswers == {"same", "newer", "error"}

\* Excel is killed, except in a dry run.  Another version exits, unless the flag
\* tells to ignore it; no answer does not.
CheckUpdate ==
  /\ main = "update"
  /\ \E latest \in UpdateAnswers :
       \/ main' = "privileges" /\ UNCHANGED <<agent, http>>
       \/ latest = "newer" /\ Exits("exit-1")
  /\ UNCHANGED input

\* CheckProcessElevated ends the process when it cannot see its own token.
CheckPrivileges ==
  /\ main = "privileges"
  /\ \/ main' = (IF input.noDiskScan THEN "searched" ELSE "search") /\ UNCHANGED <<http, agent>>
     \/ Exits("exit5")
  /\ UNCHANGED input

StartStep ==
  /\ "main" \notin http
  /\ CheckArguments \/ ReadDatabase \/ GiveUp \/ CheckUpdate \/ CheckPrivileges

\* A server answers, refuses or drops the connection.
HttpReturns(a) ==
  /\ a \in http /\ http' = http \ {a}
  /\ UNCHANGED <<input, main, agent>>

StartTypeOK ==
  /\ main \in {"arguments", "database", "failing", "update", "privileges", "search", "waitBoosted",
               "decide", "waitGeneral", "searched", "load", "reported", "wait"}
  /\ http \subseteq {"main", "san", "hard"}
  /\ agent \in {"up", "done", "exit-1", "exit1", "exit5", "outOfRange", "panic"}
==============================================================================
