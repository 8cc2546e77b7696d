------------------------------ MODULE Hardener ------------------------------
(***************************************************************************)
(* The hardener (hardener/actionScheduler.go, tinyActions.go): one         *)
(* goroutine that takes hardening requests from HardeningQueue and, for    *)
(* each, makes the places where the virus puts itself unusable to it.      *)
(* Every call it makes on the file system may fail; a failure is logged    *)
(* and the next call is made.  The virus, or an Excel that still runs, may *)
(* write between any two of these calls.                                   *)
(*                                                                         *)
(* Abstracted: a file is its kind, its read-only attribute and whether it  *)
(* holds the virus.  File modes are those of Windows, where the program    *)
(* runs: Mkdir's mode does nothing, Chmod(0400) sets the attribute, and    *)
(* the attribute of a directory does not protect what is in it.            *)
(***************************************************************************)
EXTENDS Naturals, Sequences, FiniteSets

CONSTANTS
  Dests,        \* the paths that hardening measures name
  Top,          \* the one of them that is the directory of all others
  Queues        \* the sequences of requests the dispatcher may send

Measures == [action : STRING, type : STRING, dest : Dests]
Requests == [name : STRING, repeat : BOOLEAN, measures : Seq(Measures)]

\* No path is one of the two words that say of what type a path is.
ASSUME HardenerAssumption ==
  /\ Top \in Dests
  /\ {"file", "dir"} \cap Dests = {}
  /\ Queues \subseteq Seq(Requests)

VARIABLES
  dryRun,       \* common.DryRunOnly
  queue,        \* HardeningQueue, closed after what is in it
  hardened,     \* common.HardenedDetectionTypes
  measures,     \* what is left of the current request's ActionLst
  calls,        \* what is left of the current measure
  fs,           \* fs[d]: what is at d
  runs,         \* history: runs[n]: how often the measures of n were started
  failed,       \* history: a call of the current measure has failed
  secured       \* history: the paths replaced by a directory without a failure

requestVars == <<queue, hardened, measures, runs>>
vars == <<dryRun, requestVars, calls, fs, failed, secured>>

Nothing == [kind |-> "none", ro |-> FALSE, bad |-> FALSE]
Directory == [kind |-> "dir", ro |-> FALSE, bad |-> FALSE]
EmptyFile == [kind |-> "file", ro |-> FALSE, bad |-> FALSE]
VirusFile == [kind |-> "file", ro |-> FALSE, bad |-> TRUE]
Nodes == [kind : {"none", "file", "dir"}, ro : BOOLEAN, bad : BOOLEAN]

Below(d) == IF d = Top THEN Dests ELSE {d}
ParentIsDir(d) == d = Top \/ fs[Top].kind = "dir"

Idle == measures = <<>> /\ calls = <<>>
Measure == Head(measures)

Init ==
  /\ dryRun \in BOOLEAN
  /\ queue \in Queues
  /\ hardened = {}
  /\ measures = <<>> /\ calls = <<>>
  /\ fs \in {[d \in Dests |-> IF d = Top THEN Directory ELSE n] : n \in {Nothing, VirusFile}}
  /\ runs = [n \in {queue[i].name : i \in DOMAIN queue} |-> 0]
  /\ failed = FALSE /\ secured = {}

-----------------------------------------------------------------------------
(* DispatchHardenAction. *)

MarkForgotten(n) == hardened
Mark(n) == hardened \cup {n}

\* The type is marked BEFORE its measures are taken, whatever comes of them.
Dispatch ==
  /\ Idle /\ queue # <<>>
  /\ LET r == Head(queue)
         proceed == ~dryRun /\ (r.name \notin hardened \/ r.repeat)
     IN /\ queue' = Tail(queue)
        /\ hardened' = (IF proceed THEN Mark(r.name) ELSE hardened)
        /\ measures' = (IF proceed THEN r.measures ELSE <<>>)
        /\ runs' = (IF proceed THEN [runs EXCEPT ![r.name] = @ + 1] ELSE runs)
  /\ UNCHANGED <<dryRun, calls, fs, failed, secured>>

-----------------------------------------------------------------------------
(* takeProperHardenAction: the calls each measure makes, in order. *)

\* f_harden_SetRO.
SetROCalls(type) ==
  CASE type = "file" -> <<"chmod">> [] type = "dir" -> <<"walk">> [] OTHER -> <<>>

ReplaceSwapped == <<"mkdirAll", "removeAll">>
ReplaceByDir == <<"removeAll", "mkdirAll">>

Supported == {"replaceFile_setRO", "rm_replaceDir_setRO", "clean_setRO", "setRO"}

\* Two of them call f_harden_SetRO with its arguments exchanged: the path is
\* taken for the type, and no type of that name exists.  A measure nobody knows is
\* reported; one on the wrong type of path is only logged.
Calls(m) ==
  CASE m.action = "rm_replaceDir_setRO" /\ m.type = "file" ->
         ReplaceByDir \o SetROCalls(m.dest)
    [] m.action = "replaceFile_setRO" /\ m.type = "dir" ->
         <<"removeAll", "create">> \o SetROCalls(m.dest)
    [] m.action = "clean_setRO" /\ m.type = "file" ->
         <<"create", "truncate">> \o SetROCalls(m.type)
    [] m.action = "clean_setRO" /\ m.type = "dir" ->
         <<"removeAll", "mkdir">> \o SetROCalls(m.type)
    [] m.action = "setRO" -> SetROCalls(m.type)
    [] m.action \notin Supported -> <<"report">>
    [] OTHER -> <<>>

MeasureRetried == measures
MeasureSkipped == Tail(measures)

\* The template of the next destination is applied, or the measure is skipped,
\* as is one that makes no call.
TakeMeasure ==
  /\ measures # <<>> /\ calls = <<>>
  /\ \/ Calls(Measure) # <<>> /\ calls' = Calls(Measure) /\ UNCHANGED measures
     \/ measures' = MeasureSkipped /\ UNCHANGED calls
  /\ failed' = FALSE
  /\ UNCHANGED <<dryRun, queue, hardened, runs, fs, secured>>

-----------------------------------------------------------------------------
(* The calls on the file system, and the report. *)

ChmodWorks(d) == fs[d].kind # "none"
Put(f, d, node) == [f EXCEPT ![d] = node]

\* What fs may be after call c on d has succeeded; {} where it cannot succeed.
Succeeds(c, d) ==
  CASE c = "removeAll" ->
         {[e \in Dests |-> IF e \in Below(d) THEN Nothing ELSE fs[e]]}
    [] c = "mkdirAll" ->
         IF fs[d].kind # "file" /\ fs[Top].kind # "file"
         THEN {[e \in Dests |-> IF e \in {d, Top} /\ fs[e].kind = "none" THEN Directory ELSE fs[e]]}
         ELSE {}
    [] c = "mkdir" -> IF fs[d].kind = "none" /\ ParentIsDir(d) THEN {Put(fs, d, Directory)} ELSE {}
    [] c \in {"create", "truncate"} ->
         IF fs[d].kind # "dir" /\ ~fs[d].ro /\ ParentIsDir(d) THEN {Put(fs, d, EmptyFile)} ELSE {}
    [] c = "chmod" -> IF ChmodWorks(d) THEN {[fs EXCEPT ![d].ro = TRUE]} ELSE {}
    [] c = "walk" ->
         IF fs[d].kind = "dir"
         THEN {[e \in Dests |-> IF e \in Below(d) /\ fs[e].kind # "none"
                                THEN [fs[e] EXCEPT !.ro = TRUE] ELSE fs[e]]}
         ELSE {}

\* What it may be after the call has failed: RemoveAll and Walk may have done
\* a part of their work.
Fails(c, d) ==
  CASE c = "removeAll" ->
         {[e \in Dests |-> IF e \in S THEN Nothing ELSE fs[e]] : S \in SUBSET (Below(d) \ {d})}
    [] c = "walk" ->
         {[e \in Dests |-> IF e \in S /\ fs[e].kind # "none"
                           THEN [fs[e] EXCEPT !.ro = TRUE] ELSE fs[e]] : S \in SUBSET Below(d)}
    [] OTHER -> {fs}

\* A path is no longer secured when a measure removes it or what it is in.
StillSecured(c, d) == IF c = "removeAll" THEN secured \ Below(d) ELSE secured

Ends == Len(calls) = 1
NowSecured(d, ok) ==
  IF Ends /\ ok /\ Measure.action = "rm_replaceDir_setRO" THEN {d} ELSE {}

CallEnds == calls' = Tail(calls) /\ measures' = (IF Ends THEN Tail(measures) ELSE measures)

Call ==
  /\ calls # <<>> /\ Head(calls) # "report"
  /\ LET c == Head(calls)
         d == Measure.dest
     IN \/ /\ fs' \in Succeeds(c, d)
           /\ secured' = StillSecured(c, d) \cup NowSecured(d, ~failed)
           /\ UNCHANGED failed
        \/ /\ fs' \in Fails(c, d)
           /\ failed' = TRUE
           /\ secured' = StillSecured(c, d)
  /\ CallEnds
  /\ UNCHANGED <<dryRun, queue, hardened, runs>>

\* Telemetry's request has no time limit: it may never return.
Reported ==
  /\ calls # <<>> /\ Head(calls) = "report"
  /\ CallEnds
  /\ UNCHANGED <<dryRun, queue, hardened, runs, fs, failed, secured>>

-----------------------------------------------------------------------------
(* The virus, or Excel on its behalf. *)

Infectable(d) == d # Top /\ ParentIsDir(d) /\ fs[d].kind # "dir" /\ ~fs[d].ro

Infect(d) ==
  /\ Infectable(d)
  /\ fs' = Put(fs, d, VirusFile)
  /\ UNCHANGED <<dryRun, requestVars, calls, failed, secured>>

RecreateTop ==
  /\ fs[Top].kind = "none"
  /\ fs' = Put(fs, Top, Directory)
  /\ UNCHANGED <<dryRun, requestVars, calls, failed, secured>>

HardenerNext == Dispatch \/ TakeMeasure \/ Call
Environment == RecreateTop \/ \E d \in Dests : Infect(d)

Next == HardenerNext \/ Reported \/ Environment

Spec == Init /\ [][Next]_vars

\* The hardener is a goroutine; calls on the local file system return.
FairSpec == Spec /\ WF_vars(HardenerNext)

-----------------------------------------------------------------------------
(* Properties. *)

TypeOK ==
  /\ hardened = {n \in DOMAIN runs : runs[n] > 0}
  /\ fs \in [Dests -> Nodes]
  /\ \A d \in Dests : /\ fs[d].kind # "file" => ~fs[d].bad
                      /\ fs[d].kind = "none" => ~fs[d].ro
  /\ calls # <<>> => measures # <<>>
  /\ secured \subseteq Dests /\ failed \in BOOLEAN

\* A path that was replaced by a directory without a failing call stays without
\* the virus, read-only or not and whenever the virus writes, until a measure
\* removes it again (tinyActions.go:14-25).
ReplacedStaysClean == \A d \in secured : ~fs[d].bad

\* The measures of a type are taken a second time only for a request that allows
\* it, and never in a dry run (actionScheduler.go:11-36).
RepeatsAreAllowed ==
  [][\A n \in DOMAIN runs :
       runs'[n] # runs[n] => ~dryRun /\ (runs[n] > 0 => Head(queue).repeat)]_vars

\* Every request is dealt with, whatever calls and templates fail: the hardener gets
\* back to its queue, unless its report of a measure it does not know is never
\* answered (actionScheduler.go:43-70, betterstack.go:57).
QueueDrains == <>(queue = <<>> /\ Idle) \/ <>[](calls = <<"report">>)

\* Refuted: the measures named for it leave their destination read-only
\* (actionScheduler.go:44-47).
ReplacedIsReadOnly == \A d \in secured : calls = <<>> => fs[d].ro
==============================================================================
