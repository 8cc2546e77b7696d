--------------------------- MODULE HardenerProofs ---------------------------
(***************************************************************************)
(* Theorems about Hardener, for any paths and any sequences of requests:   *)
(* types, that what was replaced by a directory stays without the virus,   *)
(* and that measures are repeated only when a request allows it.           *)
(***************************************************************************)
EXTENDS Hardener, SequenceTheorems, TLAPS

\* The request queue and the table of hardened types.
RequestInv ==
  /\ dryRun \in BOOLEAN
  /\ queue \in Seq(Requests)
  /\ runs \in [DOMAIN runs -> Nat]
  /\ \A i \in DOMAIN queue : queue[i].name \in DOMAIN runs
  /\ hardened \subseteq DOMAIN runs
  /\ \A n \in DOMAIN runs : runs[n] > 0 <=> n \in hardened

CallNames == {"removeAll", "mkdirAll", "mkdir", "create", "truncate", "chmod", "walk", "report"}

\* What is left of a measure is an end of its list of calls; of the measure that
\* replaces a path by a directory, whose list is two calls long, nothing but
\* the list itself or its second call.
CallsInv ==
  /\ measures \in Seq(Measures)
  /\ calls \in Seq(CallNames)
  /\ calls # <<>> => measures # <<>>
  /\ calls # <<>> /\ Measure.action = "rm_replaceDir_setRO" =>
       calls \in {ReplaceByDir, <<"mkdirAll">>}

\* The file system, and what protects a path that was replaced: it is a
\* directory, which no virus can write in place of a file.
FilesInv ==
  /\ fs \in [Dests -> Nodes]
  /\ \A d \in Dests : /\ fs[d].kind # "file" => ~fs[d].bad
                      /\ fs[d].kind = "none" => ~fs[d].ro
  /\ secured \subseteq Dests /\ failed \in BOOLEAN
  /\ \A d \in secured : fs[d].kind = "dir"

HardenerInv == RequestInv /\ CallsInv /\ FilesInv

-----------------------------------------------------------------------------
(* The requests. *)

LEMMA RequestInvInit == Init => RequestInv
<1> SUFFICES ASSUME Init PROVE RequestInv
  OBVIOUS
<1>1. queue \in Seq(Requests)
  BY HardenerAssumption DEF Init
<1>2. runs = [n \in {queue[i].name : i \in DOMAIN queue} |-> 0]
  BY DEF Init
<1>3. \A i \in DOMAIN queue : queue[i].name \in DOMAIN runs
  BY <1>2
<1>4. runs \in [DOMAIN runs -> Nat] /\ \A n \in DOMAIN runs : runs[n] = 0
  BY <1>2
<1> QED
  BY <1>1, <1>3, <1>4 DEF Init, RequestInv

\* Taking a request leaves a shorter queue of requests of the same names.
LEMMA RequestInvDispatch == RequestInv /\ Dispatch => RequestInv'
<1> SUFFICES ASSUME RequestInv, Dispatch PROVE RequestInv'
  OBVIOUS
<1> USE DEF RequestInv
<1> DEFINE r == Head(queue)
<1>1. queue \in Seq(Requests) /\ queue # <<>> /\ queue' = Tail(queue) /\ dryRun' = dryRun
  BY DEF Dispatch
<1>2. /\ Tail(queue) \in Seq(Requests)
      /\ r = queue[1] /\ 1 \in DOMAIN queue
      /\ \A i \in DOMAIN Tail(queue) : i + 1 \in DOMAIN queue /\ Tail(queue)[i] = queue[i + 1]
  BY <1>1
<1>3. r.name \in DOMAIN runs
  BY <1>2
<1>4. \/ runs' = runs /\ hardened' = hardened
      \/ runs' = [runs EXCEPT ![r.name] = @ + 1] /\ hardened' = hardened \cup {r.name}
  BY DEF Dispatch, Mark
<1>5. /\ DOMAIN runs' = DOMAIN runs /\ runs' \in [DOMAIN runs -> Nat]
      /\ hardened' \subseteq DOMAIN runs
      /\ \A n \in DOMAIN runs : runs'[n] > 0 <=> n \in hardened'
  BY <1>3, <1>4
<1>6. \A i \in DOMAIN queue' : queue'[i].name \in DOMAIN runs
  BY <1>1, <1>2
<1> QED
  BY <1>1, <1>2, <1>5, <1>6

-----------------------------------------------------------------------------
(* The calls of a measure. *)

LEMMA CallsAreCalls == \A m \in Measures : Calls(m) \in Seq(CallNames)
<1>1. \A t : SetROCalls(t) \in Seq(CallNames)
  <2>1. \A t : SetROCalls(t) \in {<<"chmod">>, <<"walk">>, <<>>}
    BY DEF SetROCalls
  <2>2. {<<"chmod">>, <<"walk">>, <<>>} \subseteq Seq(CallNames)
    BY DEF CallNames
  <2> QED
    BY <2>1, <2>2
<1>2. \A c1, c2 \in CallNames : <<c1, c2>> \in Seq(CallNames)
  OBVIOUS
<1>3. \A s, t \in Seq(CallNames) : s \o t \in Seq(CallNames)
  BY ConcatProperties
<1>4. {"removeAll", "mkdirAll", "create", "truncate", "mkdir"} \subseteq CallNames
  BY DEF CallNames
<1>5. \A t, c1, c2 : {c1, c2} \subseteq CallNames => <<c1, c2>> \o SetROCalls(t) \in Seq(CallNames)
  BY <1>1, <1>2, <1>3
<1>6. <<>> \in Seq(CallNames) /\ <<"report">> \in Seq(CallNames)
  BY DEF CallNames
<1>7. \A t : /\ <<"removeAll", "mkdirAll">> \o SetROCalls(t) \in Seq(CallNames)
           /\ <<"removeAll", "create">> \o SetROCalls(t) \in Seq(CallNames)
           /\ <<"create", "truncate">> \o SetROCalls(t) \in Seq(CallNames)
           /\ <<"removeAll", "mkdir">> \o SetROCalls(t) \in Seq(CallNames)
  BY <1>4, <1>5
<1>8. ASSUME NEW m \in Measures
      PROVE  Calls(m) \in {<<"removeAll", "mkdirAll">> \o SetROCalls(m.dest),
                            <<"removeAll", "create">> \o SetROCalls(m.dest),
                            <<"create", "truncate">> \o SetROCalls(m.type),
                            <<"removeAll", "mkdir">> \o SetROCalls(m.type),
                            SetROCalls(m.type), <<"report">>, <<>>}
  BY DEF Calls, ReplaceByDir
<1> QED
  BY <1>1, <1>6, <1>7, <1>8

\* The exchanged arguments leave the replacement without its second half: no
\* path is a type, so that nothing is appended.
LEMMA ReplaceCalls ==
  \A m \in Measures : m.action = "rm_replaceDir_setRO" =>
    Calls(m) = <<>> \/ Calls(m) = ReplaceByDir
<1> SUFFICES ASSUME NEW m \in Measures, m.action = "rm_replaceDir_setRO"
             PROVE  Calls(m) = <<>> \/ Calls(m) = ReplaceByDir
  OBVIOUS
<1>1. SetROCalls(m.dest) = <<>>
  BY HardenerAssumption DEF SetROCalls, Measures
<1>2. ReplaceByDir \o <<>> = ReplaceByDir
  BY DEF ReplaceByDir
<1>3. CASE m.type = "file"
  <2>1. Calls(m) = ReplaceByDir \o SetROCalls(m.dest)
    BY <1>3 DEF Calls, Supported
  <2> QED
    BY <1>1, <1>2, <2>1
<1>4. CASE m.type # "file"
  BY <1>4 DEF Calls, Supported
<1> QED
  BY <1>3, <1>4

LEMMA CallsInvDispatch == HardenerInv /\ Dispatch => CallsInv'
<1> SUFFICES ASSUME HardenerInv, Dispatch PROVE CallsInv'
  OBVIOUS
<1>1. calls' = <<>>
  BY DEF Dispatch, Idle
<1>2. Head(queue) \in Requests
  BY DEF Dispatch, HardenerInv, RequestInv
<1>3. measures' \in Seq(Measures)
  BY <1>2 DEF Dispatch, Requests
<1> QED
  BY <1>1, <1>3 DEF CallsInv

LEMMA CallsInvTake == CallsInv /\ TakeMeasure => CallsInv'
<1> SUFFICES ASSUME CallsInv, TakeMeasure PROVE CallsInv'
  OBVIOUS
<1> USE DEF CallsInv
<1>1. Measure \in Measures /\ Tail(measures) \in Seq(Measures)
  BY DEF TakeMeasure, Measure
<1>2. CASE Calls(Measure) # <<>> /\ calls' = Calls(Measure) /\ measures' = measures
  <2>1. Measure' = Measure
    BY <1>2 DEF Measure
  <2>2. calls' \in Seq(CallNames)
    BY <1>1, <1>2, CallsAreCalls
  <2> QED
    BY <1>1, <1>2, <2>1, <2>2, ReplaceCalls DEF TakeMeasure
<1>3. CASE measures' = MeasureSkipped /\ calls' = calls
  BY <1>1, <1>3 DEF TakeMeasure, MeasureSkipped
<1> QED
  BY <1>2, <1>3 DEF TakeMeasure

LEMMA CallsInvCall == CallsInv /\ (Call \/ Reported) => CallsInv'
<1> SUFFICES ASSUME CallsInv, Call \/ Reported PROVE CallsInv'
  OBVIOUS
<1> USE DEF CallsInv
<1>1. /\ calls # <<>> /\ calls' = Tail(calls) /\ Tail(calls) \in Seq(CallNames)
      /\ measures # <<>> /\ Tail(measures) \in Seq(Measures)
      /\ measures' = IF Ends THEN Tail(measures) ELSE measures
  BY DEF Call, Reported, CallEnds
<1>2. CASE Ends
  <2>1. calls' = <<>>
    BY <1>1, <1>2 DEF Ends
  <2> QED
    BY <1>1, <1>2, <2>1
<1>3. CASE ~Ends
  <2>1. measures' = measures /\ Measure' = Measure
    BY <1>1, <1>3 DEF Measure
  <2>2. calls = ReplaceByDir => calls' = <<"mkdirAll">>
    BY <1>1 DEF ReplaceByDir
  <2>3. calls # <<"mkdirAll">>
    BY <1>3 DEF Ends
  <2> QED
    BY <1>1, <2>1, <2>2, <2>3
<1> QED
  BY <1>2, <1>3

-----------------------------------------------------------------------------
(* The file system. *)

\* The nodes that are written are of the right type.
LEMMA Written ==
  \A x \in {Nothing, Directory, EmptyFile, VirusFile} :
    /\ x \in Nodes
    /\ x.kind # "file" => ~x.bad
    /\ x.kind = "none" => ~x.ro
<1>1. Nothing \in Nodes /\ ~Nothing.bad /\ ~Nothing.ro
  BY DEF Nothing, Nodes
<1>2. Directory \in Nodes /\ ~Directory.bad /\ ~Directory.ro
  BY DEF Directory, Nodes
<1>3. EmptyFile \in Nodes /\ ~EmptyFile.bad /\ ~EmptyFile.ro
  BY DEF EmptyFile, Nodes
<1>4. VirusFile \in Nodes /\ VirusFile.kind = "file"
  BY DEF VirusFile, Nodes
<1> QED
  BY <1>1, <1>2, <1>3, <1>4

LEMMA FilesInvInit == Init => FilesInv
<1> SUFFICES ASSUME Init PROVE FilesInv
  OBVIOUS
<1>1. PICK n \in {Nothing, VirusFile} : fs = [d \in Dests |-> IF d = Top THEN Directory ELSE n]
  BY DEF Init
<1>2. \A d \in Dests : fs[d] \in {Nothing, VirusFile, Directory}
  BY <1>1
<1> QED
  BY <1>1, <1>2, Written DEF Init, FilesInv

\* What a call may do to the node at one path: nothing, make a file or a
\* directory where it may, set the attribute, or, a RemoveAll alone, take it away.
Alters(node, new, removable) ==
  \/ new = node
  \/ new = Directory /\ node.kind = "none"
  \/ new = EmptyFile /\ node.kind # "dir"
  \/ new = [node EXCEPT !.ro = TRUE] /\ node.kind # "none"
  \/ new = Nothing /\ removable

LEMMA CallAlters ==
  ASSUME FilesInv, NEW c \in CallNames \ {"report"}, NEW d \in Dests, NEW f \in Succeeds(c, d) \cup Fails(c, d)
  PROVE  /\ f = [e \in Dests |-> f[e]]
         /\ \A e \in Dests : Alters(fs[e], f[e], c = "removeAll" /\ e \in Below(d))
<1>0. fs = [e \in Dests |-> fs[e]]
  BY DEF FilesInv
<1>1. CASE f \in Succeeds(c, d)
  <2>1. CASE c = "removeAll"
    <3>1. f = [e \in Dests |-> IF e \in Below(d) THEN Nothing ELSE fs[e]]
      BY <1>1, <2>1 DEF Succeeds
    <3> QED
      BY <2>1, <3>1 DEF Alters
  <2>2. CASE c = "mkdirAll"
    <3>1. f = [e \in Dests |-> IF e \in {d, Top} /\ fs[e].kind = "none" THEN Directory ELSE fs[e]]
      BY <1>1, <2>2 DEF Succeeds
    <3> QED
      BY <3>1 DEF Alters
  <2>3. CASE c = "mkdir"
    <3>1. f = [fs EXCEPT ![d] = Directory] /\ fs[d].kind = "none"
      BY <1>1, <2>3 DEF Succeeds, Put
    <3> QED
      BY <1>0, <3>1 DEF Alters
  <2>4. CASE c \in {"create", "truncate"}
    <3>1. f = [fs EXCEPT ![d] = EmptyFile] /\ fs[d].kind # "dir"
      BY <1>1, <2>4 DEF Succeeds, Put
    <3> QED
      BY <1>0, <3>1 DEF Alters
  <2>5. CASE c = "chmod"
    <3>1. f = [fs EXCEPT ![d].ro = TRUE] /\ fs[d].kind # "none"
      BY <1>1, <2>5 DEF Succeeds, ChmodWorks
    <3> QED
      BY <1>0, <3>1 DEF Alters
  <2>6. CASE c = "walk"
    <3>1. f = [e \in Dests |-> IF e \in Below(d) /\ fs[e].kind # "none"
                               THEN [fs[e] EXCEPT !.ro = TRUE] ELSE fs[e]]
      BY <1>1, <2>6 DEF Succeeds
    <3> QED
      BY <3>1 DEF Alters
  <2> QED
    BY <2>1, <2>2, <2>3, <2>4, <2>5, <2>6 DEF CallNames
<1>2. CASE f \in Fails(c, d)
  <2>1. CASE c = "removeAll"
    <3>1. PICK S \in SUBSET (Below(d) \ {d}) :
            f = [e \in Dests |-> IF e \in S THEN Nothing ELSE fs[e]]
      BY <1>2, <2>1 DEF Fails
    <3> QED
      BY <2>1, <3>1 DEF Alters
  <2>2. CASE c = "walk"
    <3>1. PICK S \in SUBSET Below(d) :
            f = [e \in Dests |-> IF e \in S /\ fs[e].kind # "none"
                                 THEN [fs[e] EXCEPT !.ro = TRUE] ELSE fs[e]]
      BY <1>2, <2>2 DEF Fails
    <3> QED
      BY <3>1 DEF Alters
  <2>3. CASE c \notin {"removeAll", "walk"}
    <3>1. f = fs
      BY <1>2, <2>3 DEF Fails
    <3> QED
      BY <1>0, <3>1 DEF Alters
  <2> QED
    BY <2>1, <2>2, <2>3
<1> QED
  BY <1>1, <1>2

\* A call keeps the types, and a directory where one was, unless it removes it.
LEMMA CallKeepsFiles ==
  ASSUME FilesInv, NEW c \in CallNames \ {"report"}, NEW d \in Dests, NEW f \in Succeeds(c, d) \cup Fails(c, d)
  PROVE  /\ f \in [Dests -> Nodes]
         /\ \A e \in Dests : /\ f[e].kind # "file" => ~f[e].bad
                             /\ f[e].kind = "none" => ~f[e].ro
         /\ \A e \in Dests : fs[e].kind = "dir" =>
              f[e].kind = "dir" \/ (c = "removeAll" /\ e \in Below(d))
<1>1. ASSUME NEW e \in Dests
      PROVE  /\ f[e] \in Nodes
             /\ f[e].kind # "file" => ~f[e].bad
             /\ f[e].kind = "none" => ~f[e].ro
             /\ fs[e].kind = "dir" => f[e].kind = "dir" \/ (c = "removeAll" /\ e \in Below(d))
  <2>1. /\ fs[e] \in Nodes
        /\ fs[e].kind # "file" => ~fs[e].bad
        /\ fs[e].kind = "none" => ~fs[e].ro
    BY DEF FilesInv
  <2>2. Alters(fs[e], f[e], c = "removeAll" /\ e \in Below(d))
    BY CallAlters
  <2>3. CASE f[e] = fs[e]
    BY <2>1, <2>3
  <2>4. CASE f[e] = Directory \/ (f[e] = EmptyFile /\ fs[e].kind # "dir")
    <3>1. f[e].kind = "dir" \/ fs[e].kind # "dir"
      BY <2>4 DEF Directory
    <3> QED
      BY <2>4, <3>1, Written
  <2>5. CASE f[e] = Nothing /\ c = "removeAll" /\ e \in Below(d)
    BY <2>5, Written
  <2>6. CASE f[e] = [fs[e] EXCEPT !.ro = TRUE] /\ fs[e].kind # "none"
    <3>1. /\ f[e].kind = fs[e].kind /\ f[e].ro = TRUE /\ f[e].bad = fs[e].bad
          /\ f[e] \in Nodes
      BY <2>1, <2>6 DEF Nodes
    <3> QED
      BY <2>1, <2>6, <3>1
  <2> QED
    BY <2>2, <2>3, <2>4, <2>5, <2>6 DEF Alters
<1> QED
  BY <1>1, CallAlters

\* A path becomes secured by the second call of its replacement, after which it
\* is a directory.
LEMMA FilesInvCall == CallsInv /\ FilesInv /\ Call => FilesInv'
<1> SUFFICES ASSUME CallsInv, FilesInv, Call PROVE FilesInv'
  OBVIOUS
<1> DEFINE c == Head(calls)
           d == Measure.dest
<1>1. calls # <<>> /\ measures # <<>> /\ d \in Dests /\ c \in CallNames \ {"report"}
  <2>1. Measure \in Measures
    BY DEF Call, CallsInv, Measure
  <2> QED
    BY <2>1 DEF Call, CallsInv, Measures
<1>2. fs' \in Succeeds(c, d) \cup Fails(c, d)
  BY DEF Call
<1>3. /\ fs' \in [Dests -> Nodes]
      /\ \A e \in Dests : /\ fs'[e].kind # "file" => ~fs'[e].bad
                          /\ fs'[e].kind = "none" => ~fs'[e].ro
      /\ \A e \in StillSecured(c, d) : fs'[e].kind = "dir"
  BY <1>1, <1>2, CallKeepsFiles DEF FilesInv, StillSecured
<1>4. failed' \in BOOLEAN
  BY DEF Call, FilesInv
<1>5. StillSecured(c, d) \subseteq Dests
  BY DEF StillSecured, FilesInv
<1>6. CASE secured' = StillSecured(c, d)
  BY <1>3, <1>4, <1>5, <1>6 DEF FilesInv
<1>7. CASE fs' \in Succeeds(c, d) /\ secured' = StillSecured(c, d) \cup NowSecured(d, ~failed)
  <2>1. CASE NowSecured(d, ~failed) = {}
    BY <1>3, <1>4, <1>5, <1>7, <2>1 DEF FilesInv
  <2>2. CASE NowSecured(d, ~failed) # {}
    <3>1. Ends /\ Measure.action = "rm_replaceDir_setRO" /\ NowSecured(d, ~failed) = {d}
      BY <2>2 DEF NowSecured
    <3>2. calls = <<"mkdirAll">>
      BY <1>1, <3>1 DEF CallsInv, Ends, ReplaceByDir
    <3>3. fs'[d].kind = "dir"
      BY <1>1, <1>7, <3>2 DEF Succeeds, FilesInv, Nodes, Directory
    <3> QED
      BY <1>1, <1>3, <1>4, <1>5, <1>7, <3>1, <3>3 DEF FilesInv
  <2> QED
    BY <2>1, <2>2
<1> QED
  BY <1>6, <1>7 DEF Call

\* Nobody writes a file where a directory is.
LEMMA FilesInvEnvironment == FilesInv /\ Environment => FilesInv'
<1> USE DEF FilesInv, Nodes, Put
<1>1. ASSUME FilesInv, RecreateTop PROVE FilesInv'
  BY <1>1, HardenerAssumption DEF RecreateTop, Directory
<1>2. ASSUME FilesInv, NEW d \in Dests, Infect(d) PROVE FilesInv'
  BY <1>2 DEF Infect, Infectable, VirusFile
<1> QED
  BY <1>1, <1>2 DEF Environment

-----------------------------------------------------------------------------
(* Theorems. *)

\* The inductive invariant: requests and marks agree, the calls that are left
\* are an end of the measure's list, and what is secured is a directory.
THEOREM HardenerInvariance == Spec => []HardenerInv
<1>1. Init => HardenerInv
  BY RequestInvInit, FilesInvInit DEF HardenerInv, CallsInv, Init
<1>2. HardenerInv /\ [Next]_vars => HardenerInv'
  <2> SUFFICES ASSUME HardenerInv, [Next]_vars PROVE HardenerInv'
    OBVIOUS
  <2> USE DEF HardenerInv
  <2>1. CASE Dispatch
    <3>1. FilesInv'
      BY <2>1 DEF Dispatch, FilesInv
    <3> QED
      BY <2>1, <3>1, RequestInvDispatch, CallsInvDispatch
  <2>2. CASE TakeMeasure
    <3>1. RequestInv' /\ FilesInv'
      BY <2>2 DEF TakeMeasure, RequestInv, FilesInv
    <3> QED
      BY <2>2, <3>1, CallsInvTake
  <2>3. CASE Call
    <3>1. RequestInv'
      BY <2>3 DEF Call, RequestInv
    <3> QED
      BY <2>3, <3>1, CallsInvCall, FilesInvCall
  <2>6. CASE Reported
    <3>1. RequestInv' /\ FilesInv'
      BY <2>6 DEF Reported, RequestInv, FilesInv
    <3> QED
      BY <2>6, <3>1, CallsInvCall
  <2>4. CASE Environment
    <3>1. RequestInv' /\ CallsInv'
      BY <2>4 DEF Environment, RecreateTop, Infect, requestVars, RequestInv, CallsInv, Measure
    <3> QED
      BY <2>4, <3>1, FilesInvEnvironment
  <2>5. CASE UNCHANGED vars
    BY <2>5 DEF vars, requestVars, RequestInv, CallsInv, Measure, FilesInv
  <2> QED
    BY <2>1, <2>2, <2>3, <2>4, <2>5, <2>6 DEF Next, HardenerNext
<1> QED
  BY <1>1, <1>2, PTL DEF Spec

\* Types; a type is marked exactly when its measures were started, and a call is left
\* only of a measure that is left.
THEOREM HardenerTypes == Spec => []TypeOK
<1>1. HardenerInv => TypeOK
  BY DEF HardenerInv, RequestInv, CallsInv, FilesInv, TypeOK
<1> QED
  BY <1>1, HardenerInvariance, PTL

\* A path that was replaced by a directory without a failing call stays without
\* the virus, whenever it writes, until a measure removes the path again.
THEOREM SecuredStaysClean == Spec => []ReplacedStaysClean
<1>1. HardenerInv => ReplacedStaysClean
  BY DEF HardenerInv, FilesInv, ReplacedStaysClean
<1> QED
  BY <1>1, HardenerInvariance, PTL

\* Measures of a type are taken again only for a request that allows it, never
\* in a dry run.
THEOREM OnlyAllowedRepeats == Spec => RepeatsAreAllowed
<1> DEFINE Allowed ==
      \A n \in DOMAIN runs :
        runs'[n] # runs[n] => ~dryRun /\ (runs[n] > 0 => Head(queue).repeat)
<1>1. HardenerInv /\ [Next]_vars => [Allowed]_vars
  <2> SUFFICES ASSUME HardenerInv, Next PROVE Allowed
    OBVIOUS
  <2>1. CASE Dispatch
    BY <2>1 DEF Dispatch, HardenerInv, RequestInv
  <2>2. CASE ~Dispatch
    <3>1. runs' = runs
      BY <2>2 DEF Next, HardenerNext, TakeMeasure, Call, Reported, Environment, RecreateTop, Infect, requestVars
    <3> QED
      BY <3>1
  <2> QED
    BY <2>1, <2>2
<1> QED
  BY <1>1, HardenerInvariance, PTL DEF Spec, RepeatsAreAllowed

=============================================================================
