------------------------------ MODULE DocFiles ------------------------------
(***************************************************************************)
(* What the privileged helper does to the files of the documents it is     *)
(* sent: the backup by the handler of the connection (gzBakFile), then, in *)
(* a goroutine of its own and one at a time, opening, cleaning the VBA     *)
(* project (SanitizeWorkbook), saving, and renaming (renameFileAndSave).   *)
(* The handler goes on to the next request, perhaps for the same document, *)
(* without waiting for that goroutine.                                     *)
(*                                                                         *)
(* Abstracted: a document is its VBA components, in the order Excel counts *)
(* them, each with its name and whether it carries the virus.  The lock is *)
(* a real one here: what a forced rebuild does to it is in ExcelWorker.    *)
(***************************************************************************)
EXTENDS Naturals, Sequences, FiniteSets

CONSTANTS
  Paths,        \* the documents
  Workbooks,    \* the VBA projects they may hold
  Solutions,    \* the [op, dest] of the cleanup DB
  MaxReqs       \* bound: the requests sent in one run

ASSUME DocFilesAssumption ==
  /\ MaxReqs \in Nat
  /\ Workbooks \subseteq Seq([name : STRING, bad : BOOLEAN])

VARIABLES
  reqs,         \* the requests, in the order the connection delivers them
  at,           \* the request the handler is at
  hnd,          \* where the handler is
  src,          \* what the handler has opened to copy
  original,     \* history: what each path held at first
  file,         \* file[p]: what is at p
  gfile,        \* gfile[p]: what is at p with "G-" before its name
  bak,          \* bak[p]: what p.gz.bak can restore
  job,          \* job[i]: where the goroutine of request i is
  mem,          \* mem[i]: the workbook it has opened
  out,          \* out[i]: how SanitizeWorkbook ended
  lock,         \* the request whose goroutine has the worker's lock, or 0
  faulty,       \* history: the paths on whose backup something failed
  unsaved,      \* history: the requests whose Save failed
  fate          \* "up", or how the process ended

handlerVars == <<at, hnd, src, bak, faulty>>
jobVars == <<job, mem, out, lock>>
fileVars == <<file, gfile, unsaved>>
vars == <<reqs, original, handlerVars, jobVars, fileVars, fate>>

\* What is at a name is the set of its contents: a project, or nothing.  A backup
\* that was only begun restores nothing, like one that is not there.
Nothing == {}
HandlerStates == {"next", "open", "copy", "spawn"}
JobStates == {"none", "wait", "open", "clean", "save", "rename", "unlock", "done"}
Outcomes == {"none", "ok", "err", "panic"}
Requests == [path : Paths, solution : Solutions]
Ids == 1..Len(reqs)

Init ==
  /\ reqs \in UNION {[1..n -> Requests] : n \in 0..MaxReqs}
  /\ at = 1 /\ hnd = "next" /\ src = Nothing
  /\ original \in [Paths -> Workbooks]
  /\ file = [p \in Paths |-> {original[p]}]
  /\ gfile = [p \in Paths |-> Nothing]
  /\ bak = [p \in Paths |-> Nothing]
  /\ job = [i \in Ids |-> "none"]
  /\ mem = [i \in Ids |-> <<>>]
  /\ out = [i \in Ids |-> "none"]
  /\ lock = 0
  /\ faulty = {} /\ unsaved = {}
  /\ fate = "up"

-----------------------------------------------------------------------------
(* SanitizeWorkbook on a VBA project c. *)

Without(c, i) == SubSeq(c, 1, i - 1) \o SubSeq(c, i + 1, Len(c))
Blanked(c, i) == [c EXCEPT ![i].bad = FALSE]
Known == {"remediate", "rm_module"}

\* One turn of the loop.  Item(i) beyond the end of what is left is a panic.
Visit(s, st, i) ==
  CASE st.out # "ok" -> st
    [] st.out = "ok" /\ i > Len(st.c) -> [st EXCEPT !.out = "panic"]
    [] st.out = "ok" /\ i <= Len(st.c) /\ st.c[i].name # s.dest -> st
    [] OTHER -> CASE s.op = "remediate" -> [st EXCEPT !.c = Blanked(@, i)]
                  [] s.op = "rm_module" -> [st EXCEPT !.c = Without(@, i)]
                  [] OTHER -> [st EXCEPT !.out = "err"]

TurnsShort(c) == IF c = <<>> THEN 0 ELSE Len(c) - 1
\* The loop's bound is the count of components BEFORE it removes any.
Turns(c) == Len(c)

AfterTurns(s, c, n) ==
  LET after[i \in 0..n] == IF i = 0 THEN [c |-> c, out |-> "ok"] ELSE Visit(s, after[i - 1], i)
  IN after[n]

\* A document without macros is an error, and any call may fail on the way: it
\* returns an error, or panics when it is one of the Must calls.
Sanitized(s, c) ==
  {IF c = <<>> THEN [c |-> c, out |-> "err"] ELSE AfterTurns(s, c, Turns(c))}
    \cup {[AfterTurns(s, c, n) EXCEPT !.out = o] : n \in 0..Len(c), o \in {"err", "panic"}}

-----------------------------------------------------------------------------
(* The handler: gzBakFile, whose error is logged, and the spawn. *)

Req == reqs[at]
HandlerGoes(from, to) == hnd = from /\ hnd' = to

AfterFailedBackup == "spawn"

\* The backup file is created, or TRUNCATED when there is one, before the
\* original is opened.
OpenBackup ==
  /\ \/ HandlerGoes("next", "open") /\ bak' = [bak EXCEPT ![Req.path] = Nothing] /\ UNCHANGED faulty
     \/ HandlerGoes("next", AfterFailedBackup) /\ faulty' = faulty \cup {Req.path} /\ UNCHANGED bak
  /\ UNCHANGED <<reqs, original, at, src, jobVars, fileVars, fate>>

OpenOriginal ==
  /\ \/ /\ file[Req.path] # Nothing
        /\ HandlerGoes("open", "copy") /\ src' = file[Req.path] /\ UNCHANGED faulty
     \/ /\ HandlerGoes("open", AfterFailedBackup)
        /\ faulty' = faulty \cup {Req.path} /\ UNCHANGED src
  /\ UNCHANGED <<reqs, original, at, bak, jobVars, fileVars, fate>>

\* The copy, and the deferred Flush and Close, whose failure nobody sees.
Copy ==
  /\ HandlerGoes("copy", "spawn")
  /\ \/ bak' = [bak EXCEPT ![Req.path] = src] /\ UNCHANGED faulty
     \/ faulty' = faulty \cup {Req.path} /\ UNCHANGED bak
  /\ UNCHANGED <<reqs, original, at, src, jobVars, fileVars, fate>>

SpawnsAtOnce == hnd = "copy" \/ hnd = "spawn"
Spawns == hnd = "spawn"

\* The answer is written and the goroutine started, or the write failed and the
\* document is given up.
Spawn ==
  /\ Spawns
  /\ hnd' = "next" /\ at' = at + 1
  /\ \/ job' = [job EXCEPT ![at] = "wait"]
     \/ UNCHANGED job
  /\ UNCHANGED <<reqs, original, src, bak, faulty, mem, out, lock, fileVars, fate>>

HandlerStep == at <= Len(reqs) /\ (OpenBackup \/ OpenOriginal \/ Copy \/ Spawn)

-----------------------------------------------------------------------------
(* The goroutine of request i. *)

Path(i) == reqs[i].path
JobGoes(i, from, to) == job[i] = from /\ job' = [job EXCEPT ![i] = to]

LockIsIgnored == TRUE
LockIsFree == lock = 0

Lock(i) ==
  /\ LockIsFree /\ lock' = i
  /\ JobGoes(i, "wait", "open")
  /\ UNCHANGED <<reqs, original, handlerVars, mem, out, fileVars, fate>>

\* A document that is not there, or does not open, is answered with an error;
\* nothing is saved or renamed.
Open(i) ==
  /\ \/ /\ JobGoes(i, "open", "clean")
        /\ \E c \in file[Path(i)] : mem' = [mem EXCEPT ![i] = c]
        /\ UNCHANGED out
     \/ JobGoes(i, "open", "unlock") /\ out' = [out EXCEPT ![i] = "err"] /\ UNCHANGED mem
  /\ UNCHANGED <<reqs, original, handlerVars, lock, fileVars, fate>>

Clean(i) ==
  /\ JobGoes(i, "clean", "save")
  /\ \E r \in Sanitized(reqs[i].solution, mem[i]) :
       mem' = [mem EXCEPT ![i] = r.c] /\ out' = [out EXCEPT ![i] = r.out]
  /\ UNCHANGED <<reqs, original, handlerVars, lock, fileVars, fate>>

\* Deferred, whatever Clean has returned; Excel's errors are dropped.
Save(i) ==
  /\ JobGoes(i, "save", "rename")
  /\ \/ file' = [file EXCEPT ![Path(i)] = {mem[i]}] /\ UNCHANGED unsaved
     \/ unsaved' = unsaved \cup {i} /\ UNCHANGED file
  /\ UNCHANGED <<reqs, original, handlerVars, mem, out, lock, gfile, fate>>

\* A second later; an error is only logged.
Rename(i) ==
  /\ JobGoes(i, "rename", "unlock")
  /\ \/ /\ file[Path(i)] # Nothing
        /\ gfile' = [gfile EXCEPT ![Path(i)] = file[Path(i)]]
        /\ file' = [file EXCEPT ![Path(i)] = Nothing]
        /\ UNCHANGED unsaved
     \/ UNCHANGED fileVars
  /\ UNCHANGED <<reqs, original, handlerVars, mem, out, lock, fate>>

\* The deferred Unlock; then a panic goes on and ends the process.
Unlock(i) ==
  /\ JobGoes(i, "unlock", "done")
  /\ lock' = 0
  /\ fate' = IF out[i] = "panic" THEN "panicked" ELSE fate
  /\ UNCHANGED <<reqs, original, handlerVars, mem, out, fileVars>>

JobStep(i) == Lock(i) \/ Open(i) \/ Clean(i) \/ Save(i) \/ Rename(i) \/ Unlock(i)

\* Anything else that ends the process, between any two steps.
Crash ==
  /\ fate' = "crashed"
  /\ UNCHANGED <<reqs, original, handlerVars, jobVars, fileVars>>

Next == fate = "up" /\ (HandlerStep \/ (\E i \in Ids : JobStep(i)) \/ Crash)

Spec == Init /\ [][Next]_vars

-----------------------------------------------------------------------------
(* Properties. *)

TypeOK ==
  /\ at \in 1..(Len(reqs) + 1) /\ hnd \in HandlerStates
  /\ job \in [Ids -> JobStates] /\ out \in [Ids -> Outcomes]
  /\ lock \in {0} \cup Ids
  /\ \A i \in Ids : (lock = i) <=> job[i] \in {"open", "clean", "save", "rename", "unlock"}
  /\ faulty \subseteq Paths /\ unsaved \subseteq Ids
  /\ fate \in {"up", "panicked", "crashed"}

Detections(p) == {i \in Ids : Path(i) = p}

\* What a document was can be recovered at any moment, crashes included, from
\* the document or its backup, unless a step of the backup failed, which does
\* not stop the handler, or the document was detected more than once
\* (rpc_server.go:321-336, filebak_windows.go:12-35).
OriginalSurvives ==
  \A p \in Paths :
    p \notin faulty /\ Cardinality(Detections(p)) <= 1
      => original[p] \in file[p] \cup gfile[p] \cup bak[p]

Cleanings(c) == {r.c : r \in UNION {Sanitized(s, c) : s \in Solutions}}

\* While no timer makes a rebuild replace the lock (ExcelWorker), however many
\* requests name a document, and whatever fails, panics or crashes between opening
\* and renaming it, no cleaning is lost to one that had opened the document before,
\* nothing is saved over a name that was left, and a renamed document is never
\* touched again (rpc_server.go:368-405, filebak_windows.go:37-42).
Files == INSTANCE CleanedFiles WITH first <- file, second <- gfile
FilesRefinement == Files!FilesSpec

\* Hence every document is at exactly one of its two names ...
OneCopy == \A p \in Paths : (file[p] = Nothing) # (gfile[p] = Nothing)

\* ... and a second detection, whose request names the old path, is not cleaned
\* (main.go:304-306).
RenamedIsFinal ==
  [][\A p \in Paths : gfile[p] # Nothing => gfile'[p] = gfile[p]]_vars

IsClean(c, dest) == \A k \in 1..Len(c) : c[k].name = dest => ~c[k].bad

\* Once a document was sanitized without error and saved, what is on the disk, at
\* whichever of its names, does not hold the virus in the module its solution names,
\* and no other request brings it back, nor a crash.  The exception is a Save that
\* fails: its error is dropped, and the log says "Workbook Sanitized" of a document
\* that still has the virus (rpc_server.go:386-405, excelop_windows.go:199, 207-267).
Saved(i) == job[i] \in {"rename", "unlock", "done"} /\ i \notin unsaved
ReportedOkIsClean ==
  \A i \in Ids :
    out[i] = "ok" /\ Saved(i) =>
      \A c \in file[Path(i)] \cup gfile[Path(i)] : IsClean(c, reqs[i].solution.dest)

\* Refuted: before remediation the original is always backed up (README.md:23).
BackedUpBeforeRemediation ==
  \A p \in Paths :
    original[p] \notin file[p] \cup gfile[p] => original[p] \in bak[p]
==============================================================================
