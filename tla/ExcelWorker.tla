----------------------------- MODULE ExcelWorker -----------------------------
(***************************************************************************)
(* The Excel worker of the privileged helper (sanitizer_ole/rpc_server.go, *)
(* excelop_windows.go).  Every accepted document d gets two goroutines:    *)
(*   - the waiter (excelFileCleanProcedure): it waits for the document's   *)
(*     answer or for its 180 s timer; a timer that fires first makes the   *)
(*     waiter tear Excel down and rebuild it, WITHOUT the worker's lock;   *)
(*   - the inner goroutine: it locks the worker, opens, cleans, saves and  *)
(*     renames the document, and unlocks the worker.                       *)
(* They share one ExcelWorker, whose mutex is a POINTER that every rebuild *)
(* replaces: Lock and Unlock each use the mutex of the moment.             *)
(*                                                                         *)
(* Between two uses of a shared handle other goroutines may run; a call of *)
(* Excel or of telemetry on the waiter's way may never return.             *)
(*                                                                         *)
(* Abstracted: what a workbook holds (a document is a member of Docs), COM *)
(* arguments, logging, and time (a timer may fire at any step).            *)
(***************************************************************************)
EXTENDS Naturals, FiniteSets

CONSTANT Docs           \* the sanitize requests, one document each

ASSUME DocsAssumption == IsFiniteSet(Docs)

VARIABLES
  waiter,      \* waiter[d]: where the handler, then the waiter, of d is
  inner,       \* inner[d]: where the inner goroutine of d is
  want,        \* want[d]: the mutex the inner goroutine waits for, read from w.mu
  errC,        \* errC[d]: the answers sent on d's channel, of capacity one
  panicking,   \* the documents whose inner goroutine unwinds from a panic
  mu,          \* w.mu: the number of the current mutex
  held,        \* the numbers of the mutexes that are locked
  app,         \* w.currentExcelObj: an Excel instance, or Nil
  released,    \* w.currentExcelObj points to an object already Release()d
  wbs,         \* w.workbooksHandle: the instance it belongs to, or Nil
  book,        \* w.currentWorkbook: {<<document, instance>>}, or {} for nil
  ready,       \* eWorkerSet
  alive,       \* the Excel instances that run
  made,        \* how many Excel instances were created so far
  got,         \* got[d]: the object d's waiter has fetched but not stored yet
  cleaned,     \* history: the documents whose VBA module was really cleaned
  overlapped,  \* history: a rebuild has begun while another was under way
  fate         \* "up", or what ended the process

docVars == <<waiter, inner, want, errC, panicking>>
lockVars == <<mu, held>>
comVars == <<app, released, wbs, alive, made, got>>
histVars == <<cleaned, overlapped>>
vars == <<docVars, lockVars, comVars, book, ready, histVars, fate>>

Nil == 0

RebuildStates == {"quit", "release", "kill", "create", "assign", "config", "mutex",
                  "books", "fetch", "store", "ready"}
WaiterStates == {"idle", "admitted", "refused", "dropped", "select", "reportErr", "report", "done"}
                  \cup RebuildStates
\* Where the waiter is in a call that may never return: of telemetry, or of Excel.
Calling == {"reportErr", "report", "quit", "release", "create", "config", "fetch"}
InnerStates == {"idle", "lock", "wait", "open", "call", "config", "clean",
                "save", "unlock", "done"}
Fates == {"up", "unlock", "nil", "com"}

Working == {"open", "call", "config", "clean", "save", "unlock"}
Inside == {d \in Docs : inner[d] \in Working}      \* between Lock and Unlock
Rebuilding(S) == {d \in Docs : waiter[d] \in S}

\* Start has created Excel, its lock and its workbooks handle, and set the mark.
Init ==
  /\ waiter = [d \in Docs |-> "idle"]
  /\ inner = [d \in Docs |-> "idle"]
  /\ want = [d \in Docs |-> 0]
  /\ errC = [d \in Docs |-> {}]
  /\ panicking = {}
  /\ mu = 0
  /\ held = {}
  /\ app = 1
  /\ released = FALSE
  /\ wbs = 1
  /\ book = {}
  /\ ready = TRUE
  /\ alive = {1}
  /\ made = 1
  /\ got = [d \in Docs |-> Nil]
  /\ cleaned = {}
  /\ overlapped = FALSE
  /\ fate = "up"

InnerGoes(d, from, to) == inner[d] = from /\ inner' = [inner EXCEPT ![d] = to]
WaiterGoes(d, from, to) == waiter[d] = from /\ waiter' = [waiter EXCEPT ![d] = to]
Send(d, answer) == errC' = [errC EXCEPT ![d] = @ \cup {answer}]

-----------------------------------------------------------------------------
(* The request handler. *)

\* The ready mark is tested now; the backup, a second of sleep and the 202
\* answer come between this test and Spawn.
AdmitOrRefuse(d) ==
  /\ IF ready THEN WaiterGoes(d, "idle", "admitted") ELSE WaiterGoes(d, "idle", "refused")
  /\ UNCHANGED <<inner, want, errC, panicking, lockVars, comVars, book, ready, histVars, fate>>

\* The 202 cannot be written: the handler gives the document up.
WriteFails(d) ==
  /\ WaiterGoes(d, "admitted", "dropped")
  /\ UNCHANGED <<inner, want, errC, panicking, lockVars, comVars, book, ready, histVars, fate>>

Spawn(d) ==
  /\ WaiterGoes(d, "admitted", "select")
  /\ InnerGoes(d, "idle", "lock")
  /\ UNCHANGED <<want, errC, panicking, lockVars, comVars, book, ready, histVars, fate>>

-----------------------------------------------------------------------------
(* The inner goroutine. *)

\* r.eWorker.Lock(), first half: w.mu is read here and locked in Acquire.
ReadMutex(d) ==
  /\ InnerGoes(d, "lock", "wait")
  /\ want' = [want EXCEPT ![d] = mu]
  /\ UNCHANGED <<waiter, errC, panicking, lockVars, comVars, book, ready, histVars, fate>>

AcquirableAnyway(d) == inner[d] = "wait"
Acquirable(d) == want[d] \notin held

Acquire(d) ==
  /\ InnerGoes(d, "wait", "open")
  /\ Acquirable(d)
  /\ held' = held \cup {want[d]}
  /\ want' = [want EXCEPT ![d] = 0]
  /\ UNCHANGED <<waiter, errC, panicking, mu, comVars, book, ready, histVars, fate>>

AfterFailedOpenLocked == "done"
AfterFailedOpen == "unlock"

\* The nil test of OpenWorkbook; the handle is read again for the call itself.
OpenTest(d) ==
  /\ \/ wbs # Nil /\ InnerGoes(d, "open", "call") /\ UNCHANGED errC
     \/ wbs = Nil /\ InnerGoes(d, "open", AfterFailedOpen) /\ Send(d, "err")
  /\ UNCHANGED <<waiter, want, panicking, lockVars, comVars, book, ready, histVars, fate>>

\* Workbooks.Open: it panics on a nil handle, may fail, or opens the document.
OpenCall(d) ==
  /\ \/ /\ wbs = Nil
        /\ InnerGoes(d, "call", "unlock")
        /\ panicking' = panicking \cup {d}
        /\ UNCHANGED <<errC, book>>
     \/ /\ wbs # Nil
        /\ InnerGoes(d, "call", AfterFailedOpen)
        /\ Send(d, "err")
        /\ UNCHANGED <<panicking, book>>
     \/ /\ wbs \in alive
        /\ InnerGoes(d, "call", "config")
        /\ book' = {<<d, wbs>>}
        /\ UNCHANGED <<errC, panicking>>
  /\ UNCHANGED <<waiter, want, lockVars, comVars, ready, histVars, fate>>

\* The properties OpenWorkbook puts on the workbook and on the application: a
\* failed call is only logged, a nil or released object panics.  The save is
\* not deferred yet.
Configure(d) ==
  /\ \/ /\ app # Nil /\ book # {}
        /\ InnerGoes(d, "config", "clean")
        /\ UNCHANGED panicking
     \/ /\ app = Nil \/ book = {} \/ released
        /\ InnerGoes(d, "config", "unlock")
        /\ panicking' = panicking \cup {d}
  /\ UNCHANGED <<waiter, want, errC, lockVars, comVars, book, ready, histVars, fate>>

CleanAnswersBoth(ok) == IF ok THEN {"ok"} ELSE {"err", "ok"}
CleanAnswers(ok) == IF ok THEN {"ok"} ELSE {"err"}

\* SanitizeWorkbook works on the CURRENT workbook, whoever opened it, and the
\* answer is sent; the Must calls in it panic when a call fails.
Clean(d) ==
  /\ InnerGoes(d, "clean", "save")
  /\ \/ /\ \E b \in book : b[2] \in alive /\ cleaned' = cleaned \cup {b[1]}
        /\ errC' = [errC EXCEPT ![d] = @ \cup CleanAnswers(TRUE)]
        /\ UNCHANGED panicking
     \/ /\ errC' = [errC EXCEPT ![d] = @ \cup CleanAnswers(FALSE)]
        /\ UNCHANGED <<panicking, cleaned>>
     \/ /\ book # {}
        /\ panicking' = panicking \cup {d}
        /\ UNCHANGED <<errC, cleaned>>
  /\ UNCHANGED <<waiter, want, lockVars, comVars, book, ready, overlapped, fate>>

BookAfterSaveKept == book
BookAfterSave == {}

\* The deferred SaveAndCloseWorkbook and rename: errors are logged.  It reads
\* the current workbook several times and panics if another goroutine inside
\* clears it meanwhile.
SaveAndRename(d) ==
  /\ InnerGoes(d, "save", "unlock")
  /\ book' = BookAfterSave
  /\ \/ UNCHANGED panicking
     \/ book # {} /\ Inside # {d} /\ panicking' = panicking \cup {d}
  /\ UNCHANGED <<waiter, want, errC, lockVars, comVars, ready, histVars, fate>>

\* The deferred r.eWorker.Unlock() unlocks the mutex w.mu points to NOW: one
\* that is not locked is a fatal error.  A panic goes on and ends the process.
Unlock(d) ==
  /\ \/ /\ mu \in held
        /\ InnerGoes(d, "unlock", "done")
        /\ held' = held \ {mu}
        /\ fate' = IF d \in panicking THEN "com" ELSE fate
     \/ /\ mu \notin held
        /\ inner[d] = "unlock"
        /\ fate' = "unlock"
        /\ UNCHANGED <<inner, held>>
  /\ UNCHANGED <<waiter, want, errC, panicking, mu, comVars, book, ready, histVars>>

-----------------------------------------------------------------------------
(* The waiter. *)

\* The answer is taken; an error is reported to telemetry before the waiter ends.
Answered(d) ==
  /\ errC[d] # {}
  /\ WaiterGoes(d, "select", IF errC[d] = {"err"} THEN "reportErr" ELSE "done")
  /\ errC' = [errC EXCEPT ![d] = {}]
  /\ UNCHANGED <<inner, want, panicking, lockVars, comVars, book, ready, histVars, fate>>

Reported(d) ==
  /\ WaiterGoes(d, "reportErr", "done")
  /\ UNCHANGED <<inner, want, errC, panicking, lockVars, comVars, book, ready, histVars, fate>>

TimerNotArmed(d) == inner[d] = "idle"
TimerMayFire(d) == TRUE

\* ctx.Done(): the 180 s started before the wait for the lock.  Telemetry hears
\* of it before anything is done about it.
Timeout(d) ==
  /\ TimerMayFire(d)
  /\ WaiterGoes(d, "select", "report")
  /\ UNCHANGED <<inner, want, errC, panicking, lockVars, comVars, book, ready, histVars, fate>>

MarkLeft == ready
MarkCleared == FALSE

ClearMark(d) ==
  /\ WaiterGoes(d, "report", "quit")
  /\ ready' = MarkCleared
  /\ overlapped' = (overlapped \/ Rebuilding(RebuildStates) # {})
  /\ UNCHANGED <<inner, want, errC, panicking, lockVars, comVars, book, cleaned, fate>>

\* A step of the waiter that panics: on a nil handle, or in a Must call.
Panics(d, from, why) == WaiterGoes(d, from, "done") /\ fate' = why

\* Quit(true): Excel, which may hang, is asked to quit; a nil handle panics, a
\* released one is freed memory: any outcome.
QuitCall(d) ==
  /\ \/ /\ app # Nil
        /\ WaiterGoes(d, "quit", "release")
        /\ alive' \in {alive, alive \ {app}}
        /\ UNCHANGED fate
     \/ (app = Nil \/ released) /\ Panics(d, "quit", "nil") /\ UNCHANGED alive
  /\ UNCHANGED <<inner, want, errC, panicking, lockVars, app, released, wbs, made, got, book,
                 ready, histVars>>

\* The handle is read again to release what it points to now.
ReleaseApp(d) ==
  /\ \/ app # Nil /\ WaiterGoes(d, "release", "kill") /\ released' = TRUE /\ UNCHANGED fate
     \/ (app = Nil \/ released) /\ Panics(d, "release", "nil") /\ UNCHANGED released
  /\ UNCHANGED <<inner, want, errC, panicking, lockVars, app, wbs, alive, made, got, book,
                 ready, histVars>>

\* Every excel.exe is terminated, or as many as the system lets it; the handles
\* become nil.
KillAndClear(d) ==
  /\ WaiterGoes(d, "kill", "create")
  /\ alive' \in SUBSET alive
  /\ app' = Nil /\ released' = FALSE /\ wbs' = Nil
  /\ UNCHANGED <<inner, want, errC, panicking, lockVars, made, got, book, ready, histVars, fate>>

\* Init: CreateObject, whose failure leads to a call on nil, and QueryInterface,
\* whose failure stores a nil handle and makes Init return an error nobody reads.
CreateExcel(d) ==
  /\ \/ /\ WaiterGoes(d, "create", "assign")
        /\ made' = made + 1 /\ alive' = alive \cup {made + 1}
        /\ got' = [got EXCEPT ![d] = made + 1]
        /\ UNCHANGED <<app, released, fate>>
     \/ /\ WaiterGoes(d, "create", "books")
        /\ app' = Nil /\ released' = FALSE
        /\ UNCHANGED <<made, alive, got, fate>>
     \/ Panics(d, "create", "nil") /\ UNCHANGED <<made, alive, got, app, released>>
  /\ UNCHANGED <<inner, want, errC, panicking, lockVars, wbs, book, ready, histVars>>

\* The new instance becomes the current one, over whatever the handle is by now.
AssignApp(d) ==
  /\ WaiterGoes(d, "assign", "config")
  /\ app' = got[d] /\ released' = FALSE
  /\ got' = [got EXCEPT ![d] = Nil]
  /\ UNCHANGED <<inner, want, errC, panicking, lockVars, wbs, alive, made, book, ready,
                 histVars, fate>>

\* The startup configuration, of the handle as it is now: it panics on nil and
\* when AutomationSecurity cannot be set.
StartupConfig(d) ==
  /\ \/ app \in alive /\ WaiterGoes(d, "config", "mutex") /\ UNCHANGED fate
     \/ Panics(d, "config", IF app = Nil THEN "nil" ELSE "com")
  /\ UNCHANGED <<inner, want, errC, panicking, lockVars, comVars, book, ready, histVars>>

\* Init ends with a new, unlocked mutex.
NewMutex(d) ==
  /\ WaiterGoes(d, "mutex", "books")
  /\ mu' = mu + 1
  /\ UNCHANGED <<inner, want, errC, panicking, held, comVars, book, ready, histVars, fate>>

\* GetWorkbooks: no application is an error nobody reads.
BooksTest(d) ==
  /\ WaiterGoes(d, "books", IF app = Nil THEN "ready" ELSE "fetch")
  /\ UNCHANGED <<inner, want, errC, panicking, lockVars, comVars, book, ready, histVars, fate>>

\* The handle is read again for the call, which panics on nil or when it fails.
FetchBooks(d) ==
  /\ \/ /\ app \in alive /\ WaiterGoes(d, "fetch", "store")
        /\ got' = [got EXCEPT ![d] = app]
        /\ UNCHANGED fate
     \/ Panics(d, "fetch", IF app = Nil THEN "nil" ELSE "com") /\ UNCHANGED got
  /\ UNCHANGED <<inner, want, errC, panicking, lockVars, app, released, wbs, alive, made, book,
                 ready, histVars>>

BooksDropped(d) == wbs
BooksFetched(d) == got[d]

\* What was fetched is stored, whatever has become of its Excel meanwhile.
StoreBooks(d) ==
  /\ WaiterGoes(d, "store", "ready")
  /\ wbs' = BooksFetched(d)
  /\ got' = [got EXCEPT ![d] = Nil]
  /\ UNCHANGED <<inner, want, errC, panicking, lockVars, app, released, alive, made, book, ready,
                 histVars, fate>>

MarkReady(d) ==
  /\ WaiterGoes(d, "ready", "done")
  /\ ready' = TRUE
  /\ UNCHANGED <<inner, want, errC, panicking, lockVars, comVars, book, histVars, fate>>

-----------------------------------------------------------------------------
HandlerStep(d) == AdmitOrRefuse(d) \/ WriteFails(d) \/ Spawn(d)
InnerStep(d) ==
  \/ ReadMutex(d) \/ Acquire(d) \/ OpenTest(d) \/ OpenCall(d)
  \/ Configure(d) \/ Clean(d) \/ SaveAndRename(d) \/ Unlock(d)
WaiterStep(d) ==
  \/ Answered(d) \/ Reported(d) \/ Timeout(d) \/ ClearMark(d)
  \/ QuitCall(d) \/ ReleaseApp(d) \/ KillAndClear(d)
  \/ CreateExcel(d) \/ AssignApp(d) \/ StartupConfig(d) \/ NewMutex(d)
  \/ BooksTest(d) \/ FetchBooks(d) \/ StoreBooks(d) \/ MarkReady(d)

\* Once a panic or a fatal error has ended the process nothing runs.
HandlerNext(d) == fate = "up" /\ HandlerStep(d)
InnerNext(d) == fate = "up" /\ InnerStep(d)
WaiterNext(d) == fate = "up" /\ WaiterStep(d)

Next == \E d \in Docs : HandlerNext(d) \/ InnerNext(d) \/ WaiterNext(d)

Spec == Init /\ [][Next]_vars

\* The waiter's timer fires and it goes on wherever nobody else has to answer it.
\* Nothing is assumed of a call of Excel or of telemetry, nor of the inner
\* goroutine: these may hang for ever.
WaiterGoesOn(d) == waiter[d] \notin Calling /\ WaiterNext(d)
FairSpec == Spec /\ \A d \in Docs : WF_vars(WaiterGoesOn(d))

-----------------------------------------------------------------------------
(* Properties. *)

\* Types.  errC has one slot and nobody else to drain it once the waiter has
\* left: at most one answer is ever sent (rpc_server.go:344, 377, 400, 405).
TypeOK ==
  /\ waiter \in [Docs -> WaiterStates]
  /\ inner \in [Docs -> InnerStates]
  /\ want \in [Docs -> Nat]
  /\ errC \in [Docs -> {{}, {"ok"}, {"err"}}]
  /\ panicking \subseteq Docs
  /\ mu \in Nat /\ held \subseteq 0..mu
  /\ made \in Nat /\ app \in 0..made /\ wbs \in 0..made /\ alive \subseteq 1..made
  /\ got \in [Docs -> 0..made] /\ overlapped \in BOOLEAN
  /\ released \in BOOLEAN /\ ready \in BOOLEAN
  /\ book \subseteq Docs \X (1..made) /\ \A b, c \in book : b = c
  /\ cleaned \subseteq Docs
  /\ fate \in Fates

\* The goroutines between Lock and Unlock are as many as the locked mutexes,
\* whichever mutex each of them locked or unlocks: no lock is lost and none is
\* held by nobody, although a rebuild can swap them (rpc_server.go:370-371).
LockConservation == Cardinality(Inside) = Cardinality(held)

\* The worker implements a gate that gains one seat per rebuild.
Gate == INSTANCE RebuildGate WITH inside <- Inside, seats <- mu + 1
GateRefinement == Gate!GateSpec

\* To the server a document is a waiter and an inner goroutine (RpcServer).
WaiterStage(w) ==
  CASE w \in {"idle", "admitted", "refused", "dropped"} -> "idle"
    [] w \in {"select", "reportErr", "report"} -> "wait"
    [] w \in RebuildStates -> "rebuild"
    [] w = "done" -> "done"
InnerStage(i) == IF i \in {"idle", "done"} THEN i ELSE "work"
waiterStages == [d \in Docs |-> WaiterStage(waiter[d])]
innerStages == [d \in Docs |-> InnerStage(inner[d])]

\* The worker behaves as the server takes for granted: the mark is cleared only by
\* a timer and set only at the end of a rebuild, goroutines end one by one, and
\* only a document at work crashes the process (rpc_server.go:330-440).
Jobs == INSTANCE DocumentJobs WITH
  waiter <- waiterStages, inner <- innerStages, crashed <- fate # "up"
JobsRefinement == Jobs!JobsSpec

\* Until a rebuild replaces the mutex the lock is exclusive, nobody unlocks an
\* unlocked mutex, and a document reported clean is the one that was cleaned.
ExclusiveUntilRebuild ==
  mu = 0 => /\ Cardinality(Inside) <= 1
            /\ fate # "unlock"
            /\ \A d \in Docs : "ok" \in errC[d] => d \in cleaned

\* A workbook never stays current after the goroutine that opened it has left:
\* the next document can never be cleaned in, or saved over, a leftover one,
\* unless Excel panicked under it, which ends the process (rpc_server.go:382-394).
BookBelongsInside ==
  \A b \in book : inner[b[1]] \in {"config", "clean", "save"} \/ b[1] \in panicking

\* When all rebuilds have ended, in whatever order their steps interleaved, the
\* ready mark is set and the application, if there is one, lives and was not
\* released under it; and unless two rebuilds overlapped, the workbooks handle is
\* that application's (excelop_windows.go:89-125, rpc_server.go:430-437).  Two that
\* overlapped may leave it the workbooks of an Excel that was killed.
RebuildConverges ==
  fate = "up" /\ Rebuilding(RebuildStates) = {}
    => /\ ready
       /\ app # Nil => app \in alive /\ ~released
       /\ ~overlapped => wbs = app

\* No waiter is stuck at a step of its own, whatever the inner goroutine waits for:
\* again and again it is at rest, in a call of Excel or of telemetry, or the process
\* has ended.  As it never comes back to a step, it ends or one such call never
\* returns; a mutex that was replaced cannot keep it (rpc_server.go:407-439).
AtRest == {"idle", "admitted", "refused", "dropped", "done"}
WaiterEnds == []<>(fate # "up" \/ \A d \in Docs : waiter[d] \in AtRest \cup Calling)

\* Refuted: a rebuild does not leave the lock taken at rpc_server.go:370 to the
\* Unlock deferred at 371, which ends the process on an unlocked mutex.
UnlockFindsItsLock == fate # "unlock"
==============================================================================
