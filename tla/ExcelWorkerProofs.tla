-------------------------- MODULE ExcelWorkerProofs --------------------------
(***************************************************************************)
(* For every finite set of documents: the types of ExcelWorker, that its   *)
(* locks are conserved, that it implements RebuildGate, that a workbook    *)
(* never outlives the goroutine that opened it, that overlapping rebuilds  *)
(* converge, that without a rebuild the lock is exclusive and a clean      *)
(* answer is about the right document, and that to the server it behaves   *)
(* as DocumentJobs says.                                                   *)
(***************************************************************************)
EXTENDS ExcelWorker, FiniteSetTheorems, TLAPS


-----------------------------------------------------------------------------
(* The inductive invariant. *)

\* Before its answer is sent, a document's channel is empty: sends never block.
BeforeAnswer == {"idle", "lock", "wait", "open", "call", "config", "clean"}
AnswerOnce == \A d \in Docs : inner[d] \in BeforeAnswer => errC[d] = {}

\* A goroutine waits for a mutex that exists.
WantExists == \A d \in Docs : want[d] <= mu

TypeInv == TypeOK /\ AnswerOnce /\ WantExists

\* The workbook that is open was opened by a goroutine that is still inside,
\* and a panic unwinds through the deferred calls to the end of the process.
PanicUnwinds ==
  \A d \in panicking : fate # "up" \/ inner[d] \in {"save", "unlock"}

\* What each stage of a rebuild still owes to the worker: an application that was
\* released or asked to quit is cleared, one that was stored dead makes its
\* rebuild panic, and the mark is set.
DeadIsCleared ==
  fate = "up" /\ app # Nil
    => /\ released => Rebuilding({"kill"}) # {}
       /\ app \notin alive => Rebuilding({"release", "kill", "config"}) # {}
UnreadyIsRebuilt == fate = "up" /\ ~ready => Rebuilding(RebuildStates) # {}

\* A rebuild that is alone finds the handles as it left them: at each stage the
\* workbooks are those of the application, or are fetched before it ends.
Alone == fate = "up" /\ ~overlapped
OneRebuild ==
  Alone => \A d, e \in Docs : waiter[d] \in RebuildStates /\ waiter[e] \in RebuildStates => d = e
HandlesAgree ==
  Alone => \/ wbs = app
           \/ \E d \in Docs : waiter[d] \in {"config", "mutex", "books", "fetch", "store"} /\ app # Nil
FetchedIsCurrent ==
  Alone => \A d \in Docs : /\ waiter[d] \in {"create", "assign"} => wbs = Nil
                           /\ waiter[d] = "assign" => got[d] # Nil
                           /\ waiter[d] = "store" => got[d] = app
RebuildInv == DeadIsCleared /\ UnreadyIsRebuilt /\ OneRebuild /\ HandlesAgree /\ FetchedIsCurrent

-----------------------------------------------------------------------------
(* Types. *)

LEMMA InitTypeInv == Init => TypeInv
<1> SUFFICES ASSUME Init PROVE TypeInv
  OBVIOUS
<1> USE DEF Init
<1>1. waiter \in [Docs -> WaiterStates] /\ inner \in [Docs -> InnerStates]
  BY DEF WaiterStates, InnerStates
<1>2. want \in [Docs -> Nat] /\ errC \in [Docs -> {{}, {"ok"}, {"err"}}]
  OBVIOUS
<1>3. /\ mu \in Nat /\ held \subseteq 0..mu /\ made \in Nat
      /\ app \in 0..made /\ wbs \in 0..made /\ alive \subseteq 1..made
      /\ got \in [Docs -> 0..made]
  BY DEF Nil
<1>4. AnswerOnce /\ WantExists
  BY DEF AnswerOnce, WantExists
<1> QED BY <1>1, <1>2, <1>3, <1>4 DEF TypeInv, TypeOK, Fates

\* A handler's step keeps the types, and every inner goroutine before its answer.
LEMMA HandlerTypeInv ==
  ASSUME TypeInv, NEW d \in Docs, HandlerNext(d)
  PROVE  TypeInv'
<1> USE DEF TypeInv, TypeOK, AnswerOnce, WantExists, BeforeAnswer, WaiterGoes, InnerGoes,
            lockVars, comVars, histVars, WaiterStates, InnerStates, Fates
<1>1. CASE AdmitOrRefuse(d)
  BY <1>1 DEF AdmitOrRefuse
<1>2. CASE WriteFails(d)
  BY <1>2 DEF WriteFails
<1>3. CASE Spawn(d)
  BY <1>3 DEF Spawn
<1> QED BY <1>1, <1>2, <1>3 DEF HandlerNext, HandlerStep

LEMMA InnerTypeInv ==
  ASSUME TypeInv, NEW d \in Docs, InnerNext(d)
  PROVE  TypeInv'
<1> USE DEF TypeInv, TypeOK, AnswerOnce, WantExists, BeforeAnswer, WaiterGoes, InnerGoes,
            lockVars, comVars, histVars, WaiterStates, InnerStates, Fates, Send
<1>1. CASE ReadMutex(d)
  BY <1>1 DEF ReadMutex
<1>2. CASE Acquire(d)
  <2>0. want[d] \in 0..mu
    OBVIOUS
  <2>1. held' \subseteq 0..mu
    <3>1. held' = held \cup {want[d]}
      BY <1>2 DEF Acquire
    <3> QED BY <3>1, <2>0
  <2>2. want' \in [Docs -> Nat] /\ inner' \in [Docs -> InnerStates]
    BY <1>2 DEF Acquire
  <2>3. AnswerOnce' /\ WantExists'
    BY <1>2 DEF Acquire
  <2> QED BY <1>2, <2>1, <2>2, <2>3 DEF Acquire
<1>3. CASE OpenTest(d)
  BY <1>3 DEF OpenTest, AfterFailedOpen
<1>4. CASE OpenCall(d)
  BY <1>4 DEF OpenCall, AfterFailedOpen
<1>5. CASE Configure(d)
  BY <1>5 DEF Configure
<1>6. CASE Clean(d)
  BY <1>6 DEF Clean, CleanAnswers
<1>7. CASE SaveAndRename(d)
  BY <1>7 DEF SaveAndRename, BookAfterSave
<1>8. CASE Unlock(d)
  BY <1>8 DEF Unlock
<1> QED BY <1>1, <1>2, <1>3, <1>4, <1>5, <1>6, <1>7, <1>8 DEF InnerNext, InnerStep

LEMMA WaiterTypeInv ==
  ASSUME TypeInv, NEW d \in Docs, WaiterNext(d)
  PROVE  TypeInv'
<1> USE DEF TypeInv, TypeOK, AnswerOnce, WantExists, BeforeAnswer, WaiterGoes,
            lockVars, comVars, histVars, Panics, WaiterStates, RebuildStates, InnerStates, Fates, Nil
<1>0. made \in Nat /\ 0..made \subseteq 0..(made + 1) /\ 1..made \subseteq 1..(made + 1)
  OBVIOUS
<1>1. CASE Answered(d) \/ Reported(d) \/ Timeout(d) \/ BooksTest(d) \/ MarkReady(d)
  BY <1>1 DEF Answered, Reported, Timeout, BooksTest, MarkReady
<1>2. CASE ClearMark(d)
  BY <1>2 DEF ClearMark, MarkCleared
<1>3. CASE QuitCall(d)
  BY <1>3 DEF QuitCall
<1>4. CASE ReleaseApp(d)
  BY <1>4 DEF ReleaseApp
<1>5. CASE KillAndClear(d)
  <2>1. alive' \subseteq 1..made /\ app' \in 0..made /\ wbs' \in 0..made
    BY <1>5 DEF KillAndClear
  <2> QED BY <1>5, <2>1 DEF KillAndClear
<1>6. CASE CreateExcel(d)
  <2>1. /\ made' \in Nat /\ made <= made'
        /\ alive' \subseteq 1..made' /\ app' \in 0..made' /\ got' \in [Docs -> 0..made']
    <3>1. CASE made' = made /\ alive' = alive /\ got' = got /\ app' \in {app, 0}
      BY <3>1
    <3>2. CASE made' = made + 1 /\ alive' = alive \cup {made + 1} /\ app' = app
               /\ got' = [got EXCEPT ![d] = made + 1]
      <4>1. got \in [Docs -> 0..(made + 1)] /\ made + 1 \in 1..(made + 1) /\ made + 1 \in 0..(made + 1)
        BY <1>0
      <4> QED BY <3>2, <4>1, <1>0
    <3> QED BY <1>6, <3>1, <3>2 DEF CreateExcel
  <2>2. wbs' \in 0..made' /\ book' \subseteq Docs \X (1..made') /\ \A b, c \in book' : b = c
    <3>1. wbs' = wbs /\ book' = book /\ made' \in {made, made + 1}
      BY <1>6 DEF CreateExcel
    <3>2. 0..made \subseteq 0..made' /\ 1..made \subseteq 1..made'
      BY <1>0, <3>1
    <3> QED BY <3>1, <3>2
  <2>3. waiter' \in [Docs -> WaiterStates] /\ fate' \in Fates /\ released' \in BOOLEAN
    BY <1>6 DEF CreateExcel
  <2>4. UNCHANGED <<inner, want, errC, panicking, mu, held, ready, cleaned, overlapped>>
    BY <1>6 DEF CreateExcel
  <2> QED BY <2>1, <2>2, <2>3, <2>4
<1>7. CASE AssignApp(d)
  <2>1. app' \in 0..made' /\ got' \in [Docs -> 0..made'] /\ made' = made
    <3>1. got[d] \in 0..made /\ 0 \in 0..made
      OBVIOUS
    <3> QED BY <1>7, <3>1 DEF AssignApp
  <2>2. waiter' \in [Docs -> WaiterStates] /\ released' \in BOOLEAN
    BY <1>7 DEF AssignApp
  <2>3. UNCHANGED <<inner, want, errC, panicking, mu, held, wbs, alive, book, ready, cleaned, overlapped, fate>>
    BY <1>7 DEF AssignApp
  <2> QED BY <2>1, <2>2, <2>3
<1>8. CASE StartupConfig(d)
  BY <1>8 DEF StartupConfig
<1>9. CASE NewMutex(d)
  BY <1>9 DEF NewMutex
<1>10. CASE FetchBooks(d)
  BY <1>10 DEF FetchBooks
<1>11. CASE StoreBooks(d)
  BY <1>11 DEF StoreBooks, BooksFetched
<1> QED BY <1>1, <1>2, <1>3, <1>4, <1>5, <1>6, <1>7, <1>8, <1>9, <1>10, <1>11 DEF WaiterNext, WaiterStep

LEMMA StutterTypeInv == TypeInv /\ UNCHANGED vars => TypeInv'
  BY DEF TypeInv, TypeOK, AnswerOnce, WantExists, vars, docVars, lockVars, comVars, histVars

\* Types hold in every reachable state, the answer channel never overflows, and
\* no goroutine waits for a mutex that does not exist (rpc_server.go:364-440).
THEOREM TypeInvariance == Spec => []TypeInv
<1>1. TypeInv /\ [Next]_vars => TypeInv'
  BY HandlerTypeInv, InnerTypeInv, WaiterTypeInv, StutterTypeInv DEF Next
<1> QED BY InitTypeInv, <1>1, PTL DEF Spec

\* The part a run checks.
THEOREM TypeCorrect == Spec => []TypeOK
<1>1. TypeInv => TypeOK
  BY DEF TypeInv
<1> QED BY TypeInvariance, <1>1, PTL

-----------------------------------------------------------------------------
(* The lock. *)

LEMMA InsideFinite == IsFiniteSet(Inside)
<1>1. Inside \subseteq Docs
  BY DEF Inside
<1> QED BY <1>1, DocsAssumption, FS_Subset

\* The three things a step can do to the lock: let a document in with a mutex
\* that was free, let one out with the current mutex, or neither.
Enters(d) ==
  /\ d \notin Inside /\ Inside' = Inside \cup {d}
  /\ \E m \in 0..mu : m \notin held /\ held' = held \cup {m}
  /\ mu' = mu
Leaves(d) ==
  /\ d \in Inside /\ Inside' = Inside \ {d}
  /\ mu \in held /\ held' = held \ {mu}
  /\ mu' = mu
Stays == Inside' = Inside /\ held' = held /\ mu' \in {mu, mu + 1}

LEMMA InsideSame ==
  ASSUME \A e \in Docs : inner'[e] \in Working <=> inner[e] \in Working
  PROVE  Inside' = Inside
  BY DEF Inside

LEMMA InnerLockStep ==
  ASSUME TypeInv, NEW d \in Docs, InnerNext(d)
  PROVE  Enters(d) \/ Leaves(d) \/ Stays
<1> USE DEF InnerGoes, lockVars
<1>1. inner \in [Docs -> InnerStates] /\ want[d] \in Nat /\ mu \in Nat /\ want[d] <= mu
  BY DEF TypeInv, TypeOK, WantExists
<1>2. CASE Acquire(d)
  <2>1. d \notin Inside /\ Inside' = Inside \cup {d}
    BY <1>1, <1>2 DEF Acquire, Inside, Working
  <2>2. want[d] \in 0..mu /\ want[d] \notin held /\ held' = held \cup {want[d]} /\ mu' = mu
    BY <1>1, <1>2 DEF Acquire, Acquirable
  <2> QED BY <2>1, <2>2 DEF Enters
<1>3. CASE Unlock(d) /\ mu \in held
  <2>1. d \in Inside /\ Inside' = Inside \ {d}
    BY <1>1, <1>3 DEF Unlock, Inside, Working
  <2> QED BY <1>3, <2>1 DEF Unlock, Leaves
<1>4. CASE Unlock(d) /\ mu \notin held
  BY <1>4 DEF Unlock, Stays, Inside
<1>5. CASE ReadMutex(d)
  <2>1. Inside' = Inside
    BY <1>1, <1>5, InsideSame DEF ReadMutex, Working
  <2> QED BY <1>5, <2>1 DEF ReadMutex, Stays
<1>6. CASE OpenTest(d) \/ OpenCall(d) \/ Configure(d) \/ Clean(d) \/ SaveAndRename(d)
  <2>1. \E from, to \in Working : InnerGoes(d, from, to)
    BY <1>6 DEF OpenTest, OpenCall, Configure, Clean, SaveAndRename, AfterFailedOpen, Working
  <2>2. Inside' = Inside
    BY <1>1, <2>1, InsideSame
  <2>3. held' = held /\ mu' = mu
    BY <1>6 DEF OpenTest, OpenCall, Configure, Clean, SaveAndRename
  <2> QED BY <2>2, <2>3 DEF Stays
<1> QED BY <1>2, <1>3, <1>4, <1>5, <1>6 DEF InnerNext, InnerStep

LEMMA HandlerLockStep ==
  ASSUME TypeInv, NEW d \in Docs, HandlerNext(d)
  PROVE  Stays
<1>1. inner \in [Docs -> InnerStates]
  BY DEF TypeInv, TypeOK
<1>2. inner' = inner \/ InnerGoes(d, "idle", "lock")
  BY DEF HandlerNext, HandlerStep, AdmitOrRefuse, WriteFails, Spawn
<1>3. Inside' = Inside
  BY <1>1, <1>2, InsideSame DEF InnerGoes, Working
<1>4. held' = held /\ mu' = mu
  BY DEF HandlerNext, HandlerStep, AdmitOrRefuse, WriteFails, Spawn, lockVars
<1> QED BY <1>3, <1>4 DEF Stays

LEMMA WaiterLockStep ==
  ASSUME TypeInv, NEW d \in Docs, WaiterNext(d)
  PROVE  Stays
<1> USE DEF WaiterNext, WaiterStep, Answered, Reported, Timeout, ClearMark, QuitCall,
         ReleaseApp, KillAndClear, CreateExcel, AssignApp, StartupConfig, NewMutex, BooksTest,
         FetchBooks, StoreBooks, MarkReady, Panics, lockVars
<1>1. inner' = inner
  OBVIOUS
<1>2. held' = held /\ mu' \in {mu, mu + 1}
  OBVIOUS
<1> QED BY <1>1, <1>2 DEF Stays, Inside

LEMMA LockStep ==
  ASSUME TypeInv, [Next]_vars
  PROVE  Stays \/ \E d \in Docs : Enters(d) \/ Leaves(d)
<1>1. CASE UNCHANGED vars
  BY <1>1 DEF vars, docVars, lockVars, Stays, Inside
<1> QED BY <1>1, InnerLockStep, HandlerLockStep, WaiterLockStep DEF Next

LEMMA InitLock == Init => LockConservation
<1> SUFFICES ASSUME Init PROVE LockConservation
  OBVIOUS
<1>1. Inside = {} /\ held = {}
  BY DEF Init, Inside, Working
<1> QED BY <1>1 DEF LockConservation

LEMMA NextLock == TypeInv /\ LockConservation /\ [Next]_vars => LockConservation'
<1> SUFFICES ASSUME TypeInv, LockConservation, [Next]_vars PROVE LockConservation'
  OBVIOUS
<1>1. IsFiniteSet(held) /\ mu \in Nat
  <2>1. held \subseteq 0..mu /\ mu \in Nat
    BY DEF TypeInv, TypeOK
  <2>2. IsFiniteSet(0..mu)
    BY <2>1, FS_Interval
  <2> QED BY <2>1, <2>2, FS_Subset
<1>2. CASE Stays
  BY <1>2 DEF Stays, LockConservation
<1>3. ASSUME NEW d \in Docs, Enters(d) PROVE LockConservation'
  <2>1. PICK m \in 0..mu : m \notin held /\ held' = held \cup {m}
    BY <1>3 DEF Enters
  <2>2. Cardinality(held') = Cardinality(held) + 1
    BY <1>1, <2>1, FS_AddElement
  <2>3. Cardinality(Inside') = Cardinality(Inside) + 1
    BY <1>3, InsideFinite, FS_AddElement DEF Enters
  <2> QED BY <2>2, <2>3 DEF LockConservation
<1>4. ASSUME NEW d \in Docs, Leaves(d) PROVE LockConservation'
  <2>1. Cardinality(held') = Cardinality(held) - 1
    BY <1>1, <1>4, FS_RemoveElement DEF Leaves
  <2>2. Cardinality(Inside') = Cardinality(Inside) - 1
    BY <1>4, InsideFinite, FS_RemoveElement DEF Leaves
  <2> QED BY <2>1, <2>2 DEF LockConservation
<1> QED BY <1>2, <1>3, <1>4, LockStep

\* As many goroutines are inside the critical section as mutexes are locked, in
\* every reachable state and however many rebuilds swapped the mutex under them.
THEOREM LocksAreConserved == Spec => []LockConservation
<1> QED BY TypeInvariance, InitLock, NextLock, PTL DEF Spec

\* A free mutex means a free seat.
LEMMA FreeSeat ==
  ASSUME TypeInv, LockConservation, NEW m \in 0..mu, m \notin held
  PROVE  Cardinality(Inside) < mu + 1
<1>1. held \subseteq 0..mu /\ mu \in Nat
  BY DEF TypeInv, TypeOK
<1>2. IsFiniteSet(0..mu) /\ Cardinality(0..mu) = mu + 1
  BY <1>1, FS_Interval
<1>3. Cardinality(held) <= mu + 1 /\ Cardinality(held) # mu + 1
  BY <1>1, <1>2, FS_Subset
<1>4. Cardinality(held) \in Nat
  BY <1>1, <1>2, FS_Subset, FS_CardinalityType
<1> QED BY <1>1, <1>3, <1>4 DEF LockConservation

\* The worker implements the gate: documents enter while seats are free, and
\* the only other thing that ever happens to the lock is a new seat.
THEOREM WorkerImplementsGate == Spec => GateRefinement
<1>1. Init => Gate!GateInit
  <2> SUFFICES ASSUME Init PROVE Inside = {} /\ mu + 1 = 1
    BY DEF Gate!GateInit
  <2> QED BY DEF Init, Inside, Working
<1>2. TypeInv /\ LockConservation /\ [Next]_vars => [Gate!GateNext]_(Gate!gateVars)
  <2> SUFFICES ASSUME TypeInv, LockConservation, [Next]_vars
               PROVE  [Gate!GateNext]_(Gate!gateVars)
    OBVIOUS
  <2> USE DEF Gate!GateNext, Gate!gateVars
  <2>1. CASE Stays
    BY <2>1 DEF Stays, Gate!Widen
  <2>2. ASSUME NEW d \in Docs, Enters(d) PROVE Gate!Enter(d)
    <3>1. Cardinality(Inside) < mu + 1
      BY <2>2, FreeSeat DEF Enters
    <3>2. d \notin Inside /\ Inside' = Inside \cup {d} /\ mu' = mu
      BY <2>2 DEF Enters
    <3>3. Gate!Cardinality(Inside) = Cardinality(Inside)
      BY DEF Gate!Cardinality, Cardinality
    <3> QED BY <3>1, <3>2, <3>3 DEF Gate!Enter
  <2>3. ASSUME NEW d \in Docs, Leaves(d) PROVE Gate!Leave(d)
    BY <2>3 DEF Leaves, Gate!Leave
  <2> QED BY <2>1, <2>2, <2>3, LockStep
<1> QED BY <1>1, <1>2, TypeInvariance, LocksAreConserved, PTL DEF Spec, GateRefinement, Gate!GateSpec

-----------------------------------------------------------------------------
(* The workbook and the answer. *)

BookInv == PanicUnwinds /\ BookBelongsInside

LEMMA InitBook == Init => BookInv
  BY DEF Init, BookInv, PanicUnwinds, BookBelongsInside

LEMMA InnerBook ==
  ASSUME TypeInv, BookInv, NEW d \in Docs, InnerNext(d)
  PROVE  BookInv'
<1> USE DEF BookInv, PanicUnwinds, BookBelongsInside, InnerGoes
<1>1. /\ inner \in [Docs -> InnerStates] /\ panicking \subseteq Docs /\ fate = "up"
      /\ \A b \in book : b[1] \in Docs
  BY DEF TypeInv, TypeOK, InnerNext
<1>2. CASE ReadMutex(d) \/ Acquire(d) \/ OpenTest(d)
  <2>1. \E from \in {"lock", "wait", "open"}, to \in InnerStates : InnerGoes(d, from, to)
    BY <1>2 DEF ReadMutex, Acquire, OpenTest, AfterFailedOpen, InnerStates
  <2>2. panicking' = panicking /\ book' = book
    BY <1>2 DEF ReadMutex, Acquire, OpenTest
  <2> QED BY <1>1, <2>1, <2>2
<1>3. CASE OpenCall(d)
  <2>1. CASE book' = {<<d, wbs>>} /\ InnerGoes(d, "call", "config") /\ panicking' = panicking
    BY <1>1, <2>1
  <2>2. CASE book' = book /\ InnerGoes(d, "call", "unlock") /\ panicking' \in {panicking, panicking \cup {d}}
    BY <1>1, <2>2
  <2> QED BY <1>3, <2>1, <2>2 DEF OpenCall, AfterFailedOpen
<1>4. CASE Configure(d)
  BY <1>1, <1>4 DEF Configure
<1>5. CASE Clean(d)
  BY <1>1, <1>5 DEF Clean
<1>6. CASE SaveAndRename(d)
  BY <1>1, <1>6 DEF SaveAndRename, BookAfterSave
<1>7. CASE Unlock(d)
  BY <1>1, <1>7 DEF Unlock
<1> QED BY <1>2, <1>3, <1>4, <1>5, <1>6, <1>7 DEF InnerNext, InnerStep

LEMMA NextBook == TypeInv /\ BookInv /\ [Next]_vars => BookInv'
<1> SUFFICES ASSUME TypeInv, BookInv, [Next]_vars PROVE BookInv'
  OBVIOUS
<1> USE DEF BookInv, PanicUnwinds, BookBelongsInside
<1>1. /\ inner \in [Docs -> InnerStates] /\ panicking \subseteq Docs
      /\ \A b \in book : b[1] \in Docs
  BY DEF TypeInv, TypeOK
<1>2. CASE UNCHANGED vars
  BY <1>2 DEF vars, docVars
<1>3. ASSUME NEW d \in Docs, HandlerNext(d) PROVE BookInv'
  <2>1. /\ inner' = inner \/ InnerGoes(d, "idle", "lock")
        /\ panicking' = panicking /\ book' = book /\ fate' = fate
    BY <1>3 DEF HandlerNext, HandlerStep, AdmitOrRefuse, WriteFails, Spawn
  <2> QED BY <1>1, <2>1 DEF InnerGoes
<1>4. ASSUME NEW d \in Docs, WaiterNext(d) PROVE BookInv'
  <2>1. fate = "up" /\ inner' = inner /\ panicking' = panicking /\ book' = book
    BY <1>4 DEF WaiterNext, WaiterStep, Answered, Reported, Timeout, ClearMark, QuitCall,
         ReleaseApp, KillAndClear, CreateExcel, AssignApp, StartupConfig, NewMutex, BooksTest,
         FetchBooks, StoreBooks, MarkReady, Panics
  <2> QED BY <2>1
<1> QED BY <1>2, <1>3, <1>4, InnerBook DEF Next

\* No workbook outlives the goroutine that opened it, in any reachable state.
THEOREM NoLeftoverWorkbook == Spec => []BookBelongsInside
<1>1. BookInv => BookBelongsInside
  BY DEF BookInv
<1> QED BY <1>1, TypeInvariance, InitBook, NextBook, PTL DEF Spec

\* A clean answer was earned on the right document while the first mutex lasts.
OkIsCleaned == mu = 0 => \A d \in Docs : "ok" \in errC[d] => d \in cleaned

LEMMA MutexNumbers == mu \in Nat => IsFiniteSet(0..mu) /\ Cardinality(0..mu) = mu + 1
  BY FS_Interval

LEMMA AtMostOneInside ==
  ASSUME TypeInv, LockConservation, mu = 0
  PROVE  Cardinality(Inside) <= 1
<1>1. held \subseteq 0..mu /\ IsFiniteSet(0..mu) /\ Cardinality(0..mu) = 1
  <2>1. held \subseteq 0..mu /\ mu \in Nat
    BY DEF TypeInv, TypeOK
  <2>2. IsFiniteSet(0..mu) /\ Cardinality(0..mu) = mu + 1
    BY <2>1, MutexNumbers
  <2> QED BY <2>1, <2>2
<1>2. Cardinality(held) <= 1
  BY <1>1, FS_Subset
<1> QED BY <1>2 DEF LockConservation

LEMMA TheSameInside ==
  ASSUME TypeInv, LockConservation, mu = 0, NEW d \in Inside, NEW e \in Inside
  PROVE  d = e
<1>1. Cardinality(Inside) <= 1 /\ Cardinality(Inside) \in Nat /\ Cardinality(Inside) # 0
  BY AtMostOneInside, InsideFinite, FS_CardinalityType, FS_EmptySet
<1>2. Cardinality(Inside) = 1
  BY <1>1
<1> QED BY <1>2, InsideFinite, FS_Singleton

LEMMA NextOk ==
  ASSUME TypeInv, LockConservation, BookInv, OkIsCleaned, [Next]_vars
  PROVE  OkIsCleaned'
<1> SUFFICES ASSUME mu' = 0, NEW e \in Docs, "ok" \in errC'[e] PROVE e \in cleaned'
  BY DEF OkIsCleaned
<1>1. /\ mu \in Nat /\ mu' \in {mu, mu + 1} /\ errC \in [Docs -> {{}, {"ok"}, {"err"}}]
      /\ inner \in [Docs -> InnerStates]
  <2>1. mu' \in {mu, mu + 1}
    BY LockStep DEF Stays, Enters, Leaves
  <2> QED BY <2>1 DEF TypeInv, TypeOK
<1>2. mu = 0
  BY <1>1
<1>3. cleaned \subseteq cleaned'
  BY DEF Next, vars, HandlerNext, HandlerStep, AdmitOrRefuse, WriteFails, Spawn, WaiterNext,
         WaiterStep, Answered, Reported, Timeout, ClearMark, QuitCall,
         ReleaseApp, KillAndClear, CreateExcel, AssignApp, StartupConfig, NewMutex, BooksTest,
         FetchBooks, StoreBooks, MarkReady, Panics, InnerNext, InnerStep, ReadMutex, Acquire, OpenTest, OpenCall,
         Configure, Clean, SaveAndRename, Unlock, histVars
<1>4. CASE "ok" \in errC[e]
  BY <1>2, <1>3, <1>4 DEF OkIsCleaned
<1>5. CASE "ok" \notin errC[e]
  <2>1. PICK d \in Docs : InnerNext(d) /\ Clean(d) /\ errC' = [errC EXCEPT ![d] = @ \cup {"ok"}]
    BY <1>1, <1>5 DEF Next, vars, docVars, HandlerNext, HandlerStep, AdmitOrRefuse, WriteFails, Spawn,
       WaiterNext, WaiterStep, Answered, Reported, Timeout, ClearMark, QuitCall,
         ReleaseApp, KillAndClear, CreateExcel, AssignApp, StartupConfig, NewMutex, BooksTest,
         FetchBooks, StoreBooks, MarkReady, Panics, InnerNext, InnerStep, ReadMutex, Acquire, OpenTest,
       OpenCall, Configure, Clean, SaveAndRename, Unlock, Send, CleanAnswers
  <2>2. d = e
    BY <1>1, <1>5, <2>1
  <2>3. PICK b \in book : cleaned' = cleaned \cup {b[1]}
    BY <1>1, <2>1, <1>5 DEF Clean, CleanAnswers
  <2>4. d \in Inside
    BY <2>1 DEF Clean, InnerGoes, Inside, Working
  <2>5. b[1] \in Inside
    BY <2>1, <2>3 DEF BookInv, BookBelongsInside, PanicUnwinds, TypeInv, TypeOK, InnerNext,
                      Inside, Working
  <2> QED BY <1>2, <2>2, <2>3, <2>4, <2>5, TheSameInside
<1> QED BY <1>4, <1>5

\* With the first mutex, whoever unlocks finds its lock.
FirstUnlockIsSound == mu = 0 => fate # "unlock"

LEMMA NextFirstUnlock ==
  ASSUME TypeInv, LockConservation, FirstUnlockIsSound, [Next]_vars
  PROVE  FirstUnlockIsSound'
<1> SUFFICES ASSUME mu' = 0, fate' = "unlock", fate # "unlock" PROVE FALSE
  <2>1. mu \in Nat /\ mu' \in {mu, mu + 1}
    BY LockStep DEF Stays, Enters, Leaves, TypeInv, TypeOK
  <2> QED BY <2>1 DEF FirstUnlockIsSound
<1>1. PICK d \in Docs : Unlock(d) /\ mu \notin held /\ mu' = mu
  BY DEF Next, vars, HandlerNext, HandlerStep, AdmitOrRefuse, WriteFails, Spawn, WaiterNext,
         WaiterStep, Answered, Reported, Timeout, ClearMark, QuitCall,
         ReleaseApp, KillAndClear, CreateExcel, AssignApp, StartupConfig, NewMutex, BooksTest,
         FetchBooks, StoreBooks, MarkReady, Panics, InnerNext, InnerStep, ReadMutex, Acquire, OpenTest, OpenCall,
         Configure, Clean, SaveAndRename, Unlock
<1>2. held = {}
  BY <1>1 DEF TypeInv, TypeOK
<1>3. d \in Inside
  BY <1>1 DEF Unlock, Inside, Working
<1>4. Cardinality(Inside) # 0
  BY <1>3, InsideFinite, FS_EmptySet
<1> QED BY <1>2, <1>4, FS_EmptySet DEF LockConservation

\* As long as no rebuild has replaced the mutex, at most one document is worked
\* on, no Unlock is fatal, and what is reported clean was cleaned.
THEOREM FirstLockIsExclusive == Spec => []ExclusiveUntilRebuild
<1>1. Init => OkIsCleaned /\ FirstUnlockIsSound
  BY DEF Init, OkIsCleaned, FirstUnlockIsSound
<1>2. TypeInv /\ LockConservation /\ OkIsCleaned /\ FirstUnlockIsSound => ExclusiveUntilRebuild
  BY AtMostOneInside DEF OkIsCleaned, FirstUnlockIsSound, ExclusiveUntilRebuild
<1>3. BookInv /\ OkIsCleaned /\ FirstUnlockIsSound /\ TypeInv /\ LockConservation /\ [Next]_vars
        => OkIsCleaned' /\ FirstUnlockIsSound'
  BY NextOk, NextFirstUnlock
<1> QED BY <1>1, <1>2, <1>3, TypeInvariance, LocksAreConserved, InitBook, NextBook, PTL DEF Spec

-----------------------------------------------------------------------------
(* The rebuild. *)

LEMMA InitRebuild == Init => RebuildInv
  BY DEF Init, RebuildInv, DeadIsCleared, UnreadyIsRebuilt, OneRebuild, HandlesAgree, FetchedIsCurrent,
         RebuildStates, Nil

\* A step that leaves Excel's handles and the mark alone, and takes no document
\* into or out of a rebuild, leaves what the rebuilds owe as it was.
LEMMA OtherRebuild ==
  ASSUME RebuildInv, UNCHANGED <<comVars, ready, overlapped>>, fate' = "up" => fate = "up",
         \A e \in Docs : waiter[e] \in RebuildStates \/ waiter'[e] \in RebuildStates => waiter'[e] = waiter[e]
  PROVE  RebuildInv'
<1>1. \A S \in SUBSET RebuildStates : Rebuilding(S) \subseteq Rebuilding(S)'
  BY DEF Rebuilding
<1>2. {"kill"} \subseteq RebuildStates /\ {"release", "kill", "config"} \subseteq RebuildStates
  BY DEF RebuildStates
<1>3. /\ Rebuilding({"kill"}) \subseteq Rebuilding({"kill"})'
      /\ Rebuilding({"release", "kill", "config"}) \subseteq Rebuilding({"release", "kill", "config"})'
      /\ Rebuilding(RebuildStates) \subseteq Rebuilding(RebuildStates)'
  BY <1>1, <1>2
<1>4. DeadIsCleared' /\ UnreadyIsRebuilt'
  BY <1>3 DEF RebuildInv, DeadIsCleared, UnreadyIsRebuilt, comVars
<1>5. OneRebuild' /\ HandlesAgree' /\ FetchedIsCurrent'
  BY DEF RebuildInv, OneRebuild, HandlesAgree, FetchedIsCurrent, Alone, comVars, RebuildStates
<1> QED BY <1>4, <1>5 DEF RebuildInv

\* What the waiters' own steps do to the application's and the mark's debts.
LEMMA WaiterDebts ==
  ASSUME TypeInv, RebuildInv, NEW d \in Docs, WaiterNext(d)
  PROVE  DeadIsCleared' /\ UnreadyIsRebuilt'
<1> USE DEF WaiterGoes, Rebuilding, Nil, Panics, RebuildInv, DeadIsCleared, UnreadyIsRebuilt, comVars,
            RebuildStates
<1>1. waiter \in [Docs -> WaiterStates] /\ fate = "up" /\ made \in Nat /\ app \in 0..made
  BY DEF TypeInv, TypeOK, WaiterNext
<1>2. CASE Answered(d) \/ Reported(d) \/ Timeout(d)
  BY <1>1, <1>2 DEF Answered, Reported, Timeout
<1>3. CASE ClearMark(d)
  BY <1>1, <1>3 DEF ClearMark, MarkCleared
<1>4. CASE QuitCall(d)
  BY <1>1, <1>4 DEF QuitCall
<1>5. CASE ReleaseApp(d)
  BY <1>1, <1>5 DEF ReleaseApp
<1>6. CASE KillAndClear(d)
  BY <1>1, <1>6 DEF KillAndClear
<1>7. CASE CreateExcel(d)
  BY <1>1, <1>7 DEF CreateExcel
<1>8. CASE AssignApp(d)
  <2>1. waiter' = [waiter EXCEPT ![d] = "config"] /\ released' = FALSE
    BY <1>8 DEF AssignApp
  <2>2. waiter'[d] = "config"
    BY <1>1, <2>1
  <2> QED BY <2>1, <2>2
<1>9. CASE StartupConfig(d)
  <2>1. CASE fate' # "up"
    BY <2>1
  <2>2. CASE app \in alive /\ WaiterGoes(d, "config", "mutex")
    <3>1. waiter'[d] = "mutex" /\ \A e \in Docs : waiter[e] = "kill" => waiter'[e] = "kill"
      BY <1>1, <2>2
    <3>2. UNCHANGED <<app, released, alive, ready>>
      BY <1>9 DEF StartupConfig
    <3> QED BY <1>1, <2>2, <3>1, <3>2
  <2> QED BY <1>9, <2>1, <2>2 DEF StartupConfig
<1>10. CASE NewMutex(d) \/ BooksTest(d)
  BY <1>1, <1>10 DEF NewMutex, BooksTest
<1>11. CASE FetchBooks(d)
  BY <1>1, <1>11 DEF FetchBooks
<1>12. CASE StoreBooks(d)
  BY <1>1, <1>12 DEF StoreBooks
<1>13. CASE MarkReady(d)
  BY <1>1, <1>13 DEF MarkReady
<1> QED BY <1>2, <1>3, <1>4, <1>5, <1>6, <1>7, <1>8, <1>9, <1>10, <1>11, <1>12, <1>13 DEF WaiterNext, WaiterStep

\* And to the handles, when the rebuild is alone.
LEMMA WaiterHandles ==
  ASSUME TypeInv, RebuildInv, NEW d \in Docs, WaiterNext(d)
  PROVE  OneRebuild' /\ HandlesAgree' /\ FetchedIsCurrent'
<1> USE DEF WaiterGoes, Rebuilding, Nil, Panics, RebuildInv, OneRebuild, HandlesAgree, FetchedIsCurrent,
            Alone, comVars, histVars, RebuildStates
<1>1. waiter \in [Docs -> WaiterStates] /\ fate = "up" /\ got \in [Docs -> 0..made]
  BY DEF TypeInv, TypeOK, WaiterNext
<1>2. CASE Answered(d) \/ Reported(d) \/ Timeout(d)
  BY <1>1, <1>2 DEF Answered, Reported, Timeout
<1>3. CASE ClearMark(d)
  BY <1>1, <1>3 DEF ClearMark
<1>4. CASE QuitCall(d)
  BY <1>1, <1>4 DEF QuitCall
<1>5. CASE ReleaseApp(d)
  BY <1>1, <1>5 DEF ReleaseApp
<1>6. CASE KillAndClear(d)
  BY <1>1, <1>6 DEF KillAndClear
<1>7. CASE CreateExcel(d)
  <2>1. CASE fate' # "up"
    BY <2>1
  <2>2. CASE Alone' /\ fate' = "up"
    <3>1. Alone /\ waiter[d] = "create" /\ wbs = Nil /\ wbs' = wbs /\ \A e \in Docs : waiter[e] \in RebuildStates => e = d
      BY <1>1, <1>7, <2>2 DEF CreateExcel
    <3>2. /\ \A e \in Docs \ {d} : waiter'[e] = waiter[e] /\ got'[e] = got[e]
          /\ waiter'[d] \in {"assign", "books"}
          /\ waiter'[d] = "assign" => got'[d] = made + 1 /\ app' = app
          /\ waiter'[d] = "books" => app' = Nil
      BY <1>1, <1>7, <2>2 DEF CreateExcel
    <3>3. made + 1 # Nil
      BY DEF TypeInv, TypeOK
    <3>4. app = Nil \/ waiter'[d] = "books"
      BY <3>1, <3>2
    <3> QED BY <3>1, <3>2, <3>3, <3>4
  <2> QED BY <2>1, <2>2
<1>8. CASE AssignApp(d)
  BY <1>1, <1>8 DEF AssignApp
<1>9. CASE StartupConfig(d)
  BY <1>1, <1>9 DEF StartupConfig
<1>10. CASE NewMutex(d) \/ BooksTest(d)
  BY <1>1, <1>10 DEF NewMutex, BooksTest
<1>11. CASE FetchBooks(d)
  BY <1>1, <1>11 DEF FetchBooks
<1>12. CASE StoreBooks(d)
  BY <1>1, <1>12 DEF StoreBooks, BooksFetched
<1>13. CASE MarkReady(d)
  BY <1>1, <1>13 DEF MarkReady
<1> QED BY <1>2, <1>3, <1>4, <1>5, <1>6, <1>7, <1>8, <1>9, <1>10, <1>11, <1>12, <1>13 DEF WaiterNext, WaiterStep

LEMMA NextRebuild == TypeInv /\ RebuildInv /\ [Next]_vars => RebuildInv'
<1> SUFFICES ASSUME TypeInv, RebuildInv, [Next]_vars PROVE RebuildInv'
  OBVIOUS
<1>1. waiter \in [Docs -> WaiterStates]
  BY DEF TypeInv, TypeOK
<1>2. CASE UNCHANGED vars
  BY <1>2, OtherRebuild DEF vars, docVars, comVars, histVars
<1>3. ASSUME NEW d \in Docs, HandlerNext(d) PROVE RebuildInv'
  <2>1. UNCHANGED <<comVars, ready, overlapped>> /\ fate' = fate
    BY <1>3 DEF HandlerNext, HandlerStep, AdmitOrRefuse, WriteFails, Spawn, comVars, histVars
  <2>2. \A e \in Docs : waiter[e] \in RebuildStates \/ waiter'[e] \in RebuildStates => waiter'[e] = waiter[e]
    BY <1>1, <1>3 DEF HandlerNext, HandlerStep, AdmitOrRefuse, WriteFails, Spawn, WaiterGoes,
                      RebuildStates
  <2> QED BY <2>1, <2>2, OtherRebuild
<1>4. ASSUME NEW d \in Docs, InnerNext(d) PROVE RebuildInv'
  <2>1. UNCHANGED <<comVars, ready, overlapped>> /\ fate = "up" /\ waiter' = waiter
    BY <1>4 DEF InnerNext, InnerStep, ReadMutex, Acquire, OpenTest, OpenCall, Configure, Clean,
                SaveAndRename, Unlock, comVars, histVars
  <2> QED BY <2>1, OtherRebuild
<1>5. ASSUME NEW d \in Docs, WaiterNext(d) PROVE RebuildInv'
  BY <1>5, WaiterDebts, WaiterHandles DEF RebuildInv
<1> QED BY <1>2, <1>3, <1>4, <1>5 DEF Next

\* When every rebuild has ended, in whatever order their steps interleaved, the
\* worker is marked ready and its application, if there is one, lives; if no two
\* rebuilds overlapped, the workbooks handle is that application's.
THEOREM RebuildsConverge == Spec => []RebuildConverges
<1>1. RebuildInv => RebuildConverges
  <2> SUFFICES ASSUME RebuildInv, fate = "up", Rebuilding(RebuildStates) = {}
               PROVE  /\ ready
                      /\ app # Nil => app \in alive /\ ~released
                      /\ ~overlapped => wbs = app
    BY DEF RebuildConverges
  <2>1. \A d \in Docs : waiter[d] \notin RebuildStates
    BY DEF Rebuilding
  <2>2. ready /\ (app # Nil => app \in alive /\ ~released)
    BY <2>1 DEF RebuildInv, DeadIsCleared, UnreadyIsRebuilt, Rebuilding, RebuildStates
  <2>3. ~overlapped => wbs = app
    BY <2>1 DEF RebuildInv, HandlesAgree, Alone, RebuildStates
  <2> QED BY <2>2, <2>3
<1> QED BY <1>1, TypeInvariance, InitRebuild, NextRebuild, PTL DEF Spec

-----------------------------------------------------------------------------
(* What the server sees of it. *)

\* At first all documents are idle and the worker is ready.
LEMMA InitJobs == Init => Jobs!JobsInit
<1> SUFFICES ASSUME Init PROVE Jobs!JobsInit
  OBVIOUS
<1>1. waiterStages = [d \in Docs |-> "idle"] /\ innerStages = [d \in Docs |-> "idle"]
  BY DEF Init, waiterStages, innerStages, WaiterStage, InnerStage, RebuildStates
<1>2. fate = "up" /\ ready = TRUE
  BY DEF Init
<1> QED BY <1>1, <1>2 DEF Jobs!JobsInit

\* The server sees the waiter of d move, and no other.
LEMMA WaiterMoved ==
  ASSUME TypeInv, NEW d \in Docs, NEW from, NEW to, WaiterGoes(d, from, to)
  PROVE  waiterStages[d] = WaiterStage(from) /\ waiterStages' = [waiterStages EXCEPT ![d] = WaiterStage(to)]
  BY DEF TypeInv, TypeOK, WaiterGoes, waiterStages

\* The same of its inner goroutine.
LEMMA InnerMoved ==
  ASSUME TypeInv, NEW d \in Docs, NEW from, NEW to, InnerGoes(d, from, to)
  PROVE  innerStages[d] = InnerStage(from) /\ innerStages' = [innerStages EXCEPT ![d] = InnerStage(to)]
  BY DEF TypeInv, TypeOK, InnerGoes, innerStages

\* A move within a stage is none to the server.
LEMMA WaiterWithin ==
  ASSUME TypeInv, NEW d \in Docs, NEW from, NEW to, WaiterGoes(d, from, to), WaiterStage(from) = WaiterStage(to)
  PROVE  waiterStages' = waiterStages
  BY WaiterMoved DEF waiterStages

LEMMA InnerWithin ==
  ASSUME TypeInv, NEW d \in Docs, NEW from, NEW to, InnerGoes(d, from, to), InnerStage(from) = InnerStage(to)
  PROVE  innerStages' = innerStages
  BY InnerMoved DEF innerStages

\* The stages follow from the goroutines' states alone.
LEMMA StagesStay ==
  /\ waiter' = waiter => waiterStages' = waiterStages
  /\ inner' = inner => innerStages' = innerStages
  BY DEF waiterStages, innerStages

\* The handler's steps are nothing to the server's jobs but the start of one.
LEMMA HandlerJobs ==
  ASSUME TypeInv, NEW d \in Docs, HandlerNext(d)
  PROVE  [Jobs!JobsNext]_(Jobs!jobs)
<1> USE DEF Jobs!jobs
<1>1. CASE AdmitOrRefuse(d) \/ WriteFails(d)
  <2>1. waiterStages' = waiterStages
    <3>1. PICK from \in {"idle", "admitted"}, to \in {"admitted", "refused", "dropped"} : WaiterGoes(d, from, to)
      BY <1>1 DEF AdmitOrRefuse, WriteFails
    <3>2. WaiterStage(from) = WaiterStage(to)
      BY DEF WaiterStage, RebuildStates
    <3> QED BY <3>1, <3>2, WaiterWithin
  <2>2. innerStages' = innerStages /\ UNCHANGED <<ready, fate>>
    BY <1>1, StagesStay DEF AdmitOrRefuse, WriteFails
  <2> QED BY <2>1, <2>2
<1>2. CASE Spawn(d)
  <2>1. WaiterGoes(d, "admitted", "select") /\ InnerGoes(d, "idle", "lock") /\ UNCHANGED <<ready, fate>>
    BY <1>2 DEF Spawn
  <2>2. Jobs!WaiterMoves(d, "idle", "wait") /\ Jobs!InnerMoves(d, "idle", "work")
    <3>1. WaiterStage("admitted") = "idle" /\ WaiterStage("select") = "wait"
      BY DEF WaiterStage, RebuildStates
    <3>2. InnerStage("idle") = "idle" /\ InnerStage("lock") = "work"
      BY DEF InnerStage
    <3> QED BY <2>1, <3>1, <3>2, WaiterMoved, InnerMoved DEF Jobs!WaiterMoves, Jobs!InnerMoves
  <2>3. Jobs!JobNext(d)
    BY <2>1, <2>2 DEF Jobs!JobNext, Jobs!Spawn
  <2> QED BY <2>3 DEF Jobs!JobsNext, HandlerNext
<1> QED BY <1>1, <1>2 DEF HandlerNext, HandlerStep

\* Of an inner goroutine the server sees that it ends, by itself or with the process.
LEMMA InnerJobs ==
  ASSUME TypeInv, NEW d \in Docs, InnerNext(d)
  PROVE  [Jobs!JobsNext]_(Jobs!jobs)
<1> USE DEF Jobs!jobs
<1>1. waiterStages' = waiterStages /\ UNCHANGED ready
  BY StagesStay DEF InnerNext, InnerStep, ReadMutex, Acquire, OpenTest, OpenCall, Configure, Clean,
     SaveAndRename, Unlock
<1>2. CASE ~ Unlock(d)
  <2>1. fate' = fate
    BY <1>2 DEF InnerNext, InnerStep, ReadMutex, Acquire, OpenTest, OpenCall, Configure, Clean, SaveAndRename
  <2>2. \E from, to \in InnerStates \ {"idle", "done"} : InnerGoes(d, from, to)
    BY <1>2 DEF InnerNext, InnerStep, ReadMutex, Acquire, OpenTest, OpenCall, Configure, Clean, SaveAndRename,
       AfterFailedOpen, InnerStates
  <2>3. innerStages' = innerStages
    BY <2>2, InnerWithin DEF InnerStage
  <2> QED BY <1>1, <2>1, <2>3
<1>3. CASE Unlock(d) /\ mu \in held
  <2>1. InnerGoes(d, "unlock", "done") /\ fate = "up" /\ fate' \in {"up", "com"}
    BY <1>3 DEF Unlock, InnerNext
  <2>2. innerStages[d] = "work" /\ innerStages' = [innerStages EXCEPT ![d] = "done"]
    BY <2>1, InnerMoved DEF InnerStage
  <2>3. Jobs!JobNext(d)
    <3>1. CASE fate' = "up"
      BY <1>1, <2>1, <2>2, <3>1 DEF Jobs!JobNext, Jobs!InnerEnd, Jobs!InnerMoves
    <3>2. CASE fate' = "com"
      BY <1>1, <2>1, <2>2, <3>2 DEF Jobs!JobNext, Jobs!Crash
    <3> QED BY <2>1, <3>1, <3>2
  <2> QED BY <2>1, <2>3 DEF Jobs!JobsNext
<1>4. CASE Unlock(d) /\ mu \notin held
  <2>1. inner[d] = "unlock" /\ inner' = inner /\ fate = "up" /\ fate' = "unlock"
    BY <1>4 DEF Unlock, InnerNext
  <2>2. innerStages[d] = "work" /\ innerStages' = innerStages
    BY <2>1, StagesStay DEF innerStages, InnerStage
  <2>3. Jobs!JobNext(d)
    BY <1>1, <2>1, <2>2 DEF Jobs!JobNext, Jobs!Crash
  <2> QED BY <2>1, <2>3 DEF Jobs!JobsNext
<1> QED BY <1>2, <1>3, <1>4

\* Of a waiter it sees the answer, the timer, the end of the rebuild, and a crash in it.
LEMMA WaiterJobs ==
  ASSUME TypeInv, NEW d \in Docs, WaiterNext(d)
  PROVE  [Jobs!JobsNext]_(Jobs!jobs)
<1> USE DEF Jobs!jobs
<1>0. fate = "up" /\ innerStages' = innerStages
  BY StagesStay DEF WaiterNext, WaiterStep, Answered, Reported, Timeout, ClearMark, QuitCall,
         ReleaseApp, KillAndClear, CreateExcel, AssignApp, StartupConfig, NewMutex, BooksTest,
         FetchBooks, StoreBooks, MarkReady, Panics
<1>1. CASE (Answered(d) /\ waiter'[d] = "done") \/ Reported(d)
  <2>1. Jobs!WaiterMoves(d, "wait", "done") /\ UNCHANGED <<ready, fate>>
    <3>1. UNCHANGED <<ready, fate>> /\ \E from \in {"select", "reportErr"} : WaiterGoes(d, from, "done")
      BY <1>1 DEF Answered, Reported, WaiterGoes, TypeInv, TypeOK
    <3>2. WaiterStage("select") = "wait" /\ WaiterStage("reportErr") = "wait" /\ WaiterStage("done") = "done"
      BY DEF WaiterStage, RebuildStates
    <3> QED BY <3>1, <3>2, WaiterMoved DEF Jobs!WaiterMoves
  <2> QED BY <1>0, <2>1 DEF Jobs!JobsNext, Jobs!JobNext, Jobs!Answer
<1>2. CASE (Answered(d) /\ waiter'[d] # "done") \/ Timeout(d)
  <2>1. UNCHANGED <<ready, fate>> /\ \E to \in {"reportErr", "report"} : WaiterGoes(d, "select", to)
    BY <1>2 DEF Answered, Timeout, WaiterGoes, TypeInv, TypeOK
  <2>2. \A to \in {"reportErr", "report"} : WaiterStage("select") = WaiterStage(to)
    <3>1. WaiterStage("select") = "wait" /\ WaiterStage("reportErr") = "wait" /\ WaiterStage("report") = "wait"
      BY DEF WaiterStage, RebuildStates
    <3> QED BY <3>1
  <2>3. waiterStages' = waiterStages
    <3>1. PICK to \in {"reportErr", "report"} : WaiterGoes(d, "select", to)
      BY <2>1
    <3>2. WaiterStage("select") = WaiterStage(to)
      BY <2>2, <3>1
    <3> QED BY <3>1, <3>2, WaiterWithin
  <2> QED BY <1>0, <2>1, <2>3
<1>3. CASE ClearMark(d)
  <2>1. Jobs!WaiterMoves(d, "wait", "rebuild") /\ ready' = FALSE /\ UNCHANGED fate
    BY <1>3, WaiterMoved DEF ClearMark, MarkCleared, Jobs!WaiterMoves, WaiterStage, RebuildStates
  <2> QED BY <1>0, <2>1 DEF Jobs!JobsNext, Jobs!JobNext, Jobs!TimeOut
<1>4. CASE MarkReady(d)
  <2>1. Jobs!WaiterMoves(d, "rebuild", "done") /\ ready' = TRUE /\ UNCHANGED fate
    BY <1>4, WaiterMoved DEF MarkReady, Jobs!WaiterMoves, WaiterStage, RebuildStates
  <2> QED BY <1>0, <2>1 DEF Jobs!JobsNext, Jobs!JobNext, Jobs!Rebuilt
<1>5. CASE \/ QuitCall(d) \/ ReleaseApp(d) \/ KillAndClear(d) \/ CreateExcel(d) \/ AssignApp(d)
           \/ StartupConfig(d) \/ NewMutex(d) \/ BooksTest(d) \/ FetchBooks(d) \/ StoreBooks(d)
  <2>1. /\ UNCHANGED ready
        /\ \/ fate' = fate /\ \E from, to \in RebuildStates : WaiterGoes(d, from, to)
           \/ fate' # "up" /\ \E from \in RebuildStates : WaiterGoes(d, from, "done")
    BY <1>0, <1>5 DEF QuitCall, ReleaseApp, KillAndClear, CreateExcel, AssignApp, StartupConfig, NewMutex,
                      BooksTest, FetchBooks, StoreBooks, Panics, RebuildStates
  <2>2. CASE fate' = fate /\ \E from, to \in RebuildStates : WaiterGoes(d, from, to)
    <3>1. waiterStages' = waiterStages
      BY <2>2, WaiterWithin DEF WaiterStage, RebuildStates
    <3> QED BY <1>0, <2>1, <2>2, <3>1
  <2>3. CASE fate' # "up" /\ \E from \in RebuildStates : WaiterGoes(d, from, "done")
    <3>1. waiterStages[d] = "rebuild" /\ waiterStages' = [waiterStages EXCEPT ![d] = "done"]
      BY <2>3, WaiterMoved DEF WaiterStage, RebuildStates
    <3> QED BY <1>0, <2>1, <2>3, <3>1 DEF Jobs!JobsNext, Jobs!JobNext, Jobs!Crash
  <2> QED BY <2>1, <2>2, <2>3
<1> QED BY <1>1, <1>2, <1>3, <1>4, <1>5 DEF WaiterNext, WaiterStep

\* The worker, its lock, its Excel and its rebuilds are to the server the jobs that it
\* counts and lets clear and set the ready mark.
THEOREM WorkerImplementsJobs == Spec => JobsRefinement
<1>1. TypeInv /\ [Next]_vars => [Jobs!JobsNext]_(Jobs!jobs)
  <2> SUFFICES ASSUME TypeInv, [Next]_vars
               PROVE  [Jobs!JobsNext]_(Jobs!jobs)
    OBVIOUS
  <2>1. CASE UNCHANGED vars
    BY <2>1, StagesStay DEF vars, docVars, Jobs!jobs
  <2> QED BY <2>1, HandlerJobs, InnerJobs, WaiterJobs DEF Next
<1> QED BY <1>1, InitJobs, TypeInvariance, PTL DEF Spec, JobsRefinement, Jobs!JobsSpec
==============================================================================
