--------------------------- MODULE DocFilesProofs ---------------------------
(***************************************************************************)
(* Theorems about DocFiles, for any documents, projects, solutions and any *)
(* number of requests: types, that every document stays at exactly one of  *)
(* its two names, that a renamed one is never touched again, and that the  *)
(* original survives unless its backup failed or it was detected twice;    *)
(* for these it does not matter what SanitizeWorkbook makes of a project.  *)
(* What its loop has visited after each turn, and from it that what was    *)
(* answered nil is clean.  Last, that CleanedFiles is implemented.         *)
(***************************************************************************)
EXTENDS DocFiles, SetInduction, FiniteSetTheorems, SequenceTheorems

\* A goroutine in one of these states has the lock.
Busy == {"open", "clean", "save", "rename", "unlock"}

\* Types of everything that is not made of components: what a goroutine has in
\* memory and what it answers are in CleanInv.
TypeInv ==
  /\ reqs \in Seq(Requests)
  /\ original \in [Paths -> Workbooks]
  /\ file = [p \in Paths |-> file[p]] /\ gfile = [p \in Paths |-> gfile[p]]
  /\ bak = [p \in Paths |-> bak[p]]
  /\ mem = [i \in Ids |-> mem[i]] /\ out = [i \in Ids |-> out[i]]
  /\ at \in 1..(Len(reqs) + 1) /\ hnd \in HandlerStates
  /\ job \in [Ids -> JobStates]
  /\ lock \in {0} \cup Ids
  /\ \A i \in Ids : (lock = i) <=> job[i] \in Busy
  /\ \A i \in Ids : i >= at => job[i] = "none"
  /\ unsaved \subseteq Ids

\* While a goroutine has a document open, the document is at its first name.
AtFirstName ==
  \A i \in Ids : job[i] \in {"clean", "save", "rename"} => file[Path(i)] # Nothing

NamesInv == TypeInv /\ OneCopy /\ AtFirstName

-----------------------------------------------------------------------------
(* Types. *)

\* At first nobody has been spawned and the lock is free.
LEMMA TypeInvInit == Init => TypeInv
<1> SUFFICES ASSUME Init PROVE TypeInv
  OBVIOUS
<1> USE DEF Init
<1>1. PICK n \in 0..MaxReqs : reqs \in [1..n -> Requests]
  OBVIOUS
<1>2. n \in Nat /\ reqs \in Seq(Requests) /\ Len(reqs) = n
  BY <1>1, DocFilesAssumption
<1>3. /\ job = [i \in Ids |-> "none"] /\ out = [i \in Ids |-> "none"]
      /\ 0 \notin Ids
  BY <1>2 DEF Ids
<1> QED
  BY <1>2, <1>3 DEF TypeInv, HandlerStates, JobStates, Busy

\* Steps of the handler keep the types.
LEMMA TypeInvHandler == TypeInv /\ HandlerStep => TypeInv'
<1> SUFFICES ASSUME TypeInv, HandlerStep PROVE TypeInv'
  OBVIOUS
<1> USE DEF TypeInv, HandlerStates, HandlerGoes, AfterFailedBackup
<1>1. /\ at \in Ids /\ Len(reqs) \in Nat /\ Req \in Requests /\ Req.path \in Paths
      /\ reqs' = reqs /\ Ids' = Ids
  <2>1. Len(reqs) \in Nat /\ at \in Ids
    BY DEF HandlerStep, Ids
  <2>2. Req \in Requests
    BY <2>1 DEF Req, Ids
  <2>3. reqs' = reqs
    BY DEF HandlerStep, OpenBackup, OpenOriginal, Copy, Spawn
  <2> QED
    BY <2>1, <2>2, <2>3 DEF Ids, Requests
<1>2. CASE OpenBackup
  BY <1>1, <1>2 DEF OpenBackup, jobVars, fileVars, Nothing
<1>3. CASE OpenOriginal
  BY <1>1, <1>3 DEF OpenOriginal, jobVars, fileVars
<1>4. CASE Copy
  BY <1>1, <1>4 DEF Copy, jobVars, fileVars
<1>5. CASE Spawn
  <2>1. at' \in 1..(Len(reqs) + 1)
    BY <1>1, <1>5 DEF Spawn, Ids
  <2>2. /\ job' \in [Ids -> JobStates]
        /\ \A i \in Ids : (lock = i) <=> job'[i] \in Busy
        /\ \A i \in Ids : i >= at + 1 => job'[i] = "none"
    <3>1. job[at] = "none" /\ job' \in {job, [job EXCEPT ![at] = "wait"]}
      BY <1>1, <1>5 DEF Spawn, Ids
    <3>2. \A i \in Ids : i >= at + 1 => i >= at /\ i # at
      BY <1>1 DEF Ids
    <3> QED
      BY <1>1, <3>1, <3>2 DEF JobStates, Busy
  <2> QED
    BY <1>1, <1>5, <2>1, <2>2 DEF Spawn, fileVars, Busy
<1> QED
  BY <1>2, <1>3, <1>4, <1>5 DEF HandlerStep

\* What a goroutine leaves alone, and how it moves.
LEMMA JobMoves ==
  ASSUME TypeInv, NEW i \in Ids, JobStep(i)
  PROVE  /\ reqs' = reqs /\ original' = original /\ Ids' = Ids
         /\ UNCHANGED handlerVars
         /\ Path(i) \in Paths /\ i # 0
         /\ \E s \in JobStates \ {"none", "wait"} : job' = [job EXCEPT ![i] = s]
         /\ \/ Lock(i) /\ lock = 0 /\ lock' = i /\ job'[i] \in Busy
            \/ Unlock(i) /\ lock = i /\ lock' = 0 /\ job'[i] \notin Busy
            \/ lock = i /\ lock' = lock /\ job'[i] \in Busy
<1> USE DEF TypeInv, JobGoes, Busy
<1>1. reqs' = reqs /\ original' = original /\ UNCHANGED handlerVars
  BY DEF JobStep, Lock, Open, Clean, Save, Rename, Unlock
<1>2. Ids' = Ids /\ i # 0 /\ Path(i) \in Paths
  <2>1. Len(reqs) \in Nat /\ i \in 1..Len(reqs)
    BY DEF Ids
  <2>2. reqs[i] \in Requests
    BY <2>1
  <2> QED
    BY <1>1, <2>1, <2>2 DEF Ids, Path, Requests
<1>3. CASE Lock(i)
  BY <1>1, <1>2, <1>3 DEF Lock, LockIsFree, JobStates
<1>4. CASE Open(i)
  BY <1>1, <1>2, <1>4 DEF Open, JobStates
<1>5. CASE Clean(i)
  BY <1>1, <1>2, <1>5 DEF Clean, JobStates
<1>6. CASE Save(i)
  BY <1>1, <1>2, <1>6 DEF Save, JobStates
<1>7. CASE Rename(i)
  BY <1>1, <1>2, <1>7 DEF Rename, JobStates
<1>8. CASE Unlock(i)
  BY <1>1, <1>2, <1>8 DEF Unlock, JobStates
<1> QED
  BY <1>3, <1>4, <1>5, <1>6, <1>7, <1>8 DEF JobStep

\* And what it may do to the two names of its document.
LEMMA JobFiles ==
  ASSUME TypeInv, NEW i \in Ids, JobStep(i)
  PROVE  \/ file' = file /\ gfile' = gfile
         \/ /\ job[i] = "save" /\ gfile' = gfile
            /\ \E c : file' = [file EXCEPT ![Path(i)] = {c}]
         \/ /\ job[i] = "rename" /\ file[Path(i)] # Nothing
            /\ gfile' = [gfile EXCEPT ![Path(i)] = file[Path(i)]]
            /\ file' = [file EXCEPT ![Path(i)] = Nothing]
<1>1. CASE Lock(i) \/ Open(i) \/ Clean(i) \/ Unlock(i)
  BY <1>1 DEF Lock, Open, Clean, Unlock, fileVars
<1>2. CASE Save(i)
  BY <1>2 DEF Save, JobGoes
<1>3. CASE Rename(i)
  BY <1>3 DEF Rename, JobGoes, fileVars
<1> QED
  BY <1>1, <1>2, <1>3 DEF JobStep

\* Steps of a document's goroutine keep the types and the one place behind the lock.
LEMMA TypeInvJob ==
  ASSUME TypeInv, NEW i \in Ids, JobStep(i)
  PROVE  TypeInv'
<1> USE DEF TypeInv
<1>1. /\ reqs' \in Seq(Requests) /\ original' \in [Paths -> Workbooks] /\ Ids' = Ids
      /\ at' \in 1..(Len(reqs') + 1) /\ hnd' \in HandlerStates
      /\ bak' = [p \in Paths |-> bak'[p]]
  BY JobMoves DEF handlerVars
<1>2. file' = [p \in Paths |-> file'[p]] /\ gfile' = [p \in Paths |-> gfile'[p]]
  BY JobFiles
<1>3. mem' = [j \in Ids |-> mem'[j]] /\ out' = [j \in Ids |-> out'[j]]
  <2>1. mem' = mem \/ \E c : mem' = [mem EXCEPT ![i] = c]
    BY DEF JobStep, Lock, Open, Clean, Save, Rename, Unlock
  <2>2. out' = out \/ \E o : out' = [out EXCEPT ![i] = o]
    BY DEF JobStep, Lock, Open, Clean, Save, Rename, Unlock
  <2> QED
    BY <2>1, <2>2
<1>4. /\ job' \in [Ids -> JobStates] /\ lock' \in {0} \cup Ids
      /\ \A j \in Ids : (lock' = j) <=> job'[j] \in Busy
      /\ \A j \in Ids : j >= at' => job'[j] = "none"
      /\ unsaved' \subseteq Ids
  <2>0. unsaved' \subseteq Ids
    BY DEF JobStep, Lock, Open, Clean, Save, Rename, Unlock, fileVars
  <2>1. PICK s \in JobStates \ {"none", "wait"} : job' = [job EXCEPT ![i] = s]
    BY JobMoves
  <2>2. at' = at /\ i # 0 /\ 0 \notin Ids /\ job[i] # "none"
    BY JobMoves DEF handlerVars, Ids, JobStep, Lock, Open, Clean, Save, Rename, Unlock, JobGoes
  <2>3. /\ lock \in {0, i} /\ lock' \in {0, i}
        /\ (lock' = i) <=> job'[i] \in Busy
    BY <2>2, JobMoves
  <2>4. \A j \in Ids \ {i} : job'[j] = job[j] /\ job[j] \notin Busy
    BY <2>1, <2>3, <2>2
  <2> QED
    BY <2>0, <2>1, <2>2, <2>3, <2>4
<1> QED
  BY <1>1, <1>2, <1>3, <1>4

\* Every step keeps the types.
LEMMA TypeInvStep == TypeInv /\ [Next]_vars => TypeInv'
<1> SUFFICES ASSUME TypeInv, [Next]_vars PROVE TypeInv'
  OBVIOUS
<1>1. CASE HandlerStep
  BY <1>1, TypeInvHandler
<1>2. CASE \E i \in Ids : JobStep(i)
  BY <1>2, TypeInvJob
<1>3. CASE Crash \/ UNCHANGED vars
  BY <1>3 DEF Crash, vars, handlerVars, jobVars, fileVars, TypeInv, Ids
<1> QED
  BY <1>1, <1>2, <1>3 DEF Next

-----------------------------------------------------------------------------
(* The two names. *)

\* At first every document is at its first name.
LEMMA NamesInvInit == Init => NamesInv
<1> SUFFICES ASSUME Init PROVE NamesInv
  OBVIOUS
<1>1. OneCopy
  BY DEF Init, OneCopy, Nothing
<1>2. \A i \in Ids : job[i] = "none"
  BY DEF Init
<1> QED
  BY <1>1, <1>2, TypeInvInit DEF NamesInv, AtFirstName

\* Nobody but the goroutine that has the lock touches the two names: what it
\* writes there was at the first of them.
LEMMA NamesInvJob ==
  ASSUME NamesInv, NEW i \in Ids, JobStep(i)
  PROVE  NamesInv'
<1> USE DEF NamesInv
<1>1. Path(i) \in Paths /\ Ids' = Ids /\ reqs' = reqs /\ TypeInv'
  BY JobMoves, TypeInvJob
<1>2. \A j \in Ids \ {i} : job'[j] \notin {"clean", "save", "rename"}
  <2>1. lock \in {0, i} /\ (\A j \in Ids \ {i} : job'[j] = job[j]) /\ i # 0 /\ 0 \notin Ids
    BY JobMoves DEF Ids, TypeInv
  <2>2. \A j \in Ids \ {i} : job[j] \notin Busy
    BY <2>1 DEF TypeInv
  <2> QED
    BY <2>1, <2>2 DEF Busy
<1>3. \A j \in Ids : Path(j)' = Path(j)
  BY <1>1 DEF Path
<1>4. job[i] \in {"save", "rename"} => file[Path(i)] # Nothing /\ gfile[Path(i)] = Nothing
  BY <1>1 DEF AtFirstName, OneCopy
<1>5. OneCopy'
  <2>0. DOMAIN file = Paths /\ DOMAIN gfile = Paths
    BY DEF TypeInv
  <2>1. ASSUME NEW p \in Paths, p # Path(i) PROVE file'[p] = file[p] /\ gfile'[p] = gfile[p]
    <3>1. \/ file' = file
          \/ \E c : file' = [file EXCEPT ![Path(i)] = c]
      BY JobFiles
    <3>2. \/ gfile' = gfile
          \/ \E c : gfile' = [gfile EXCEPT ![Path(i)] = c]
      BY JobFiles
    <3> QED
      BY <2>0, <2>1, <3>1, <3>2
  <2>2. \/ file' = file /\ gfile' = gfile
        \/ file'[Path(i)] # Nothing /\ gfile'[Path(i)] = Nothing
        \/ file'[Path(i)] = Nothing /\ gfile'[Path(i)] # Nothing
    <3>1. \A c : {c} # Nothing
      BY DEF Nothing
    <3> QED
      BY <1>1, <1>4, <2>0, <3>1, JobFiles
  <2> QED
    BY <1>1, <2>1, <2>2 DEF OneCopy
<1>6. job'[i] \in {"clean", "save", "rename"} => file'[Path(i)] # Nothing
  <2>1. CASE Open(i)
    BY <2>1 DEF Open, JobGoes, fileVars, TypeInv, Nothing
  <2>2. CASE Clean(i)
    BY <2>2 DEF Clean, JobGoes, fileVars, AtFirstName
  <2>3. CASE Save(i)
    <3>1. file' = file \/ file' = [file EXCEPT ![Path(i)] = {mem[i]}]
      BY <2>3 DEF Save
    <3>2. DOMAIN file = Paths /\ {mem[i]} # Nothing
      BY DEF TypeInv, Nothing
    <3>3. file[Path(i)] # Nothing
      BY <1>4, <2>3 DEF Save, JobGoes
    <3> QED
      BY <1>1, <3>1, <3>2, <3>3
  <2>4. CASE Lock(i) \/ Rename(i) \/ Unlock(i)
    BY <2>4 DEF Lock, Rename, Unlock, JobGoes, TypeInv
  <2> QED
    BY <2>1, <2>2, <2>3, <2>4 DEF JobStep
<1>7. AtFirstName'
  BY <1>1, <1>2, <1>3, <1>6 DEF AtFirstName
<1> QED
  BY <1>1, <1>5, <1>7

\* Every other step leaves both names alone, and the goroutines where they are
\* or waiting.
LEMMA OthersLeaveFiles ==
  ASSUME TypeInv, HandlerStep \/ Crash \/ UNCHANGED vars
  PROVE  /\ file' = file /\ gfile' = gfile /\ reqs' = reqs /\ Ids' = Ids
         /\ \A i \in Ids : job'[i] = job[i] \/ job'[i] = "wait"
<1>1. CASE HandlerStep
  BY <1>1 DEF HandlerStep, OpenBackup, OpenOriginal, Copy, Spawn, jobVars, fileVars, Ids, TypeInv
<1>2. CASE Crash \/ UNCHANGED vars
  BY <1>2 DEF Crash, vars, jobVars, fileVars, Ids
<1> QED
  BY <1>1, <1>2

\* Every step keeps a document at one name.
LEMMA NamesInvStep == NamesInv /\ [Next]_vars => NamesInv'
<1> SUFFICES ASSUME NamesInv, [Next]_vars PROVE NamesInv'
  OBVIOUS
<1> USE DEF NamesInv
<1>1. CASE \E i \in Ids : JobStep(i)
  BY <1>1, NamesInvJob
<1>2. CASE HandlerStep \/ Crash \/ UNCHANGED vars
  <2>1. \A i \in Ids : Path(i)' = Path(i)
    BY <1>2, OthersLeaveFiles DEF Path
  <2> QED
    BY <1>2, <2>1, OthersLeaveFiles, TypeInvStep DEF OneCopy, AtFirstName
<1> QED
  BY <1>1, <1>2 DEF Next

-----------------------------------------------------------------------------
(* The original. *)

\* The paths OriginalSurvives is about: their backup has not failed, and no two
\* requests name them.
Trusted(p) ==
  p \notin faulty /\ \A i, j \in Ids : Path(i) = p /\ Path(j) = p => i = j

\* Their document is what it was until their goroutine runs, and their backup is
\* complete before it does.
SurvivalInv ==
  \A p \in Paths : Trusted(p) =>
    /\ (\A i \in Ids : Path(i) = p => job[i] = "none") => file[p] = {original[p]}
    /\ \A i \in Ids : Path(i) = p =>
         /\ i = at /\ hnd = "copy" => src = {original[p]}
         /\ i < at \/ (i = at /\ hnd = "spawn") => bak[p] = {original[p]}

\* At first every document is what it was.
LEMMA SurvivalInvInit == Init => SurvivalInv
<1> SUFFICES ASSUME Init PROVE SurvivalInv
  OBVIOUS
<1>1. \A p \in Paths : file[p] = {original[p]}
  BY DEF Init
<1>2. at = 1 /\ hnd = "next"
  BY DEF Init
<1>3. \A i \in Ids : i \in Nat /\ ~(i < 1)
  BY TypeInvInit DEF Ids, TypeInv
<1> QED
  BY <1>1, <1>2, <1>3 DEF SurvivalInv

\* Steps of the handler keep the original in the document or in its backup.
LEMMA SurvivalInvHandler ==
  ASSUME TypeInv, SurvivalInv, HandlerStep
  PROVE  SurvivalInv'
<1>0. reqs' = reqs /\ original' = original
  BY DEF HandlerStep, OpenBackup, OpenOriginal, Copy, Spawn
<1> SUFFICES ASSUME NEW p \in Paths, Trusted(p)'
             PROVE  /\ (\A i \in Ids : Path(i) = p => job'[i] = "none") => file'[p] = {original[p]}
                    /\ \A i \in Ids : Path(i) = p =>
                         /\ i = at' /\ hnd' = "copy" => src' = {original[p]}
                         /\ i < at' \/ (i = at' /\ hnd' = "spawn") => bak'[p] = {original[p]}
  BY <1>0 DEF SurvivalInv, Path, Ids
<1>1. /\ reqs' = reqs /\ original' = original /\ file' = file
      /\ Len(reqs) \in Nat /\ at \in Ids /\ Ids \subseteq Nat
      /\ Req.path = Path(at)
  BY <1>0 DEF HandlerStep, OpenBackup, OpenOriginal, Copy, Spawn, fileVars, TypeInv, Ids, Req, Path
<1>2. faulty \subseteq faulty'
  BY DEF HandlerStep, OpenBackup, OpenOriginal, Copy, Spawn
<1>3. Trusted(p)
  BY <1>1, <1>2 DEF Trusted, Path, Ids
<1>4. /\ (\A i \in Ids : Path(i) = p => job[i] = "none") => file[p] = {original[p]}
      /\ \A i \in Ids : Path(i) = p =>
           /\ i = at /\ hnd = "copy" => src = {original[p]}
           /\ i < at \/ (i = at /\ hnd = "spawn") => bak[p] = {original[p]}
  BY <1>3 DEF SurvivalInv
<1>5. \A i \in Ids : Path(i) = p /\ Path(at) = p => i = at
  BY <1>1, <1>3 DEF Trusted
<1>6. job[at] = "none" /\ DOMAIN bak = Paths
  BY <1>1 DEF TypeInv
<1>7. CASE OpenBackup
  <2>1. job' = job /\ at' = at /\ src' = src /\ hnd' # "copy"
    BY <1>7 DEF OpenBackup, jobVars, HandlerGoes, AfterFailedBackup
  <2>2. CASE Path(at) = p
    <3>1. hnd' = "open"
      BY <1>1, <1>7, <2>2 DEF OpenBackup, HandlerGoes, Trusted
    <3> QED
      BY <1>1, <1>4, <1>5, <2>1, <2>2, <3>1
  <2>3. CASE Path(at) # p
    <3>1. bak'[p] = bak[p]
      BY <1>1, <1>6, <1>7, <2>3 DEF OpenBackup
    <3> QED
      BY <1>1, <1>4, <2>1, <2>3, <3>1
  <2> QED
    BY <2>2, <2>3
<1>8. CASE OpenOriginal
  <2>1. job' = job /\ at' = at /\ bak' = bak
    BY <1>8 DEF OpenOriginal, jobVars
  <2>2. CASE Path(at) = p
    <3>1. hnd' = "copy" /\ src' = file[p]
      BY <1>1, <1>8, <2>2 DEF OpenOriginal, HandlerGoes, Trusted
    <3>2. file[p] = {original[p]}
      BY <1>4, <1>5, <1>6, <2>2
    <3> QED
      BY <1>1, <1>4, <1>5, <2>1, <2>2, <3>1, <3>2
  <2>3. CASE Path(at) # p
    BY <1>1, <1>4, <2>1, <2>3
  <2> QED
    BY <2>2, <2>3
<1>9. CASE Copy
  <2>1. job' = job /\ at' = at /\ hnd = "copy" /\ hnd' = "spawn"
    BY <1>9 DEF Copy, jobVars, HandlerGoes
  <2>2. CASE Path(at) = p
    <3>1. bak' = [bak EXCEPT ![p] = src]
      BY <1>1, <1>9, <2>2 DEF Copy, Trusted
    <3>2. bak'[p] = {original[p]}
      BY <1>1, <1>4, <1>6, <2>1, <2>2, <3>1
    <3> QED
      BY <1>1, <1>4, <2>1, <3>2
  <2>3. CASE Path(at) # p
    <3>1. bak'[p] = bak[p]
      BY <1>1, <1>6, <1>9, <2>3 DEF Copy
    <3> QED
      BY <1>1, <1>4, <2>1, <2>3, <3>1
  <2> QED
    BY <2>2, <2>3
<1>10. CASE Spawn
  <2>1. hnd = "spawn" /\ hnd' = "next" /\ at' = at + 1 /\ bak' = bak
    BY <1>10 DEF Spawn, Spawns
  <2>2. \A i \in Ids : job'[i] = "none" => job[i] = "none"
    BY <1>10 DEF Spawn, TypeInv
  <2>3. \A i \in Ids : i < at + 1 => i < at \/ i = at
    BY <1>1
  <2> QED
    BY <1>1, <1>4, <2>1, <2>2, <2>3
<1> QED
  BY <1>7, <1>8, <1>9, <1>10 DEF HandlerStep

\* Steps of the goroutines change only what has been backed up.
LEMMA SurvivalInvJob ==
  ASSUME TypeInv, SurvivalInv, NEW i \in Ids, JobStep(i)
  PROVE  SurvivalInv'
<1>1. /\ reqs' = reqs /\ original' = original /\ Ids' = Ids /\ UNCHANGED handlerVars
      /\ Path(i) \in Paths /\ job'[i] # "none"
      /\ \A j \in Ids : job'[j] = "none" => job[j] = "none"
  BY JobMoves DEF TypeInv
<1>2. \A p \in Paths : p # Path(i) => file'[p] = file[p]
  <2>1. file' = file \/ \E c : file' = [file EXCEPT ![Path(i)] = c]
    BY JobFiles
  <2>2. DOMAIN file = Paths
    BY DEF TypeInv
  <2> QED
    BY <2>1, <2>2
<1>3. \A p \in Paths : Trusted(p)' => Trusted(p)
  BY <1>1 DEF Trusted, Path, handlerVars
<1> QED
  BY <1>1, <1>2, <1>3 DEF SurvivalInv, Path, handlerVars

\* Every step keeps the original in the document or in its backup.
LEMMA SurvivalInvStep == TypeInv /\ SurvivalInv /\ [Next]_vars => SurvivalInv'
<1> SUFFICES ASSUME TypeInv, SurvivalInv, [Next]_vars PROVE SurvivalInv'
  OBVIOUS
<1>1. CASE HandlerStep
  BY <1>1, SurvivalInvHandler
<1>2. CASE \E i \in Ids : JobStep(i)
  BY <1>2, SurvivalInvJob
<1>3. CASE Crash \/ UNCHANGED vars
  BY <1>3 DEF Crash, vars, handlerVars, jobVars, fileVars, SurvivalInv, Trusted, Path, Ids
<1> QED
  BY <1>1, <1>2, <1>3 DEF Next

\* No two requests name a path that is detected once at most.
LEMMA OneDetection ==
  ASSUME TypeInv, NEW p, Cardinality(Detections(p)) <= 1
  PROVE  \A i, j \in Ids : Path(i) = p /\ Path(j) = p => i = j
<1> SUFFICES ASSUME NEW i \in Ids, NEW j \in Ids, Path(i) = p, Path(j) = p, i # j
             PROVE  FALSE
  OBVIOUS
<1>1. IsFiniteSet(Ids)
  <2>1. 1 \in Int /\ Len(reqs) \in Int
    BY DEF TypeInv
  <2> QED
    BY <2>1, FS_Interval DEF Ids
<1>2. IsFiniteSet(Detections(p)) /\ {i, j} \subseteq Detections(p)
  BY <1>1, FS_Subset DEF Detections
<1>3. Cardinality({i, j}) = 2
  <2>1. IsFiniteSet({i}) /\ Cardinality({i}) = 1
    BY FS_Singleton
  <2>2. {i, j} = {i} \cup {j} /\ j \notin {i}
    OBVIOUS
  <2> QED
    BY <2>1, <2>2, FS_AddElement, SMTT(30)
<1>4. Cardinality({i, j}) <= Cardinality(Detections(p)) /\ Cardinality(Detections(p)) \in Nat
  BY <1>2, FS_Subset, FS_CardinalityType
<1> QED
  BY <1>3, <1>4

-----------------------------------------------------------------------------
(* SanitizeWorkbook. *)

Modules == [name : STRING, bad : BOOLEAN]
Projects == Seq(Modules)
Results == [c : Projects, out : {"ok", "err", "panic"}]

\* What carries the virus in d carried it, in a module of that name, in c.
NoWorse(c, d) ==
  \A k \in 1..Len(d) : d[k].bad => \E m \in 1..Len(c) : c[m].bad /\ c[m].name = d[k].name

\* What i turns of the loop over c have made of it when none has failed.  A module
\* is removed in the last turn or not at all: after an earlier removal there is a
\* turn that finds no module left to visit.
Visited(s, c, st, i) ==
  /\ st \in Results
  /\ st.out = "ok" /\ s.op = "remediate" =>
       Len(st.c) = Len(c) /\ \A k \in 1..i : st.c[k].name = s.dest => ~st.c[k].bad
  /\ st.out = "ok" /\ s.op # "remediate" =>
       \/ i < Len(c) /\ Len(st.c) < Len(c)
       \/ i = Len(c) /\ \A k \in 1..Len(st.c) : st.c[k].name # s.dest
       \/ st.c = c /\ \A k \in 1..i : c[k].name # s.dest

\* A project without one of its modules.
LEMMA WithoutOne ==
  ASSUME NEW c \in Projects, NEW i \in 1..Len(c)
  PROVE  /\ Without(c, i) \in Projects /\ Len(Without(c, i)) = Len(c) - 1
         /\ \A k \in 1..(i - 1) : Without(c, i)[k] = c[k]
         /\ \A k \in 1..(Len(c) - 1) : \E m \in 1..Len(c) : Without(c, i)[k] = c[m]
<1> DEFINE a == SubSeq(c, 1, i - 1)
           b == SubSeq(c, i + 1, Len(c))
<1>1. c \in Seq(Modules) /\ Len(c) \in Nat /\ i \in Nat /\ i - 1 \in Nat
      /\ i - 1 <= Len(c) /\ i <= Len(c)
  BY DEF Projects
<1>2. a \in Projects /\ Len(a) = i - 1 /\ \A k \in 1..(i - 1) : a[k] = c[k]
  <2>1. \A k \in 1..(i - 1) : c[k] \in Modules
    <3>1. \A k \in 1..(i - 1) : k \in 1..Len(c)
      BY <1>1
    <3> QED
      BY <1>1, <3>1, ElementOfSeq
  <2>2. a = [k \in 1..(i - 1) |-> c[k]]
    BY <1>1
  <2> QED
    BY <1>1, <2>1, <2>2 DEF Projects
<1>3. b \in Projects /\ Len(b) = Len(c) - i /\ \A k \in 1..(Len(c) - i) : k + i \in 1..Len(c) /\ b[k] = c[k + i]
  <2>1. \A k \in 1..(Len(c) - i) : c[k + i] \in Modules
    <3>1. \A k \in 1..(Len(c) - i) : k + i \in 1..Len(c)
      BY <1>1
    <3> QED
      BY <1>1, <3>1, ElementOfSeq
  <2>2. b = [k \in 1..(Len(c) - i) |-> c[k + i]]
    BY <1>1
  <2>3. Len(c) - i \in Nat
    BY <1>1
  <2> QED
    BY <2>1, <2>2, <2>3 DEF Projects
<1>4. Without(c, i) = a \o b
  BY DEF Without
<1> HIDE DEF a, b
<1>5. a \o b \in Projects /\ Len(a \o b) = (i - 1) + (Len(c) - i) /\ \A k \in 1..(i - 1) : (a \o b)[k] = a[k]
  <2>1. a \in Seq(Modules) /\ b \in Seq(Modules)
    BY <1>2, <1>3 DEF Projects
  <2>2. /\ a \o b \in Seq(Modules) /\ Len(a \o b) = Len(a) + Len(b)
        /\ \A k \in 1..Len(a) : k \in 1..(Len(a) + Len(b)) /\ k <= Len(a) /\ (a \o b)[k] = a[k]
    BY <2>1
  <2> QED
    BY <1>2, <1>3, <2>2 DEF Projects
<1>6. (i - 1) + (Len(c) - i) = Len(c) - 1
  BY <1>1
<1>7. ASSUME NEW k \in 1..(Len(c) - 1)
      PROVE  \E m \in 1..Len(c) : (a \o b)[k] = c[m]
  <2>1. CASE k <= i - 1
    BY <1>1, <1>2, <1>5, <2>1
  <2>2. CASE k > i - 1
    <3>1. /\ k \in 1..(Len(a) + Len(b)) /\ ~(k <= Len(a)) /\ k - (i - 1) \in 1..(Len(c) - i)
          /\ k - Len(a) = k - (i - 1)
      BY <1>1, <1>2, <1>3, <2>2
    <3>2. (a \o b)[k] = b[k - (i - 1)]
      <4>1. a \in Seq(Modules) /\ b \in Seq(Modules)
        BY <1>2, <1>3 DEF Projects
      <4>2. (a \o b)[k] = b[k - Len(a)]
        BY <3>1, <4>1
      <4> QED
        BY <3>1, <4>2
    <3> QED
      BY <1>3, <3>1, <3>2
  <2>3. k <= i - 1 \/ k > i - 1
    BY <1>1
  <2> QED
    BY <2>1, <2>2, <2>3
<1> QED
  BY <1>2, <1>4, <1>5, <1>6, <1>7

\* One turn more.
LEMMA OneTurn ==
  ASSUME NEW s, NEW c \in Projects, NEW st, NEW i \in Nat, i + 1 \in 1..Len(c), Visited(s, c, st, i)
  PROVE  Visited(s, c, Visit(s, st, i + 1), i + 1)
<1> DEFINE v == Visit(s, st, i + 1)
<1>1. /\ st \in Results /\ st.c \in Projects /\ Len(st.c) \in Nat /\ Len(c) \in Nat
      /\ 1..(i + 1) = (1..i) \cup {i + 1} /\ (i + 1) - 1 = i
  BY DEF Visited, Results, Projects
<1>2. CASE st.out # "ok"
  BY <1>1, <1>2 DEF Visited, Visit
<1>3. CASE st.out = "ok" /\ i + 1 > Len(st.c)
  <2>1. v = [st EXCEPT !.out = "panic"]
    BY <1>3 DEF Visit
  <2>2. v \in Results /\ v.out = "panic"
    BY <1>1, <2>1 DEF Results
  <2> QED
    BY <2>2 DEF Visited
<1>4. CASE st.out = "ok" /\ i + 1 <= Len(st.c) /\ st.c[i + 1].name # s.dest
  <2>1. v = st
    BY <1>1, <1>4 DEF Visit
  <2>2. CASE s.op = "remediate"
    BY <1>1, <1>4, <2>1, <2>2 DEF Visited
  <2>3. CASE s.op # "remediate"
    <3>1. CASE i < Len(c) /\ Len(st.c) < Len(c)
      BY <1>1, <1>4, <2>1, <2>3, <3>1 DEF Visited
    <3>2. CASE st.c = c /\ \A k \in 1..i : c[k].name # s.dest
      BY <1>1, <1>4, <2>1, <2>3, <3>2 DEF Visited
    <3> QED
      BY <1>1, <1>4, <2>3, <3>1, <3>2 DEF Visited
  <2> QED
    BY <2>2, <2>3
<1>5. CASE st.out = "ok" /\ i + 1 <= Len(st.c) /\ st.c[i + 1].name = s.dest
  <2>1. i + 1 \in 1..Len(st.c)
    BY <1>1, <1>5
  <2>2. CASE s.op = "remediate"
    <3>1. v = [st EXCEPT !.c = Blanked(st.c, i + 1)]
      BY <1>1, <1>5, <2>2 DEF Visit
    <3>2. st.c[i + 1] \in Modules
      BY <1>1, <2>1, ElementOfSeq DEF Projects
    <3>3. /\ Blanked(st.c, i + 1) \in Projects /\ Len(Blanked(st.c, i + 1)) = Len(st.c)
          /\ Blanked(st.c, i + 1)[i + 1].bad = FALSE
          /\ \A k \in 1..i : Blanked(st.c, i + 1)[k] = st.c[k]
      <4>1. [st.c[i + 1] EXCEPT !.bad = FALSE] \in Modules
            /\ [st.c[i + 1] EXCEPT !.bad = FALSE].bad = FALSE
        BY <3>2 DEF Modules
      <4>2. Blanked(st.c, i + 1) = [st.c EXCEPT ![i + 1] = [st.c[i + 1] EXCEPT !.bad = FALSE]]
        BY DEF Blanked
      <4>3. st.c \in Seq(Modules) /\ DOMAIN st.c = 1..Len(st.c)
        BY <1>1, LenProperties DEF Projects
      <4> HIDE DEF v
      <4>4. Blanked(st.c, i + 1) \in Seq(Modules) /\ Len(Blanked(st.c, i + 1)) = Len(st.c)
        <5>1. \A x \in Modules : [st.c EXCEPT ![i + 1] = x] \in Seq(Modules) /\ Len([st.c EXCEPT ![i + 1] = x]) = Len(st.c)
          BY <2>1, <4>3, ExceptSeq
        <5>2. PICK x \in Modules : x = [st.c[i + 1] EXCEPT !.bad = FALSE]
          BY <4>1
        <5>3. Blanked(st.c, i + 1) = [st.c EXCEPT ![i + 1] = x]
          BY <4>2, <5>2
        <5> QED
          BY <5>1, <5>3
      <4>5. \A k \in 1..i : k \in 1..Len(st.c) /\ k # i + 1
        BY <1>1, <2>1
      <4> QED
        BY <2>1, <4>1, <4>2, <4>3, <4>4, <4>5 DEF Projects
    <3>4. v \in Results /\ v.c = Blanked(st.c, i + 1) /\ v.out = "ok"
      BY <1>1, <1>5, <3>1, <3>3 DEF Results
    <3> QED
      BY <1>1, <1>5, <2>2, <3>3, <3>4 DEF Visited
  <2>3. CASE s.op = "rm_module"
    <3>1. v = [st EXCEPT !.c = Without(st.c, i + 1)]
      BY <1>1, <1>5, <2>3 DEF Visit
    <3>2. /\ Without(st.c, i + 1) \in Projects /\ Len(Without(st.c, i + 1)) = Len(st.c) - 1
          /\ \A k \in 1..i : Without(st.c, i + 1)[k] = st.c[k]
      BY <1>1, <2>1, WithoutOne
    <3>3. v \in Results /\ v.c = Without(st.c, i + 1) /\ v.out = "ok"
      BY <1>1, <1>5, <3>1, <3>2 DEF Results
    <3>4. CASE Len(st.c) < Len(c)
      BY <1>1, <1>5, <2>3, <3>2, <3>3, <3>4 DEF Visited
    <3>5. CASE st.c = c /\ (\A k \in 1..i : c[k].name # s.dest) /\ i + 1 < Len(c)
      BY <1>1, <1>5, <2>3, <3>2, <3>3, <3>5 DEF Visited
    <3>6. CASE st.c = c /\ (\A k \in 1..i : c[k].name # s.dest) /\ i + 1 = Len(c)
      <4>1. 1..Len(v.c) = 1..i
        BY <1>1, <3>2, <3>3, <3>6
      <4>2. \A k \in 1..Len(v.c) : v.c[k].name # s.dest
        BY <3>2, <3>3, <3>6, <4>1
      <4> QED
        BY <2>3, <3>3, <3>6, <4>2 DEF Visited
    <3> QED
      BY <1>1, <1>5, <2>3, <3>4, <3>5, <3>6 DEF Visited
  <2>4. CASE s.op \notin Known
    <3>1. v = [st EXCEPT !.out = "err"]
      BY <1>1, <1>5, <2>4 DEF Visit, Known
    <3>2. v \in Results /\ v.out = "err"
      BY <1>1, <3>1 DEF Results
    <3> QED
      BY <3>2 DEF Visited
  <2> QED
    BY <2>2, <2>3, <2>4 DEF Known
<1> QED
  BY <1>1, <1>2, <1>3, <1>4, <1>5

\* Nor does a turn bring the virus where it was not.
LEMMA TurnIsNoWorse ==
  ASSUME NEW s, NEW c, NEW st \in Results, NEW i \in Nat \ {0}, NoWorse(c, st.c)
  PROVE  NoWorse(c, Visit(s, st, i).c)
<1>1. st.c \in Projects /\ Len(st.c) \in Nat /\ DOMAIN st.c = 1..Len(st.c)
  BY LenProperties DEF Results, Projects
<1>2. CASE st.out = "ok" /\ i <= Len(st.c) /\ st.c[i].name = s.dest /\ s.op \in Known
  <2>1. i \in 1..Len(st.c)
    BY <1>1, <1>2
  <2>2. ASSUME NEW d, NEW n \in Nat, Len(d) = n,
               \A k \in 1..n : d[k].bad => \E m \in 1..Len(st.c) : st.c[m].bad /\ st.c[m].name = d[k].name
        PROVE  NoWorse(c, d)
    BY <2>2 DEF NoWorse
  <2>3. CASE s.op = "remediate"
    <3>1. Visit(s, st, i).c = Blanked(st.c, i)
      BY <1>2, <2>3 DEF Visit, Results
    <3>2. st.c[i] \in Modules
      BY <1>1, <2>1, ElementOfSeq DEF Projects
    <3>3. [st.c[i] EXCEPT !.bad = FALSE].bad = FALSE
      BY <3>2 DEF Modules
    <3>4. Blanked(st.c, i) = [st.c EXCEPT ![i] = [st.c[i] EXCEPT !.bad = FALSE]]
      BY DEF Blanked
    <3>5. Len(Blanked(st.c, i)) = Len(st.c)
      <4>1. [st.c[i] EXCEPT !.bad = FALSE] \in Modules
        BY <3>2 DEF Modules
      <4>2. \A x \in Modules : Len([st.c EXCEPT ![i] = x]) = Len(st.c)
        BY <1>1, <2>1, ExceptSeq DEF Projects
      <4> QED
        BY <3>4, <4>1, <4>2
    <3>6. \A k \in 1..Len(st.c) : Blanked(st.c, i)[k].bad => Blanked(st.c, i)[k] = st.c[k]
      BY <1>1, <2>1, <3>3, <3>4
    <3> HIDE DEF Blanked
    <3>7. ASSUME NEW k \in 1..Len(st.c), Blanked(st.c, i)[k].bad
          PROVE  \E m \in 1..Len(st.c) : st.c[m].bad /\ st.c[m].name = Blanked(st.c, i)[k].name
      BY <3>6, <3>7
    <3> QED
      BY <1>1, <2>2, <3>1, <3>5, <3>7
  <2>4. CASE s.op = "rm_module"
    <3>1. Visit(s, st, i).c = Without(st.c, i)
      BY <1>2, <2>4 DEF Visit, Results
    <3>2. /\ Len(Without(st.c, i)) = Len(st.c) - 1 /\ Len(st.c) - 1 \in Nat
          /\ \A k \in 1..(Len(st.c) - 1) : \E m \in 1..Len(st.c) : Without(st.c, i)[k] = st.c[m]
      <4>1. \A d \in Projects : \A j \in 1..Len(d) :
              /\ Len(Without(d, j)) = Len(d) - 1
              /\ \A k \in 1..(Len(d) - 1) : \E m \in 1..Len(d) : Without(d, j)[k] = d[m]
        BY WithoutOne
      <4>2. Len(st.c) - 1 \in Nat
        BY <1>1, <2>1
      <4> QED
        BY <1>1, <2>1, <4>1, <4>2
    <3> QED
      BY <2>2, <3>1, <3>2
  <2> QED
    BY <1>2, <2>3, <2>4 DEF Known
<1>3. CASE ~(st.out = "ok" /\ i <= Len(st.c) /\ st.c[i].name = s.dest /\ s.op \in Known)
  <2>1. Visit(s, st, i).c = st.c
    BY <1>1, <1>3 DEF Visit, Known, Results
  <2> QED
    BY <2>1
<1> QED
  BY <1>2, <1>3

\* The turns are a recursive function, which has the values its definition says.
TurnsOf(s, c, g, m) == [i \in 0..m |-> IF i = 0 THEN [c |-> c, out |-> "ok"] ELSE Visit(s, g[i - 1], i)]

\* The loop of SanitizeWorkbook is a recursive function, and there is a function with
\* the values its definition asks for.
LEMMA TurnsRecursion ==
  ASSUME NEW s, NEW c, NEW m \in Nat
  PROVE  \E g : g = TurnsOf(s, c, g, m)
<1> DEFINE first == [c |-> c, out |-> "ok"]
           Defined == {n \in Nat : \E g : g = [i \in 0..n |-> IF i = 0 THEN first ELSE Visit(s, g[i - 1], i)]}
<1> HIDE DEF first
<1>1. 0 \in Defined
  <2> DEFINE k == [i \in 0..0 |-> first]
  <2>1. k = [i \in 0..0 |-> IF i = 0 THEN first ELSE Visit(s, k[i - 1], i)]
    OBVIOUS
  <2> HIDE DEF k
  <2>2. \E g : g = [i \in 0..0 |-> IF i = 0 THEN first ELSE Visit(s, g[i - 1], i)]
    BY <2>1, Zenon
  <2> QED
    BY <2>2
<1>2. ASSUME NEW n \in Nat, n \in Defined
      PROVE  n + 1 \in Defined
  <2>1. PICK g : g = [i \in 0..n |-> IF i = 0 THEN first ELSE Visit(s, g[i - 1], i)]
    BY <1>2
  <2> DEFINE k == [i \in 0..(n + 1) |-> IF i <= n THEN g[i] ELSE Visit(s, g[i - 1], i)]
  <2>2. ASSUME NEW i \in 0..(n + 1)
        PROVE  k[i] = IF i = 0 THEN first ELSE Visit(s, k[i - 1], i)
    <3>1. CASE i = 0
      BY <2>1, <3>1
    <3>2. CASE i # 0
      <4>1. i - 1 \in 0..n /\ k[i - 1] = g[i - 1]
        BY <3>2
      <4>2. CASE i <= n
        <5>1. i \in 0..n
          BY <4>2
        <5>2. k[i] = g[i] /\ g[i] = Visit(s, g[i - 1], i)
          BY <2>1, <3>2, <4>2, <5>1
        <5> QED
          BY <3>2, <4>1, <5>2
      <4>3. CASE ~ (i <= n)
        BY <3>2, <4>1, <4>3
      <4> QED
        BY <4>2, <4>3
    <3> QED
      BY <3>1, <3>2
  <2>3. k = [i \in 0..(n + 1) |-> IF i = 0 THEN first ELSE Visit(s, k[i - 1], i)]
    BY <2>2
  <2> HIDE DEF k
  <2>4. \E h : h = [i \in 0..(n + 1) |-> IF i = 0 THEN first ELSE Visit(s, h[i - 1], i)]
    BY <2>3, Zenon
  <2>5. n + 1 \in Nat
    OBVIOUS
  <2> QED
    BY <2>4, <2>5, Zenon
<1> HIDE DEF Defined
<1>3. Nat \subseteq Defined
  BY <1>1, <1>2, InductiveSet
<1> QED
  BY <1>3 DEF Defined, first, TurnsOf

\* What the loop returns, after any number of turns and after all of them.
LEMMA AfterTurnsVisited ==
  ASSUME NEW s, NEW c \in Projects, NEW n \in 0..Len(c)
  PROVE  Visited(s, c, AfterTurns(s, c, n), n) /\ NoWorse(c, AfterTurns(s, c, n).c)
<1> DEFINE after == CHOOSE g : g = TurnsOf(s, c, g, n)
<1>1. AfterTurns(s, c, n) = after[n]
  BY DEF AfterTurns, TurnsOf
<1>2. n \in Nat /\ n <= Len(c) /\ Len(c) \in Nat
  BY DEF Projects
<1>3. after = [i \in 0..n |-> IF i = 0 THEN [c |-> c, out |-> "ok"] ELSE Visit(s, after[i - 1], i)]
  <2>1. \E g : g = TurnsOf(s, c, g, n)
    <3>1. n \in Nat
      BY <1>2
    <3> QED
      BY <3>1, TurnsRecursion
  <2>2. after = TurnsOf(s, c, after, n)
    BY <2>1, Zenon
  <2> HIDE DEF after
  <2> QED
    BY <2>2 DEF TurnsOf
<1> HIDE DEF after
<1> DEFINE Good == {k \in Nat : k <= n => Visited(s, c, after[k], k) /\ NoWorse(c, after[k].c)}
<1>4. 0 \in Good
  <2>1. after[0] = [c |-> c, out |-> "ok"]
    BY <1>2, <1>3
  <2>2. after[0] \in Results /\ after[0].c = c /\ after[0].out = "ok" /\ 1..0 = {}
    BY <2>1 DEF Results
  <2>3. Visited(s, c, after[0], 0) /\ NoWorse(c, after[0].c)
    BY <2>2 DEF Visited, NoWorse
  <2> QED
    BY <2>3
<1>5. ASSUME NEW k \in Nat, k \in Good
      PROVE  k + 1 \in Good
  <2>1. CASE ~(k + 1 <= n)
    BY <2>1
  <2>2. CASE k + 1 <= n
    <3>1. k <= n /\ k + 1 \in 0..n /\ k + 1 # 0 /\ (k + 1) - 1 = k /\ k + 1 \in 1..Len(c)
      BY <1>2, <2>2
    <3>2. after[k + 1] = Visit(s, after[k], k + 1)
      BY <1>3, <3>1
    <3>3. Visited(s, c, after[k], k) /\ NoWorse(c, after[k].c)
      BY <1>5, <3>1
    <3>4. Visited(s, c, after[k + 1], k + 1)
      BY <3>1, <3>2, <3>3, OneTurn
    <3>5. NoWorse(c, after[k + 1].c)
      <4>1. after[k] \in Results /\ k + 1 \in Nat \ {0}
        BY <3>3 DEF Visited
      <4> QED
        BY <3>2, <3>3, <4>1, TurnIsNoWorse
    <3> QED
      BY <3>4, <3>5
  <2> QED
    BY <2>1, <2>2
<1> HIDE DEF Good
<1>6. Nat \subseteq Good
  BY <1>4, <1>5, InductiveSet
<1> QED
  BY <1>1, <1>2, <1>6 DEF Good

\* Whatever SanitizeWorkbook returns is a project and an outcome, what it calls clean
\* is clean in the module that the solution names, and no module that was clean is
\* not any more.
LEMMA SanitizedIsClean ==
  ASSUME NEW s, NEW c \in Projects, NEW r \in Sanitized(s, c)
  PROVE  r \in Results /\ (r.out = "ok" => IsClean(r.c, s.dest)) /\ NoWorse(c, r.c)
<1>1. Len(c) \in Nat
  BY DEF Projects
<1>2. CASE c = <<>> /\ r = [c |-> c, out |-> "err"]
  BY <1>2 DEF Results, NoWorse
<1>3. CASE r = AfterTurns(s, c, Len(c))
  <2>1. Visited(s, c, r, Len(c)) /\ NoWorse(c, r.c)
    BY <1>1, <1>3, AfterTurnsVisited
  <2> QED
    BY <1>1, <2>1 DEF Visited, IsClean
<1>4. CASE \E n \in 0..Len(c), o \in {"err", "panic"} : r = [AfterTurns(s, c, n) EXCEPT !.out = o]
  <2>1. PICK n \in 0..Len(c), o \in {"err", "panic"} : r = [AfterTurns(s, c, n) EXCEPT !.out = o]
    BY <1>4
  <2>2. AfterTurns(s, c, n) \in Results /\ NoWorse(c, AfterTurns(s, c, n).c)
    BY AfterTurnsVisited DEF Visited
  <2> QED
    BY <2>1, <2>2 DEF Results
<1> QED
  BY <1>2, <1>3, <1>4 DEF Sanitized, Turns

-----------------------------------------------------------------------------
(* What the goroutines have in memory, and what they have said of it. *)

SaidOkIsClean == \A i \in Ids : out[i] = "ok" => IsClean(mem[i], reqs[i].solution.dest)

CleanInv ==
  /\ \A i \in Ids : mem[i] \in Projects /\ out[i] \in Outcomes
  /\ \A p \in Paths : file[p] \subseteq Projects
  /\ \A i \in Ids : job[i] \in {"none", "wait", "open", "clean"} => out[i] = "none"
  /\ faulty \subseteq Paths /\ fate \in {"up", "panicked", "crashed"}
  /\ SaidOkIsClean

\* At first nobody has opened or said anything.
LEMMA CleanInvInit == Init => CleanInv
<1> SUFFICES ASSUME Init PROVE CleanInv
  OBVIOUS
<1> USE DEF Init
<1>1. Workbooks \subseteq Projects /\ <<>> \in Projects
  BY DocFilesAssumption DEF Projects, Modules
<1>2. \A i \in Ids : mem[i] = <<>> /\ out[i] = "none"
  OBVIOUS
<1>3. \A p \in Paths : file[p] = {original[p]} /\ original[p] \in Workbooks
  OBVIOUS
<1>4. SaidOkIsClean
  BY <1>2 DEF SaidOkIsClean
<1> QED
  BY <1>1, <1>2, <1>3, <1>4 DEF CleanInv, Outcomes

\* The handler touches nothing of it: a goroutine it starts has said nothing yet.
LEMMA CleanInvHandler == TypeInv /\ CleanInv /\ HandlerStep => CleanInv'
<1> SUFFICES ASSUME TypeInv, CleanInv, HandlerStep PROVE CleanInv'
  OBVIOUS
<1>1. /\ UNCHANGED <<reqs, mem, out, file, fate>> /\ Ids' = Ids
      /\ job' = job \/ (job[at] = "none" /\ job' = [job EXCEPT ![at] = "wait"])
      /\ faulty' \in {faulty, faulty \cup {Req.path}} /\ Req.path \in Paths
  <2>1. Len(reqs) \in Nat /\ at \in Ids
    BY DEF TypeInv, HandlerStep, Ids
  <2>2. Req.path \in Paths
    <3>1. reqs[at] \in Requests
      BY <2>1 DEF TypeInv, Ids
    <3> QED
      BY <3>1 DEF Req, Requests
  <2>3. job[at] = "none"
    BY <2>1 DEF TypeInv, Ids
  <2>4. UNCHANGED <<reqs, mem, out, file, fate>> /\ faulty' \in {faulty, faulty \cup {Req.path}}
    BY DEF HandlerStep, OpenBackup, OpenOriginal, Copy, Spawn, jobVars, fileVars
  <2>5. job' = job \/ job' = [job EXCEPT ![at] = "wait"]
    BY DEF HandlerStep, OpenBackup, OpenOriginal, Copy, Spawn, jobVars
  <2> QED
    BY <2>2, <2>3, <2>4, <2>5 DEF Ids
<1>2. \A i \in Ids : job'[i] = job[i] \/ job[i] = "none"
  BY <1>1 DEF TypeInv
<1>3. SaidOkIsClean'
  BY <1>1 DEF CleanInv, SaidOkIsClean
<1> QED
  BY <1>1, <1>2, <1>3 DEF CleanInv

\* A goroutine says "ok" only of what it has cleaned, and saves what it has.
LEMMA CleanInvJob ==
  ASSUME TypeInv, CleanInv, NEW i \in Ids, JobStep(i)
  PROVE  CleanInv'
<1>1. /\ reqs' = reqs /\ Ids' = Ids /\ faulty' = faulty /\ Path(i) \in Paths
      /\ job' = [job EXCEPT ![i] = job'[i]] /\ job'[i] \notin {"none", "wait"}
  BY JobMoves DEF handlerVars, TypeInv
<1>2. /\ job \in [Ids -> JobStates] /\ DOMAIN mem = Ids /\ DOMAIN out = Ids /\ DOMAIN file = Paths
      /\ mem = [j \in Ids |-> mem[j]] /\ out = [j \in Ids |-> out[j]]
  BY DEF TypeInv
<1>3. mem[i] \in Projects /\ out[i] \in Outcomes /\ fate \in {"up", "panicked", "crashed"}
  BY DEF CleanInv
<1>4. fate' \in {"up", "panicked", "crashed"}
  BY <1>3 DEF JobStep, Lock, Open, Clean, Save, Rename, Unlock
<1>5. \A p \in Paths : file'[p] \subseteq Projects
  <2>1. CASE UNCHANGED file
    BY <2>1 DEF CleanInv
  <2>2. CASE Save(i)
    <3>1. file' \in {file, [file EXCEPT ![Path(i)] = {mem[i]}]}
      BY <2>2 DEF Save
    <3> QED
      BY <1>1, <1>2, <1>3, <3>1 DEF CleanInv
  <2>3. CASE Rename(i)
    <3>1. file' = file \/ file' = [file EXCEPT ![Path(i)] = {}]
      BY <2>3 DEF Rename, Nothing, fileVars
    <3> QED
      BY <1>1, <1>2, <3>1 DEF CleanInv
  <2> QED
    BY <2>1, <2>2, <2>3 DEF JobStep, Lock, Open, Clean, Unlock, fileVars
<1>6. ASSUME UNCHANGED <<mem, out>>, job'[i] \notin {"none", "wait", "open", "clean"} \/ out[i] = "none"
      PROVE  CleanInv'
  <2>1. \A j \in Ids : job'[j] = job[j] \/ j = i
    BY <1>1, <1>2
  <2>2. SaidOkIsClean'
    BY <1>1, <1>6 DEF CleanInv, SaidOkIsClean
  <2> QED
    BY <1>1, <1>4, <1>5, <1>6, <2>1, <2>2 DEF CleanInv
<1>7. ASSUME NEW c \in Projects, NEW o \in Outcomes, mem' = [mem EXCEPT ![i] = c], out' = [out EXCEPT ![i] = o],
             job'[i] = "clean" => o = "none", job'[i] # "open",
             o = "ok" => IsClean(c, reqs[i].solution.dest)
      PROVE  CleanInv'
  <2>1. \A j \in Ids : j # i => job'[j] = job[j] /\ mem'[j] = mem[j] /\ out'[j] = out[j]
    BY <1>1, <1>2, <1>7
  <2>2. mem'[i] = c /\ out'[i] = o
    BY <1>2, <1>7
  <2>3. SaidOkIsClean'
    <3>1. \A j \in Ids : out'[j] = "ok" => IsClean(mem'[j], reqs[j].solution.dest)
      BY <1>7, <2>1, <2>2 DEF CleanInv, SaidOkIsClean
    <3> QED
      BY <1>1, <3>1 DEF SaidOkIsClean
  <2> QED
    BY <1>1, <1>4, <1>5, <1>7, <2>1, <2>2, <2>3 DEF CleanInv
<1>8. CASE Lock(i)
  BY <1>6, <1>8 DEF Lock, JobGoes, CleanInv
<1>9. CASE Open(i)
  <2>1. CASE JobGoes(i, "open", "clean") /\ (\E c \in file[Path(i)] : mem' = [mem EXCEPT ![i] = c]) /\ UNCHANGED out
    <3>1. PICK c \in file[Path(i)] : mem' = [mem EXCEPT ![i] = c]
      BY <2>1
    <3>2. c \in Projects /\ out[i] = "none" /\ "none" \in Outcomes
      BY <1>1, <2>1 DEF CleanInv, JobGoes, Outcomes
    <3>3. out' = [out EXCEPT ![i] = "none"]
      BY <1>2, <2>1, <3>2
    <3>4. job'[i] = "clean"
      BY <1>2, <2>1 DEF JobGoes
    <3> QED
      BY <1>7, <3>1, <3>2, <3>3, <3>4
  <2>2. CASE JobGoes(i, "open", "unlock") /\ out' = [out EXCEPT ![i] = "err"] /\ UNCHANGED mem
    <3>1. mem' = [mem EXCEPT ![i] = mem[i]] /\ job'[i] = "unlock" /\ "err" \in Outcomes
      BY <1>2, <2>2 DEF JobGoes, Outcomes
    <3> QED
      BY <1>3, <1>7, <2>2, <3>1
  <2> QED
    BY <1>9, <2>1, <2>2 DEF Open
<1>10. CASE Clean(i)
  <2>1. PICK r \in Sanitized(reqs[i].solution, mem[i]) :
          mem' = [mem EXCEPT ![i] = r.c] /\ out' = [out EXCEPT ![i] = r.out]
    BY <1>10 DEF Clean
  <2>2. r \in Results /\ (r.out = "ok" => IsClean(r.c, reqs[i].solution.dest))
    BY <1>3, SanitizedIsClean
  <2>3. r.c \in Projects /\ r.out \in Outcomes
    BY <2>2 DEF Results, Outcomes
  <2>4. job'[i] = "save"
    BY <1>2, <1>10 DEF Clean, JobGoes
  <2> QED
    BY <1>7, <2>1, <2>2, <2>3, <2>4
<1>11. CASE Save(i) \/ Rename(i) \/ Unlock(i)
  <2>1. job'[i] \in {"rename", "unlock", "done"} /\ UNCHANGED <<mem, out>>
    BY <1>2, <1>11 DEF Save, Rename, Unlock, JobGoes
  <2> QED
    BY <1>6, <2>1
<1> QED
  BY <1>8, <1>9, <1>10, <1>11 DEF JobStep

\* Every step.
LEMMA CleanInvStep == TypeInv /\ CleanInv /\ [Next]_vars => CleanInv'
<1> SUFFICES ASSUME TypeInv, CleanInv, [Next]_vars PROVE CleanInv'
  OBVIOUS
<1>1. CASE HandlerStep
  BY <1>1, CleanInvHandler
<1>2. CASE \E i \in Ids : JobStep(i)
  BY <1>2, CleanInvJob
<1>3. CASE Crash \/ UNCHANGED vars
  BY <1>3 DEF Crash, vars, handlerVars, jobVars, fileVars, CleanInv, SaidOkIsClean, Ids
<1> QED
  BY <1>1, <1>2, <1>3 DEF Next

-----------------------------------------------------------------------------
(* One cleaning on top of another. *)

\* What a goroutine has opened is still there when it cleans it, and what it saves
\* is a cleaning of what is there then.
MemoryInv ==
  /\ \A i \in Ids : job[i] = "clean" => mem[i] \in file[Path(i)]
  /\ \A i \in Ids : job[i] = "save" => \E c \in file[Path(i)] : mem[i] \in Cleanings(c)

\* At first nobody has opened anything.
LEMMA MemoryInvInit == Init => MemoryInv
  BY DEF Init, MemoryInv

\* The goroutine that has the lock keeps its document to itself.
LEMMA MemoryInvJob ==
  ASSUME TypeInv, MemoryInv, NEW i \in Ids, JobStep(i)
  PROVE  MemoryInv'
<1>1. /\ reqs' = reqs /\ Ids' = Ids /\ Path(i) \in Paths
      /\ \A j \in Ids : Path(j)' = Path(j)
  BY JobMoves DEF Path
<1>2. \A j \in Ids \ {i} : job'[j] \notin {"clean", "save"}
  <2>1. lock \in {0, i} /\ (\A j \in Ids \ {i} : job'[j] = job[j]) /\ i # 0 /\ 0 \notin Ids
    BY JobMoves DEF Ids, TypeInv
  <2>2. \A j \in Ids \ {i} : job[j] \notin Busy
    BY <2>1 DEF TypeInv
  <2> QED
    BY <2>1, <2>2 DEF Busy
<1>3. job'[i] = "clean" => mem'[i] \in file'[Path(i)]
  <2>1. CASE Open(i)
    BY <2>1 DEF Open, JobGoes, fileVars, TypeInv
  <2>2. CASE Lock(i) \/ Clean(i) \/ Save(i) \/ Rename(i) \/ Unlock(i)
    BY <2>2 DEF Lock, Clean, Save, Rename, Unlock, JobGoes, TypeInv
  <2> QED
    BY <2>1, <2>2 DEF JobStep
<1>4. job'[i] = "save" => \E c \in file'[Path(i)] : mem'[i] \in Cleanings(c)
  <2>1. CASE Clean(i)
    <3>1. PICK r \in Sanitized(reqs[i].solution, mem[i]) : mem' = [mem EXCEPT ![i] = r.c]
      BY <2>1 DEF Clean
    <3>2. reqs[i].solution \in Solutions
      <4>1. Len(reqs) \in Nat /\ i \in 1..Len(reqs)
        BY DEF TypeInv, Ids
      <4>2. reqs[i] \in Requests
        BY <4>1 DEF TypeInv
      <4> QED
        BY <4>2 DEF Requests
    <3>3. mem'[i] \in Cleanings(mem[i])
      BY <3>1, <3>2 DEF Cleanings, TypeInv
    <3>4. mem[i] \in file[Path(i)] /\ file' = file
      BY <2>1 DEF Clean, JobGoes, fileVars, MemoryInv
    <3> QED
      BY <3>3, <3>4
  <2>2. CASE Lock(i) \/ Open(i) \/ Save(i) \/ Rename(i) \/ Unlock(i)
    BY <2>2 DEF Lock, Open, Save, Rename, Unlock, JobGoes, TypeInv
  <2> QED
    BY <2>1, <2>2 DEF JobStep
<1> QED
  BY <1>1, <1>2, <1>3, <1>4 DEF MemoryInv

\* Every step keeps it.
LEMMA MemoryInvStep == TypeInv /\ MemoryInv /\ [Next]_vars => MemoryInv'
<1> SUFFICES ASSUME TypeInv, MemoryInv, [Next]_vars PROVE MemoryInv'
  OBVIOUS
<1>1. CASE \E i \in Ids : JobStep(i)
  BY <1>1, MemoryInvJob
<1>2. CASE HandlerStep \/ Crash \/ UNCHANGED vars
  <2>1. mem' = mem /\ \A i \in Ids : Path(i)' = Path(i)
    BY <1>2, OthersLeaveFiles
    DEF Path, HandlerStep, OpenBackup, OpenOriginal, Copy, Spawn, Crash, vars, jobVars
  <2> QED
    BY <1>2, <2>1, OthersLeaveFiles DEF MemoryInv
<1> QED
  BY <1>1, <1>2 DEF Next

\* Of a goroutine's steps the files show a cleaning, a renaming, or nothing.
LEMMA JobCleansOrRenames ==
  ASSUME TypeInv, MemoryInv, NEW i \in Ids, JobStep(i)
  PROVE  [Files!FilesNext]_(Files!files)
<1>1. Path(i) \in Paths
  BY JobMoves
<1>2. CASE Save(i)
  <2>1. CASE file' = [file EXCEPT ![Path(i)] = {mem[i]}]
    <3>1. PICK c \in file[Path(i)] : mem[i] \in Cleanings(c)
      BY <1>2 DEF Save, JobGoes, MemoryInv
    <3>2. Files!Cleaned(Path(i))
      BY <1>2, <2>1, <3>1 DEF Save, Files!Cleaned
    <3> QED
      BY <1>1, <3>2 DEF Files!FilesNext
  <2> QED
    BY <1>2, <2>1 DEF Save, Files!files
<1>3. CASE Rename(i)
  <2>1. CASE UNCHANGED fileVars
    BY <2>1 DEF fileVars, Files!files
  <2>2. CASE ~ UNCHANGED fileVars
    BY <1>1, <1>3, <2>2 DEF Rename, Files!FilesNext, Files!Renamed, Nothing
  <2> QED
    BY <2>1, <2>2
<1>4. CASE Lock(i) \/ Open(i) \/ Clean(i) \/ Unlock(i)
  BY <1>4 DEF Lock, Open, Clean, Unlock, fileVars, Files!files
<1> QED
  BY <1>2, <1>3, <1>4 DEF JobStep

-----------------------------------------------------------------------------
(* What is on the disk after a goroutine has answered and saved. *)

\* A cleaning is no worse than what it was made of, and what is no worse than a clean
\* project is clean.
LEMMA CleaningStaysClean ==
  ASSUME NEW c \in Projects, NEW d \in Cleanings(c), NEW dest, IsClean(c, dest)
  PROVE  IsClean(d, dest)
<1>1. NoWorse(c, d)
  BY SanitizedIsClean DEF Cleanings
<1> QED
  BY <1>1 DEF NoWorse, IsClean

DiskInv == NamesInv /\ CleanInv /\ MemoryInv /\ ReportedOkIsClean

\* At first nobody has saved.
LEMMA ReportedInit == Init => ReportedOkIsClean
  BY DEF Init, ReportedOkIsClean

\* A goroutine saves what it has answered for, on top of what others have; where a
\* document is does not matter.
LEMMA ReportedJob ==
  ASSUME DiskInv, NEW i \in Ids, JobStep(i)
  PROVE  ReportedOkIsClean'
<1> USE DEF DiskInv
<1>1. /\ reqs' = reqs /\ Ids' = Ids /\ Path(i) \in Paths
      /\ job' = [job EXCEPT ![i] = job'[i]]
      /\ job \in [Ids -> JobStates] /\ DOMAIN out = Ids /\ DOMAIN file = Paths /\ DOMAIN gfile = Paths
  BY JobMoves DEF NamesInv, TypeInv
<1>2. \A j \in Ids : Path(j)' = Path(j)
  BY <1>1 DEF Path
<1>3. \A j \in Ids : j # i => job'[j] = job[j]
  BY <1>1
<1> SUFFICES ASSUME NEW j \in Ids, out'[j] = "ok", Saved(j)',
                    NEW c \in file'[Path(j)] \cup gfile'[Path(j)]
             PROVE  IsClean(c, reqs[j].solution.dest)
  BY <1>1, <1>2 DEF ReportedOkIsClean
<1>4. ASSUME out[j] = "ok", Saved(j), c \in file[Path(j)] \cup gfile[Path(j)]
      PROVE  IsClean(c, reqs[j].solution.dest)
  BY <1>4 DEF ReportedOkIsClean
<1>5. CASE Lock(i) \/ Open(i) \/ Clean(i) \/ Unlock(i)
  <2>1. UNCHANGED fileVars
    BY <1>5 DEF Lock, Open, Clean, Unlock
  <2>2. j # i => out'[j] = out[j]
    BY <1>1, <1>5 DEF Lock, Open, Clean, Unlock
  <2>3. j = i => out[j] = "ok" /\ job[j] = "unlock"
    <3>1. j = i => job'[i] \in {"rename", "unlock", "done"} /\ out'[i] = "ok"
      BY DEF Saved
    <3>2. CASE Open(i)
      BY <1>1, <3>1, <3>2 DEF Open, JobGoes
    <3>3. CASE Lock(i) \/ Clean(i)
      BY <1>1, <3>1, <3>3 DEF Lock, Clean, JobGoes
    <3>4. CASE Unlock(i)
      BY <3>1, <3>4 DEF Unlock, JobGoes
    <3> QED
      BY <1>5, <3>2, <3>3, <3>4
  <2> QED
    BY <1>3, <1>4, <2>1, <2>2, <2>3 DEF Saved, fileVars
<1>6. CASE Save(i)
  <2>1. /\ job[i] = "save" /\ job'[i] = "rename" /\ out' = out /\ gfile' = gfile
        /\ \/ file' = [file EXCEPT ![Path(i)] = {mem[i]}] /\ unsaved' = unsaved
           \/ unsaved' = unsaved \cup {i} /\ file' = file
    BY <1>1, <1>6 DEF Save, JobGoes
  <2>2. file[Path(i)] # Nothing /\ gfile[Path(i)] = Nothing
    BY <1>1, <2>1 DEF NamesInv, OneCopy, AtFirstName
  <2>3. CASE unsaved' = unsaved \cup {i} /\ file' = file
    <3>1. j # i
      BY <2>3 DEF Saved
    <3> QED
      BY <1>3, <1>4, <2>1, <2>3, <3>1 DEF Saved
  <2>4. CASE file' = [file EXCEPT ![Path(i)] = {mem[i]}] /\ unsaved' = unsaved /\ Path(j) # Path(i)
    <3>1. j # i /\ file'[Path(j)] = file[Path(j)]
      BY <1>1, <2>4
    <3> QED
      BY <1>3, <1>4, <2>1, <2>4, <3>1 DEF Saved
  <2>5. CASE file' = [file EXCEPT ![Path(i)] = {mem[i]}] /\ unsaved' = unsaved /\ Path(j) = Path(i)
    <3>1. c = mem[i]
      <4>1. file'[Path(j)] = {mem[i]} /\ gfile'[Path(j)] = {}
        BY <1>1, <2>1, <2>2, <2>5 DEF Nothing
      <4> QED
        BY <4>1
    <3>2. CASE j = i
      BY <2>1, <3>1, <3>2 DEF CleanInv, SaidOkIsClean
    <3>3. CASE j # i
      <4>1. Saved(j) /\ out[j] = "ok"
        BY <1>3, <2>1, <2>5, <3>3 DEF Saved
      <4>2. PICK d \in file[Path(i)] : mem[i] \in Cleanings(d)
        BY <2>1 DEF MemoryInv
      <4>3. IsClean(d, reqs[j].solution.dest) /\ d \in Projects
        BY <1>1, <2>5, <4>1, <4>2 DEF ReportedOkIsClean, CleanInv
      <4> QED
        BY <3>1, <4>2, <4>3, CleaningStaysClean
    <3> QED
      BY <3>2, <3>3
  <2> QED
    BY <2>1, <2>3, <2>4, <2>5
<1>7. CASE Rename(i)
  <2>1. job[i] = "rename" /\ out' = out /\ unsaved' = unsaved
    BY <1>7 DEF Rename, JobGoes, fileVars
  <2>2. file'[Path(j)] \cup gfile'[Path(j)] \subseteq file[Path(j)] \cup gfile[Path(j)]
    <3>1. CASE UNCHANGED fileVars
      BY <3>1 DEF fileVars
    <3>2. CASE /\ gfile' = [gfile EXCEPT ![Path(i)] = file[Path(i)]]
               /\ file' = [file EXCEPT ![Path(i)] = Nothing]
      <4>1. CASE Path(j) = Path(i)
        BY <1>1, <3>2, <4>1 DEF Nothing
      <4>2. CASE Path(j) # Path(i)
        BY <1>1, <3>2, <4>2
      <4> QED
        BY <4>1, <4>2
    <3> QED
      BY <1>7, <3>1, <3>2 DEF Rename
  <2> QED
    BY <1>3, <1>4, <2>1, <2>2 DEF Saved
<1> QED
  BY <1>5, <1>6, <1>7 DEF JobStep

\* Every step.
LEMMA DiskInvStep == DiskInv /\ [Next]_vars => DiskInv'
<1> SUFFICES ASSUME DiskInv, [Next]_vars PROVE DiskInv'
  OBVIOUS
<1> USE DEF DiskInv
<1>1. NamesInv' /\ CleanInv' /\ MemoryInv'
  BY NamesInvStep, CleanInvStep, MemoryInvStep DEF NamesInv
<1>2. CASE \E i \in Ids : JobStep(i)
  BY <1>1, <1>2, ReportedJob
<1>3. CASE HandlerStep \/ Crash \/ UNCHANGED vars
  <2>1. TypeInv
    BY DEF NamesInv
  <2>2. out' = out /\ unsaved' = unsaved /\ \A i \in Ids : Path(i)' = Path(i)
    BY <1>3, <2>1, OthersLeaveFiles
    DEF Path, HandlerStep, OpenBackup, OpenOriginal, Copy, Spawn, Crash, vars, jobVars, fileVars
  <2>3. /\ file' = file /\ gfile' = gfile /\ reqs' = reqs /\ Ids' = Ids
        /\ \A i \in Ids : Saved(i)' => Saved(i)
    BY <1>3, <2>1, <2>2, OthersLeaveFiles DEF Saved
  <2>4. ReportedOkIsClean'
    BY <2>2, <2>3 DEF ReportedOkIsClean
  <2> QED
    BY <1>1, <2>4
<1> QED
  BY <1>2, <1>3 DEF Next

-----------------------------------------------------------------------------
(* Theorems. *)

\* Types of everything but the outcomes, and one goroutine at a time behind the
\* lock.
THEOREM TypeInvariance == Spec => []TypeInv
<1> QED
  BY TypeInvInit, TypeInvStep, PTL DEF Spec

\* Every document is at exactly one of its two names.
THEOREM AtOneName == Spec => []OneCopy
<1>1. NamesInv => OneCopy
  BY DEF NamesInv
<1> QED
  BY <1>1, NamesInvInit, NamesInvStep, PTL DEF Spec

\* What has been renamed is never touched again, by a second detection either.
THEOREM RenamedStays == Spec => RenamedIsFinal
<1> DEFINE Final == \A p \in Paths : gfile[p] # Nothing => gfile'[p] = gfile[p]
<1>1. NamesInv /\ [Next]_vars => [Final]_vars
  <2> SUFFICES ASSUME NamesInv, Next PROVE Final
    OBVIOUS
  <2> USE DEF NamesInv
  <2>1. CASE HandlerStep \/ Crash
    BY <2>1, OthersLeaveFiles
  <2>2. ASSUME NEW i \in Ids, JobStep(i) PROVE Final
    <3>1. DOMAIN gfile = Paths /\ Path(i) \in Paths
      BY <2>2, JobMoves DEF TypeInv
    <3>2. CASE gfile' = gfile
      BY <3>2
    <3>3. CASE file[Path(i)] # Nothing /\ gfile' = [gfile EXCEPT ![Path(i)] = file[Path(i)]]
      <4>1. gfile[Path(i)] = Nothing
        BY <3>1, <3>3 DEF OneCopy
      <4> QED
        BY <3>1, <3>3, <4>1
    <3> QED
      BY <2>2, <3>2, <3>3, JobFiles
  <2> QED
    BY <2>1, <2>2 DEF Next
<1> QED
  BY <1>1, NamesInvInit, NamesInvStep, PTL DEF Spec, RenamedIsFinal

\* The original can be recovered at any moment, unless a step of its backup
\* failed or the document was detected twice.
THEOREM OriginalsSurvive == Spec => []OriginalSurvives
<1>1. TypeInv /\ SurvivalInv => OriginalSurvives
  <2> SUFFICES ASSUME TypeInv, SurvivalInv, NEW p \in Paths,
                      p \notin faulty, Cardinality(Detections(p)) <= 1
               PROVE  original[p] \in file[p] \cup gfile[p] \cup bak[p]
    BY DEF OriginalSurvives
  <2>1. Trusted(p)
    BY OneDetection DEF Trusted
  <2>2. CASE \A i \in Ids : Path(i) = p => job[i] = "none"
    BY <2>1, <2>2 DEF SurvivalInv
  <2>3. CASE \E i \in Ids : Path(i) = p /\ job[i] # "none"
    <3>1. PICK i \in Ids : Path(i) = p /\ job[i] # "none"
      BY <2>3
    <3>2. i < at
      BY <3>1 DEF TypeInv, Ids
    <3> QED
      BY <2>1, <3>1, <3>2 DEF SurvivalInv
  <2> QED
    BY <2>2, <2>3
<1> QED
  BY <1>1, TypeInvInit, TypeInvStep, SurvivalInvInit, SurvivalInvStep, PTL DEF Spec

\* Every variable has its type, the outcomes included, and one goroutine at a time
\* is behind the lock.
THEOREM DocFilesTypes == Spec => []TypeOK
<1>1. TypeInv /\ CleanInv => TypeOK
  BY DEF TypeInv, CleanInv, TypeOK, Busy
<1> QED
  BY <1>1, TypeInvInit, TypeInvStep, CleanInvInit, CleanInvStep, PTL DEF Spec

\* On the disk, a document that was sanitized without error and saved does not hold
\* the virus in the module its solution names, now or after any other request, for
\* every project, with or without modules of one name, and every solution; a Save
\* that fails is excepted (rpc_server.go:386-405, excelop_windows.go:199, 207-267).
THEOREM ReportedIsClean == Spec => []ReportedOkIsClean
<1>1. Init => DiskInv
  BY NamesInvInit, CleanInvInit, MemoryInvInit, ReportedInit DEF DiskInv
<1>2. DiskInv => ReportedOkIsClean
  BY DEF DiskInv
<1> QED
  BY <1>1, <1>2, DiskInvStep, PTL DEF Spec

\* The files of the documents change as CleanedFiles says: each cleaning is made of
\* what the one before has left, and the second name is the end of it, however many
\* requests name a document and wherever they fail.
THEOREM FilesAreCleanedInTurn == Spec => FilesRefinement
<1>1. Init => Files!FilesInit
  BY DEF Init, Files!FilesInit, Nothing
<1>2. TypeInv /\ MemoryInv /\ [Next]_vars => [Files!FilesNext]_(Files!files)
  BY JobCleansOrRenames, OthersLeaveFiles DEF Next, Files!files
<1> QED
  BY <1>1, <1>2, TypeInvInit, TypeInvStep, MemoryInvInit, MemoryInvStep, PTL
  DEF Spec, FilesRefinement, Files!FilesSpec
=============================================================================
