--------------------------- MODULE HelperLockProofs ---------------------------
(***************************************************************************)
(* Theorems about HelperLock, for every finite set of agents and every set *)
(* of directories: types, what the lock file guarantees to a helper that   *)
(* has created it, and where a lock file that nobody removes comes from.   *)
(***************************************************************************)
EXTENDS HelperLock, FiniteSetTheorems, TLAPS

\* TypeOK, with "at most one" said without Cardinality.
AtMostOne(S) == \A a, b \in S : a = b

TypeInv ==
  /\ dir \in [Agents -> Dirs]
  /\ helper \in [Agents -> HelperStates]
  /\ lock \in SUBSET Dirs /\ raced \in SUBSET Dirs
  /\ crashed \in SUBSET Agents /\ unremoved \in SUBSET Agents
  /\ pipe \in SUBSET Agents /\ AtMostOne(pipe)
  /\ \A a \in Agents : helper[a] = "serve" => a \in pipe
  /\ \A a \in pipe : helper[a] \in {"serve", "release", "remove"}
  /\ cli \in [Agents -> ClientStates]
  /\ peer \in [Agents -> SUBSET Agents]

\* Behind the check: about to create the lock file, or holding it.
Behind == Holding \cup {"create"}

\* In a directory without a race only one helper at a time is behind the check.
OneBehind ==
  \A a, b \in Agents :
    dir[a] = dir[b] /\ dir[a] \notin raced /\ helper[a] \in Behind /\ helper[b] \in Behind => a = b

LockInv == TypeInv /\ HolderHasLock /\ OneBehind

\* The step of one agent or of its helper.
Step(a) ==
  \/ BeginsToWork(a) \/ HelperStep(a) \/ SetupFails(a) \/ Signalled(a) \/ Released(a) \/ Crash(a)
  \/ StartHelper(a) \/ Dial(a) \/ Quit(a) \/ WaitEnds(a) \/ AgentExits(a)

-----------------------------------------------------------------------------
(* Types. *)

\* A set of at most one element has cardinality at most one.
LEMMA SmallSet ==
  ASSUME NEW S, AtMostOne(S)
  PROVE  Cardinality(S) <= 1
<1>1. CASE S = {}
  BY <1>1, FS_EmptySet
<1>2. CASE S # {}
  <2>1. PICK x : x \in S
    BY <1>2
  <2>2. S = {x}
    BY <2>1 DEF AtMostOne
  <2>3. Cardinality({x}) = 1
    BY FS_Singleton
  <2> QED
    BY <2>2, <2>3
<1> QED
  BY <1>1, <1>2

LEMMA TypeInvInit == Init => TypeInv
  BY DEF Init, TypeInv, AtMostOne, HelperStates, ClientStates

\* Every handler keeps the types, and the pipe one owner at most.
LEMMA TypeInvStep ==
  ASSUME TypeInv, NEW a \in Agents, Step(a)
  PROVE  TypeInv'
<1> USE DEF TypeInv, HelperGoes, ClientGoes, HelperStates, ClientStates
<1>1. CASE BeginsToWork(a)
  BY <1>1 DEF BeginsToWork
<1>2. CASE CheckLock(a)
  <2>1. raced' \in SUBSET Dirs
    BY <1>2 DEF CheckLock, SameDir
  <2>2. helper' \in [Agents -> HelperStates] /\ \A b \in Agents : b # a => helper'[b] = helper[b]
    BY <1>2 DEF CheckLock
  <2>3. helper[a] = "check" /\ helper'[a] \in {"gone", "create"}
    BY <1>2 DEF CheckLock
  <2> QED
    BY <1>2, <2>1, <2>2, <2>3 DEF CheckLock
<1>3. CASE CreateLock(a)
  BY <1>3 DEF CreateLock
<1>4. CASE Listen(a)
  <2>1. CASE PipeIsFree /\ HelperGoes(a, "listen", "serve") /\ pipe' = pipe \cup {a}
    <3>1. pipe' = {a} /\ AtMostOne(pipe')
      BY <2>1 DEF PipeIsFree, AtMostOne
    <3> QED
      BY <1>4, <2>1, <3>1 DEF Listen
  <2>2. CASE HelperGoes(a, "listen", AfterFailedListen) /\ UNCHANGED pipe
    BY <1>4, <2>2 DEF Listen, AfterFailedListen
  <2> QED
    BY <1>4, <2>1, <2>2 DEF Listen
<1>5. CASE Drained(a)
  BY <1>5 DEF Drained
<1>6. CASE RemoveLock(a)
  <2>1. AtMostOne(pipe')
    BY <1>6 DEF RemoveLock, AtMostOne
  <2> QED
    BY <1>6, <2>1 DEF RemoveLock
<1>7. CASE SetupFails(a)
  BY <1>7 DEF SetupFails
<1>8. CASE Crash(a)
  <2>1. AtMostOne(pipe')
    BY <1>8 DEF Crash, AtMostOne
  <2> QED
    BY <1>8, <2>1 DEF Crash
<1>9. CASE StartHelper(a)
  BY <1>9 DEF StartHelper
<1>10. CASE Dial(a)
  BY <1>10 DEF Dial
<1>11. CASE Quit(a)
  <2>1. Serving(a) \in SUBSET Agents
    BY DEF Serving
  <2>2. AtMostOne(pipe')
    BY <1>11 DEF Quit, AtMostOne
  <2>3. \A b \in Agents : helper'[b] = IF b \in Serving(a) THEN "drain" ELSE helper[b]
    BY <1>11 DEF Quit
  <2>4. helper' \in [Agents -> HelperStates]
    BY <1>11 DEF Quit
  <2> QED
    BY <1>11, <2>1, <2>2, <2>3, <2>4 DEF Quit
<1>12. CASE WaitEnds(a)
  BY <1>12 DEF WaitEnds
<1>13. CASE AgentExits(a)
  BY <1>13 DEF AgentExits
<1>14. CASE Signalled(a)
  <2>1. AtMostOne(pipe')
    BY <1>14 DEF Signalled, AtMostOne
  <2> QED
    BY <1>14, <2>1 DEF Signalled
<1>15. CASE Released(a)
  BY <1>15 DEF Released
<1> QED
  BY <1>1, <1>2, <1>3, <1>4, <1>5, <1>6, <1>7, <1>8, <1>9, <1>10, <1>11, <1>12, <1>13, <1>14, <1>15
     DEF Step, HelperStep

LEMMA TypeInvStutter == TypeInv /\ UNCHANGED vars => TypeInv'
  BY DEF TypeInv, AtMostOne, vars

-----------------------------------------------------------------------------
(* The lock file. *)

\* What a step of a does to the helpers behind the check: the others stay, except
\* that the helpers a quits go on to the drain, which is behind the check as well.
LEMMA OthersStay ==
  ASSUME TypeInv, NEW a \in Agents, Step(a), NEW b \in Agents, b # a
  PROVE  /\ helper'[b] \in Behind <=> helper[b] \in Behind
         /\ helper'[b] \in Holding <=> helper[b] \in Holding
<1> USE DEF TypeInv, HelperGoes, ClientGoes, Behind, Holding, HelperStates
<1>1. CASE Quit(a)
  <2>1. helper'[b] = IF b \in Serving(a) THEN "drain" ELSE helper[b]
    BY <1>1 DEF Quit
  <2>2. b \in Serving(a) => helper[b] = "serve"
    BY DEF Serving
  <2> QED
    BY <2>1, <2>2
<1>2. CASE ~Quit(a)
  <2>1. helper'[b] = helper[b]
    BY <1>2 DEF Step, HelperStep, BeginsToWork, CheckLock, CreateLock, Listen, Drained, RemoveLock,
       SetupFails, Signalled, Released, Crash, StartHelper, Dial, WaitEnds, AgentExits
  <2> QED
    BY <2>1
<1> QED
  BY <1>1, <1>2

\* A helper gets behind the check by its own check only, and holds the file by
\* creating it only.
LEMMA BehindByCheck ==
  ASSUME TypeInv, NEW a \in Agents, Step(a)
  PROVE  /\ helper'[a] \in Behind => helper[a] \in Behind \/ CheckLock(a)
         /\ helper'[a] \in Holding => helper[a] \in Holding \/ CreateLock(a)
<1> USE DEF TypeInv, HelperGoes, ClientGoes, Behind, Holding, HelperStates
<1>1. CASE Quit(a)
  <2>1. helper'[a] = IF a \in Serving(a) THEN "drain" ELSE helper[a]
    BY <1>1 DEF Quit
  <2>2. a \in Serving(a) => helper[a] = "serve"
    BY DEF Serving
  <2> QED
    BY <2>1, <2>2
<1>2. CASE ~Quit(a)
  BY <1>2 DEF Step, HelperStep, BeginsToWork, CreateLock, Listen, Drained, RemoveLock,
     SetupFails, Signalled, Released, Crash, StartHelper, Dial, WaitEnds, AgentExits, AfterFailedListen, CheckLock
<1> QED
  BY <1>1, <1>2

\* Who may change the lock files and the record of races.
LEMMA LockChanges ==
  ASSUME NEW a \in Agents, Step(a)
  PROVE  /\ dir' = dir
         /\ raced' # raced => CheckLock(a)
         /\ lock' # lock => CreateLock(a) \/ RemoveLock(a)
  BY DEF Step, HelperStep, BeginsToWork, CheckLock, CreateLock, Listen, Drained, RemoveLock,
     SetupFails, Signalled, Released, Crash, StartHelper, Dial, Quit, WaitEnds, AgentExits

\* Once a helper is behind the check, no other of its directory gets there
\* without leaving the record of a race.
LEMMA OneBehindStep ==
  ASSUME LockInv, NEW a \in Agents, Step(a)
  PROVE  OneBehind'
<1> USE DEF LockInv
<1>1. dir' = dir /\ raced \subseteq raced'
  BY LockChanges DEF CheckLock
<1>2. SUFFICES ASSUME NEW b \in Agents, b # a, dir[b] = dir[a], dir[a] \notin raced',
                      helper'[a] \in Behind, helper'[b] \in Behind
               PROVE  FALSE
  BY <1>1, OthersStay DEF OneBehind
<1>3. helper[b] \in Behind
  BY <1>2, OthersStay
<1>4. CheckLock(a)
  BY <1>1, <1>2, <1>3, BehindByCheck DEF OneBehind
<1>5. helper'[a] = "create" /\ ~SeesLock(a)
  BY <1>2, <1>4 DEF CheckLock, HelperGoes, TypeInv, HelperStates, Behind, Holding
<1>6. helper[b] \notin Holding
  BY <1>1, <1>2, <1>5 DEF HolderHasLock, SeesLock
<1>7. b \in {c \in SameDir(a) : helper[c] = "create"}
  BY <1>2, <1>3, <1>6 DEF SameDir, Behind
<1>8. raced' = raced \cup {dir[c] : c \in {c \in SameDir(a) : helper[c] = "create"}}
  BY <1>4, <1>5 DEF CheckLock, HelperGoes, TypeInv
<1> QED
  BY <1>2, <1>7, <1>8

\* Nobody takes the file away from a helper that is alone behind the check.
LEMMA HolderHasLockStep ==
  ASSUME LockInv, NEW a \in Agents, Step(a)
  PROVE  HolderHasLock'
<1> USE DEF LockInv
<1>1. dir' = dir /\ raced \subseteq raced'
  BY LockChanges DEF CheckLock
<1>2. SUFFICES ASSUME NEW b \in Agents, helper'[b] \in Holding, dir[b] \notin raced'
               PROVE  dir[b] \in lock'
  BY <1>1 DEF HolderHasLock
<1>3. CASE helper[b] \in Holding
  <2>1. dir[b] \in lock
    BY <1>1, <1>2, <1>3 DEF HolderHasLock
  <2>2. CASE RemoveLock(a)
    <3>1. helper[a] = "remove" /\ helper'[a] = "gone" /\ (lock' = lock \/ lock' = lock \ {dir[a]})
      BY <2>2 DEF RemoveLock, HelperGoes, TypeInv, RemovesLockOf
    <3>2. a # b
      BY <1>2, <3>1 DEF Holding
    <3>3. dir[a] # dir[b]
      BY <1>1, <1>2, <1>3, <3>1, <3>2 DEF OneBehind, Behind, Holding
    <3> QED
      BY <2>1, <3>1, <3>3
  <2>3. CASE ~RemoveLock(a)
    BY <2>1, <2>3, LockChanges DEF CreateLock
  <2> QED
    BY <2>2, <2>3
<1>4. CASE helper[b] \notin Holding
  <2>1. a = b /\ CreateLock(a)
    BY <1>2, <1>4, OthersStay, BehindByCheck
  <2>2. helper'[a] = "listen" /\ lock' = lock \cup {dir[a]}
    BY <1>2, <2>1 DEF CreateLock, HelperGoes, TypeInv, Holding
  <2> QED
    BY <2>1, <2>2
<1> QED
  BY <1>3, <1>4

\* A lock file is created by a holder, and goes when a holder leaves in order and
\* can remove it.
LEMMA StaleLockStep ==
  ASSUME TypeInv, StaleLockNeedsFailure, NEW a \in Agents, Step(a)
  PROVE  StaleLockNeedsFailure'
<1>1. dir' = dir
  BY LockChanges
<1>2. SUFFICES ASSUME NEW d \in lock'
               PROVE  \E b \in Agents : dir[b] = d /\ (helper'[b] \in Holding \/ b \in crashed' \cup unremoved')
  BY <1>1 DEF StaleLockNeedsFailure
<1>3. crashed \subseteq crashed' /\ unremoved \subseteq unremoved'
  BY DEF Step, HelperStep, BeginsToWork, CheckLock, CreateLock, Listen, Drained, RemoveLock,
     SetupFails, Signalled, Released, Crash, StartHelper, Dial, Quit, WaitEnds, AgentExits
<1>4. CASE d \notin lock
  <2>1. CreateLock(a)
    BY <1>2, <1>4, LockChanges DEF RemoveLock
  <2>2. helper'[a] = "listen" /\ lock' = lock \cup {dir[a]}
    BY <1>2, <1>4, <2>1 DEF CreateLock, HelperGoes, TypeInv
  <2> QED
    BY <1>2, <1>4, <2>2 DEF Holding
<1>5. CASE d \in lock
  <2>1. PICK b \in Agents : dir[b] = d /\ (helper[b] \in Holding \/ b \in crashed \cup unremoved)
    BY <1>5 DEF StaleLockNeedsFailure
  <2>2. CASE b \in crashed \cup unremoved
    BY <1>3, <2>1, <2>2
  <2>3. CASE helper[b] \in Holding /\ b # a
    BY <2>1, <2>3, OthersStay
  <2>4. CASE helper[a] \in Holding /\ b = a
    <3>1. CASE RemoveLock(a)
      BY <1>2, <2>1, <2>4, <3>1 DEF RemoveLock, RemovesLockOf
    <3>2. CASE Crash(a)
      BY <2>1, <2>4, <3>2 DEF Crash
    <3>3. CASE Quit(a)
      <4>1. helper'[a] = IF a \in Serving(a) THEN "drain" ELSE helper[a]
        BY <3>3 DEF Quit
      <4> QED
        BY <2>1, <2>4, <4>1 DEF Holding
    <3>4. CASE ~RemoveLock(a) /\ ~Crash(a) /\ ~Quit(a)
      <4>1. helper'[a] \in Holding
        BY <2>4, <3>4 DEF Step, HelperStep, BeginsToWork, CheckLock, CreateLock, Listen, Drained,
           SetupFails, Signalled, Released, StartHelper, Dial, WaitEnds, AgentExits, AfterFailedListen, HelperGoes,
           ClientGoes, TypeInv, Holding, HelperStates
      <4> QED
        BY <2>1, <2>4, <4>1
    <3> QED
      BY <3>1, <3>2, <3>3, <3>4
  <2> QED
    BY <2>1, <2>2, <2>3, <2>4
<1> QED
  BY <1>4, <1>5

-----------------------------------------------------------------------------
(* Theorems. *)

\* The inductive typing invariant, for any number of agents: nobody listens on
\* the pipe but one helper that serves, or has stopped and is about to end.
THEOREM TypeInvariance == Spec => []TypeInv
<1>1. Init => TypeInv
  BY TypeInvInit
<1>2. TypeInv /\ [Next]_vars => TypeInv'
  BY TypeInvStep, TypeInvStutter DEF Next, Step
<1> QED
  BY <1>1, <1>2, PTL DEF Spec

\* Types, and at most one listener on the pipe.
THEOREM TypeCorrect == Spec => []TypeOK
<1>1. TypeInv => TypeOK
  BY SmallSet DEF TypeInv, TypeOK
<1> QED
  BY <1>1, TypeInvariance, PTL

\* A helper that has created the lock file keeps it until it ends, unless two
\* helpers of its directory were between the check and the creation at once.
THEOREM HoldersKeepTheLock == Spec => []HolderHasLock
<1>1. Init => LockInv
  BY TypeInvInit DEF LockInv, HolderHasLock, OneBehind, Init, Behind, Holding
<1>2. LockInv /\ [Next]_vars => LockInv'
  <2>1. ASSUME LockInv, NEW a \in Agents, Step(a) PROVE LockInv'
    BY <2>1, TypeInvStep, HolderHasLockStep, OneBehindStep DEF LockInv
  <2>2. LockInv /\ UNCHANGED vars => LockInv'
    BY TypeInvStutter DEF LockInv, HolderHasLock, OneBehind, vars
  <2> QED
    BY <2>1, <2>2 DEF Next, Step
<1>3. LockInv => HolderHasLock
  BY DEF LockInv
<1> QED
  BY <1>1, <1>2, <1>3, PTL DEF Spec

\* A lock file without a helper that will remove it was left by a crash in its
\* directory or by a removal that failed there.
THEOREM StaleLocksNeedAFailure == Spec => []StaleLockNeedsFailure
<1>1. Init => StaleLockNeedsFailure
  BY DEF Init, StaleLockNeedsFailure
<1>2. TypeInv /\ StaleLockNeedsFailure /\ [Next]_vars => StaleLockNeedsFailure'
  <2>1. StaleLockNeedsFailure /\ UNCHANGED vars => StaleLockNeedsFailure'
    BY DEF StaleLockNeedsFailure, vars
  <2> QED
    BY <2>1, StaleLockStep DEF Next, Step
<1> QED
  BY <1>1, <1>2, TypeInvariance, PTL DEF Spec
==============================================================================
