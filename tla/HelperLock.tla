----------------------------- MODULE HelperLock -----------------------------
(***************************************************************************)
(* Several runs of the agent, each with the helper process it starts: the  *)
(* lock file that is to keep a second helper out (cmd/privhelper/main.go), *)
(* the pipe that only one process can listen on, and the agents' clients,  *)
(* which dial the pipe, whoever owns it (entrypoint_windows.go).           *)
(*                                                                         *)
(* Abstracted: what is said over the pipe (RpcSession), and what a helper  *)
(* does while it serves (RpcServer, ExcelWorker).                          *)
(***************************************************************************)
EXTENDS Naturals, FiniteSets

CONSTANTS
  Agents,       \* the runs of the agent
  Dirs          \* their working directories; the lock file's name is relative

ASSUME LockAssumption == IsFiniteSet(Agents) /\ Dirs # {}

VARIABLES
  dir,          \* dir[a]: the working directory of a and of its helper
  helper,       \* helper[a]: where main of a's helper is
  lock,         \* the directories where the lock file exists
  pipe,         \* the agents whose helper listens on the pipe, at most one
  cli,          \* cli[a]: where a's StartSanitizer is
  peer,         \* peer[a]: {b} if a's client is connected to b's helper
  crashed,      \* history: the agents whose helper ended without its defers
  unremoved,    \* history: the agents whose helper could not remove the lock file
  raced         \* history: the directories where a helper passed its check
                \* between the check and the creation of another

vars == <<dir, helper, lock, pipe, cli, peer, crashed, unremoved, raced>>

HelperStates == {"off", "starting", "check", "create", "listen", "serve", "drain", "release", "remove", "gone"}
ClientStates == {"off", "dial", "session", "wait", "returned", "failed"}
Holding == {"listen", "serve", "drain", "release", "remove"}

Init ==
  /\ dir \in [Agents -> Dirs]
  /\ helper = [a \in Agents |-> "off"]
  /\ lock = {} /\ pipe = {}
  /\ cli = [a \in Agents |-> "off"]
  /\ peer = [a \in Agents |-> {}]
  /\ crashed = {} /\ unremoved = {} /\ raced = {}

HelperGoes(a, from, to) == helper[a] = from /\ helper' = [helper EXCEPT ![a] = to]
ClientGoes(a, from, to) == cli[a] = from /\ cli' = [cli EXCEPT ![a] = to]
SameDir(a) == {b \in Agents \ {a} : dir[b] = dir[a]}

-----------------------------------------------------------------------------
(* main of the helper. *)

\* Telemetry has no time limit: two HTTP calls come before the lock is looked at.
\* A helper that runs as SYSTEM, or cannot tell, refuses to go on.
BeginsToWork(a) ==
  /\ HelperGoes(a, "starting", "check") \/ HelperGoes(a, "starting", "gone")
  /\ UNCHANGED <<dir, lock, pipe, cli, peer, crashed, unremoved, raced>>

SeesNoLock(a) == FALSE
SeesLock(a) == dir[a] \in lock

\* A lock file is a panic, before any defer but the log's.
CheckLock(a) ==
  /\ \/ SeesLock(a) /\ HelperGoes(a, "check", "gone") /\ UNCHANGED raced
     \/ /\ ~SeesLock(a) /\ HelperGoes(a, "check", "create")
        /\ raced' = raced \cup {dir[b] : b \in {c \in SameDir(a) : helper[c] = "create"}}
  /\ UNCHANGED <<dir, lock, pipe, cli, peer, crashed, unremoved>>

\* os.Create succeeds on a file that is there by now; a failure is a panic.
CreateLock(a) ==
  /\ \/ HelperGoes(a, "create", "listen") /\ lock' = lock \cup {dir[a]}
     \/ HelperGoes(a, "create", "gone") /\ UNCHANGED lock
  /\ UNCHANGED <<dir, pipe, cli, peer, crashed, unremoved, raced>>

PipeIsShared == TRUE
PipeIsFree == pipe = {}
AfterFailedListenLeft == "gone"
AfterFailedListen == "remove"

\* The pipe is somebody else's, or cannot be made: a panic that runs the defer,
\* and so removes the lock file, whoever created it.
Listen(a) ==
  /\ \/ HelperGoes(a, "listen", "serve") /\ PipeIsFree /\ pipe' = pipe \cup {a}
     \/ HelperGoes(a, "listen", AfterFailedListen) /\ UNCHANGED pipe
  /\ UNCHANGED <<dir, lock, cli, peer, crashed, unremoved, raced>>

\* Start returns when Excel cannot be set up, or panics when its workbooks cannot
\* be had, with Quit deferred by then; the listener stays open until the process
\* ends.
SetupFails(a) ==
  /\ HelperGoes(a, "serve", "remove") \/ HelperGoes(a, "serve", "release")
  /\ UNCHANGED <<dir, lock, pipe, cli, peer, crashed, unremoved, raced>>

\* An interrupt or SIGTERM: Stop closes the listener, as it does after a quit.
Signalled(a) ==
  /\ HelperGoes(a, "serve", "drain") /\ pipe' = pipe \ {a}
  /\ UNCHANGED <<dir, lock, cli, peer, crashed, unremoved, raced>>

DrainedNever(a) == helper[a] = "gone"
DrainedSoon(a) == TRUE

\* Stop waits for documents, 15 seconds at most.
Drained(a) ==
  /\ DrainedSoon(a)
  /\ HelperGoes(a, "drain", "release")
  /\ UNCHANGED <<dir, lock, pipe, cli, peer, crashed, unremoved, raced>>

\* Start's deferred Quit(false) has had its answer from Excel, or has panicked on
\* a nil one: either way main's own defer is next.
Released(a) ==
  /\ HelperGoes(a, "release", "remove")
  /\ UNCHANGED <<dir, lock, pipe, cli, peer, crashed, unremoved, raced>>

RemovesLockOf(a) == {dir[a]}

\* The error of os.Remove is dropped: another process may have the file open.
RemoveLock(a) ==
  /\ HelperGoes(a, "remove", "gone")
  /\ \/ lock' = lock \ RemovesLockOf(a) /\ UNCHANGED unremoved
     \/ unremoved' = unremoved \cup {a} /\ UNCHANGED lock
  /\ pipe' = pipe \ {a}
  /\ UNCHANGED <<dir, cli, peer, crashed, raced>>

\* A panic in another goroutine, a fatal error or a kill: no defer runs.
Crash(a) ==
  /\ helper[a] \in Holding
  /\ helper' = [helper EXCEPT ![a] = "gone"]
  /\ pipe' = pipe \ {a} /\ crashed' = crashed \cup {a}
  /\ UNCHANGED <<dir, lock, cli, peer, unremoved, raced>>

HelperStep(a) == CheckLock(a) \/ CreateLock(a) \/ Listen(a) \/ Drained(a) \/ RemoveLock(a)

-----------------------------------------------------------------------------
(* StartSanitizer. *)

StartHelper(a) ==
  /\ ClientGoes(a, "off", "dial") /\ HelperGoes(a, "off", "starting")
  /\ UNCHANGED <<dir, lock, pipe, peer, crashed, unremoved, raced>>

\* The client reaches the helper that serves the pipe, its own or another's; or
\* three attempts fail, Excel being slow, and it leaves its helper to itself.
Dial(a) ==
  /\ \/ /\ ClientGoes(a, "dial", "session")
        /\ \E b \in pipe : helper[b] = "serve" /\ peer' = [peer EXCEPT ![a] = {b}]
     \/ ClientGoes(a, "dial", "failed") /\ UNCHANGED peer
  /\ UNCHANGED <<dir, helper, lock, pipe, crashed, unremoved, raced>>

\* The peers that the quit of a stops, and what becomes of the pipe.
Serving(a) == {b \in peer[a] : helper[b] = "serve"}

Quit(a) ==
  /\ ClientGoes(a, "session", "wait")
  /\ helper' = [b \in Agents |-> IF b \in Serving(a) THEN "drain" ELSE helper[b]]
  /\ pipe' = pipe \ Serving(a)
  /\ UNCHANGED <<dir, lock, peer, crashed, unremoved, raced>>

\* rpcProc.Wait waits for the process this agent has started.
WaitEnds(a) ==
  /\ ClientGoes(a, "wait", "returned") /\ helper[a] = "gone"
  /\ UNCHANGED <<dir, helper, lock, pipe, peer, crashed, unremoved, raced>>

\* The agent exits under its sanitizer: no rules, or an error of the list parser.
\* The helper is left running.
AgentExits(a) ==
  /\ cli[a] \in {"dial", "session", "wait"} /\ cli' = [cli EXCEPT ![a] = "failed"]
  /\ UNCHANGED <<dir, helper, lock, pipe, peer, crashed, unremoved, raced>>

Next == \E a \in Agents :
  \/ BeginsToWork(a) \/ HelperStep(a) \/ SetupFails(a) \/ Signalled(a) \/ Released(a) \/ Crash(a)
  \/ StartHelper(a) \/ Dial(a) \/ Quit(a) \/ WaitEnds(a) \/ AgentExits(a)

Spec == Init /\ [][Next]_vars

\* Both processes of a run are scheduled, and Stop ends after 15 seconds at most.
\* An agent need not be started, telemetry need not return, nothing has to fail,
\* Excel need not answer Quit, and a session may wait for a response for ever
\* (RpcSession).
FairSpec == Spec /\ \A a \in Agents : WF_vars(HelperStep(a)) /\ WF_vars(WaitEnds(a))

-----------------------------------------------------------------------------
(* Properties. *)

TypeOK ==
  /\ dir \in [Agents -> Dirs]
  /\ helper \in [Agents -> HelperStates]
  /\ lock \subseteq Dirs /\ raced \subseteq Dirs
  /\ crashed \subseteq Agents /\ unremoved \subseteq Agents
  /\ {a \in Agents : helper[a] = "serve"} \subseteq pipe
  /\ \A a \in pipe : helper[a] \in {"serve", "release", "remove"}
  /\ Cardinality(pipe) <= 1
  /\ cli \in [Agents -> ClientStates]
  /\ peer \in [Agents -> SUBSET Agents]

\* Unless two helpers raced between the check and the creation, a helper that
\* has created the lock file keeps it until it ends: the file is never taken away
\* by one that was refused the pipe (cmd/privhelper/main.go:57-76).
HolderHasLock ==
  \A a \in Agents : helper[a] \in Holding /\ dir[a] \notin raced => dir[a] \in lock

\* A lock file that nobody alive will remove, and which keeps every later helper
\* out for good, is there only after a crash or a removal that failed in its
\* directory: no end of main in order, no refusal and no race leaves one
\* (cmd/privhelper/main.go:57, 71).
StaleLockNeedsFailure ==
  \A d \in lock :
    \E a \in Agents : dir[a] = d /\ (helper[a] \in Holding \/ a \in crashed \cup unremoved)

\* An agent that has quit its own helper gets back from its wait, unless it exits,
\* or that helper stays in its last call to Excel, which is what may keep it at
\* any later moment as well; one that had dialled another's, or was not heard, may
\* wait for ever (entrypoint_windows.go:117-140, rpc_server.go:97).
OwnHelperEnds ==
  \A a \in Agents :
    (cli[a] = "wait" /\ peer[a] = {a}) ~> cli[a] \in {"returned", "failed"} \/ helper[a] = "release"
==============================================================================
