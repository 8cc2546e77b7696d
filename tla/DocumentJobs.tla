---------------------------- MODULE DocumentJobs ----------------------------
(***************************************************************************)
(* What the goroutines of accepted documents do to the rest of the helper: *)
(* each document has a waiter and an inner goroutine, which end in any     *)
(* order and may never end; a waiter whose timer fires clears the ready    *)
(* mark, rebuilds Excel and sets the mark; and either may crash the whole  *)
(* process.  Neither the lock nor Excel is in it.                          *)
(*                                                                         *)
(* ExcelWorker is shown to implement this, and RpcServer takes its steps   *)
(* for the jobs it starts and counts.                                      *)
(***************************************************************************)
CONSTANT Docs           \* the documents, one job each

VARIABLES
  waiter,      \* waiter[d]: where the waiter of d is
  inner,       \* inner[d]: where the inner goroutine of d is
  ready,       \* eWorkerSet
  crashed      \* a job has ended the process

jobs == <<waiter, inner, ready, crashed>>

WaiterStages == {"idle", "wait", "rebuild", "done"}
InnerStages == {"idle", "work", "done"}

\* The worker is set up and has no documents yet.
JobsInit ==
  /\ waiter = [d \in Docs |-> "idle"]
  /\ inner = [d \in Docs |-> "idle"]
  /\ ready = TRUE
  /\ crashed = FALSE

WaiterMoves(d, from, to) == waiter[d] = from /\ waiter' = [waiter EXCEPT ![d] = to]
InnerMoves(d, from, to) == inner[d] = from /\ inner' = [inner EXCEPT ![d] = to]

\* Both start, whether the mark is still set by now or not.
Spawn(d) ==
  /\ WaiterMoves(d, "idle", "wait") /\ InnerMoves(d, "idle", "work")
  /\ UNCHANGED <<ready, crashed>>

\* The waiter has its answer; the inner goroutine may be at work or gone.
Answer(d) ==
  /\ WaiterMoves(d, "wait", "done")
  /\ UNCHANGED <<inner, ready, crashed>>

\* The waiter's 180 seconds are over: nobody is admitted while it rebuilds,
\* unless another rebuild sets the mark.
TimeOut(d) ==
  /\ WaiterMoves(d, "wait", "rebuild") /\ ready' = FALSE
  /\ UNCHANGED <<inner, crashed>>

Rebuilt(d) ==
  /\ WaiterMoves(d, "rebuild", "done") /\ ready' = TRUE
  /\ UNCHANGED <<inner, crashed>>

InnerEnd(d) ==
  /\ InnerMoves(d, "work", "done")
  /\ UNCHANGED <<waiter, ready, crashed>>

\* A panic or a fatal error; the goroutine may be through with everything else.
Crash(d) ==
  /\ crashed' = TRUE /\ UNCHANGED ready
  /\ \/ waiter[d] = "rebuild" /\ waiter' \in {waiter, [waiter EXCEPT ![d] = "done"]} /\ UNCHANGED inner
     \/ inner[d] = "work" /\ inner' \in {inner, [inner EXCEPT ![d] = "done"]} /\ UNCHANGED waiter

JobNext(d) == Spawn(d) \/ Answer(d) \/ TimeOut(d) \/ Rebuilt(d) \/ InnerEnd(d) \/ Crash(d)

JobsNext == ~crashed /\ \E d \in Docs : JobNext(d)

JobsSpec == JobsInit /\ [][JobsNext]_jobs
==============================================================================
