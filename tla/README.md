# A TLA+ model of CRAMC

CRAMC (`src/gocode`) finds Excel documents that carry known macro viruses, cleans them through Excel's own
COM interface, and "hardens" the places where those viruses put themselves. It is Go, runs on Windows only (the
hardener and the sanitizer do not build elsewhere) and has no tests. This directory holds TLA+ modules of its
core, TLC configurations that check them on small instances, and theorems proved with TLAPS.

All paths below are relative to `src/gocode` unless they begin with `src/`.

## 1. Inventory

### Processes and goroutines

Two processes: the **agent** (`cmd/aioagent`) and the **privileged helper** (`cmd/privhelper`), which the agent starts.
They talk over one named pipe, in lines of JSON.

    agent:   main -> searcher(s) -> searcherOptChan -> consumer -> list of files
             main -> producer (YARA scanner, or parser of a result list) -> scanMatchedFiles
                     -> dispatcher -> SanitizeQueue (100)  -> sanitizer  --- pipe --> helper
                                   -> HardeningQueue (100) -> hardener   --- file system

    helper:  main (Start, Stop), accept loop
             per connection:  handler, monitor of r.quit, reader
             per document:    waiter (180 s), inner goroutine (Excel)

### Components

| component | source | state | operations | what makes it correct |
|---|---|---|---|---|
| agent orchestration | `cmd/aioagent/main.go` | what it is given, queues, shared `err`, WaitGroup | start-up; search phase; dispatch; start and join goroutines; exits | what is infected reaches the sanitizer; the queues agree and keep order; nobody waits for ever; a race on `err` harms no healthy run |
| file searchers | `fileutils/*` | the channel they share, the fallback flag | MFT search, walk, consumer | channels close once; the list is complete and exact; the search ends after any fallback |
| producer | `yarax_scanner/*` | none that lasts | detect, send detections, close the channel | every detection is sent before the close |
| sanitizer entry | `sanitizer_ole/entrypoint_windows.go` | helper process, client | start helper, connect, loop over the queue, quit, wait | each document reaches the helper; it returns when the helper ends |
| RPC client | `sanitizer_ole/rpc_client.go` | connection, scanner | Connect, Ping, SendSanitizeMessage, SendControlMessage, RequestTerminateAndDisconnect | a response is taken for the request it answers |
| RPC server | `sanitizer_ole/rpc_server.go` | listener, `quit`, WaitGroup, ready mark | Start, Stop, accept, handle, quit tokens | a stop reaches everybody, waits for documents, and ends |
| Excel worker | `sanitizer_ole/excelop_windows.go` | COM handles, mutex pointer, current workbook | open, configure, clean, save, Quit, Init | one document at a time; a rebuild leaves a usable Excel; answers are about the right document |
| backup, rename | `sanitizer_ole/filebak_windows.go` | the file, its `.gz.bak`, its `G-` name | gzBakFile, renameFileAndSave | the original survives; a document is in exactly one place |
| hardener | `hardener/*` | table of hardened types, file system | dispatch, four measures | measures are repeated only when allowed; what is replaced stays clean and read-only |
| helper process | `cmd/privhelper/main.go` | lock file, pipe | check, create, listen, remove | one helper; no stale lock |
| process and token helpers | `platform/windoge_utils/*` | none; Windows's sessions | kill Office, choose a session, take its token | whoever is logged on is found; helper and measures act for the same user |
| telemetry | `telemetry/*` | none that matters | a call over HTTP | it does not hold the program (it does: no time limit) |
| update check, decryption | `updchecker/*`, `cryptutils/*` | none | one answer each | a bad file or no network is an error, not a panic or a wait |
| logging, rule loader, COM constants, release tool | their directories | none that matters | sequential library use | (not modelled) |

### Where it is hard

* **The lock that is replaced.** `ExcelWorker.mu` is a pointer. A document that times out makes its waiter run
  `Quit(true)`, `Init`, `GetWorkbooks` *without* the lock, and `Init` installs a new mutex while others hold or wait for
  the old one (`excelop_windows.go:100`, `rpc_server.go:419-438`). Two timeouts can overlap.
* **`r.quit`, used as a channel to close and as one to send tokens into.** A token is taken by whichever goroutine
  receives first; a send on the closed channel panics (`rpc_server.go:293`, `312`, `294`).
* **A panic anywhere ends the helper**, and most `Must...` calls of go-ole panic; deferred calls of other goroutines do
  not run, among them the removal of the lock file (`cmd/privhelper/main.go:71`).
* **Time limits that disagree**: 180 s for a document, 15 s for Stop, 300 s that only log, three dials of 5 s.
* **Calls of an Excel that hangs.** The forced rebuild asks it to quit before it kills it (`excelop_windows.go:105`, `:108`), and
  `Start` asks it to quit, in a deferred call, between the end of `Stop` and the end of the process (`rpc_server.go:97`).
* **Ignored errors**: backup, save, close, rename, Init during a rebuild, the removal of the lock file, every hardening call.
* **Bounded queues without a reader** when the sanitizer has given up (`main.go:318`, `328`).
* **One `err` for several goroutines** in list mode (`main.go:266-271`, `395-399`).
* **HTTP without a time limit** in whichever goroutine has something to report (`telemetry/general.go:63`,
  `betterstack.go:57`), in the helper before it listens.
* **People who come and go** while two goroutines of a SYSTEM process ask who is logged on
  (`token_dgd_windows.go:91-140`), through a system call whose arguments are shifted by one (`:291`).

`PROJECT.json` lists each hazard at its line with the properties that watch it.

## 2. Modules

| module | models | extends or uses |
|---|---|---|
| `ExcelWorker` | worker, lock, rebuild, waiters | `RebuildGate`, `DocumentJobs` (refinements) |
| `RebuildGate` | the abstract promise of the lock: one seat, and one more per rebuild | |
| `DocumentJobs` | the abstract promise of the worker to the server: what its goroutines do outside it | |
| `ExcelWorkerProofs` | theorems about `ExcelWorker` | `ExcelWorker`, `FiniteSetTheorems`, `TLAPS` |
| `RpcServer` | the helper's server and arbitrary clients | `DocumentJobs` (its steps) |
| `RpcSession` | the agent's client composed with the server and the other clients | `RpcServer` |
| `RpcSessionProofs` | theorems about `RpcServer` and `RpcSession` | `RpcSession`, `SetInduction`, `FiniteSetTheorems`, `SequenceTheorems`, `TLAPS` |
| `AgentStart` | the agent from its start to the search; telemetry calls | |
| `FileSearch` | search phase, channel replacement | `AgentStart` |
| `Agent` | the whole agent: start, search, and everything from the first detection to the exit | `FileSearch`, `RequestStream` (refinement) |
| `RequestStream` | the abstract promise between detecting and acting: one stream of requests to two takers | |
| `AgentProofs` | theorems about `Agent` with its search | `Agent`, `SetInduction`, `SequenceTheorems`, `TLAPS` |
| `DocFiles` | what the helper does to files and VBA components | `CleanedFiles` (refinement) |
| `CleanedFiles` | the abstract promise about files: cleaned one after the other, moved once | |
| `DocFilesProofs` | theorems about `DocFiles` | `DocFiles`, `SetInduction`, `FiniteSetTheorems`, `SequenceTheorems` |
| `Hardener` | measures, once-per-type rule, the virus beside it | |
| `HardenerProofs` | theorems about `Hardener` | `Hardener`, `SequenceTheorems`, `TLAPS` |
| `HelperLock` | several agents and helpers: lock file and pipe | |
| `HelperLockProofs` | theorems about `HelperLock` | `HelperLock`, `FiniteSetTheorems`, `TLAPS` |
| `LogonSession` | for whom a SYSTEM process acts | |
| `LogonSessionProofs` | theorems about `LogonSession` | `LogonSession`, `SetInduction`, `FiniteSetTheorems`, `SequenceTheorems` |
| `SetInduction` | induction over the natural numbers, and over what `FlattenSeq` computes | `WellFoundedInduction`, `TLAPS` |
| `MC*` | small instances | the module of that name |

`AgentStart`, `FileSearch` and `Agent` are one specification in three parts, each with its own variables: the later ones add
actions to the earlier ones' and constrain nothing of theirs. `RpcServer` has no run of its own: `RpcSession` begins either with
the agent's client or, as if the agent were gone, with arbitrary clients on every connection (`cli = "gone"`), so that
its run is the server's too.

Conventions: a step that touches shared state twice with something in between is two actions; code between two
touches of shared state is one. A handler's local position is a state word. In-memory data the properties do
not tell apart (bytes of a message, COM arguments, log text) is left out. Time is left out: a timer may fire at
any moment at which it is armed, which covers every ratio between the limits above. Operators such as
`TimerNotArmed` beside `TimerMayFire` are slightly wrong variants of the one below them, used to see that a
property notices the mistake; no action uses them.

### ExcelWorker

State: `waiter[d]`, `inner[d]` (program counters of the two goroutines of document `d`), `want[d]` (the mutex it read
from `w.mu` and waits for), `errC[d]`, `mu` (number of the current mutex), `held` (locked mutexes), `app`, `wbs`, `book` (the COM
handles, numbered by the Excel instance they belong to), `released`, `alive`, `ready`, `fate`, `made` (how many
instances there were), `got` (below). History: `cleaned`, `overlapped`.

| action | code |
|---|---|
| `AdmitOrRefuse`, `WriteFails`, `Spawn` | the handler, `rpc_server.go:310-348` |
| `ReadMutex`, `Acquire`, `Unlock` | `ExcelWorker.Lock/Unlock`; reading the pointer and locking are two steps |
| `OpenTest`, `OpenCall`, `Configure` | `OpenWorkbook`; the handle is tested, then read again |
| `Clean` | `SanitizeWorkbook` and the answer it leads to |
| `SaveAndRename` | the deferred save, close and rename |
| `Answered`, `Timeout` | the waiter's select |
| `Reported`, `ClearMark` | telemetry has heard of an error or a timeout |
| `QuitCall`, `ReleaseApp`, `KillAndClear` | `Quit(true)` of the forced rebuild |
| `CreateExcel`, `AssignApp`, `StartupConfig`, `NewMutex` | `Init` |
| `BooksTest`, `FetchBooks`, `StoreBooks` | `GetWorkbooks`: the handle is tested, read again for the call, and the result stored |
| `MarkReady` | the end of the rebuild |

`got[d]` is what a waiter's call has returned and not stored yet: the other waiter's whole rebuild may come in
between, and then the workbooks of a killed Excel are stored over those of the new one. `overlapped` records that two
rebuilds were under way at once; `RebuildConverges` says what holds without that and what is left with it. `Calling`
are the places of a waiter in a call of Excel or of telemetry, which need not return.

A nil or released handle is a panic, or anything at all when the object is freed memory. `KillAndClear` kills any
subset of the running instances, because the errors of the kill are dropped.

### RpcServer and RpcSession

`main`, `accept`, `h[c]`, `mon[c]` are program counters; `wire[c]`, `resp[c]`, `eof[c]` the pipe; `wg` the WaitGroup's
counter; `quitClosed` whether `r.quit` is closed. `PassToken` is one action per possible receiver of a token
(`TokenToMain`, `TokenToMonitor`, `TokenToHandler`, `TokenToAccept`), because the channel is unbuffered. The reader
goroutine is folded into the wire: `ReaderStops` says what it may drop. `waiter[d]` and `inner[d]` are the two
goroutines of an accepted document; they take the steps of `DocumentJobs` (`JobReturns`, `JobTimesOut`, `JobCrashes`),
which is all the server sees of the Excel worker and which `ExcelWorker` is proved to implement. Either may end first.
When `Stop` has returned (`drained` or `abandoned`) main is still in `QuitExcel`, the deferred `Quit(false)`, and
everybody else runs on; the process ends only when Excel has answered, or by a nil panic beside a rebuild. Both
goroutines of a document are counted in `Enqueue`: the waiter calls the second `wg.Add` as the first thing it does.

`RpcSession` puts the one real client on one of the connections; `Others` belong to arbitrary clients, for the pipe's
name is fixed and anybody may dial it. `PingRead` is the read inside `SendControlMessage`, `PongRead` the second read
in `Ping`; `QuitRead` has the same pair. The places in `Reporting` are telemetry calls for the client's own errors,
which may never return. A document of another client that is refused while the ready mark is down sends its token to
whoever listens, the agent's own handler and the accept loop included: `refusers` records it, and `SanitizerReturns`
excepts it, because nobody may close the agent's connection then. Its other exceptions are the helper in its last call
to Excel and the client in `Reporting`.

### AgentStart, FileSearch, Agent

`input` is everything the agent is given: flags, privileges, the volume (where each file is, whether it is on the
local disk, which rules match in it) or the lines of a list. `main` is where main is. `http` is the set of goroutines
that are in a telemetry call; none of them takes another step before `HttpReturns`, which is not fair.

| action | code |
|---|---|
| `CheckArguments`, `ReadDatabase`, `GiveUp`, `CheckUpdate`, `CheckPrivileges` | `main.go:70-156`, with `XChacha20Decrypt`, `CheckUpdateFromInternet`, `CheckProcessElevated` |
| `StartBoosted` ... `JoinGeneral` | the two rounds of searching, `main.go:182-261` |
| `BoostedFails`, `BeginSearch`, `Report`, `SearchEnds` | the two searchers |
| `BeginConsuming`, `Check`, `ConsumingEnds` | `searchConsumer` |
| `HandOver`, `StartProducer`, `MainReturns` | the goroutines start, and are joined |
| `Deliver` | the rendezvous on the unbuffered `scanMatchedFiles` |
| `SendSanitize`, `SendHarden`, `DispatcherReturns` | the dispatcher |
| `Sanitizer...`, `Hardener...`, `Producer...` | the goroutines of those names |

Channels are numbered, and consumer and searcher read the variable when they start to run. `beside` are the files
whose path merely begins with the action path; `exactCase` says whether the path is spelt as the volume spells it: the
boosted search compares strings. The properties take the flag's own words for what is to be found, `ToBeScanned`, the
local files below the path, and name what the code adds or loses (`MayTakeBeside`, `MayMissAll`, `input.denied`).
`Scanned` and `Parsed` are the detections of a list of files or of a result list. `err` is the interface value of Go:
a type word and a data word, written in two steps, so that torn values can be seen. What `StartSanitizer` does with
one document is one step (`HelperAnswers`) without fairness, because it may block for ever (section 3, `rpc_ping`).

### DocFiles

A document is the sequence of its VBA components, each with a name and whether it is bad. What is at a name is the set of
its contents, of one project or none; a backup that was only begun restores nothing. `Sanitized` is what
`SanitizeWorkbook` may end with: the loop of `Turns(c)` turns, whose bound is counted before `rm_module` removes anything, an
error, or a panic at any turn. A `Save` that fails leaves the file as it was and is recorded in `unsaved`, for nothing in the code
is. `Crash` may come between any two steps. The lock is a real one here: what becomes of it
in a rebuild is in `ExcelWorker`.

### Hardener

`Calls(m)` is the list of system calls of a measure, exactly as written, the two with exchanged arguments included.
Each call succeeds (`Succeeds`) or fails, perhaps half way (`Fails`). The one call that is none of the file system's
is the report of a measure nobody knows (`Reported`), which may never return. `Infect` is the virus, at any moment,
wherever Windows lets it. File modes are those of Windows: only the read-only attribute matters, and it does not
protect what is in a directory.

### HelperLock

Program counters of helpers and of their agents, the directories with a lock file, the owner of the pipe. An agent may
be connected to another run's helper. Behind `Stop` a helper is in `release`, its last call to Excel, before it
removes the lock file, and the removal may fail, which nobody hears of (`unremoved`). A signal stops it as a quit does
(`Signalled`). `raced` records that two helpers were between check and creation at once. A helper is "starting" while
its telemetry runs; `AgentExits` is the agent's exit under its own sanitizer, which leaves the helper running.

### LogonSession

`order` and `state` are Windows's sessions, `todo[c]` the copy of the list that caller `c` walks through,
`selected[c]` and `served[c]` what comes of it. The callers are the sanitizer, which asks once, and the hardener,
which asks for every measure. `HasName` is `wtsQuerySessionInformation` as compiled: `syscall.SyscallN` counts its
arguments itself, so the `5` handed to it is the first of them (`:291`), the session asked about is 0 and the buffer
is at address 5. The name stays empty, or the process ends in the call. `Change` is anybody logging on, leaving or
coming back, at any moment.

## 3. Runs

| run | instance | distinct states | shows |
|---|---|---|---|
| `excel_worker` | 2 documents | 1,399,096 | locks are conserved through rebuilds; exclusive until the first; no leftover workbook; rebuilds converge; the gate and the jobs are refined; a waiter is kept for ever only by a call of Excel or of telemetry |
| `rpc_session` | 2 connections, 2 documents, queues of 0 to 2 | 856,492 | a graceful stop has drained everything; a panic needs a race; a stop tells everybody; no handler is stuck after the close; `Stop` returns; nothing is sanitized; the client returns, unless a telemetry call, the helper's last call to Excel or another's refused document keeps it |
| `agent` | capacity 2; every volume of 2 files, every list of 0 to 2 lines; rules with 0, 1 and 2 solutions | 683,499 | channels close once; the file list is what the path asks for but for three named causes; the request stream is refined; the race on `err` needs a failure; what is infected is handed over, in a dry run too; the `//deadlock` send completes; the agent ends or is wedged in one of three named ways |
| `doc_files` | 2 paths, 4 projects, 3 solutions, 0 to 2 requests | 4,192,076 | originals survive; a document cleaned without error and saved is clean on the disk and stays so; the promise about files is refined: no cleaning is lost, renamed is final |
| `hardener` | 3 paths, all sequences of 3 out of 4 requests | 34,436 | replaced paths stay clean; repeats only when allowed; the queue drains unless a report is never answered |
| `helper_lock` | 2 agents, 2 directories | 34,996 | a holder keeps its lock; a stale lock needs a crash or a failed removal; an agent gets back from its own helper, unless that waits for Excel |
| `logon_session` | 3 sessions in every order and state, 2 measures, 2 changes | 960,384 | the first active session is chosen; helper and measures differ in their user only if a session changed meanwhile |
| `excel_unlock` | as `excel_worker` | violated | `Unlock` may meet a mutex nobody locked: fatal error |
| `rpc_ping` | as `rpc_session` | violated | a ping does not return |
| `doc_backup` | as `doc_files` | violated | a document is remediated without a backup (`src/README.md:23`) |
| `logon_disconnected` | as `logon_session` | violated | a disconnected user is not found |
| `hardener_ro` | as `hardener` | violated | what is replaced is not read-only |

### The five that fail

* **`UnlockFindsItsLock`.** A document locks mutex 0, hangs, times out; its own waiter rebuilds Excel and installs mutex 1;
  the hung call returns and the deferred `Unlock` unlocks mutex 1, which is not locked. Go ends the process.
* **`PingReturns`.** `SendControlMessage` reads the one `pong`; `Ping` reads again and waits. As the code stands the first
  document already blocks the agent, and `NothingIsSanitized` shows that none is ever cleaned. The other modules describe what
  the helper does with documents once they reach it, whoever sends them.
* **`BackedUpBeforeRemediation`.** An error of `gzBakFile` is logged and the clean-up goes on.
* **`DisconnectedIsFound`.** One disconnected session, one caller: the name query asks a server that does not exist,
  the session is passed over, and the caller gets an error although somebody is logged on. It has one good side: what
  is left, "the first active session", is what the comment at `token_dgd_windows.go:74` asks for, while the loop as
  written would prefer a disconnected session listed before an active one. (The comments at `:73` and `:99` speak of
  the console's session before a remote one; the code makes no such difference and takes the first active one in the
  list's order, and that is what `FirstActiveIsChosen` says.)
* **`ReplacedIsReadOnly`.** `f_harden_SetRO(filep, "dir")` passes path and type exchanged. The shipped database follows the
  measure with `setRO` on the whole directory, which happens to repair it.

### Disagreements without a run of their own

Five findings need none, for a passing property already says what the code does, and names the fault as an exception:

* `main.go:41` and `:125` promise that a dry run takes no action on files; `InfectedAreSent` holds of dry runs as of others.
* `rpc_server.go:433-436` drops the errors of a rebuild "as it's already built correctly before". `RebuildConverges`
  has to except a missing application, and the workbooks handle once rebuilds overlapped.
* `main.go:40` asks for the files in a path; the boosted search (`filesearcher_booster_windows.go:161`) takes siblings
  whose names begin alike, and nothing when the path is spelt in another letter case. `ListIsExact` and
  `InfectedAreSent` except `MayTakeBeside` and `MayMissAll`; without the exceptions TLC refutes both.
* `parse_iptlist.go:25` asks for at least two bytes behind the blank, the test below it for three. `InfectedAreSent`
  asks for two and excepts names of exactly two.
* `rpc_server.go:393` logs "Workbook Sanitized" of a document whose `Save` failed. `ReportedOkIsClean` excepts it.

### Bounds, and why they are enough

* Two documents give every pair of positions: one inside and one waiting, two overlapping rebuilds, a rebuild under the
  other's open workbook. The theorems of section 5 hold for any number.
* Two connections give a token somebody else to go to, one of them the agent's. `MaxSent` = 2 messages give two
  arbitrary clients two quits, or a quit and a document, or a quit and a refusal; beside the agent the other client
  sends `MaxBeside` = 1. Clients of arbitrary connections are alike, so they dial in order (`InOrder`), and a client
  sends the next unused document (`NextDoc`): other choices rename states.
* `Cap` = 2 and rules with two solutions fill both queues with the second detection and leave a third to block. Two files are
  searched by both searchers in every order, under, denied or beside, on the disk or not; a second file that is not on
  the disk is otherwise like the first. Lists of two lines have every mixture of lines long enough, too short and without a rule.
  Runs without hardening are the dry runs, for nothing but the hardener looks at the flag.
* Three sessions are the services' and two people's. Two changes let one of them leave and come back, or both move.
* Two requests in `DocFiles` are two documents, or two detections of one. Projects have the wanted component first, last or
  absent, clean or bad, or no components at all.
* Three requests in `Hardener` are a first, a repeat, and one in between that undoes a path.
* `MaxSent`, `MaxBeside`, `MaxReqs`, `MaxMeasures`, `MaxChanges` are the only artificial bounds; each cuts off only
  longer runs of the same kind.

Deadlock checking is off in every run: each of these programs ends, and the ends are the final states. That
they are reached only in the intended ways is what the liveness properties and `EndsOrWedged` say.

### Fairness, and why the code justifies it

Go schedules every runnable goroutine, so each goroutine's own steps are weakly fair. No call of Excel and no call of telemetry is
assumed to return: neither has a time limit in the code. In `Agent` and in the server one condition on all fair goroutines
together is enough, and weaker: none of them loops for ever, so that whoever can run runs at last. Not fair, because the
code does not bound them, are:

* in `ExcelWorker` the inner goroutine of a document (a COM call may hang) and the waiter's steps in `Calling`. The
  waiter is fair elsewhere, its timer included; a rebuild asks the hung Excel to quit before it kills it, so that a
  waiter need not end, and `WaiterEnds` says that nothing but such a call keeps it;
* in `RpcServer` jobs and clients, `Setup` and `QuitExcel`. Fair (`GoesOn`) are `StopNext`, with its 15 s timer, the
  accept loop, handlers and monitors;
* in `RpcSession` the client at the places of `Reporting`;
* in `Agent` the helper's answers and every telemetry call;
* in `HelperLock` the telemetry of a starting helper, the session of a client, and `Released`, the last call to Excel.
  `Drained` is fair by the 15 s bound of `Stop`;
* in `Hardener` the report of an unknown measure. Calls of the local file system return;
* signals, crashes, the virus, and the start of an agent.

`LogonSession` has no liveness property and no fairness.

## 4. Abstract specifications

Four small modules say what a component promises to those around it. The detailed component is checked to implement
each (the `...Refinement` properties), and proved to (section 5).

`RebuildGate` is what the worker's lock really promises: a room with one seat, and one seat more for each rebuild. The
mapping is `inside <- Inside` (documents between Lock and Unlock) and `seats <- mu + 1`. A plain mutual-exclusion lock
would be refuted; a weaker promise, such as "any number inside", would miss that locks are conserved.

`DocumentJobs` is what the worker does outside itself: for every document two goroutines that end in any order or
never, a ready mark that is cleared only by a timer and set only at the end of a rebuild, and crashes. `ExcelWorker`
implements it (`WaiterStage`, `InnerStage` fold its program counters into the stages), and `RpcServer` takes its
steps, so that the two detailed modules agree on what is between them without being composed. Liveness is not
promised: neither goroutine need end.

`CleanedFiles` is what the helper promises about files: what is at a document's first name changes only by a cleaning
*of what is there*, until it is moved, as it is, to the second name, where it stays. The mapping is `first <- file`,
`second <- gfile`, and `Cleanings(c)` is what the loop of `SanitizeWorkbook` can make of `c`. The difficult word is
*there*: the code cleans a copy in Excel's memory and saves it over the file later, and without the lock a second
request for the same document could save what it had opened before the first one's clean. That a document is at one
name at a time (`OneCopy`) and final once renamed (`RenamedIsFinal`) follow from it. It does not say that a cleaned
document is clean: that is `ReportedOkIsClean`, and is not true of every cleaning, nor of a document whose save
failed. Nor does it hold behind a timeout: `DocFiles` has no timers, and its lock is never replaced. How far that
carries is in `ExcelWorker`: to the first rebuild (`ExclusiveUntilRebuild`).

`RequestStream` is what the agent promises between detecting and acting: a set of requests to be sent, sent in order
to the sanitizer and, if there is a hardener, the same one to it before the next; both queues closed when nothing is
left. The mapping gives it `wanted <- Wanted`, the requests of everything detected (or, once a list has failed, of
what its parser had produced) that were not yet sent. A stream that never fails would be refuted by a broken list, one
that may drop a request at any time would miss a dispatcher that skips a solution. `QueuesAgree` is what this means at
the moments when the dispatcher waits for its next detection.

## 5. What is proved

`ExcelWorkerProofs`, for every finite set `Docs` (assumption `DocsAssumption`), of `Spec`, without fairness:

| theorem | says |
|---|---|
| `TypeInvariance`, `TypeCorrect` | types, and at most one answer per document |
| `LocksAreConserved` | as many documents inside as locked mutexes |
| `WorkerImplementsGate` | every step is a step of `RebuildGate` or a stutter |
| `NoLeftoverWorkbook` | a current workbook's opener is still inside, or panicking |
| `FirstLockIsExclusive` | before a rebuild the lock excludes and answers are true |
| `RebuildsConverge` | after all rebuilds the worker is ready, its Excel, if any, lives, and the workbooks are its own unless rebuilds overlapped |
| `WorkerImplementsJobs` | every step is a step of `DocumentJobs` or a stutter |

The argument. `TypeOK` alone is not inductive: that `errC` never holds two answers needs to know that it is empty
until the answer is due (`AnswerOnce`), and that `held` stays within `0..mu` needs that nobody waits for a mutex that
does not exist yet (`WantExists`); together they are `TypeInv`. `LockConservation` is then inductive relative to
`TypeInv`: `Acquire` adds one to both sides because the mutex was free, `Unlock` takes one from both because `mu` was
in `held`, and a rebuild changes neither. The gate's `Enter` needs `Cardinality(held) <= mu` before an `Acquire`,
which follows from `held` being within `0..mu` and one of its members being free (`FreeSeat`). `BookBelongsInside`
needs `PanicUnwinds`: a document that panics is on its way out or the process has ended. `ExclusiveUntilRebuild` needs
that an "ok" is sent only after a clean of the document's own workbook while `mu = 0` (`OkIsCleaned`).
`RebuildConverges` is strengthened to `RebuildInv`. Two of its parts hold however rebuilds overlap: while the
application is released or dead, or the mark is cleared, some waiter is at a stage that still clears it, dies of it or
sets it (`DeadIsCleared`, `UnreadyIsRebuilt`), and it is the last to pass that stage. The others are about a rebuild
that is alone (`OneRebuild`): what it has fetched is of the current application (`FetchedIsCurrent`), so that the two
handles agree or the workbooks are still to be fetched (`HandlesAgree`). With two they need not. For
`WorkerImplementsJobs` each action is one step of `DocumentJobs` or leaves its four variables alone; a panic may be in
the goroutine's last step, so that the crash finds it at its stage or behind it.

`HelperLockProofs`, for any sets of agents and directories, of `Spec`:

| theorem | says |
|---|---|
| `TypeInvariance`, `TypeCorrect` | types, and one listener on the pipe at most |
| `HoldersKeepTheLock` | in a directory without a race, a helper that holds the lock file finds it there until it removes it |
| `StaleLocksNeedAFailure` | a lock file that is nobody's was left by a helper that crashed or could not remove it |

The argument. `TypeInv` says of the pipe that any two of its owners are the same, which needs no cardinalities, and
that it is owned by whoever serves; `SmallSet` leads from there to `TypeOK`. `HolderHasLock` is not inductive: a
second helper behind the check of the same directory would remove the first one's file. `OneBehind` says that there is
none unless the directory is in `raced`: a helper that passes the check while another is about to create the file
leaves that record, and while another holds the file it does not pass, by `HolderHasLock` itself, so that the two are
proved together (`LockInv`). `StaleLockNeedsFailure` is inductive relative to `TypeInv`: whoever leaves `Holding` has removed
the file of its directory, has crashed, or is in `unremoved`.

`DocFilesProofs`, for any documents, projects, solutions and number of requests:

| theorem | says |
|---|---|
| `TypeInvariance` | types of what is not made of components; one goroutine at a time behind the lock |
| `AtOneName` | every document is at exactly one of its two names |
| `RenamedStays` | a renamed document is never touched again |
| `OriginalsSurvive` | the original survives, unless a step of its backup failed or it was detected twice |
| `DocFilesTypes` | all types, the outcomes of a clean among them |
| `ReportedIsClean` | a document sanitized without error and saved does not hold the virus, on the disk, in the module its solution names |
| `FilesAreCleanedInTurn` | every step is a step of `CleanedFiles` or a stutter |

The argument. `OneCopy` needs `AtFirstName`: while a goroutine has a document open, the document is at its first name,
so that a save does not make a second copy and a rename finds a free name; no other goroutine can interfere, because
whoever is there has the lock (`TypeInv`). `RenamedIsFinal` follows from the same invariant. `OriginalSurvives` needs
`SurvivalInv`, which follows one document through its backup: it is unchanged until its goroutine is started, what the
handler has opened is the original, and behind the handler the backup holds it; that the document is detected once
keeps every other request away from the three. For these it does not matter what `SanitizeWorkbook` computes.

It does for `ReportedIsClean`, which is about a loop that removes modules while it counts up to a bound taken before.
`Visited` says what the first turns leave: with `remediate`, as many modules as before and none of the wanted name
infected among the visited; with `rm_module`, either nothing was removed and none of the visited has the name, or the
module removed was the last, or there are fewer modules than turns and the loop will panic, which is no nil. `OneTurn`
is one turn, `AfterTurnsVisited` all of them, by induction; several modules of one name, which TLC's projects do not
have, are included. `CleanInv` carries the result from the loop to the goroutine's memory and its answer. From there to the
disk it takes `MemoryInv`, that what is saved is a cleaning of what is there, and, for every later request that saves
something else over it or moves it, that no cleaning brings a virus into a module that had none (`NoWorse`,
`CleaningStaysClean`); `DiskInv` has all of it. The
assumption `DocFilesAssumption` says only that a project is a sequence of modules, each with a name and whether it is
bad.

`FilesAreCleanedInTurn` needs `MemoryInv`: what a goroutine has opened is still what is at the document's name, and
what it is about to save is a cleaning of what is there. Both survive the steps of other requests because a goroutine
that has something in memory has the lock, and only who has the lock changes a file (`TypeInv`); a backup changes
neither name.

`HardenerProofs`, for any paths and any sequences of requests, of which `HardenerAssumption` says that no path is the
word `file` or `dir`:

| theorem | says |
|---|---|
| `HardenerInvariance`, `HardenerTypes` | the inductive invariant, and types: a type is marked exactly when its measures were started |
| `SecuredStaysClean` | what was replaced by a directory stays without the virus |
| `OnlyAllowedRepeats` | measures are repeated only when a request allows it, never in a dry run |

The argument. A secured path stays clean because it is a directory (`FilesInv`): every call that writes a file, and
the virus, needs a path that is none, and only a `RemoveAll` takes a directory away (`CallAlters`, `CallKeepsFiles`),
which ends the claim. That it is one in the first place needs `CallsInv`: when the last call of the measure has
succeeded, that call was the `MkdirAll`. This is where the exchanged arguments of `f_harden_SetRO` come in: a path is
no type, so nothing follows the `MkdirAll` (`ReplaceCalls`). Repetitions need that a type whose measures were started
is marked (`RequestInv`).

`RpcSessionProofs`, for any finite set of connections and documents and any number of messages. The theorems about
`Spec` are about the server with arbitrary clients, those about `SessionSpec` about the composition with the agent's
client:

| theorem | says |
|---|---|
| `ServerInvariant`, `SessionInvariant`, `SessionTypes` | the inductive invariants, and types |
| `ServerDrains`, `SessionDrains` | a graceful `Stop` leaves no goroutine behind, from its return on |
| `ServerPanicNeedsRace`, `SessionPanicNeedsRace` | a send on the closed channel needs two who quit, a refusal or a signal |
| `ServerStopTells`, `SessionStopTells` | who waits in Stop has closed the channel, or a handler will, unless a document was refused |
| `WaitGroupIsExact` | the WaitGroup is the number of goroutines it is there to count |
| `WaitGroupStaysDown` | once it is zero nothing is added: no `Add` races the `Wait` |
| `SessionSanitizesNothing` | none of the agent's documents is ever sent |

The argument. A graceful `Stop` returns with the WaitGroup at zero, where it stays while Excel is asked to quit
(`Waited`), so `GracefulStopDrains` is about counting: `Counted` says that the counter is the accept loop, the
handlers, the waiters and the inner goroutines together. Each action changes one of the four by one, or adds two for a
document, and the counter with it (`OneFewer`, `OneMore`); the same fact keeps the counter from going below zero,
which a type needs. It is an equality, and so also says the converse: a counter above zero has somebody at work
(`WaitGroupIsExact`); and as only the counted add to it, a counter at zero stays there (`WaitGroupStaysDown`), which
is the rule of `sync.WaitGroup` about an `Add` beside a `Wait`. A connection the accept loop has in hand is not
counted yet: `OneDialled` says that there is no more than that one, and none once the loop has returned. The quit
channel needs `AfterQuit`: without a refusal, the handler of a quit request is at its token, at the close after it, or
behind it; so a closed channel met by a sender means another one who quit. `StoppedByToken` says that without refusal
and signal only a quit token that was taken stops main. For the composition, `PipeCount` says how many messages and
responses may be in the pipe when the client is at each of its reads; the steps of the others only answer, drop or
lose what is there (`ConnMoves`). In `pongRead`, the second read of `Ping`, the pipe is empty and stays so: nothing
comes behind it but the pipe's end. That the client has a connection at all, the lowest number, is `LeastMember`.

`AgentProofs`, for every volume, result list, set of rules and solutions, and capacity of the queues, of `Spec`:

| theorem | says |
|---|---|
| `AgentInvariant`, `AgentTypes` | the inductive invariant, and types |
| `ChannelsCloseOnce` | no channel is closed twice or used when closed |
| `SearchFindsExactly` | the list has the local files below the path, once, and no others, but for the named causes |
| `QueuesAlwaysAgree` | both queues carry the same requests, in order |
| `AgentImplementsStream` | every step is a step of `RequestStream` or a stutter |
| `ErrRace` | a panic or a foreign exit needs list mode and a failure |
| `InfectedAlwaysSent` | from the files on disk to the sanitizer, nothing that is infected is lost, and nothing else is sent, but for the named causes |

The argument. `AgentInv` has two halves. `SearchInv`: `Rounds` ties searcher, consumer, channel number and `fallback`
to where main is (without it a walk could report into the first channel); `Closing` says the searcher that will close
has an open channel; `ListInv` is the conservation of files: the list is what was delivered and is local, without the
one in the consumer's hand. `PipeInv`: `Dispatched` gives, for every place of the dispatcher, the exact set of
requests sent (`Sent`), in increasing order, and that the second queue is the first one or one behind it; `Returning`
says what a return implies for what is behind it: who closed, what is empty; `ErrInv` whose error the two words of
`err` may hold when nobody else writes them; `FoundInv` that the detections are those of what was found.
`InfectedAlwaysSent` puts them together. `AgentImplementsStream` needs little more: `StreamInv`, that nothing is found
before the dispatcher starts, that a list fails only when it is parsed, and that both queues are closed together; and,
from `Dispatched`, that the request sent next is the least of those wanted (`ItemIsLeast`). What is detected in a list
of files is a `FlattenSeq`, a recursive function, whose members are those of its parts by induction
(`FlattenProperties`, from `FlattenRecursion`).

`LogonSessionProofs`, for any sessions, order, measures and changes, of `Spec`:

| theorem | says |
|---|---|
| `LogonInvariant`, `LogonTypes` | the inductive invariant, and types |
| `FirstIsChosen` | the first active session is chosen by whoever's list is how things are |
| `OneUser` | helper and measures serve one user unless a session changed |

The argument. A caller's list is a copy of Windows's, shorter by the sessions that are gone and by what was passed
over. `Covers` says, with positions as witnesses, that it still has every active session in order; a step of the loop
passes an entry only when its position is of no active one, and what it selects at the head is therefore the first. A
change makes every list that is out `outdated` and the claim void for it, until its caller asks anew. That a fresh
list covers is again an induction over `FlattenSeq` (`ListedInOrder`).

### What the proofs stand on

Induction is said with sets (`SetInduction!InductiveSet`: a set with 0 and every successor has all of Nat), derived
from the library's well-foundedness of `<`; no theorem with an operator for a parameter is used. The recursive
functions of the models (`FlattenSeq`, `AfterTurns`) are shown to have the values of their definitions by it, and what
they compute by a second such induction.

The assumptions on constants are each named in the module that declares the constants, and TLC evaluates them in the
run: `DocsAssumption`, `ServerAssumption` and `SessionAssumption` (finite sets, bounds that are numbers, one
connection at least, for the client has one), `StartAssumption`, `SearchAssumption`, `AgentAssumption` (what a volume,
a list and a database are; `None` is neither a file nor a rule; a queue has a place), `DocFilesAssumption`,
`HardenerAssumption`, and that the sessions of services are sessions. That `None` is no file had to be said for the
search: a file of that name in the consumer's hand would be taken for an empty hand.

The proofs also found a slip in the model: in `SearchTypeOK` the type of `source` had become part of an equivalence
written behind it on one line, so that TLC checked less than was meant. It is corrected, and the run still passes. And
the attempt to prove that the worker does what the server takes for granted failed for a good reason: the server's
jobs had been one state word, whose inner goroutine could end only after its waiter, while in the code
(`rpc_server.go:404-418`) it may unlock and return before the waiter has received the answer. The jobs are now those
of `DocumentJobs`, which the worker does implement; the properties of the server hold of them as before, over more
states.

### What is only model-checked

* Liveness, which the prover does not reach: `WaiterEnds`, `StopCompletes`, `SanitizerReturns`, `HardenSendCompletes`,
  `EndsOrWedged`, `QueueDrains`, `OwnHelperEnds`.
* `HandlersNeverBlock`, which uses ENABLED.

Three properties are stated by theorems but no longer checked by runs of their own, because the refinements say more:
`OneCopy`, `RenamedIsFinal` and `QueuesAgree`.

Every other property of a passing run is stated by a theorem, for `Spec` without its fairness, and so for `FairSpec`
too. The properties of the five runs that fail are refuted, and stay with TLC.

## 6. Not modelled

* Logging, the merging and compiling of rules (`yara_rule.go`, called by nothing but the release tool), the release
  tool itself with `XChacha20Encrypt`, and the COM constants of `apicall_specific_windows.go`, whose one function is
  never called: sequential, or no behaviour at all.
* What telemetry and the update checker say; that they may not return, or what they answer, is in `AgentStart`.
* `PrepareForTokenImpersonation` and the registry cache switch, which are never called, and the privileges adjusted for a token,
  whose errors are only logged.
* A `G-` copy left by an earlier run, which `os.Rename` replaces silently.
* An Excel that crashes by itself, other than under a call of the program or the kill, and a `Close` that fails
  (`excelop_windows.go:200`) and leaves the workbook open, so that the next open of the same path sees what is in
  memory rather than the disk.
* NTFS and YARA themselves, and the meaning of VBA code.

## 7. Plan

Done: `ExcelWorker` with its gate and its jobs; server and session in one run; the whole agent with its stream of
requests; document files with their promise; hardener; helper lock; sessions of users; proofs of every safety property
of the runs but `HandlersNeverBlock`, the four refinements among them.

Left, and why:

1. An abstract specification of a session, a request and response protocol, refined by `RpcSession`. As the code
   stands its client never gets past its first ping (`NothingIsSanitized`), so that the refinement would say little
   before that is repaired.
2. What `HandlersNeverBlock` says without ENABLED: for every place of a handler the guard of one of its actions, as an
   invariant that can be proved. Most of it is the case distinction itself; the part that needs an invariant,
   `BackupReads`, is proved.
3. Lemmas about `Scanned` and `Parsed` beyond their members: that the order of detections is the order of files and of rules.
4. Liveness, should the prover come to reach it.
