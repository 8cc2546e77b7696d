------------------------------ MODULE RpcServer ------------------------------
(***************************************************************************)
(* The RPC server of the privileged helper (sanitizer_ole/rpc_server.go):  *)
(* the main goroutine (Start, Stop), the accept loop, and for every        *)
(* connection a handler, the goroutine that monitors r.quit for it, and    *)
(* the reader, which is folded into the wire it reads.                     *)
(*                                                                         *)
(* r.quit is an UNBUFFERED channel used in two ways: it is closed once, to *)
(* tell everybody, and a handler also sends one token into it, which the   *)
(* first goroutine that happens to receive takes, whoever that is.  A send *)
(* on the closed channel panics.                                           *)
(*                                                                         *)
(* Abstracted: the bytes of a message (a message is its kind, a sanitize   *)
(* request is its document), and the Excel worker: its jobs take the steps *)
(* of DocumentJobs, which ExcelWorker implements.                          *)
(***************************************************************************)
EXTENDS Naturals, FiniteSets, Sequences

CONSTANTS
  Conns,        \* the connections that clients may open, numbers
  Docs,         \* the documents of sanitize requests
  ClientKinds,  \* the kinds of other messages that clients send
  MaxSent       \* bound: the messages that clients send in all

\* "bad" is dropped before it is handled (empty, no JSON, no client id), and
\* "malformed" reaches handleMessage but is neither control nor sanitize data.
Kinds == {"bad", "malformed", "ping", "disconn", "unknown", "quit"}

ASSUME ServerAssumption ==
  /\ IsFiniteSet(Conns) /\ Conns \subseteq Nat /\ IsFiniteSet(Docs)
  /\ Docs \cap Kinds = {} /\ ClientKinds \subseteq Kinds
  /\ MaxSent \in Nat

VARIABLES
  main,         \* where the main goroutine is: Start, then Stop
  signalled,    \* a signal has arrived in sigChan
  listening,    \* the pipe listener is open
  quitClosed,   \* r.quit is closed
  accept,       \* where the accept loop is
  h,            \* h[c]: where the handler of connection c is
  mon,          \* mon[c]: the goroutine that waits for r.quit on c's behalf
  wire,         \* wire[c]: what the client of c wrote and the handler has not taken
  eof,          \* eof[c]: nothing more will be read from c
  resp,         \* resp[c]: the responses written to c and not read yet
  sent,         \* how many messages clients have sent
  wg,           \* the WaitGroup's counter
  ready,        \* eWorkerSet
  waiter,       \* waiter[d]: the goroutine that waits for document d (DocumentJobs)
  inner,        \* inner[d]: the goroutine that cleans it
  quitters,     \* history: the connections that handled a quit request
  refusers,     \* history: those that refused a document and sent a token
  fate          \* "up", or how the process ended

mainVars == <<main, signalled, listening>>
connVars == <<h, mon, wire, eof, resp>>
jobVars == <<ready, waiter, inner>>
history == <<quitters, refusers>>
vars == <<mainVars, quitClosed, accept, connVars, sent, wg, jobVars, history, fate>>

\* Stop waits, and has returned: everybody has ended, or the timer has fired.
Stopped == {"drained", "abandoned"}
Stopping == {"wait"} \cup Stopped
MainStates == {"setup", "startFailed", "select", "close", "quitsel"} \cup Stopping
AcceptStates == {"off", "accept", "got", "gone"}
HandlerStates == {"none", "dialled", "select", "quitSend", "quitClose", "refuseSend",
                  "backup", "after", "gone"}
Fates == {"up", "setupFailed", "graceful", "timedOut", "nilExcel", "sendOnClosed", "worker"}
Responses == {"pong", "ack", "invalid", "enqueued"}

Jobs == INSTANCE DocumentJobs WITH crashed <- fate = "worker"

Sending == {"quitSend", "refuseSend"}
Live == HandlerStates \ {"none", "dialled", "gone"}

\* NewRPCServer: the listener is open, nothing is accepted yet.
Init ==
  /\ main = "setup" /\ signalled = FALSE /\ listening = TRUE
  /\ quitClosed = FALSE
  /\ accept = "off"
  /\ h = [c \in Conns |-> "none"]
  /\ mon = [c \in Conns |-> "none"]
  /\ wire = [c \in Conns |-> <<>>]
  /\ eof = [c \in Conns |-> FALSE]
  /\ resp = [c \in Conns |-> <<>>]
  /\ sent = 0
  /\ wg = 0
  /\ ready = FALSE
  /\ waiter = [d \in Docs |-> "idle"]
  /\ inner = [d \in Docs |-> "idle"]
  /\ quitters = {} /\ refusers = {}
  /\ fate = "up"

-----------------------------------------------------------------------------
(* Start and Stop. *)

\* The registry, COM and Excel: any of them may fail, and then Start returns and
\* the process ends; a failure in GetWorkbooks comes after Quit was deferred.
Setup ==
  /\ main = "setup"
  /\ \/ /\ main' = "select" /\ accept' = "accept" /\ wg' = wg + 1 /\ ready' = TRUE
        /\ UNCHANGED fate
     \/ fate' = "setupFailed" /\ UNCHANGED <<main, accept, wg, ready>>
     \/ main' = "startFailed" /\ UNCHANGED <<fate, accept, wg, ready>>
  /\ UNCHANGED <<signalled, listening, quitClosed, connVars, sent, waiter, inner, history>>

\* The select of Start; the third way out of it is a token (PassToken).
StartSelect ==
  /\ main = "select"
  /\ signalled \/ quitClosed
  /\ main' = "close"
  /\ UNCHANGED <<signalled, listening, quitClosed, accept, connVars, sent, wg, jobVars, history, fate>>

CloseListener ==
  /\ main = "close"
  /\ main' = "quitsel" /\ listening' = FALSE
  /\ UNCHANGED <<signalled, quitClosed, accept, connVars, sent, wg, jobVars, history, fate>>

\* The non-blocking receive of Stop: closed already, or nobody sends and Stop
\* closes it.  If it takes a token instead (PassToken), Stop closes nothing.
CloseQuit ==
  /\ main = "quitsel"
  /\ main' = "wait" /\ quitClosed' = TRUE
  /\ UNCHANGED <<signalled, listening, accept, connVars, sent, wg, jobVars, history, fate>>

StopTimerMissing == FALSE
StopTimer == TRUE

\* All counted goroutines have ended, or 15 seconds have passed; Stop returns.
StopWait ==
  /\ main = "wait"
  /\ \/ wg = 0 /\ main' = "drained"
     \/ StopTimer /\ main' = "abandoned"
  /\ UNCHANGED <<signalled, listening, quitClosed, accept, connVars, sent, wg, jobVars, history, fate>>

\* Start's deferred Quit(false) and CoUninitialize; then main and the process end.
\* Quit calls Excel, which may never answer, and meanwhile the other goroutines go
\* on.  Beside or after a rebuild there may be no Excel to call: a nil panic.
QuitExcel ==
  /\ \/ main = "startFailed" /\ fate' = "setupFailed"
     \/ main = "drained" /\ fate' = "graceful"
     \/ main = "abandoned" /\ fate' = "timedOut"
     \/ main \in Stopped /\ fate' = "nilExcel" /\ \E d \in Docs : waiter[d] \in {"rebuild", "done"}
  /\ UNCHANGED <<mainVars, quitClosed, accept, connVars, sent, wg, jobVars, history>>

StopStep == StartSelect \/ CloseListener \/ CloseQuit \/ StopWait
MainStep == Setup \/ StopStep \/ QuitExcel

-----------------------------------------------------------------------------
(* The accept loop. *)

\* What becomes of a goroutine counted by the WaitGroup when it returns.
Returns == wg' = wg - 1

\* A connection accepted while r.quit is closed is closed at once.
RejectConn ==
  /\ accept = "got" /\ quitClosed
  /\ accept' = "gone" /\ Returns
  /\ h' = [c \in Conns |-> IF h[c] = "dialled" THEN "gone" ELSE h[c]]
  /\ UNCHANGED <<mainVars, quitClosed, mon, wire, eof, resp, sent, jobVars, history, fate>>

HandleConn ==
  /\ accept = "got" /\ ~quitClosed
  /\ accept' = "accept" /\ wg' = wg + 1
  /\ \E c \in Conns :
       /\ h[c] = "dialled"
       /\ h' = [h EXCEPT ![c] = "select"]
       /\ mon' = [mon EXCEPT ![c] = "wait"]
  /\ UNCHANGED <<mainVars, quitClosed, wire, eof, resp, sent, jobVars, history, fate>>

\* Accept fails on the closed listener; until r.quit is closed the loop retries.
AcceptFails ==
  /\ accept = "accept" /\ ~listening /\ quitClosed
  /\ accept' = "gone" /\ Returns
  /\ UNCHANGED <<mainVars, quitClosed, connVars, sent, jobVars, history, fate>>

AcceptStep == RejectConn \/ HandleConn \/ AcceptFails

-----------------------------------------------------------------------------
(* A connection's handler. *)

Goes(c, from, to) == h[c] = from /\ h' = [h EXCEPT ![c] = to]
Write(c, r) == resp' = [resp EXCEPT ![c] = Append(@, r)]
Take(c) == wire' = [wire EXCEPT ![c] = Tail(@)]
Message(c) == Head(wire[c])

Reply(m) == CASE m = "ping" -> "pong" [] m = "disconn" -> "ack" [] m = "unknown" -> "invalid"

\* A message that is dropped before handleMessage.
Ignore(c) ==
  /\ h[c] = "select" /\ wire[c] # <<>> /\ Message(c) = "bad"
  /\ Take(c)
  /\ UNCHANGED <<mainVars, quitClosed, accept, h, mon, eof, resp, sent, wg, jobVars, history, fate>>

\* ping, disconn, an unknown action, and what cannot be decoded.  A disconn is
\* only acknowledged: the connection stays.
Control(c) ==
  /\ wire[c] # <<>>
  /\ \/ Message(c) \in {"ping", "disconn", "unknown"} /\ Write(c, Reply(Message(c)))
     \/ Message(c) = "malformed" /\ UNCHANGED resp
  /\ Goes(c, "select", "after") /\ Take(c)
  /\ UNCHANGED <<mainVars, quitClosed, accept, mon, eof, sent, wg, jobVars, history, fate>>

QuitClosesFirst(c) ==
  /\ wire[c] # <<>> /\ Message(c) = "quit"
  /\ Goes(c, "select", "quitSend") /\ Take(c) /\ Write(c, "ack")
  /\ quitClosed' = TRUE /\ quitters' = quitters \cup {c}
  /\ UNCHANGED <<mainVars, accept, mon, eof, sent, wg, jobVars, refusers, fate>>

\* quit is acknowledged, then the token is sent, then r.quit is closed.
Quit(c) ==
  /\ wire[c] # <<>> /\ Message(c) = "quit"
  /\ Goes(c, "select", "quitSend") /\ Take(c) /\ Write(c, "ack")
  /\ quitters' = quitters \cup {c}
  /\ UNCHANGED <<mainVars, quitClosed, accept, mon, eof, sent, wg, jobVars, refusers, fate>>

\* A document: refused without a response when the worker is not ready;
\* otherwise its backup and a second of sleep follow.
Sanitize(c) ==
  /\ wire[c] # <<>> /\ Message(c) \in Docs
  /\ \/ ready /\ Goes(c, "select", "backup") /\ UNCHANGED <<wire, refusers>>
     \/ /\ ~ready /\ Goes(c, "select", "refuseSend") /\ Take(c)
        /\ refusers' = refusers \cup {c}
  /\ UNCHANGED <<mainVars, quitClosed, accept, mon, eof, resp, sent, wg, jobVars, quitters, fate>>

JobGoroutinesUncounted == 1
JobGoroutines == 2

\* The 202 is written and the waiter and the inner goroutine start; or the path
\* or the write failed (the client is gone) and the document is given up. The
\* waiter counts the inner goroutine before it does anything else: one step.
Enqueue(c) ==
  /\ Goes(c, "backup", "after") /\ Take(c)
  /\ UNCHANGED <<mainVars, quitClosed, accept, mon, eof, sent, history, fate>>
  /\ \/ Write(c, "enqueued") /\ Jobs!Spawn(Message(c)) /\ wg' = wg + JobGoroutines
     \/ UNCHANGED <<resp, jobVars, wg>>

\* After the token: quitOnce closes r.quit, if nobody has.
CloseAfterToken(c) ==
  /\ Goes(c, "quitClose", "after")
  /\ quitClosed' = TRUE
  /\ UNCHANGED <<mainVars, accept, mon, wire, eof, resp, sent, wg, jobVars, history, fate>>

\* The handler returns: its context is cancelled and its connection closed,
\* what it had not read is lost.
Closed(c) ==
  /\ mon' = [mon EXCEPT ![c] = "gone"]
  /\ wire' = [wire EXCEPT ![c] = <<>>]
  /\ eof' = [eof EXCEPT ![c] = TRUE]
Leave(c) ==
  /\ h' = [h EXCEPT ![c] = "gone"]
  /\ Closed(c)
  /\ Returns

LeavesOnQuitAfterOnly(c) == h[c] = "after"
LeavesOnQuit(c) == h[c] \in {"select", "after"}

\* The quit cases of the handler's select and of the test after each message.
QuitSeen(c) ==
  /\ LeavesOnQuit(c) /\ quitClosed
  /\ Leave(c)
  /\ UNCHANGED <<mainVars, quitClosed, accept, resp, sent, jobVars, history, fate>>

AfterMessage(c) ==
  /\ ~quitClosed /\ Goes(c, "after", "select")
  /\ UNCHANGED <<mainVars, quitClosed, accept, mon, wire, eof, resp, sent, wg, jobVars, history, fate>>

\* msgChan is closed, or a read error: the connection has ended.
InputEnds(c) ==
  /\ h[c] = "select" /\ eof[c] /\ wire[c] = <<>>
  /\ Leave(c)
  /\ UNCHANGED <<mainVars, quitClosed, accept, resp, sent, jobVars, history, fate>>

\* The monitor cancels the context; the reader of this connection may then
\* return instead of passing on a message it has read.
MonitorSees(c) ==
  /\ mon[c] = "wait" /\ quitClosed
  /\ mon' = [mon EXCEPT ![c] = "fired"]
  /\ UNCHANGED <<mainVars, quitClosed, accept, h, wire, eof, resp, sent, wg, jobVars, history, fate>>

ReaderStops(c) ==
  /\ mon[c] = "fired" /\ h[c] = "select" /\ wire[c] # <<>>
  /\ \E n \in 0..(Len(wire[c]) - 1) : wire' = [wire EXCEPT ![c] = SubSeq(@, 1, n)]
  /\ eof' = [eof EXCEPT ![c] = TRUE]
  /\ UNCHANGED <<mainVars, quitClosed, accept, h, mon, resp, sent, wg, jobVars, history, fate>>

-----------------------------------------------------------------------------
(* r.quit <- struct{}{}: handler c sends a token and one receiver takes it. *)

AfterTokenUnclosed(c) == "after"
AfterToken(c) == IF h[c] = "quitSend" THEN "quitClose" ELSE "after"

\* The main goroutine takes it: in Start, which then stops the server, or in
\* Stop, which then closes nothing.
TokenToMain(c) ==
  /\ \/ main = "select" /\ main' = "close"
     \/ main = "quitsel" /\ main' = "wait"
  /\ h' = [h EXCEPT ![c] = AfterToken(c)]
  /\ UNCHANGED <<accept, mon, wire, eof, wg>>

\* A monitor takes it, of any connection, the sender's own included.
TokenToMonitor(c) ==
  /\ \E e \in Conns : mon[e] = "wait" /\ mon' = [mon EXCEPT ![e] = "fired"]
  /\ h' = [h EXCEPT ![c] = AfterToken(c)]
  /\ UNCHANGED <<main, accept, wire, eof, wg>>

\* Another handler takes it, in its select or after its message, and returns.
TokenToHandler(c) ==
  /\ \E e \in Conns \ {c} :
       /\ LeavesOnQuit(e)
       /\ h' = [h EXCEPT ![c] = AfterToken(c), ![e] = "gone"]
       /\ Closed(e)
  /\ Returns
  /\ UNCHANGED <<main, accept>>

\* The accept loop takes it: with a connection in hand, which it closes, or
\* after any error of Accept.
TokenToAccept(c) ==
  /\ accept \in {"accept", "got"} /\ accept' = "gone" /\ Returns
  /\ h' = [e \in Conns |-> IF e = c THEN AfterToken(c)
                           ELSE IF h[e] = "dialled" THEN "gone" ELSE h[e]]
  /\ UNCHANGED <<main, mon, wire, eof>>

PassToken(c) ==
  /\ h[c] \in Sending /\ ~quitClosed
  /\ TokenToMain(c) \/ TokenToMonitor(c) \/ TokenToHandler(c) \/ TokenToAccept(c)
  /\ UNCHANGED <<signalled, listening, quitClosed, resp, sent, jobVars, history, fate>>

\* A send that waits when r.quit is closed panics, and so does a later one.
SendOnClosed(c) ==
  /\ h[c] \in Sending /\ quitClosed
  /\ fate' = "sendOnClosed"
  /\ UNCHANGED <<mainVars, quitClosed, accept, connVars, sent, wg, jobVars, history>>

HandlerStep(c) ==
  \/ Ignore(c) \/ Control(c) \/ Quit(c) \/ Sanitize(c) \/ Enqueue(c) \/ CloseAfterToken(c)
  \/ QuitSeen(c) \/ AfterMessage(c) \/ InputEnds(c) \/ PassToken(c) \/ SendOnClosed(c)
MonitorStep(c) == MonitorSees(c) \/ ReaderStops(c)

-----------------------------------------------------------------------------
(* The goroutines of an accepted document: the waiter and the inner one, each *)
(* counted by the WaitGroup.                                                  *)

\* A waiter that has its answer or its rebuilt Excel, and an inner goroutine
\* that has unlocked the worker, return.
JobReturns(d) ==
  /\ UNCHANGED fate /\ Returns
  /\ Jobs!Answer(d) \/ Jobs!Rebuilt(d) \/ Jobs!InnerEnd(d)

JobTimesOut(d) == UNCHANGED <<wg, fate>> /\ Jobs!TimeOut(d)

\* A panic or a fatal error in a job ends the process, as it is.
JobCrashes(d) == fate' = "worker" /\ UNCHANGED <<wg, jobVars>> /\ Jobs!Crash(d)

JobStep(d) ==
  /\ JobReturns(d) \/ JobTimesOut(d) \/ JobCrashes(d)
  /\ UNCHANGED <<mainVars, quitClosed, accept, connVars, sent, history>>

-----------------------------------------------------------------------------
(* What reaches the server from outside. *)

\* A client's dial succeeds when the accept loop serves it.
Dial(c) ==
  /\ listening /\ accept = "accept" /\ accept' = "got"
  /\ Goes(c, "none", "dialled")
  /\ UNCHANGED <<mainVars, quitClosed, mon, wire, eof, resp, sent, wg, jobVars, history, fate>>

\* The next document to send: they are alike, so one that is in no message stands
\* for all of them.
Unused == {d \in Docs : waiter[d] = "idle" /\ \A c \in Conns : \A i \in DOMAIN wire[c] : wire[c][i] # d}
NextDoc == IF Unused = {} THEN {} ELSE {CHOOSE d \in Unused : TRUE}

\* A client reads the responses there are, then writes its next message.
ClientSends(c, m) ==
  /\ h[c] \in Live \cup {"dialled"} /\ ~eof[c]
  /\ resp' = [resp EXCEPT ![c] = <<>>]
  /\ sent < MaxSent
  /\ wire' = [wire EXCEPT ![c] = Append(@, m)] /\ sent' = sent + 1
  /\ UNCHANGED <<mainVars, quitClosed, accept, h, mon, eof, wg, jobVars, history, fate>>

ClientCloses(c) ==
  /\ h[c] \in Live \cup {"dialled"} /\ ~eof[c]
  /\ eof' = [eof EXCEPT ![c] = TRUE]
  /\ UNCHANGED <<mainVars, quitClosed, accept, h, mon, wire, resp, sent, wg, jobVars, history, fate>>

\* An interrupt or SIGTERM once Start listens for them.
Signal ==
  /\ main = "select" /\ ~signalled /\ signalled' = TRUE
  /\ UNCHANGED <<main, listening, quitClosed, accept, connVars, sent, wg, jobVars, history, fate>>

\* Clients are alike: bound, they dial in the order of their numbers.
InOrder(c, clients) == \A e \in clients : e < c => h[e] # "none"

ClientStep(c) == Dial(c) \/ ClientCloses(c) \/ \E m \in ClientKinds \cup NextDoc : ClientSends(c, m)

-----------------------------------------------------------------------------
\* When the process has ended nothing of it runs.
Up == fate = "up"
MainNext == Up /\ MainStep
StopNext == Up /\ StopStep
AcceptNext == Up /\ AcceptStep
HandlerNext(c) == Up /\ HandlerStep(c)
MonitorNext(c) == Up /\ MonitorStep(c)
JobNext(d) == Up /\ JobStep(d)
ServerNext ==
  \/ MainNext \/ AcceptNext
  \/ \E c \in Conns : HandlerNext(c) \/ MonitorNext(c)
  \/ \E d \in Docs : JobNext(d)
EnvNext(clients) == Up /\ (Signal \/ \E c \in clients : InOrder(c, clients) /\ ClientStep(c))

Next == ServerNext \/ EnvNext(Conns)

Spec == Init /\ [][Next]_vars

\* Go schedules every goroutine that can run; it is enough, and weaker, that one of
\* them runs again and again while any can, for none of them loops without end.
\* Nothing is assumed of clients, of signals, and of what calls Excel and may hang
\* for ever: the jobs, Start's setup and its deferred Quit.
GoesOn == StopNext \/ AcceptNext \/ \E c \in Conns : HandlerNext(c) \/ MonitorNext(c)

FairSpec == Spec /\ WF_vars(GoesOn)

-----------------------------------------------------------------------------
(* Properties. *)

TypeOK ==
  /\ main \in MainStates /\ accept \in AcceptStates
  /\ signalled \in BOOLEAN /\ listening \in BOOLEAN /\ quitClosed \in BOOLEAN
  /\ h \in [Conns -> HandlerStates]
  /\ mon \in [Conns -> {"none", "wait", "fired", "gone"}]
  /\ wire \in [Conns -> Seq(Kinds \cup Docs)] /\ resp \in [Conns -> Seq(Responses)]
  /\ eof \in [Conns -> BOOLEAN]
  /\ sent \in 0..MaxSent /\ wg \in Nat
  /\ ready \in BOOLEAN
  /\ waiter \in [Docs -> Jobs!WaiterStages] /\ inner \in [Docs -> Jobs!InnerStages]
  /\ quitters \subseteq Conns /\ refusers \subseteq Conns
  /\ fate \in Fates

\* A graceful stop has waited for everybody: from Stop's return on, also while
\* Excel is asked to quit, the accept loop and every handler have returned and no
\* document is worked on, whatever tokens were taken by whom; only the 15 second
\* timer ever abandons a document that was answered 202 (rpc_server.go:123-152).
GracefulStopDrains ==
  main = "drained" \/ fate = "graceful" =>
    /\ accept = "gone"
    /\ \A c \in Conns : h[c] \in {"none", "gone"}
    /\ \A d \in Docs : waiter[d] \in {"idle", "done"} /\ inner[d] \in {"idle", "done"}

\* The send on the closed channel needs a race: a second quitting connection, a
\* refused document, or a stop that began with a signal.  One client's quit
\* alone never panics (rpc_server.go:293, 312).
PanicNeedsRace ==
  fate = "sendOnClosed" =>
    \/ Cardinality(quitters) > 1
    \/ refusers # {}
    \/ signalled

\* From the wait of Stop on, r.quit is closed, or will be by the handler whose
\* quit token Stop swallowed; only a refusal's token, which nobody closes after,
\* can leave the goroutines without word (rpc_server.go:130-136, 312).
StopTellsEveryone ==
  Up /\ main \in Stopping => quitClosed \/ refusers # {} \/ \E c \in Conns : h[c] = "quitClose"

\* Once r.quit is closed no handler is stuck, neither on an idle client nor on
\* a token: each of them has a step to take (rpc_server.go:227-271, 293, 312).
HandlersNeverBlock ==
  Up /\ quitClosed => \A c \in Conns : h[c] \in Live => ENABLED HandlerNext(c)

\* After a quit request or a signal Stop returns, even if documents hang, unless
\* the process ends before.  That the process ends then is not promised: the
\* deferred Quit(false) may wait for a hung Excel (rpc_server.go:97, 123-152).
StopCompletes ==
  signalled \/ (\E c \in Conns : h[c] = "quitSend") ~> ~Up \/ main \in Stopped
==============================================================================
