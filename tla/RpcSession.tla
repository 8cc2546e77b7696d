------------------------------ MODULE RpcSession ------------------------------
(***************************************************************************)
(* The agent's side of the pipe, composed with RpcServer: StartSanitizer   *)
(* (entrypoint_windows.go) drives an RPCClient (rpc_client.go) over one    *)
(* connection, document by document, and at last asks the helper to quit   *)
(* and waits for its process.  The other connections belong to arbitrary   *)
(* clients, for the pipe has one name that anybody may dial; so do all of  *)
(* them when the agent that started the helper is gone.                    *)
(*                                                                         *)
(* SendControlMessage reads the response to its message itself; Ping and   *)
(* RequestTerminateAndDisconnect, which call it, then read again.          *)
(***************************************************************************)
EXTENDS RpcServer

CONSTANTS
  Queues,       \* what the dispatcher may have queued: documents without repetition
  MaxBeside     \* bound: the messages other clients send beside the agent

ASSUME SessionAssumption ==
  /\ Conns # {}      \* one is the agent's
  /\ Queues \subseteq Seq(Docs)
  /\ \A s \in Queues : \A i, j \in DOMAIN s : s[i] = s[j] => i = j
  /\ MaxBeside \in Nat

VARIABLES
  cli,          \* where StartSanitizer is
  queue         \* what SanitizeQueue will still deliver before it is closed

clientVars == <<cli, queue>>
sessionVars == <<vars, clientVars>>

\* An error is on its way to the telemetry service, which may never answer.
Reporting == {"connectReport", "pingReport", "sendReport", "quitReport"}
ClientStates == {"gone", "connect", "next", "pingRead", "pongRead", "send", "sanitizeRead",
                 "quitRead", "quitReadAgain", "waitProcess", "returned", "failed"} \cup Reporting

\* The client has one connection.
conn == CHOOSE c \in Conns : \A e \in Conns : c <= e

SessionInit ==
  /\ Init
  /\ \/ cli = "connect" /\ queue \in Queues
     \/ cli = "gone" /\ queue = <<>>

\* The connections of clients other than the agent.
Others == IF cli = "gone" THEN Conns ELSE Conns \ {conn}

ClientGoes(from, to) == cli = from /\ cli' = to

\* The helper's end of the pipe is closed: by its handler or by its exit.
PipeBroken == h[conn] = "gone" \/ ~Up

\* currConn.Write: the bytes are in the pipe, or the pipe is broken.
WriteOk(m) ==
  /\ ~PipeBroken
  /\ wire' = [wire EXCEPT ![conn] = Append(@, m)]
  /\ UNCHANGED <<accept, h, mon, eof, resp>>
WriteFailed == PipeBroken /\ UNCHANGED <<accept, connVars>>

\* procRespData: the next response, or the scanner's end of input.
ReadOk == resp[conn] # <<>> /\ resp' = [resp EXCEPT ![conn] = Tail(@)]
          /\ UNCHANGED <<accept, h, mon, wire, eof>>
ReadFailed == PipeBroken /\ UNCHANGED <<accept, connVars>>

-----------------------------------------------------------------------------
\* Connect: three dials of five seconds each.  It fails only when the accept
\* loop serves none of them.
Connect ==
  /\ \/ ClientGoes("connect", "next") /\ Up /\ listening /\ accept = "accept"
        /\ accept' = "got" /\ Goes(conn, "none", "dialled")
        /\ UNCHANGED <<mon, wire, eof, resp>>
     \/ ClientGoes("connect", "connectReport") /\ (~Up \/ accept # "accept")
        /\ UNCHANGED <<accept, connVars>>
  /\ UNCHANGED queue

InHandTaken == Tail(queue)
InHand == queue

\* The next document of SanitizeQueue: a ping goes out first; if that fails the
\* error is reported and the document dropped.
PingOut ==
  /\ queue # <<>>
  /\ \/ ClientGoes("next", "pingRead") /\ WriteOk("ping") /\ queue' = InHand
     \/ ClientGoes("next", "pingReport") /\ WriteFailed /\ UNCHANGED queue

AfterPingReadOnce == "send"
AfterPingRead == "pongRead"

\* The read in SendControlMessage, which takes the pong, and the one in Ping.
PingRead ==
  /\ \/ ClientGoes("pingRead", AfterPingRead) /\ ReadOk
     \/ ClientGoes("pingRead", "pingReport") /\ ReadFailed
  /\ UNCHANGED queue
PongRead ==
  /\ \/ ClientGoes("pongRead", "send") /\ ReadOk /\ Head(resp[conn]) = "pong"
     \/ ClientGoes("pongRead", "pingReport") /\ ReadOk /\ Head(resp[conn]) # "pong"
     \/ ClientGoes("pongRead", "pingReport") /\ ReadFailed
  /\ UNCHANGED queue

\* SendSanitizeMessage: one write, one read; errors are reported.
SanitizeOut ==
  /\ \/ ClientGoes("send", "sanitizeRead") /\ WriteOk(Head(queue))
     \/ ClientGoes("send", "sendReport") /\ WriteFailed
  /\ UNCHANGED queue
SanitizeRead ==
  \/ ClientGoes("sanitizeRead", "next") /\ ReadOk /\ queue' = Tail(queue)
  \/ ClientGoes("sanitizeRead", "sendReport") /\ ReadFailed /\ UNCHANGED queue

\* The queue is closed and empty: RequestTerminateAndDisconnect, which reads
\* twice as well.  Its ConnClose closes nothing: it refuses an open connection.
QuitOut ==
  /\ queue = <<>> /\ UNCHANGED queue
  /\ \/ ClientGoes("next", "quitRead") /\ WriteOk("quit")
     \/ ClientGoes("next", "quitReport") /\ WriteFailed
QuitRead ==
  /\ \/ ClientGoes("quitRead", "quitReadAgain") /\ ReadOk
     \/ ClientGoes("quitReadAgain", "waitProcess") /\ ReadOk
     \/ cli \in {"quitRead", "quitReadAgain"} /\ cli' = "quitReport" /\ ReadFailed
  /\ UNCHANGED queue

\* telemetry.CaptureException has returned.
Reported ==
  /\ \/ ClientGoes("connectReport", "failed") /\ UNCHANGED queue
     \/ cli \in {"pingReport", "sendReport"} /\ cli' = "next" /\ queue' = Tail(queue)
     \/ ClientGoes("quitReport", "waitProcess") /\ UNCHANGED queue
  /\ UNCHANGED <<accept, connVars>>

\* rpcProc.Wait returns when the helper's process has ended; the 300 second
\* timer beside it only logs.
ProcessEnded == ~Up
WaitProcess ==
  /\ ClientGoes("waitProcess", "returned") /\ ProcessEnded
  /\ UNCHANGED <<queue, accept, connVars>>

\* The client's steps change nothing of the helper but the pipe.
ClientNext ==
  /\ \/ Connect \/ PingOut \/ PingRead \/ PongRead \/ SanitizeOut \/ SanitizeRead
     \/ QuitOut \/ QuitRead \/ Reported \/ WaitProcess
  /\ UNCHANGED <<mainVars, quitClosed, sent, wg, jobVars, history, fate>>

SessionNext ==
  \/ ServerNext /\ UNCHANGED clientVars
  \/ EnvNext(Others) /\ UNCHANGED clientVars /\ (cli # "gone" => sent' <= MaxBeside)
  \/ ClientNext

\* Both processes are scheduled; what calls Excel, and signals, are as in RpcServer,
\* and nothing is assumed of the telemetry service, whose calls have no time limit.
SessionSpec ==
  /\ SessionInit /\ [][SessionNext]_sessionVars
  /\ WF_sessionVars(ClientNext /\ cli \notin Reporting)
  /\ WF_sessionVars(GoesOn /\ UNCHANGED clientVars)

-----------------------------------------------------------------------------
(* Properties. *)

SessionTypeOK ==
  /\ TypeOK
  /\ cli \in ClientStates /\ queue \in Seq(Docs)
  /\ cli \in {"pingRead", "pongRead", "send", "sanitizeRead", "pingReport", "sendReport"} => queue # <<>>

\* As the code stands none of the agent's documents reaches the helper: its client
\* never gets past the second read of its first ping but by the end of the pipe
\* (rpc_client.go:89-105).
NothingIsSanitized ==
  cli # "gone" =>
    /\ cli \notin {"send", "sanitizeRead"}
    /\ \A i \in DOMAIN wire[conn] : wire[conn][i] \notin Docs

\* When the helper ends, or nothing was detected, StartSanitizer returns: the
\* quit handshake completes although it, too, reads one response too many.  It
\* is left waiting only by what the code gives no time limit: a telemetry call
\* for one of its own errors, the helper's last call to Excel once Stop has
\* returned, and a helper that keeps running, for another client's refused
\* document sends a token that may take the accept loop and the agent's
\* connection with it, and nobody then tells the helper to quit.  What begins it
\* never ends, so this holds again at every later moment (entrypoint_windows.go:
\* 85-138, rpc_server.go:97, 196-203, 293).
SanitizerReturns ==
  ~Up \/ queue = <<>> ~> \/ cli \in {"returned", "failed", "gone"} \cup Reporting
                        \/ (cli = "waitProcess" /\ Up /\ main \in Stopped)
                        \/ refusers # {}

\* Refuted: a ping is answered and the document goes on to be sent
\* (entrypoint_windows.go:97, 104).
PingReturns == cli = "pingRead" ~> cli \notin {"pingRead", "pongRead"}
==============================================================================
