--------------------------- MODULE RpcSessionProofs ---------------------------
(***************************************************************************)
(* Theorems about RpcServer and RpcSession, for every number of            *)
(* connections, documents and messages: what the WaitGroup and the quit    *)
(* channel of the helper's server promise, and what the agent's client     *)
(* may find in its pipe.                                                   *)
(***************************************************************************)
EXTENDS RpcSession, SetInduction, FiniteSetTheorems, SequenceTheorems, TLAPS

\* A handler that backs up a document still has its request at the head of the wire.
BackupReads == \A c \in Conns : h[c] = "backup" => wire[c] # <<>> /\ wire[c][1] \in Docs

TypeInv == TypeOK /\ BackupReads

\* The goroutines that the WaitGroup counts: the accept loop, the handlers, and
\* for every document its waiter and its inner goroutine.
Accepting == IF accept \in {"accept", "got"} THEN 1 ELSE 0
Handlers == {c \in Conns : h[c] \in Live}
Waiters == {d \in Docs : waiter[d] \in {"wait", "rebuild"}}
Inners == {d \in Docs : inner[d] = "work"}

Counted ==
  wg = Accepting + Cardinality(Handlers) + Cardinality(Waiters) + Cardinality(Inners)

\* The accept loop has in hand the one connection that is dialled.
OneDialled ==
  /\ main \in {"setup", "startFailed"} <=> accept = "off"
  /\ \A c \in Conns : h[c] = "dialled" => accept = "got"
  /\ \A c, e \in Conns : h[c] = "dialled" /\ h[e] = "dialled" => c = e

Waited == /\ main = "drained" => wg = 0
          /\ fate = "graceful" => main = "drained"

DrainInv == Counted /\ OneDialled /\ Waited

\* Who sends a token has refused a document or handled a quit request.
Senders ==
  \A c \in Conns :
    /\ h[c] = "refuseSend" => c \in refusers
    /\ h[c] \in {"quitSend", "quitClose"} => c \in quitters

\* Unless a document was refused, the handler of a quit request is at its token, at
\* the close after it, or on its way out of a server that is closed.
AfterQuit ==
  refusers = {} =>
    \A c \in quitters :
      h[c] \in {"quitSend", "quitClose"} \/ (quitClosed /\ h[c] \in {"after", "gone"})

\* With neither a refusal nor a signal, only a quit token that was taken stops the
\* server.
StoppedByToken ==
  refusers = {} /\ ~signalled /\ (quitClosed \/ main \in {"close", "quitsel"} \cup Stopping)
    => \E c \in quitters : h[c] # "quitSend"

QuitInv ==
  /\ Senders /\ AfterQuit /\ StoppedByToken
  /\ StopTellsEveryone

ServerInv == TypeInv /\ DrainInv /\ QuitInv /\ PanicNeedsRace

-----------------------------------------------------------------------------
(* Types. *)

\* At first nothing is on any wire and nobody handles anything.
LEMMA TypeInvInit == Init => TypeInv
<1> SUFFICES ASSUME Init
             PROVE  TypeInv
  OBVIOUS
<1>1. wire \in [Conns -> Seq(Kinds \cup Docs)] /\ resp \in [Conns -> Seq(Responses)]
  BY DEF Init
<1>2. sent \in 0..MaxSent /\ wg \in Nat
  BY ServerAssumption DEF Init
<1> QED
  BY <1>1, <1>2 DEF Init, TypeInv, TypeOK, BackupReads, MainStates, AcceptStates,
     HandlerStates, Fates, Jobs!WaiterStages, Jobs!InnerStages

\* The head of a wire is a message, and what is behind it is again a wire.
LEMMA WireType ==
  ASSUME TypeInv, NEW c \in Conns, wire[c] # <<>>
  PROVE  Message(c) \in Kinds \cup Docs /\ Tail(wire[c]) \in Seq(Kinds \cup Docs)
  BY DEF TypeInv, TypeOK, Message

\* A part of a wire, from its beginning, is a wire.
LEMMA WirePart ==
  ASSUME NEW S, NEW s \in Seq(S), NEW n \in 0..(Len(s) - 1)
  PROVE  SubSeq(s, 1, n) \in Seq(S)
  BY SubSeqProperties

\* The counted sets are finite and what returns has been counted.
LEMMA CountsAreNat ==
  ASSUME TypeInv
  PROVE  /\ IsFiniteSet(Handlers) /\ Cardinality(Handlers) \in Nat
         /\ IsFiniteSet(Waiters) /\ Cardinality(Waiters) \in Nat
         /\ IsFiniteSet(Inners) /\ Cardinality(Inners) \in Nat
<1>1. IsFiniteSet(Handlers) /\ IsFiniteSet(Waiters) /\ IsFiniteSet(Inners)
  BY ServerAssumption, FS_Subset DEF Handlers, Waiters, Inners
<1> QED
  BY <1>1, FS_CardinalityType

\* A finite set with a member counts at least one.
LEMMA NotEmptyCounts ==
  ASSUME NEW S, IsFiniteSet(S), S # {}
  PROVE  Cardinality(S) >= 1
  BY FS_EmptySet, FS_CardinalityType

\* While a counted goroutine runs, the WaitGroup's counter is positive.
LEMMA SomebodyIsCounted ==
  ASSUME TypeInv, Counted,
         \/ accept \in {"accept", "got"}
         \/ \E c \in Conns : h[c] \in Live
         \/ \E d \in Docs : waiter[d] \in {"wait", "rebuild"} \/ inner[d] = "work"
  PROVE  wg - 1 \in Nat
<1>1. wg \in Nat /\ Accepting \in {0, 1}
  BY DEF TypeInv, TypeOK, Accepting
<1>2. CASE accept \in {"accept", "got"}
  BY <1>1, <1>2, CountsAreNat DEF Counted, Accepting
<1>3. CASE \E c \in Conns : h[c] \in Live
  <2>1. Handlers # {}
    BY <1>3 DEF Handlers
  <2>2. Cardinality(Handlers) >= 1
    BY <2>1, CountsAreNat, NotEmptyCounts
  <2> QED
    BY <1>1, <2>2, CountsAreNat DEF Counted
<1>4. CASE \E d \in Docs : waiter[d] \in {"wait", "rebuild"} \/ inner[d] = "work"
  <2>1. Waiters # {} \/ Inners # {}
    BY <1>4 DEF Waiters, Inners
  <2>2. Cardinality(Waiters) >= 1 \/ Cardinality(Inners) >= 1
    BY <2>1, CountsAreNat, NotEmptyCounts
  <2> QED
    BY <1>1, <2>2, CountsAreNat DEF Counted
<1> QED
  BY <1>2, <1>3, <1>4

\* Steps of main keep the types.
LEMMA MainTypes ==
  ASSUME TypeInv, MainStep
  PROVE  TypeInv'
<1> USE DEF TypeInv, TypeOK, BackupReads, connVars, jobVars, history, mainVars,
        MainStates, Stopping, Stopped, AcceptStates, Fates
<1>1. CASE Setup
  <2>1. wg + 1 \in Nat
    OBVIOUS
  <2>2. wg' \in Nat /\ main' \in MainStates /\ accept' \in AcceptStates /\ ready' \in BOOLEAN
    BY <1>1, <2>1 DEF Setup
  <2>3. fate' \in Fates
    BY <1>1 DEF Setup
  <2> QED
    BY <1>1, <2>2, <2>3 DEF Setup
<1>2. CASE StartSelect
  BY <1>2 DEF StartSelect
<1>3. CASE CloseListener
  BY <1>3 DEF CloseListener
<1>4. CASE CloseQuit
  BY <1>4 DEF CloseQuit
<1>5. CASE StopWait
  BY <1>5 DEF StopWait
<1>6. CASE QuitExcel
  BY <1>6 DEF QuitExcel
<1> QED
  BY <1>1, <1>2, <1>3, <1>4, <1>5, <1>6 DEF MainStep, StopStep

\* Steps of the accept loop keep the types.
LEMMA AcceptTypes ==
  ASSUME TypeInv, Counted, AcceptStep
  PROVE  TypeInv'
<1>1. wg - 1 \in Nat
  BY SomebodyIsCounted DEF AcceptStep, RejectConn, HandleConn, AcceptFails
<1> USE DEF TypeInv, TypeOK, BackupReads, connVars, jobVars, history, mainVars,
        AcceptStates, HandlerStates, Returns
<1>2. CASE RejectConn
  BY <1>1, <1>2 DEF RejectConn
<1>3. CASE HandleConn
  BY <1>3 DEF HandleConn
<1>4. CASE AcceptFails
  BY <1>1, <1>4 DEF AcceptFails
<1> QED
  BY <1>2, <1>3, <1>4 DEF AcceptStep

\* Steps of a handler keep the types.
LEMMA HandlerTypes ==
  ASSUME TypeInv, Counted, NEW c \in Conns, HandlerStep(c)
  PROVE  TypeInv'
<1> USE DEF TypeInv, TypeOK, BackupReads, connVars, jobVars, history, mainVars,
        HandlerStates, Goes, Take, Write
<1>1. CASE Ignore(c)
  BY <1>1, WireType DEF Ignore
<1>2. CASE Control(c)
  <2>1. Message(c) \in {"ping", "disconn", "unknown"} => Reply(Message(c)) \in Responses
    BY DEF Reply, Responses
  <2>2. \A r \in Responses : Append(resp[c], r) \in Seq(Responses)
    OBVIOUS
  <2>3. resp' \in [Conns -> Seq(Responses)]
    BY <1>2, <2>1, <2>2 DEF Control
  <2> QED
    BY <1>2, <2>3, WireType DEF Control
<1>3. CASE Quit(c)
  <2>1. resp' \in [Conns -> Seq(Responses)]
    BY <1>3 DEF Quit, Responses
  <2> QED
    BY <1>3, <2>1, WireType DEF Quit
<1>4. CASE Sanitize(c)
  <2>1. CASE ready /\ Goes(c, "select", "backup") /\ UNCHANGED <<wire, refusers>>
    <3>1. wire[c] # <<>> /\ wire[c][1] \in Docs
      BY <1>4, <2>1 DEF Sanitize, Message
    <3> QED
      BY <1>4, <2>1, <3>1 DEF Sanitize
  <2>2. CASE Goes(c, "select", "refuseSend") /\ Take(c) /\ refusers' = refusers \cup {c}
    BY <1>4, <2>2, WireType DEF Sanitize
  <2> QED
    BY <1>4, <2>1, <2>2 DEF Sanitize
<1>5. CASE Enqueue(c)
  <2>1. "enqueued" \in Responses /\ wg + JobGoroutines \in Nat
    BY DEF Responses, JobGoroutines
  <2>2. /\ resp' \in [Conns -> Seq(Responses)] /\ wg' \in Nat /\ ready' \in BOOLEAN
        /\ waiter' \in [Docs -> Jobs!WaiterStages] /\ inner' \in [Docs -> Jobs!InnerStages]
    <3>1. CASE UNCHANGED <<resp, jobVars, wg>>
      BY <3>1
    <3>2. CASE Write(c, "enqueued") /\ Jobs!Spawn(Message(c)) /\ wg' = wg + JobGoroutines
      <4>1. Append(resp[c], "enqueued") \in Seq(Responses)
        BY <2>1
      <4> QED
        BY <2>1, <3>2, <4>1 DEF Jobs!Spawn, Jobs!WaiterMoves, Jobs!InnerMoves, Jobs!WaiterStages, Jobs!InnerStages
    <3> QED
      BY <1>5, <3>1, <3>2 DEF Enqueue
  <2> QED
    BY <1>5, <2>2, WireType DEF Enqueue
<1>6. CASE CloseAfterToken(c)
  BY <1>6 DEF CloseAfterToken
<1>7. CASE QuitSeen(c) \/ InputEnds(c)
  <2>1. wg - 1 \in Nat
    BY <1>7, SomebodyIsCounted DEF QuitSeen, InputEnds, LeavesOnQuit, Live
  <2> QED
    <3>1. Leave(c) /\ UNCHANGED <<mainVars, quitClosed, accept, resp, sent, jobVars, history, fate>>
      BY <1>7 DEF QuitSeen, InputEnds
    <3>2. <<>> \in Seq(Kinds \cup Docs)
      OBVIOUS
    <3> QED
      BY <2>1, <3>1, <3>2 DEF Leave, Closed, Returns
<1>8. CASE AfterMessage(c)
  BY <1>8 DEF AfterMessage
<1>9. CASE PassToken(c)
  <2>1. AfterToken(c) \in HandlerStates \ {"backup"}
    BY DEF AfterToken
  <2>2. CASE TokenToMain(c)
    BY <1>9, <2>1, <2>2 DEF PassToken, TokenToMain, MainStates, Stopping
  <2>3. CASE TokenToMonitor(c)
    BY <1>9, <2>1, <2>3 DEF PassToken, TokenToMonitor
  <2>4. CASE TokenToHandler(c)
    <3>1. wg - 1 \in Nat
      BY <2>4, SomebodyIsCounted DEF TokenToHandler, LeavesOnQuit, Live
    <3>2. PICK e \in Conns \ {c} :
            h' = [h EXCEPT ![c] = AfterToken(c), ![e] = "gone"] /\ Closed(e)
      BY <2>4 DEF TokenToHandler
    <3>3. <<>> \in Seq(Kinds \cup Docs)
      OBVIOUS
    <3>4. UNCHANGED <<main, accept, signalled, listening, quitClosed, resp, sent, jobVars, history, fate>>
      BY <1>9, <2>4 DEF PassToken, TokenToHandler
    <3>5. wg' \in Nat
      BY <2>4, <3>1 DEF TokenToHandler, Returns
    <3> HIDE DEF Write, Goes, Take
    <3> QED
      BY <2>1, <3>2, <3>3, <3>4, <3>5 DEF Closed
  <2>5. CASE TokenToAccept(c)
    <3>1. wg - 1 \in Nat
      BY <2>5, SomebodyIsCounted DEF TokenToAccept
    <3> QED
      BY <1>9, <2>1, <2>5, <3>1 DEF PassToken, TokenToAccept, Returns, AcceptStates
  <2> QED
    BY <1>9, <2>2, <2>3, <2>4, <2>5 DEF PassToken
<1>10. CASE SendOnClosed(c)
  BY <1>10 DEF SendOnClosed, Fates
<1> QED
  BY <1>1, <1>2, <1>3, <1>4, <1>5, <1>6, <1>7, <1>8, <1>9, <1>10 DEF HandlerStep

\* Steps of a monitor keep the types.
LEMMA MonitorTypes ==
  ASSUME TypeInv, NEW c \in Conns, MonitorStep(c)
  PROVE  TypeInv'
<1> USE DEF TypeInv, TypeOK, BackupReads, connVars, jobVars, history, mainVars
<1>1. CASE MonitorSees(c)
  BY <1>1 DEF MonitorSees
<1>2. CASE ReaderStops(c)
  <2>1. PICK n \in 0..(Len(wire[c]) - 1) : wire' = [wire EXCEPT ![c] = SubSeq(@, 1, n)]
    BY <1>2 DEF ReaderStops
  <2>2. wire' \in [Conns -> Seq(Kinds \cup Docs)]
    BY <2>1, WirePart
  <2> QED
    BY <1>2, <2>1, <2>2 DEF ReaderStops
<1> QED
  BY <1>1, <1>2 DEF MonitorStep

\* What a step of a document's goroutines may be to the server: a waiter or an inner
\* goroutine returns, a waiter begins its rebuild, or the process ends.
WaiterReturns(d) ==
  /\ waiter[d] \in {"wait", "rebuild"} /\ waiter' = [waiter EXCEPT ![d] = "done"]
  /\ wg' = wg - 1 /\ ready' \in {ready, TRUE} /\ UNCHANGED <<inner, fate>>
InnerReturns(d) ==
  /\ inner[d] = "work" /\ inner' = [inner EXCEPT ![d] = "done"]
  /\ wg' = wg - 1 /\ UNCHANGED <<waiter, ready, fate>>
RebuildBegins(d) ==
  /\ waiter[d] = "wait" /\ waiter' = [waiter EXCEPT ![d] = "rebuild"]
  /\ ready' = FALSE /\ UNCHANGED <<wg, inner, fate>>
JobEndsAll == fate' = "worker" /\ UNCHANGED <<wg, jobVars>>

LEMMA JobMoves ==
  ASSUME NEW d \in Docs, JobStep(d)
  PROVE  WaiterReturns(d) \/ InnerReturns(d) \/ RebuildBegins(d) \/ JobEndsAll
  BY DEF JobStep, JobReturns, JobTimesOut, JobCrashes, Returns, Jobs!Answer, Jobs!Rebuilt, Jobs!InnerEnd,
     Jobs!TimeOut, Jobs!Crash, Jobs!WaiterMoves, Jobs!InnerMoves, WaiterReturns, InnerReturns,
     RebuildBegins, JobEndsAll

\* Steps of a document's goroutines keep the types.
LEMMA JobTypes ==
  ASSUME TypeInv, Counted, NEW d \in Docs, JobStep(d)
  PROVE  TypeInv'
<1>1. wg' \in Nat /\ fate' \in Fates
  <2>1. wg' = wg \/ wg - 1 \in Nat
    BY JobMoves, SomebodyIsCounted DEF WaiterReturns, InnerReturns, RebuildBegins, JobEndsAll
  <2> QED
    BY <2>1, JobMoves DEF WaiterReturns, InnerReturns, RebuildBegins, JobEndsAll, TypeInv, TypeOK, Fates
<1>2. /\ waiter' \in [Docs -> Jobs!WaiterStages] /\ inner' \in [Docs -> Jobs!InnerStages]
      /\ ready' \in BOOLEAN
  BY JobMoves DEF WaiterReturns, InnerReturns, RebuildBegins, JobEndsAll, TypeInv, TypeOK, jobVars,
     Jobs!WaiterStages, Jobs!InnerStages
<1>3. UNCHANGED <<mainVars, quitClosed, accept, connVars, sent, history>>
  BY DEF JobStep
<1> QED
  BY <1>1, <1>2, <1>3 DEF TypeInv, TypeOK, BackupReads, connVars, history, mainVars

\* Signals and clients keep the types.
LEMMA EnvTypes ==
  ASSUME TypeInv, NEW c \in Conns, Signal \/ ClientStep(c)
  PROVE  TypeInv'
<1> USE DEF TypeInv, TypeOK, BackupReads, connVars, jobVars, history, mainVars,
        HandlerStates, AcceptStates, Goes
<1>1. CASE Signal
  BY <1>1 DEF Signal
<1>2. CASE Dial(c)
  BY <1>2 DEF Dial
<1>3. CASE ClientCloses(c)
  BY <1>3 DEF ClientCloses
<1>4. ASSUME NEW m \in ClientKinds \cup NextDoc, ClientSends(c, m)
      PROVE  TypeInv'
  <2>1. m \in Kinds \cup Docs
    BY ServerAssumption DEF NextDoc, Unused
  <2>2. /\ wire' \in [Conns -> Seq(Kinds \cup Docs)] /\ h' = h
        /\ \A e \in Conns : wire[e] # <<>> => wire'[e] # <<>> /\ wire'[e][1] = wire[e][1]
    <3>1. wire' = [wire EXCEPT ![c] = Append(wire[c], m)] /\ h' = h /\ wire[c] \in Seq(Kinds \cup Docs)
      BY <1>4 DEF ClientSends
    <3>2. /\ Append(wire[c], m) \in Seq(Kinds \cup Docs) /\ Append(wire[c], m) # <<>>
          /\ wire[c] # <<>> => Append(wire[c], m)[1] = wire[c][1]
      BY <2>1, <3>1, AppendProperties
    <3> QED
      BY <3>1, <3>2
  <2>3. sent' \in 0..MaxSent
    BY <1>4, ServerAssumption DEF ClientSends
  <2>4. resp' \in [Conns -> Seq(Responses)]
    <3>1. <<>> \in Seq(Responses)
      OBVIOUS
    <3> QED
      BY <1>4, <3>1 DEF ClientSends
  <2> QED
    BY <1>4, <2>2, <2>3, <2>4 DEF ClientSends
<1> QED
  BY <1>1, <1>2, <1>3, <1>4 DEF ClientStep

-----------------------------------------------------------------------------
(* The WaitGroup. *)

\* Without one of its members a finite set counts one less.
LEMMA OneFewer ==
  ASSUME NEW S, NEW T, NEW x \in S, IsFiniteSet(S), T = S \ {x}
  PROVE  Cardinality(T) = Cardinality(S) - 1
  BY FS_RemoveElement

\* With one new member there is one more.
LEMMA OneMore ==
  ASSUME NEW S, NEW T, NEW x, x \notin S, IsFiniteSet(S), T = S \cup {x}
  PROVE  Cardinality(T) = Cardinality(S) + 1
  BY FS_AddElement

\* Most steps start and end no goroutine that is counted.
LEMMA SameCount ==
  ASSUME Counted, UNCHANGED <<waiter, inner, wg>>, Handlers' = Handlers,
         accept' = accept \/ (accept' = "got" /\ accept = "accept")
  PROVE  Counted'
<1>1. Waiters' = Waiters /\ Inners' = Inners /\ Accepting' = Accepting
  BY DEF Waiters, Inners, Accepting
<1> QED
  BY <1>1 DEF Counted

\* The steps of the accept loop change its own count and wg alike.
LEMMA AcceptCount ==
  ASSUME TypeInv, Counted, UNCHANGED <<waiter, inner>>,
         \/ Accepting = 1 /\ Accepting' = 0 /\ wg' = wg - 1 /\ Handlers' = Handlers
         \/ /\ Accepting = 1 /\ Accepting' = 1 /\ wg' = wg + 1
            /\ \E c \in Conns : c \notin Handlers /\ Handlers' = Handlers \cup {c}
         \/ Accepting = 0 /\ Accepting' = 1 /\ wg' = wg + 1 /\ Handlers' = Handlers
  PROVE  Counted'
<1>1. Waiters' = Waiters /\ Inners' = Inners /\ wg \in Nat /\ Accepting \in {0, 1}
  BY DEF Waiters, Inners, TypeInv, TypeOK, Accepting
<1>2. CASE Handlers' = Handlers
  BY <1>1, <1>2, CountsAreNat DEF Counted
<1>3. CASE /\ Accepting = 1 /\ Accepting' = 1 /\ wg' = wg + 1
           /\ \E c \in Conns : c \notin Handlers /\ Handlers' = Handlers \cup {c}
  <2>1. Cardinality(Handlers') = Cardinality(Handlers) + 1
    BY <1>3, CountsAreNat, OneMore
  <2> QED
    BY <1>1, <1>3, <2>1, CountsAreNat DEF Counted
<1> QED
  BY <1>2, <1>3

\* A handler that returns is counted no more.
LEMMA ReturnCount ==
  ASSUME TypeInv, Counted, UNCHANGED <<accept, waiter, inner>>, wg' = wg - 1,
         NEW c \in Handlers, Handlers' = Handlers \ {c}
  PROVE  Counted'
<1>1. Waiters' = Waiters /\ Inners' = Inners /\ Accepting' = Accepting /\ wg \in Nat /\ Accepting \in {0, 1}
  BY DEF Waiters, Inners, TypeInv, TypeOK, Accepting
<1>2. Cardinality(Handlers') = Cardinality(Handlers) - 1
  BY CountsAreNat, OneFewer
<1> QED
  BY <1>1, <1>2, CountsAreNat DEF Counted

\* Steps of main keep the count: it is one when main starts the accept loop.
LEMMA MainCounts ==
  ASSUME TypeInv, Counted, OneDialled, MainStep
  PROVE  Counted'
<1>1. CASE Setup
  <2>1. UNCHANGED <<h, waiter, inner>> /\ Accepting = 0
    BY <1>1 DEF Setup, connVars, OneDialled, Accepting
  <2>2. Handlers' = Handlers
    BY <2>1 DEF Handlers
  <2>3. CASE accept' = "accept" /\ wg' = wg + 1
    BY <2>1, <2>2, <2>3, AcceptCount DEF Accepting
  <2>4. CASE UNCHANGED <<accept, wg>>
    BY <2>1, <2>2, <2>4, SameCount
  <2> QED
    BY <1>1, <2>3, <2>4 DEF Setup
<1>2. CASE ~Setup
  <2>1. UNCHANGED <<h, waiter, inner, accept, wg>>
    BY <1>2 DEF MainStep, StopStep, StartSelect, CloseListener, CloseQuit, StopWait, QuitExcel, connVars, jobVars
  <2>2. Handlers' = Handlers
    BY <2>1 DEF Handlers
  <2> QED
    BY <2>1, <2>2, SameCount
<1> QED
  BY <1>1, <1>2

\* The accept loop adds a handler with its count, and leaves with its own.
LEMMA AcceptCounts ==
  ASSUME TypeInv, Counted, AcceptStep
  PROVE  Counted'
<1>1. CASE RejectConn \/ AcceptFails
  <2>1. Accepting = 1 /\ Accepting' = 0 /\ wg' = wg - 1 /\ UNCHANGED <<waiter, inner>>
    BY <1>1 DEF RejectConn, AcceptFails, Accepting, Returns, jobVars
  <2>2. Handlers' = Handlers
    BY <1>1 DEF RejectConn, AcceptFails, Handlers, connVars, Live
  <2> QED
    BY <2>1, <2>2, AcceptCount
<1>2. CASE HandleConn
  <2>1. Accepting = 1 /\ Accepting' = 1 /\ wg' = wg + 1 /\ UNCHANGED <<waiter, inner>>
    BY <1>2 DEF HandleConn, Accepting, jobVars
  <2>2. PICK c \in Conns : h[c] = "dialled" /\ h' = [h EXCEPT ![c] = "select"]
    BY <1>2 DEF HandleConn
  <2>3. c \notin Handlers /\ Handlers' = Handlers \cup {c}
    BY <2>2 DEF Handlers, TypeInv, TypeOK, Live, HandlerStates
  <2> QED
    BY <2>1, <2>3, AcceptCount
<1> QED
  BY <1>1, <1>2 DEF AcceptStep

\* The goroutines of a document leave the count one by one as they return.
LEMMA JobCounts ==
  ASSUME TypeInv, Counted, NEW d \in Docs, JobStep(d)
  PROVE  Counted'
<1>1. UNCHANGED <<h, accept>> /\ Handlers' = Handlers /\ Accepting' = Accepting
  BY DEF JobStep, connVars, Handlers, Accepting
<1>2. /\ Accepting \in {0, 1} /\ wg \in Nat
      /\ waiter \in [Docs -> Jobs!WaiterStages] /\ inner \in [Docs -> Jobs!InnerStages]
  BY DEF Accepting, TypeInv, TypeOK
<1>3. CASE WaiterReturns(d)
  <2>1. d \in Waiters /\ Waiters' = Waiters \ {d} /\ Inners' = Inners
    BY <1>2, <1>3 DEF WaiterReturns, Waiters, Inners
  <2>2. Cardinality(Waiters') = Cardinality(Waiters) - 1
    BY <2>1, CountsAreNat, OneFewer
  <2> QED
    BY <1>1, <1>2, <1>3, <2>1, <2>2, CountsAreNat DEF Counted, WaiterReturns
<1>4. CASE InnerReturns(d)
  <2>1. d \in Inners /\ Inners' = Inners \ {d} /\ Waiters' = Waiters
    BY <1>2, <1>4 DEF InnerReturns, Waiters, Inners
  <2>2. Cardinality(Inners') = Cardinality(Inners) - 1
    BY <2>1, CountsAreNat, OneFewer
  <2> QED
    BY <1>1, <1>2, <1>4, <2>1, <2>2, CountsAreNat DEF Counted, InnerReturns
<1>5. CASE RebuildBegins(d) \/ JobEndsAll
  <2>1. wg' = wg /\ Waiters' = Waiters /\ Inners' = Inners
    BY <1>2, <1>5 DEF RebuildBegins, JobEndsAll, Waiters, Inners, jobVars
  <2> QED
    BY <1>1, <2>1 DEF Counted
<1> QED
  BY <1>3, <1>4, <1>5, JobMoves

\* A handler leaves the count as it returns, or adds the two of a document.
LEMMA HandlerCounts ==
  ASSUME TypeInv, Counted, NEW c \in Conns, HandlerStep(c)
  PROVE  Counted'
<1> USE DEF Goes
<1>1. h \in [Conns -> HandlerStates] /\ wg \in Nat /\ Accepting \in {0, 1}
  BY DEF TypeInv, TypeOK, Accepting
<1>2. ASSUME UNCHANGED <<waiter, inner, wg, accept>>, h[c] \in Live, h' = h \/ \E s \in Live : h' = [h EXCEPT ![c] = s]
      PROVE  Counted'
  <2>1. Handlers' = Handlers
    BY <1>1, <1>2 DEF Handlers
  <2> QED
    BY <1>2, <2>1, SameCount
<1>3. CASE Ignore(c) \/ Control(c) \/ Quit(c) \/ Sanitize(c) \/ CloseAfterToken(c) \/ AfterMessage(c)
  BY <1>2, <1>3 DEF Ignore, Control, Quit, Sanitize, CloseAfterToken, AfterMessage, Live, HandlerStates, jobVars
<1>4. CASE SendOnClosed(c)
  BY <1>2, <1>4 DEF SendOnClosed, connVars, jobVars, Sending, Live, HandlerStates
<1>5. CASE Enqueue(c)
  <2>1. Handlers' = Handlers /\ Accepting' = Accepting
    BY <1>1, <1>5 DEF Enqueue, Handlers, Live, HandlerStates, Accepting
  <2>2. CASE UNCHANGED <<jobVars, wg>>
    BY <2>1, <2>2 DEF Counted, Waiters, Inners, jobVars
  <2>3. CASE Jobs!Spawn(Message(c)) /\ wg' = wg + JobGoroutines
    <3>1. Message(c) \in Docs
      BY <1>5 DEF Enqueue, TypeInv, TypeOK, BackupReads, Message
    <3>2. /\ Message(c) \notin Waiters /\ Waiters' = Waiters \cup {Message(c)}
          /\ Message(c) \notin Inners /\ Inners' = Inners \cup {Message(c)}
      BY <2>3, <3>1 DEF Waiters, Inners, TypeInv, TypeOK, Jobs!Spawn, Jobs!WaiterMoves, Jobs!InnerMoves
    <3>3. /\ Cardinality(Waiters') = Cardinality(Waiters) + 1
          /\ Cardinality(Inners') = Cardinality(Inners) + 1
      BY <3>2, CountsAreNat, OneMore
    <3> QED
      BY <1>1, <2>1, <2>3, <3>3, CountsAreNat DEF Counted, JobGoroutines
  <2> QED
    BY <1>5, <2>2, <2>3 DEF Enqueue
<1>6. CASE QuitSeen(c) \/ InputEnds(c)
  <2>1. UNCHANGED <<accept, waiter, inner>> /\ wg' = wg - 1 /\ h[c] \in Live /\ h' = [h EXCEPT ![c] = "gone"]
    BY <1>6 DEF QuitSeen, InputEnds, LeavesOnQuit, Leave, Returns, jobVars, Live, HandlerStates
  <2>2. c \in Handlers /\ Handlers' = Handlers \ {c}
    BY <1>1, <2>1 DEF Handlers, Live
  <2> QED
    BY <2>1, <2>2, ReturnCount
<1>7. CASE PassToken(c)
  <2>1. h[c] \in Live /\ AfterToken(c) \in Live /\ UNCHANGED <<waiter, inner>>
    BY <1>7 DEF PassToken, Sending, AfterToken, Live, HandlerStates, jobVars
  <2>2. CASE TokenToMain(c) \/ TokenToMonitor(c)
    BY <1>2, <2>1, <2>2 DEF TokenToMain, TokenToMonitor
  <2>3. CASE TokenToHandler(c)
    <3>1. PICK e \in Conns \ {c} : LeavesOnQuit(e) /\ h' = [h EXCEPT ![c] = AfterToken(c), ![e] = "gone"]
      BY <2>3 DEF TokenToHandler
    <3>2. e \in Handlers /\ Handlers' = Handlers \ {e}
      BY <1>1, <2>1, <3>1 DEF Handlers, LeavesOnQuit, Live, HandlerStates
    <3> QED
      BY <2>1, <2>3, <3>2, ReturnCount DEF TokenToHandler, Returns
  <2>4. CASE TokenToAccept(c)
    <3>1. Handlers' = Handlers
      BY <1>1, <2>1, <2>4 DEF TokenToAccept, Handlers, Live
    <3> QED
      BY <2>1, <2>4, <3>1, AcceptCount DEF TokenToAccept, Accepting, Returns
  <2> QED
    BY <1>7, <2>2, <2>3, <2>4 DEF PassToken
<1> QED
  BY <1>3, <1>4, <1>5, <1>6, <1>7 DEF HandlerStep

\* Monitors, signals and clients start and end nobody who is counted.
LEMMA EnvCounts ==
  ASSUME TypeInv, Counted, NEW c \in Conns, MonitorStep(c) \/ Signal \/ ClientStep(c)
  PROVE  Counted'
<1>1. CASE Dial(c)
  <2>1. Handlers' = Handlers
    BY <1>1 DEF Dial, Goes, Handlers, Live, TypeInv, TypeOK
  <2> QED
    BY <1>1, <2>1, SameCount DEF Dial, jobVars
<1>2. CASE ~Dial(c)
  <2>1. UNCHANGED <<h, accept, waiter, inner, wg>>
    BY <1>2 DEF MonitorStep, MonitorSees, ReaderStops, Signal, ClientStep, ClientCloses, ClientSends, connVars, jobVars
  <2>2. Handlers' = Handlers
    BY <2>1 DEF Handlers
  <2> QED
    BY <2>1, <2>2, SameCount
<1> QED
  BY <1>1, <1>2

\* The accept loop is on before anybody is accepted, and serves one dial at a time.
LEMMA MainDialled ==
  ASSUME TypeInv, OneDialled, MainStep
  PROVE  OneDialled'
  BY DEF OneDialled, MainStep, Setup, StopStep, StartSelect, CloseListener, CloseQuit, StopWait, QuitExcel,
     connVars, mainVars

\* The accept loop lets go of the connection it has in hand.
LEMMA AcceptDialled ==
  ASSUME TypeInv, OneDialled, AcceptStep
  PROVE  OneDialled'
<1> USE DEF TypeInv, TypeOK, OneDialled, mainVars, connVars
<1>1. CASE RejectConn
  BY <1>1 DEF RejectConn
<1>2. CASE HandleConn
  BY <1>2 DEF HandleConn
<1>3. CASE AcceptFails
  BY <1>3 DEF AcceptFails
<1> QED
  BY <1>1, <1>2, <1>3 DEF AcceptStep

\* Steps of handlers keep the one connection in hand.
LEMMA HandlerDialled ==
  ASSUME TypeInv, OneDialled, NEW c \in Conns, HandlerStep(c)
  PROVE  OneDialled'
<1>1. h \in [Conns -> HandlerStates]
  BY DEF TypeInv, TypeOK
<1>2. ASSUME NEW s \in HandlerStates \ {"dialled"}, h' = [h EXCEPT ![c] = s], UNCHANGED accept,
             main' = main \/ (main \in {"select", "quitsel"} /\ main' \in {"close", "wait"})
      PROVE  OneDialled'
  BY <1>1, <1>2 DEF OneDialled
<1>3. CASE Ignore(c) \/ SendOnClosed(c)
  BY <1>3 DEF Ignore, SendOnClosed, OneDialled, mainVars, connVars
<1>4. CASE Control(c) \/ Quit(c) \/ Sanitize(c) \/ Enqueue(c) \/ CloseAfterToken(c) \/ AfterMessage(c)
  BY <1>2, <1>4 DEF Control, Quit, Sanitize, Enqueue, CloseAfterToken, AfterMessage, Goes, HandlerStates, mainVars
<1>5. CASE QuitSeen(c) \/ InputEnds(c)
  BY <1>2, <1>5 DEF QuitSeen, InputEnds, Leave, HandlerStates, mainVars
<1>6. CASE PassToken(c)
  <2>1. AfterToken(c) \in HandlerStates \ {"dialled"}
    BY DEF AfterToken, HandlerStates
  <2>2. CASE TokenToMain(c) \/ TokenToMonitor(c)
    BY <1>2, <2>1, <2>2 DEF TokenToMain, TokenToMonitor
  <2>3. CASE TokenToHandler(c)
    BY <1>1, <2>1, <2>3 DEF TokenToHandler, OneDialled
  <2>4. CASE TokenToAccept(c)
    BY <1>1, <2>1, <2>4 DEF TokenToAccept, OneDialled
  <2> QED
    BY <1>6, <2>2, <2>3, <2>4 DEF PassToken
<1> QED
  BY <1>3, <1>4, <1>5, <1>6 DEF HandlerStep

\* A client dials only when the accept loop has nobody in hand.
LEMMA EnvDialled ==
  ASSUME TypeInv, OneDialled, NEW c \in Conns, MonitorStep(c) \/ Signal \/ ClientStep(c)
  PROVE  OneDialled'
<1>1. CASE Dial(c)
  BY <1>1 DEF Dial, Goes, TypeInv, TypeOK, OneDialled, mainVars
<1>2. CASE ~Dial(c)
  <2>1. UNCHANGED <<main, h, accept>>
    BY <1>2 DEF MonitorStep, MonitorSees, ReaderStops, Signal, ClientStep, ClientCloses, ClientSends, connVars, mainVars
  <2> QED
    BY <2>1 DEF OneDialled
<1> QED
  BY <1>1, <1>2

\* With the counter at zero nobody is left who could raise it.
LEMMA NobodyAdds ==
  ASSUME TypeInv, DrainInv, wg = 0, main # "setup", NEW clients \in SUBSET Conns,
         ServerNext \/ EnvNext(clients)
  PROVE  wg' = 0
<1>1. ~ (wg - 1 \in Nat) /\ Counted
  BY DEF DrainInv
<1>2. /\ accept \notin {"accept", "got"}
      /\ \A c \in Conns : h[c] \notin Live
      /\ \A d \in Docs : waiter[d] \notin {"wait", "rebuild"} /\ inner[d] # "work"
  BY <1>1, SomebodyIsCounted
<1>3. CASE MainStep
  BY <1>3 DEF MainStep, Setup, StopStep, StartSelect, CloseListener, CloseQuit, StopWait, QuitExcel
<1>4. CASE AcceptStep
  BY <1>2, <1>4 DEF AcceptStep, RejectConn, HandleConn, AcceptFails
<1>5. ASSUME NEW c \in Conns, HandlerStep(c)
      PROVE  FALSE
  <2>1. h[c] \in Live
    BY <1>5 DEF HandlerStep, Ignore, Control, Quit, Sanitize, Enqueue, CloseAfterToken, QuitSeen,
       LeavesOnQuit, AfterMessage, InputEnds, PassToken, SendOnClosed, Goes, Sending, Live, HandlerStates
  <2> QED
    BY <1>2, <2>1
<1>6. ASSUME NEW c \in Conns, MonitorStep(c) \/ Signal \/ ClientStep(c)
      PROVE  wg' = 0
  BY <1>6 DEF MonitorStep, MonitorSees, ReaderStops, Signal, ClientStep, Dial, ClientCloses, ClientSends
<1>7. ASSUME NEW d \in Docs, JobStep(d)
      PROVE  wg' = 0
  BY <1>2, <1>7, JobMoves DEF WaiterReturns, InnerReturns, RebuildBegins, JobEndsAll
<1>8. CASE Signal
  BY <1>8 DEF Signal
<1> QED
  BY <1>3, <1>4, <1>5, <1>6, <1>7, <1>8
     DEF ServerNext, EnvNext, MainNext, AcceptNext, HandlerNext, MonitorNext, JobNext

\* Everything that a living process does to what drains it.
LEMMA DrainStep ==
  ASSUME TypeInv, DrainInv, NEW clients \in SUBSET Conns, ServerNext \/ EnvNext(clients)
  PROVE  DrainInv'
<1> USE DEF DrainInv
<1>1. Up
  BY DEF ServerNext, EnvNext, MainNext, AcceptNext, HandlerNext, MonitorNext, JobNext
<1>2. Waited'
  <2>1. main = "drained" => wg' = 0
    BY NobodyAdds DEF Waited
  <2>2. main # "drained" /\ main' = "drained" => wg' = 0
    <3>1. CASE MainStep
      BY <3>1 DEF MainStep, Setup, StopStep, StartSelect, CloseListener, CloseQuit, StopWait, QuitExcel, mainVars
    <3>2. CASE AcceptStep
      BY <3>2 DEF AcceptStep, RejectConn, HandleConn, AcceptFails, mainVars
    <3>3. ASSUME NEW c \in Conns, HandlerStep(c)
          PROVE  main # "drained" => main' # "drained"
      BY <3>3 DEF HandlerStep, Ignore, Control, Quit, Sanitize, Enqueue, CloseAfterToken, QuitSeen, AfterMessage,
         InputEnds, PassToken, TokenToMain, TokenToMonitor, TokenToHandler, TokenToAccept, SendOnClosed, mainVars
    <3>4. ASSUME NEW c \in Conns, MonitorStep(c) \/ Signal \/ ClientStep(c)
          PROVE  main' = main
      BY <3>4 DEF MonitorStep, MonitorSees, ReaderStops, Signal, ClientStep, Dial, ClientCloses, ClientSends, mainVars
    <3>5. ASSUME NEW d \in Docs, JobStep(d)
          PROVE  main' = main
      BY <3>5 DEF JobStep, mainVars
    <3>6. CASE Signal
      BY <3>6 DEF Signal
    <3> QED
      BY <3>1, <3>2, <3>3, <3>4, <3>5, <3>6
         DEF ServerNext, EnvNext, MainNext, AcceptNext, HandlerNext, MonitorNext, JobNext
  <2>3. fate' = "graceful" => main' = "drained"
    <3>1. CASE MainStep
      BY <1>1, <3>1 DEF Up, MainStep, Setup, StopStep, StartSelect, CloseListener, CloseQuit, StopWait, QuitExcel, mainVars
    <3>2. CASE AcceptStep
      BY <1>1, <3>2 DEF Up, AcceptStep, RejectConn, HandleConn, AcceptFails
    <3>3. ASSUME NEW c \in Conns, HandlerStep(c)
          PROVE  fate' # "graceful"
      BY <1>1, <3>3 DEF Up, HandlerStep, Ignore, Control, Quit, Sanitize, Enqueue, CloseAfterToken,
         QuitSeen, AfterMessage, InputEnds, PassToken, SendOnClosed
    <3>4. ASSUME NEW c \in Conns, MonitorStep(c) \/ Signal \/ ClientStep(c)
          PROVE  fate' # "graceful"
      BY <1>1, <3>4 DEF Up, MonitorStep, MonitorSees, ReaderStops, Signal, ClientStep, Dial,
         ClientCloses, ClientSends
    <3>5. ASSUME NEW d \in Docs, JobStep(d)
          PROVE  fate' # "graceful"
      BY <1>1, <3>5, JobMoves DEF Up, WaiterReturns, InnerReturns, RebuildBegins, JobEndsAll
    <3>6. CASE Signal
      BY <1>1, <3>6 DEF Up, Signal
    <3> QED
      BY <3>1, <3>2, <3>3, <3>4, <3>5, <3>6
         DEF ServerNext, EnvNext, MainNext, AcceptNext, HandlerNext, MonitorNext, JobNext
  <2> QED
    BY <2>1, <2>2, <2>3 DEF Waited
<1>3. CASE MainStep
  BY <1>2, <1>3, MainCounts, MainDialled
<1>4. CASE AcceptStep
  BY <1>2, <1>4, AcceptCounts, AcceptDialled
<1>5. ASSUME NEW c \in Conns, HandlerStep(c)
      PROVE  DrainInv'
  BY <1>2, <1>5, HandlerCounts, HandlerDialled
<1>6. ASSUME NEW c \in Conns, MonitorStep(c) \/ Signal \/ ClientStep(c)
      PROVE  DrainInv'
  BY <1>2, <1>6, EnvCounts, EnvDialled
<1>7. ASSUME NEW d \in Docs, JobStep(d)
      PROVE  DrainInv'
  <2>1. OneDialled'
    BY <1>7 DEF JobStep, OneDialled, mainVars, connVars
  <2> QED
    BY <1>2, <1>7, <2>1, JobCounts
<1>8. CASE Signal
  <2>1. UNCHANGED <<main, h, accept, waiter, inner, wg>>
    BY <1>8 DEF Signal, connVars, jobVars
  <2>2. Handlers' = Handlers
    BY <2>1 DEF Handlers
  <2>3. OneDialled'
    BY <2>1 DEF OneDialled
  <2> QED
    BY <1>2, <2>1, <2>2, <2>3, SameCount
<1> QED
  BY <1>3, <1>4, <1>5, <1>6, <1>7, <1>8
     DEF ServerNext, EnvNext, MainNext, AcceptNext, HandlerNext, MonitorNext, JobNext

-----------------------------------------------------------------------------
(* The quit channel. *)

\* Steps of main keep what is known of the quit channel.
LEMMA MainQuits ==
  ASSUME QuitInv, Up, MainStep
  PROVE  QuitInv'
<1> USE DEF QuitInv, Senders, AfterQuit, StoppedByToken, StopTellsEveryone, Stopping, Stopped,
        mainVars, connVars, history, Up
<1>1. CASE Setup
  BY <1>1 DEF Setup
<1>2. CASE StartSelect
  BY <1>2 DEF StartSelect
<1>3. CASE CloseListener
  BY <1>3 DEF CloseListener
<1>4. CASE CloseQuit
  BY <1>4 DEF CloseQuit
<1>5. CASE StopWait
  BY <1>5 DEF StopWait
<1>6. CASE QuitExcel
  BY <1>6 DEF QuitExcel
<1> QED
  BY <1>1, <1>2, <1>3, <1>4, <1>5, <1>6 DEF MainStep, StopStep

\* Where nobody who has anything to do with a token moves, nothing changes.
LEMMA OthersMove ==
  ASSUME QuitInv, Up, UNCHANGED <<main, signalled, quitClosed, history, fate>>,
         \A c \in Conns : h'[c] = h[c] \/
            (h[c] \in {"none", "dialled", "select", "backup"} /\ h'[c] \in HandlerStates \ {"quitSend", "quitClose", "refuseSend"}),
         quitters \subseteq Conns
  PROVE  QuitInv'
  BY DEF QuitInv, Senders, AfterQuit, StoppedByToken, StopTellsEveryone, history, Up

\* Steps of the accept loop keep what is known of the quit channel.
LEMMA AcceptQuits ==
  ASSUME TypeInv, QuitInv, Up, AcceptStep
  PROVE  QuitInv'
<1>1. UNCHANGED <<main, signalled, quitClosed, history, fate>>
  BY DEF AcceptStep, RejectConn, HandleConn, AcceptFails, mainVars
<1>2. \A c \in Conns : h'[c] = h[c] \/ (h[c] = "dialled" /\ h'[c] \in {"gone", "select"})
  BY DEF AcceptStep, RejectConn, HandleConn, AcceptFails, connVars, TypeInv, TypeOK
<1>3. quitters \subseteq Conns
  BY DEF TypeInv, TypeOK
<1> QED
  BY <1>1, <1>2, <1>3, OthersMove DEF HandlerStates

\* Steps of monitors and clients keep what is known of the quit channel.
LEMMA EnvQuits ==
  ASSUME TypeInv, QuitInv, Up, NEW c \in Conns, MonitorStep(c) \/ ClientStep(c)
  PROVE  QuitInv'
<1>1. UNCHANGED <<main, signalled, quitClosed, history, fate>>
  BY DEF MonitorStep, MonitorSees, ReaderStops, ClientStep, Dial, ClientCloses, ClientSends, mainVars
<1>2. \A e \in Conns : h'[e] = h[e] \/ (h[e] = "none" /\ h'[e] = "dialled")
  BY DEF MonitorStep, MonitorSees, ReaderStops, ClientStep, Dial, ClientCloses, ClientSends, connVars,
     Goes, TypeInv, TypeOK
<1>3. quitters \subseteq Conns
  BY DEF TypeInv, TypeOK
<1> QED
  BY <1>1, <1>2, <1>3, OthersMove DEF HandlerStates

\* A token is passed: whoever stops the server now, the sender is past its send,
\* and if it was a quit it will close the channel.
LEMMA TokenQuits ==
  ASSUME TypeInv, QuitInv, Up, NEW c \in Conns, PassToken(c)
  PROVE  QuitInv'
<1>1. /\ h[c] \in {"quitSend", "refuseSend"} /\ ~quitClosed
      /\ UNCHANGED <<signalled, quitClosed, history, fate>>
  BY DEF PassToken, Sending
<1>2. h'[c] = IF h[c] = "quitSend" THEN "quitClose" ELSE "after"
  BY DEF PassToken, TokenToMain, TokenToMonitor, TokenToHandler, TokenToAccept, AfterToken, TypeInv, TypeOK
<1>3. \A e \in Conns \ {c} : \/ h'[e] = h[e]
                             \/ h[e] \in {"select", "after", "dialled"} /\ h'[e] = "gone"
  BY DEF PassToken, TokenToMain, TokenToMonitor, TokenToHandler, TokenToAccept, LeavesOnQuit, TypeInv, TypeOK
<1>4. main' = main \/ (main' = "close" /\ main = "select") \/ (main' = "wait" /\ main = "quitsel")
  BY DEF PassToken, TokenToMain, TokenToMonitor, TokenToHandler, TokenToAccept
<1>5. quitters \subseteq Conns
  BY DEF TypeInv, TypeOK
<1>6. Senders'
  BY <1>1, <1>2, <1>3 DEF QuitInv, Senders, history
<1>7. AfterQuit'
  BY <1>1, <1>2, <1>3, <1>5 DEF QuitInv, AfterQuit, history
<1>8. StoppedByToken'
  <2>1. refusers = {} => c \in quitters /\ h'[c] = "quitClose"
    BY <1>1, <1>2 DEF QuitInv, Senders
  <2> QED
    BY <1>1, <2>1 DEF StoppedByToken, history
<1>9. StopTellsEveryone'
  <2>1. refusers = {} => h'[c] = "quitClose"
    BY <1>1, <1>2 DEF QuitInv, Senders
  <2> QED
    BY <1>1, <1>4, <2>1 DEF StopTellsEveryone, history
<1> QED
  BY <1>6, <1>7, <1>8, <1>9 DEF QuitInv

\* A handler that sends a token or closes the channel keeps what is known of it.
LEMMA HandlerQuits ==
  ASSUME TypeInv, QuitInv, Up, NEW c \in Conns, HandlerStep(c)
  PROVE  QuitInv'
<1>1. h \in [Conns -> HandlerStates] /\ quitters \subseteq Conns /\ refusers \subseteq Conns
  BY DEF TypeInv, TypeOK
<1> USE DEF Goes, history, mainVars, connVars
<1>2. CASE Ignore(c) \/ Control(c) \/ Enqueue(c) \/ InputEnds(c)
  <2>1. UNCHANGED <<main, signalled, quitClosed, history, fate>>
    BY <1>2 DEF Ignore, Control, Enqueue, InputEnds
  <2>2. h' = h \/ \E s \in {"after", "gone"} : h[c] \in {"select", "backup"} /\ h' = [h EXCEPT ![c] = s]
    BY <1>2 DEF Ignore, Control, Enqueue, InputEnds, Leave
  <2> QED
    BY <1>1, <2>1, <2>2, OthersMove DEF HandlerStates
<1>3. CASE Quit(c)
  BY <1>1, <1>3 DEF Quit, QuitInv, Senders, AfterQuit, StoppedByToken, StopTellsEveryone, Up
<1>4. CASE Sanitize(c)
  BY <1>1, <1>4 DEF Sanitize, QuitInv, Senders, AfterQuit, StoppedByToken, StopTellsEveryone, Up
<1>5. CASE CloseAfterToken(c)
  BY <1>1, <1>5 DEF CloseAfterToken, QuitInv, Senders, AfterQuit, StoppedByToken, StopTellsEveryone, Up
<1>6. CASE QuitSeen(c)
  BY <1>1, <1>6 DEF QuitSeen, LeavesOnQuit, Leave, QuitInv, Senders, AfterQuit, StoppedByToken, StopTellsEveryone, Up
<1>7. CASE AfterMessage(c)
  BY <1>1, <1>7 DEF AfterMessage, QuitInv, Senders, AfterQuit, StoppedByToken, StopTellsEveryone, Up
<1>8. CASE PassToken(c)
  BY <1>8, TokenQuits
<1>9. CASE SendOnClosed(c)
  BY <1>9 DEF SendOnClosed, QuitInv, Senders, AfterQuit, StoppedByToken, StopTellsEveryone, Up
<1> QED
  BY <1>2, <1>3, <1>4, <1>5, <1>6, <1>7, <1>8, <1>9 DEF HandlerStep

\* Two quits at least, a refusal or a signal are behind a send on the closed channel.
LEMMA PanicStep ==
  ASSUME TypeInv, QuitInv, Up, NEW c \in Conns, SendOnClosed(c)
  PROVE  PanicNeedsRace'
<1>1. UNCHANGED <<quitters, refusers, signalled>>
  BY DEF SendOnClosed, history, mainVars
<1>2. CASE refusers # {} \/ signalled
  BY <1>1, <1>2 DEF PanicNeedsRace
<1>3. CASE refusers = {} /\ ~signalled
  <2>1. c \in quitters /\ h[c] = "quitSend"
    BY <1>3 DEF SendOnClosed, Sending, QuitInv, Senders
  <2>2. PICK e \in quitters : h[e] # "quitSend"
    BY <1>3 DEF SendOnClosed, QuitInv, StoppedByToken
  <2>3. IsFiniteSet(quitters)
    BY ServerAssumption, FS_Subset DEF TypeInv, TypeOK
  <2>4. Cardinality({c}) = 1 /\ {c} \subseteq quitters \ {e}
    BY <2>1, <2>2, FS_Singleton
  <2>6. IsFiniteSet(quitters \ {e}) /\ Cardinality(quitters \ {e}) = Cardinality(quitters) - 1
    BY <2>2, <2>3, FS_RemoveElement
  <2>5. Cardinality({c}) <= Cardinality(quitters) - 1 /\ Cardinality(quitters) \in Nat
    BY <2>3, <2>4, <2>6, FS_Subset, FS_CardinalityType
  <2> QED
    BY <1>1, <2>4, <2>5 DEF PanicNeedsRace
<1> QED
  BY <1>2, <1>3

\* Every step keeps what is known of the quit channel, and panics only in a race.
LEMMA QuitStep ==
  ASSUME TypeInv, QuitInv, PanicNeedsRace, NEW clients \in SUBSET Conns, ServerNext \/ EnvNext(clients)
  PROVE  QuitInv' /\ PanicNeedsRace'
<1>1. Up
  BY DEF ServerNext, EnvNext, MainNext, AcceptNext, HandlerNext, MonitorNext, JobNext
<1>2. CASE fate' # "sendOnClosed"
  <2>1. PanicNeedsRace'
    BY <1>2 DEF PanicNeedsRace
  <2>2. CASE MainStep
    BY <1>1, <2>1, <2>2, MainQuits
  <2>3. CASE AcceptStep
    BY <1>1, <2>1, <2>3, AcceptQuits
  <2>4. ASSUME NEW c \in Conns, HandlerStep(c)
        PROVE  QuitInv'
    BY <1>1, <2>4, HandlerQuits
  <2>5. ASSUME NEW c \in Conns, MonitorStep(c) \/ ClientStep(c)
        PROVE  QuitInv'
    BY <1>1, <2>5, EnvQuits
  <2>6. ASSUME NEW d \in Docs, JobStep(d)
        PROVE  QuitInv'
    BY <1>1, <2>6 DEF JobStep, QuitInv, Senders, AfterQuit, StoppedByToken, StopTellsEveryone, Up,
       history, mainVars, connVars
  <2>7. CASE Signal
    <3>1. signalled' /\ main = "select" /\ UNCHANGED <<main, quitClosed, h, quitters, refusers>>
      BY <2>7 DEF Signal, history, connVars
    <3>2. Senders' /\ AfterQuit'
      BY <3>1 DEF QuitInv, Senders, AfterQuit
    <3>3. StoppedByToken' /\ StopTellsEveryone'
      BY <3>1 DEF StoppedByToken, StopTellsEveryone, Stopping, Stopped
    <3> QED
      BY <2>1, <3>2, <3>3 DEF QuitInv
  <2> QED
    BY <2>1, <2>2, <2>3, <2>4, <2>5, <2>6, <2>7
       DEF ServerNext, EnvNext, MainNext, AcceptNext, HandlerNext, MonitorNext, JobNext
<1>3. CASE fate' = "sendOnClosed"
  <2>1. PICK c \in Conns : SendOnClosed(c)
    <3>1. ~ MainStep
      BY <1>1, <1>3 DEF Up, MainStep, Setup, StopStep, StartSelect, CloseListener, CloseQuit, StopWait, QuitExcel,
         mainVars
    <3>2. ~ AcceptStep
      BY <1>1, <1>3 DEF Up, AcceptStep, RejectConn, HandleConn, AcceptFails
    <3>3. ~ Signal /\ \A c \in Conns : ~ MonitorStep(c) /\ ~ ClientStep(c)
      BY <1>1, <1>3 DEF Up, MonitorStep, MonitorSees, ReaderStops, Signal, ClientStep, Dial,
         ClientCloses, ClientSends
    <3>4. \A d \in Docs : ~ JobStep(d)
      BY <1>1, <1>3, JobMoves DEF Up, WaiterReturns, InnerReturns, RebuildBegins, JobEndsAll
    <3>5. \A c \in Conns : HandlerStep(c) => SendOnClosed(c)
      BY <1>1, <1>3 DEF Up, HandlerStep, Ignore, Control, Quit, Sanitize, Enqueue, CloseAfterToken,
         QuitSeen, AfterMessage, InputEnds, PassToken
    <3> QED
      BY <3>1, <3>2, <3>3, <3>4, <3>5
         DEF ServerNext, EnvNext, MainNext, AcceptNext, HandlerNext, MonitorNext, JobNext
  <2> QED
    BY <1>1, <2>1, PanicStep, HandlerQuits DEF HandlerStep
<1> QED
  BY <1>2, <1>3

-----------------------------------------------------------------------------
(* The theorems about the server. *)

\* Every step keeps the types.
LEMMA TypeStep ==
  ASSUME TypeInv, Counted, NEW clients \in SUBSET Conns, ServerNext \/ EnvNext(clients)
  PROVE  TypeInv'
<1>1. CASE Signal
  BY <1>1 DEF Signal, TypeInv, TypeOK, BackupReads, connVars, jobVars, history
<1> QED
  BY <1>1, MainTypes, AcceptTypes, HandlerTypes, MonitorTypes, JobTypes, EnvTypes
     DEF ServerNext, EnvNext, MainNext, AcceptNext, HandlerNext, MonitorNext, JobNext

\* At first the server's invariant holds.
LEMMA ServerInit == Init => ServerInv
<1> SUFFICES ASSUME Init
             PROVE  ServerInv
  OBVIOUS
<1>1. TypeInv
  BY TypeInvInit
<1>2. Counted
  <2>1. Accepting = 0 /\ Handlers = {} /\ Waiters = {} /\ Inners = {} /\ wg = 0
    BY DEF Init, Accepting, Handlers, Waiters, Inners, Live
  <2> QED
    BY <2>1, FS_EmptySet DEF Counted
<1>3. OneDialled /\ Waited
  BY DEF Init, OneDialled, Waited
<1>4. QuitInv /\ PanicNeedsRace
  BY DEF Init, QuitInv, Senders, AfterQuit, StoppedByToken, StopTellsEveryone, Stopping, Stopped, PanicNeedsRace
<1> QED
  BY <1>1, <1>2, <1>3, <1>4 DEF ServerInv, DrainInv

\* Every step of the server and of its environment keeps the server's invariant.
LEMMA ServerStep ==
  ASSUME ServerInv, NEW clients \in SUBSET Conns, ServerNext \/ EnvNext(clients)
  PROVE  ServerInv'
  BY TypeStep, DrainStep, QuitStep DEF ServerInv, DrainInv

\* A step that changes nothing of the server keeps its invariant.
LEMMA ServerStutter ==
  ASSUME ServerInv, UNCHANGED vars
  PROVE  ServerInv'
  BY DEF ServerInv, TypeInv, TypeOK, BackupReads, DrainInv, Counted, Accepting, Handlers, Waiters, Inners,
     OneDialled, Waited, QuitInv, Senders, AfterQuit, StoppedByToken, StopTellsEveryone, PanicNeedsRace,
     Up, vars, mainVars, connVars, jobVars, history

\* The invariant of the helper's server, whoever its clients are.
THEOREM ServerInvariant == Spec => []ServerInv
<1>1. ServerInv /\ [Next]_vars => ServerInv'
  BY ServerStep, ServerStutter DEF Next
<1> QED
  BY <1>1, ServerInit, PTL DEF Spec

\* A stop that waited for its goroutines leaves none of them behind: the counter is
\* never below their number.
LEMMA GracefulDrains == ServerInv => GracefulStopDrains
<1> SUFFICES ASSUME ServerInv, main = "drained" \/ fate = "graceful"
             PROVE  /\ accept = "gone"
                    /\ \A c \in Conns : h[c] \in {"none", "gone"}
                    /\ \A d \in Docs : waiter[d] \in {"idle", "done"} /\ inner[d] \in {"idle", "done"}
  BY DEF GracefulStopDrains
<1>1. TypeInv /\ Counted /\ OneDialled /\ main = "drained" /\ wg = 0
  BY DEF ServerInv, DrainInv, Waited
<1>2. ~ (wg - 1 \in Nat)
  BY <1>1
<1>3. /\ accept \notin {"accept", "got"}
      /\ \A c \in Conns : h[c] \notin Live
      /\ \A d \in Docs : waiter[d] \notin {"wait", "rebuild"} /\ inner[d] # "work"
  BY <1>1, <1>2, SomebodyIsCounted
<1> QED
  BY <1>1, <1>3 DEF OneDialled, TypeInv, TypeOK, AcceptStates, HandlerStates, Live,
     Jobs!WaiterStages, Jobs!InnerStages

-----------------------------------------------------------------------------
(* The agent's end of the pipe. *)

ClientInv ==
  /\ cli \in ClientStates /\ queue \in Seq(Docs)
  /\ cli \in {"pingRead", "pongRead", "send", "sanitizeRead", "pingReport", "sendReport"} => queue # <<>>

\* How many messages and responses are on their way, by where the client is.
PipeCount ==
  cli # "gone" =>
    /\ cli \notin {"send", "sanitizeRead", "sendReport"}
    /\ \A i \in DOMAIN wire[conn] : wire[conn][i] \notin Docs
    /\ cli \in {"connect", "connectReport", "failed"} => h[conn] = "none" /\ wire[conn] = <<>> /\ resp[conn] = <<>>
    /\ cli = "pingReport" => PipeBroken
    /\ cli = "next" => PipeBroken \/ (wire[conn] = <<>> /\ resp[conn] = <<>>)
    /\ cli = "pingRead" => Len(wire[conn]) + Len(resp[conn]) <= 1
    /\ cli = "pongRead" => wire[conn] = <<>> /\ resp[conn] = <<>>

SessionInv == ServerInv /\ ClientInv /\ PipeCount

\* The agent's connection is one of them.
LEMMA ConnIsOne == conn \in Conns
<1>1. \E c \in Conns : \A e \in Conns : c <= e
  BY ServerAssumption, SessionAssumption, LeastMember
<1> QED
  BY <1>1 DEF conn

\* The bytes on a connection, when the helper or another client has moved: a message
\* was answered, or dropped, or what was not read yet was lost, or nothing happened.
Answered(c) ==
  wire[c] # <<>> /\ wire'[c] = Tail(wire[c]) /\ \E r \in Responses : resp'[c] = Append(resp[c], r)
Dropped(c) ==
  /\ resp'[c] = resp[c]
  /\ \/ wire[c] # <<>> /\ wire'[c] = Tail(wire[c])
     \/ wire[c] # <<>> /\ \E n \in 0..(Len(wire[c]) - 1) : wire'[c] = SubSeq(wire[c], 1, n)
     \/ wire'[c] = <<>>
     \/ wire'[c] = wire[c]

\* What the helper and the other clients may do to the bytes on the agent's connection.
LEMMA ConnMoves ==
  ASSUME TypeInv, ServerNext \/ EnvNext(Conns \ {conn})
  PROVE  /\ h[conn] \in {"none", "gone"} => h'[conn] = h[conn]
         /\ Answered(conn) \/ Dropped(conn)
<1> USE ConnIsOne DEF TypeInv, TypeOK, connVars
<1>1. CASE MainStep
  BY <1>1 DEF MainStep, Setup, StopStep, StartSelect, CloseListener, CloseQuit, StopWait, QuitExcel, Dropped
<1>2. CASE AcceptStep
  BY <1>2 DEF AcceptStep, RejectConn, HandleConn, AcceptFails, Dropped
<1>3. ASSUME NEW c \in Conns, HandlerStep(c)
      PROVE  /\ h[conn] \in {"none", "gone"} => h'[conn] = h[conn]
             /\ Answered(conn) \/ Dropped(conn)
  <2> USE DEF Goes, Take, Write
  <2>1. CASE Ignore(c)
    BY <2>1 DEF Ignore, Dropped
  <2>2. CASE Control(c)
    <3>1. Message(c) \in {"ping", "disconn", "unknown"} => Reply(Message(c)) \in Responses
      BY DEF Reply, Responses
    <3> QED
      BY <2>2, <3>1 DEF Control, Answered, Dropped
  <2>3. CASE Quit(c)
    BY <2>3 DEF Quit, Answered, Dropped, Responses
  <2>4. CASE Sanitize(c)
    BY <2>4 DEF Sanitize, Dropped
  <2>5. CASE Enqueue(c)
    BY <2>5 DEF Enqueue, BackupReads, Answered, Dropped, Responses
  <2>6. CASE CloseAfterToken(c) \/ AfterMessage(c) \/ SendOnClosed(c)
    BY <2>6 DEF CloseAfterToken, AfterMessage, SendOnClosed, Dropped
  <2>7. CASE QuitSeen(c) \/ InputEnds(c)
    BY <2>7 DEF QuitSeen, InputEnds, LeavesOnQuit, Leave, Closed, Dropped
  <2>8. CASE PassToken(c)
    BY <2>8 DEF PassToken, Sending, AfterToken, TokenToMain, TokenToMonitor, TokenToHandler, TokenToAccept,
       LeavesOnQuit, Closed, Dropped
  <2> QED
    BY <1>3, <2>1, <2>2, <2>3, <2>4, <2>5, <2>6, <2>7, <2>8 DEF HandlerStep
<1>4. ASSUME NEW c \in Conns, MonitorStep(c)
      PROVE  /\ h[conn] \in {"none", "gone"} => h'[conn] = h[conn]
             /\ Answered(conn) \/ Dropped(conn)
  <2>1. h' = h /\ resp' = resp
    BY <1>4 DEF MonitorStep, MonitorSees, ReaderStops
  <2>2. wire' = wire \/ (wire[c] # <<>> /\ \E n \in 0..(Len(wire[c]) - 1) : wire' = [wire EXCEPT ![c] = SubSeq(wire[c], 1, n)])
    BY <1>4 DEF MonitorStep, MonitorSees, ReaderStops
  <2> QED
    BY <2>1, <2>2 DEF Dropped
<1>5. ASSUME NEW c \in Conns \ {conn}, ClientStep(c)
      PROVE  /\ h[conn] \in {"none", "gone"} => h'[conn] = h[conn]
             /\ Answered(conn) \/ Dropped(conn)
  BY <1>5 DEF ClientStep, Dial, Goes, ClientCloses, ClientSends, Dropped
<1>6. ASSUME Signal \/ \E d \in Docs : JobStep(d)
      PROVE  /\ h[conn] \in {"none", "gone"} => h'[conn] = h[conn]
             /\ Answered(conn) \/ Dropped(conn)
  BY <1>6 DEF Signal, JobStep, Dropped
<1> QED
  BY <1>1, <1>2, <1>3, <1>4, <1>5, <1>6
     DEF ServerNext, EnvNext, MainNext, AcceptNext, HandlerNext, MonitorNext, JobNext

\* Nobody but the agent makes the messages and responses more.
LEMMA ConnShrinks ==
  ASSUME NEW S, NEW R, NEW w \in Seq(S), NEW v \in Seq(S), NEW r \in Seq(R), NEW q \in Seq(R),
         \/ w # <<>> /\ v = Tail(w) /\ \E x \in R : q = Append(r, x)
         \/ /\ q = r
            /\ \/ w # <<>> /\ v = Tail(w)
               \/ w # <<>> /\ \E n \in 0..(Len(w) - 1) : v = SubSeq(w, 1, n)
               \/ v = <<>>
               \/ v = w
  PROVE  /\ Len(v) + Len(q) <= Len(w) + Len(r)
         /\ w = <<>> => v = <<>> /\ q = r
         /\ \A i \in DOMAIN v : \E j \in DOMAIN w : v[i] = w[j]
<1>1. CASE w # <<>> /\ v = Tail(w)
  <2>1. Len(v) = Len(w) - 1 /\ \A i \in DOMAIN v : i + 1 \in DOMAIN w /\ v[i] = w[i + 1]
    BY <1>1
  <2>2. Len(q) <= Len(r) + 1
    OBVIOUS
  <2>3. Len(v) + Len(q) <= Len(w) + Len(r)
    BY <2>1, <2>2
  <2> QED
    BY <1>1, <2>1, <2>3
<1>2. CASE q = r /\ w # <<>> /\ \E n \in 0..(Len(w) - 1) : v = SubSeq(w, 1, n)
  <2>1. PICK n \in 0..(Len(w) - 1) : v = SubSeq(w, 1, n)
    BY <1>2
  <2>2. Len(v) = n /\ \A i \in 1..n : v[i] = w[i]
    BY <2>1, SubSeqProperties
  <2> QED
    BY <1>2, <2>1, <2>2
<1>3. CASE q = r /\ (v = <<>> \/ v = w)
  BY <1>3
<1> QED
  BY <1>1, <1>2, <1>3

\* Of one message and response in all, taking the response leaves nothing.
LEMMA LastOne ==
  ASSUME NEW S, NEW R, NEW w \in Seq(S), NEW r \in Seq(R), Len(w) + Len(r) <= 1, r # <<>>
  PROVE  w = <<>> /\ Tail(r) = <<>>
<1>1. Len(w) \in Nat /\ Len(r) \in Nat /\ Len(r) # 0
  OBVIOUS
<1>2. ASSUME NEW a \in Nat, NEW b \in Nat, a + b <= 1, b # 0
      PROVE  a = 0 /\ b = 1
  BY <1>2
<1>3. Len(w) = 0 /\ Len(r) = 1
  BY <1>1, <1>2
<1>4. Tail(r) \in Seq(R) /\ Len(Tail(r)) = 0
  BY <1>3
<1> QED
  BY <1>3, <1>4, EmptySeq

\* The steps of the others keep the count of what is on its way.
LEMMA PipeServerStep ==
  ASSUME SessionInv, TypeInv', cli # "gone", UNCHANGED clientVars, ServerNext \/ EnvNext(Conns \ {conn})
  PROVE  PipeCount'
<1>1. UNCHANGED <<cli, conn>> /\ Up
  BY DEF clientVars, ServerNext, EnvNext, MainNext, AcceptNext, HandlerNext, MonitorNext, JobNext, conn
<1>2. /\ wire[conn] \in Seq(Kinds \cup Docs) /\ wire'[conn] \in Seq(Kinds \cup Docs)
      /\ resp[conn] \in Seq(Responses) /\ resp'[conn] \in Seq(Responses)
  BY ConnIsOne DEF SessionInv, ServerInv, TypeInv, TypeOK
<1>3. /\ h[conn] \in {"none", "gone"} => h'[conn] = h[conn]
      /\ Answered(conn) \/ Dropped(conn)
  BY ConnMoves DEF SessionInv, ServerInv
<1>4. /\ Len(wire'[conn]) + Len(resp'[conn]) <= Len(wire[conn]) + Len(resp[conn])
      /\ wire[conn] = <<>> => wire'[conn] = <<>> /\ resp'[conn] = resp[conn]
      /\ \A i \in DOMAIN wire'[conn] : \E j \in DOMAIN wire[conn] : wire'[conn][i] = wire[conn][j]
  BY <1>2, <1>3, ConnShrinks DEF Answered, Dropped
<1>5. PipeBroken => PipeBroken'
  BY <1>1, <1>3 DEF PipeBroken, Up
<1>6. PipeCount
  BY DEF SessionInv
<1>7. \A i \in DOMAIN wire'[conn] : wire'[conn][i] \notin Docs
  BY <1>4, <1>6 DEF PipeCount
<1>8. cli = "pingRead" => Len(wire'[conn]) + Len(resp'[conn]) <= 1
  <2>1. ASSUME NEW a \in Nat, NEW b \in Nat, NEW x \in Nat, NEW y \in Nat, x + y <= a + b, a + b <= 1
        PROVE  x + y <= 1
    BY <2>1
  <2>4. /\ Len(wire[conn]) \in Nat /\ Len(resp[conn]) \in Nat
        /\ Len(wire'[conn]) \in Nat /\ Len(resp'[conn]) \in Nat
    BY <1>2
  <2>2. cli = "pingRead" => Len(wire[conn]) + Len(resp[conn]) <= 1
    BY <1>6 DEF PipeCount
  <2>3. Len(wire'[conn]) + Len(resp'[conn]) <= Len(wire[conn]) + Len(resp[conn])
    BY <1>4
  <2> QED
    BY <2>1, <2>2, <2>3, <2>4
<1> QED
  BY <1>1, <1>3, <1>4, <1>5, <1>6, <1>7, <1>8 DEF PipeCount

\* The client's own steps.
LEMMA ClientTypes ==
  ASSUME TypeInv, ClientInv, ClientNext
  PROVE  TypeInv' /\ ClientInv'
<1> USE ConnIsOne
<1>1. /\ UNCHANGED <<mainVars, quitClosed, sent, wg, jobVars, history, fate>>
      /\ \/ Connect \/ PingOut \/ PingRead \/ PongRead \/ SanitizeOut \/ SanitizeRead
         \/ QuitOut \/ QuitRead \/ Reported \/ WaitProcess
  BY DEF ClientNext
<1>2. ASSUME UNCHANGED <<accept, connVars>>
      PROVE  TypeInv'
  BY <1>1, <1>2 DEF TypeInv, TypeOK, BackupReads, mainVars, connVars, jobVars, history
<1>3. ASSUME ReadOk
      PROVE  TypeInv'
  <2>1. resp' \in [Conns -> Seq(Responses)]
    BY <1>3 DEF ReadOk, TypeInv, TypeOK
  <2> QED
    BY <1>1, <1>3, <2>1 DEF ReadOk, TypeInv, TypeOK, BackupReads, mainVars, connVars, jobVars, history
<1>4. ASSUME NEW m \in Kinds \cup Docs, WriteOk(m)
      PROVE  TypeInv'
  <2>1. Append(wire[conn], m) \in Seq(Kinds \cup Docs) /\ Append(wire[conn], m) # <<>>
    <3>1. wire[conn] \in Seq(Kinds \cup Docs)
      BY DEF TypeInv, TypeOK
    <3> QED
      BY <3>1, AppendProperties
  <2>2. wire' \in [Conns -> Seq(Kinds \cup Docs)] /\ \A c \in Conns : wire'[c] = <<>> => wire[c] = <<>>
    BY <1>4, <2>1 DEF WriteOk, TypeInv, TypeOK
  <2> QED
    BY <1>1, <1>4, <2>2 DEF WriteOk, TypeInv, TypeOK, BackupReads, mainVars, connVars, jobVars, history
<1>5. queue # <<>> => Tail(queue) \in Seq(Docs) /\ Head(queue) \in Docs
  BY DEF ClientInv
<1> USE DEF ClientGoes, ClientInv, ClientStates, Reporting
<1>6. CASE Connect
  <2>1. TypeInv'
    BY <1>1, <1>2, <1>6 DEF Connect, Goes, TypeInv, TypeOK, BackupReads, mainVars, connVars, jobVars, history,
       HandlerStates, AcceptStates
  <2> QED
    BY <1>6, <2>1 DEF Connect
<1>7. CASE PingOut
  <2>1. TypeInv'
    BY <1>2, <1>4, <1>7 DEF PingOut, WriteFailed, Kinds
  <2> QED
    BY <1>7, <2>1 DEF PingOut, InHand
<1>8. CASE PingRead \/ PongRead
  <2>1. TypeInv'
    BY <1>2, <1>3, <1>8 DEF PingRead, PongRead, ReadFailed
  <2> QED
    BY <1>5, <1>8, <2>1 DEF PingRead, PongRead, AfterPingRead
<1>9. CASE SanitizeOut
  <2>1. TypeInv'
    BY <1>2, <1>4, <1>5, <1>9 DEF SanitizeOut, WriteFailed
  <2> QED
    BY <1>5, <1>9, <2>1 DEF SanitizeOut
<1>10. CASE SanitizeRead
  <2>1. TypeInv'
    BY <1>2, <1>3, <1>10 DEF SanitizeRead, ReadFailed
  <2> QED
    BY <1>5, <1>10, <2>1 DEF SanitizeRead
<1>11. CASE QuitOut
  <2>1. TypeInv'
    BY <1>2, <1>4, <1>11 DEF QuitOut, WriteFailed, Kinds
  <2> QED
    BY <1>11, <2>1 DEF QuitOut
<1>12. CASE QuitRead \/ WaitProcess
  <2>1. TypeInv'
    BY <1>2, <1>3, <1>12 DEF QuitRead, WaitProcess, ReadFailed
  <2> QED
    BY <1>12, <2>1 DEF QuitRead, WaitProcess
<1>13. CASE Reported
  <2>1. TypeInv'
    BY <1>2, <1>13 DEF Reported
  <2> QED
    BY <1>5, <1>13, <2>1 DEF Reported
<1> QED
  BY <1>1, <1>6, <1>7, <1>8, <1>9, <1>10, <1>11, <1>12, <1>13

\* They end no goroutine of the helper and touch its pipe only: the rest of its
\* invariant does not see them.
LEMMA ClientLeavesServer ==
  ASSUME ServerInv, ClientNext
  PROVE  DrainInv' /\ QuitInv' /\ PanicNeedsRace'
<1>1. TypeInv /\ DrainInv /\ QuitInv /\ PanicNeedsRace
  BY DEF ServerInv
<1>2. /\ UNCHANGED <<main, signalled, quitClosed, wg, waiter, inner, quitters, refusers, fate>>
      /\ \/ UNCHANGED <<accept, h>>
         \/ accept = "accept" /\ accept' = "got" /\ Goes(conn, "none", "dialled")
  BY DEF ClientNext, mainVars, jobVars, history, connVars, Connect, PingOut, PingRead, PongRead,
     SanitizeOut, SanitizeRead, QuitOut, QuitRead, Reported, WaitProcess, WriteOk, WriteFailed, ReadOk, ReadFailed
<1>3. h \in [Conns -> HandlerStates] /\ quitters \subseteq Conns
  BY <1>1 DEF TypeInv, TypeOK
<1>4. \A c \in Conns : h'[c] = h[c] \/ (h[c] = "none" /\ h'[c] = "dialled")
  BY <1>2, <1>3, ConnIsOne DEF Goes
<1>5. Handlers' = Handlers
  BY <1>4 DEF Handlers, Live
<1>6. Counted'
  BY <1>1, <1>2, <1>5, SameCount DEF DrainInv
<1>7. OneDialled'
  BY <1>1, <1>2, <1>3, ConnIsOne DEF DrainInv, OneDialled, Goes
<1>8. Waited' /\ PanicNeedsRace'
  BY <1>1, <1>2 DEF DrainInv, Waited, PanicNeedsRace
<1>9. QuitInv'
  BY <1>1, <1>2, <1>3, <1>4 DEF QuitInv, Senders, AfterQuit, StoppedByToken, StopTellsEveryone, Up
<1> QED
  BY <1>6, <1>7, <1>8, <1>9 DEF DrainInv

\* The steps of the agent's client keep it too.
LEMMA PipeClientStep ==
  ASSUME SessionInv, cli # "gone", ClientNext
  PROVE  PipeCount'
<1>1. PipeCount /\ conn' = conn /\ UNCHANGED fate
  BY DEF SessionInv, conn, ClientNext
<1>2. /\ wire \in [Conns -> Seq(Kinds \cup Docs)] /\ resp \in [Conns -> Seq(Responses)]
      /\ h \in [Conns -> HandlerStates]
  BY DEF SessionInv, ServerInv, TypeInv, TypeOK
<1> USE ConnIsOne DEF ClientGoes
<1>3. ASSUME NEW m \in Kinds, WriteOk(m), wire[conn] = <<>>
      PROVE  /\ wire'[conn] = <<m>> /\ UNCHANGED <<resp, h>>
             /\ \A i \in DOMAIN wire'[conn] : wire'[conn][i] \notin Docs
  <2>1. wire'[conn] = <<m>> /\ UNCHANGED <<resp, h>>
    BY <1>2, <1>3 DEF WriteOk
  <2>2. m \notin Docs
    BY ServerAssumption
  <2> QED
    BY <2>1, <2>2
<1>4. CASE Connect
  BY <1>1, <1>2, <1>4 DEF PipeCount, Connect, Goes, connVars
<1>5. CASE PingOut /\ cli' = "pingRead"
  <2>1. WriteOk("ping") /\ cli = "next" /\ cli' = "pingRead"
    BY <1>5 DEF PingOut
  <2>2. wire[conn] = <<>> /\ resp[conn] = <<>>
    BY <1>1, <2>1 DEF PipeCount, WriteOk
  <2>3. /\ wire'[conn] = <<"ping">> /\ resp'[conn] = <<>>
        /\ \A i \in DOMAIN wire'[conn] : wire'[conn][i] \notin Docs
    BY <1>3, <2>1, <2>2 DEF Kinds
  <2> QED
    BY <1>1, <2>1, <2>3 DEF PipeCount
<1>6. CASE PingOut /\ cli' # "pingRead"
  BY <1>1, <1>6 DEF PipeCount, PingOut, WriteFailed, PipeBroken, Up, connVars
<1>7. CASE PingRead
  <2>1. CASE ReadFailed /\ cli' = "pingReport"
    BY <1>1, <2>1 DEF PipeCount, ReadFailed, PipeBroken, Up, connVars
  <2>2. CASE ReadOk /\ cli = "pingRead" /\ cli' = "pongRead"
    <3>1. resp[conn] # <<>> /\ Len(wire[conn]) + Len(resp[conn]) <= 1
      BY <1>1, <2>2 DEF PipeCount, ReadOk
    <3>2. wire[conn] \in Seq(Kinds \cup Docs) /\ resp[conn] \in Seq(Responses)
      BY <1>2
    <3>4. wire[conn] = <<>> /\ Tail(resp[conn]) = <<>>
      BY <3>1, <3>2, LastOne
    <3>5. wire'[conn] = <<>> /\ resp'[conn] = <<>>
      BY <1>2, <2>2, <3>4 DEF ReadOk
    <3> QED
      BY <1>1, <2>2, <3>5 DEF PipeCount
  <2> QED
    BY <1>7, <2>1, <2>2 DEF PingRead, AfterPingRead
<1>8. CASE PongRead
  <2>1. cli = "pongRead" /\ resp[conn] = <<>>
    BY <1>1, <1>8 DEF PipeCount, PongRead
  <2>2. ReadFailed /\ cli' = "pingReport"
    BY <1>8, <2>1 DEF PongRead, ReadOk
  <2> QED
    BY <1>1, <2>2 DEF PipeCount, ReadFailed, PipeBroken, Up, connVars
<1>9. CASE SanitizeOut \/ SanitizeRead
  BY <1>1, <1>9 DEF PipeCount, SanitizeOut, SanitizeRead
<1>10. CASE QuitOut
  <2>1. CASE WriteFailed /\ cli' = "quitReport"
    BY <1>1, <2>1 DEF PipeCount, WriteFailed, connVars
  <2>2. CASE WriteOk("quit") /\ cli = "next" /\ cli' = "quitRead"
    <3>1. wire[conn] = <<>>
      BY <1>1, <2>2 DEF PipeCount, WriteOk
    <3>2. \A i \in DOMAIN wire'[conn] : wire'[conn][i] \notin Docs
      BY <1>3, <2>2, <3>1 DEF Kinds
    <3> QED
      BY <1>1, <2>2, <3>2 DEF PipeCount
  <2> QED
    BY <1>10, <2>1, <2>2 DEF QuitOut
<1>11. CASE QuitRead \/ WaitProcess
  <2>1. wire' = wire /\ cli' \in {"quitReadAgain", "quitReport", "waitProcess", "returned"}
    BY <1>11 DEF QuitRead, WaitProcess, ReadOk, ReadFailed, connVars
  <2> QED
    BY <1>1, <2>1 DEF PipeCount
<1>12. CASE Reported
  BY <1>1, <1>12 DEF PipeCount, Reported, PipeBroken, Up, connVars
<1> QED
  BY <1>4, <1>5, <1>6, <1>7, <1>8, <1>9, <1>10, <1>11, <1>12 DEF ClientNext

\* At first the composition's invariant holds.
LEMMA SessionInvInit == SessionInit => SessionInv
<1> SUFFICES ASSUME SessionInit
             PROVE  SessionInv
  OBVIOUS
<1>1. ServerInv
  BY ServerInit DEF SessionInit
<1>2. ClientInv
  <2>1. <<>> \in Seq(Docs)
    OBVIOUS
  <2>2. queue \in Seq(Docs)
    BY <2>1, SessionAssumption DEF SessionInit
  <2> QED
    BY <2>2 DEF SessionInit, ClientInv, ClientStates
<1>3. h[conn] = "none" /\ wire[conn] = <<>> /\ resp[conn] = <<>>
  BY ConnIsOne DEF SessionInit, Init
<1>4. PipeCount
  BY <1>3 DEF SessionInit, PipeCount
<1> QED
  BY <1>1, <1>2, <1>4 DEF SessionInv

\* Every step of the composition keeps its invariant.
LEMMA SessionInvStep ==
  ASSUME SessionInv, SessionNext
  PROVE  SessionInv'
<1>1. CASE ClientNext
  <2>1. cli # "gone" => PipeCount'
    BY <1>1, PipeClientStep
  <2>2. cli = "gone" => FALSE
    BY <1>1 DEF ClientNext, ClientGoes, Connect, PingOut, PingRead, PongRead, SanitizeOut,
       SanitizeRead, QuitOut, QuitRead, Reported, WaitProcess
  <2> QED
    BY <1>1, <2>1, <2>2, ClientTypes, ClientLeavesServer DEF SessionInv, ServerInv
<1>2. CASE UNCHANGED clientVars /\ (ServerNext \/ EnvNext(Others))
  <2>1. Others \in SUBSET Conns
    BY DEF Others
  <2>2. ServerInv'
    BY <1>2, <2>1, ServerStep DEF SessionInv
  <2>3. ClientInv'
    BY <1>2 DEF SessionInv, ClientInv, clientVars
  <2>4. CASE cli # "gone"
    <3>1. ServerNext \/ EnvNext(Conns \ {conn})
      BY <1>2, <2>4 DEF Others
    <3>2. TypeInv'
      BY <2>2 DEF ServerInv
    <3> QED
      BY <1>2, <2>2, <2>3, <2>4, <3>1, <3>2, PipeServerStep DEF SessionInv
  <2>5. CASE cli = "gone"
    <3>1. PipeCount'
      BY <1>2, <2>5 DEF PipeCount, clientVars
    <3> QED
      BY <2>2, <2>3, <3>1 DEF SessionInv
  <2> QED
    BY <2>4, <2>5
<1> QED
  BY <1>1, <1>2 DEF SessionNext

\* A step that changes nothing keeps it.
LEMMA SessionInvStutter ==
  ASSUME SessionInv, UNCHANGED sessionVars
  PROVE  SessionInv'
<1>1. ServerInv'
  BY ServerStutter DEF SessionInv, sessionVars
<1>2. ClientInv'
  BY DEF SessionInv, ClientInv, sessionVars, clientVars
<1>3. conn' = conn
  BY DEF conn
<1>4. PipeCount'
  BY <1>3 DEF SessionInv, PipeCount, PipeBroken, Up, sessionVars, clientVars, vars, connVars
<1> QED
  BY <1>1, <1>2, <1>4 DEF SessionInv

\* The invariant of the agent and the helper together.
THEOREM SessionInvariant == SessionSpec => []SessionInv
<1>1. SessionInv /\ [SessionNext]_sessionVars => SessionInv'
  BY SessionInvStep, SessionInvStutter
<1> QED
  BY <1>1, SessionInvInit, PTL DEF SessionSpec

-----------------------------------------------------------------------------
(* What it is for.  The server's properties hold for any clients (Spec) and in *)
(* the composition with the agent (SessionSpec).                               *)

\* Types of the helper's and of the agent's state.
THEOREM SessionTypes == SessionSpec => []SessionTypeOK
<1>1. SessionInv => SessionTypeOK
  BY DEF SessionInv, ServerInv, TypeInv, ClientInv, SessionTypeOK
<1> QED
  BY <1>1, SessionInvariant, PTL

\* A graceful stop has waited for everybody, and stays so while Excel is asked to quit.
THEOREM ServerDrains == Spec => []GracefulStopDrains
  BY ServerInvariant, GracefulDrains, PTL

\* The same with the agent's client on one of the connections (rpc_server.go:144-165).
THEOREM SessionDrains == SessionSpec => []GracefulStopDrains
<1>1. SessionInv => GracefulStopDrains
  BY GracefulDrains DEF SessionInv
<1> QED
  BY <1>1, SessionInvariant, PTL

\* The send on the closed channel needs a race: one client's quit never panics.
THEOREM ServerPanicNeedsRace == Spec => []PanicNeedsRace
<1>1. ServerInv => PanicNeedsRace
  BY DEF ServerInv
<1> QED
  BY <1>1, ServerInvariant, PTL

\* The same with the agent's client on one of the connections.
THEOREM SessionPanicNeedsRace == SessionSpec => []PanicNeedsRace
<1>1. SessionInv => PanicNeedsRace
  BY DEF SessionInv, ServerInv
<1> QED
  BY <1>1, SessionInvariant, PTL

\* A server that waits in Stop has told everybody, or a handler will, but for a refusal.
THEOREM ServerStopTells == Spec => []StopTellsEveryone
<1>1. ServerInv => StopTellsEveryone
  BY DEF ServerInv, QuitInv
<1> QED
  BY <1>1, ServerInvariant, PTL

\* The same with the agent's client on one of the connections.
THEOREM SessionStopTells == SessionSpec => []StopTellsEveryone
<1>1. SessionInv => StopTellsEveryone
  BY DEF SessionInv, ServerInv, QuitInv
<1> QED
  BY <1>1, SessionInvariant, PTL

\* The WaitGroup's counter is the number of goroutines that run, at any time: none is
\* forgotten by Stop, and Stop waits for none that has returned (rpc_server.go:144-165).
THEOREM WaitGroupIsExact == SessionSpec => []Counted
<1>1. SessionInv => Counted
  BY DEF SessionInv, ServerInv, DrainInv
<1> QED
  BY <1>1, SessionInvariant, PTL

\* Once Start has counted the accept loop, a counter that is back at zero stays there:
\* nobody calls Add while Stop's Wait may already have returned (rpc_server.go:144-152).
THEOREM WaitGroupStaysDown == SessionSpec => [][main # "setup" /\ wg = 0 => wg' = 0]_sessionVars
<1>1. SessionInv /\ [SessionNext]_sessionVars => [main # "setup" /\ wg = 0 => wg' = 0]_sessionVars
  <2> SUFFICES ASSUME SessionInv, SessionNext, main # "setup", wg = 0
               PROVE  wg' = 0
    OBVIOUS
  <2>1. CASE ClientNext
    BY <2>1 DEF ClientNext
  <2>2. CASE ServerNext \/ EnvNext(Others)
    BY <2>2, NobodyAdds DEF SessionInv, ServerInv, Others
  <2> QED
    BY <2>1, <2>2 DEF SessionNext
<1> QED
  BY <1>1, SessionInvariant, PTL DEF SessionSpec

\* None of the agent's documents reaches the helper.
THEOREM SessionSanitizesNothing == SessionSpec => []NothingIsSanitized
<1>1. SessionInv => NothingIsSanitized
  BY DEF SessionInv, PipeCount, NothingIsSanitized
<1> QED
  BY <1>1, SessionInvariant, PTL
==============================================================================
