-------------------------------- MODULE Agent --------------------------------
(***************************************************************************)
(* The whole agent (cmd/aioagent/main.go): the start-up of AgentStart, the *)
(* search of FileSearch and then the goroutines from the first detection   *)
(* to the exit: the producer (the YARA scanner, or the parser of a result  *)
(* list), the dispatcher, the sanitizer, the hardener and main, joined by  *)
(* the unbuffered scanMatchedFiles and the two bounded queues of           *)
(* common/shared.go.                                                       *)
(*                                                                         *)
(* Abstracted: what StartSanitizer does with a document is one step that   *)
(* may never end (RpcSession is the detailed model).                       *)
(***************************************************************************)
EXTENDS FileSearch, SequencesExt

CONSTANTS
  Rules,        \* the names of the rules that detect something
  Matches,      \* Matches[r]: how many solutions of the cleanup DB name r
  Cap           \* the capacity of both queues (100 in the code)

ASSUME AgentAssumption ==
  /\ Matches \in [Rules -> Nat]
  /\ None \notin Rules /\ Cap \in Nat \ {0}
  /\ \A i \in Inputs :
       /\ i.rules \in [Files -> Seq(Rules)]
       /\ i.lines \in Seq([rule : Rules \cup {None}, length : Nat])

VARIABLES
  found,        \* the detections, in the order they are produced
  prod,         \* where the producer is
  parseErr,     \* what the list parser returned
  produced,     \* how many detections the dispatcher has received
  disp,         \* where the dispatcher is
  nth,          \* the solution of the current detection it is at
  sanQ, sanClosed,      \* SanitizeQueue
  hardQ, hardClosed,    \* HardeningQueue
  san, sanErr,  \* where the sanitizer goroutine is, what StartSanitizer returned
  sanGot,       \* what the sanitizer has taken from its queue
  hard,         \* where the hardener goroutine is
  hardGot,      \* what it has taken from its queue
  err           \* main's err, which the sanitizer and the list parser share: an
                \* interface, a type word and a data word

prodVars == <<found, prod, parseErr>>
dispVars == <<produced, disp, nth>>
queueVars == <<sanQ, sanClosed, hardQ, hardClosed>>
sanVars == <<san, sanErr, sanGot>>
hardVars == <<hard, hardGot>>
pipeVars == <<prodVars, dispVars, queueVars, sanVars, hardVars, err>>
vars == <<startVars, searchVars, pipeVars>>

NoErr == [type |-> "nil", data |-> "nil"]

Item == <<produced, nth>>           \* the request the dispatcher is sending
Current == Matches[found[produced].rule]

Init ==
  /\ StartInit /\ SearchInit
  /\ found = <<>> /\ prod = "off" /\ parseErr = FALSE
  /\ produced = 0 /\ disp = "off" /\ nth = 0
  /\ sanQ = <<>> /\ sanClosed = FALSE
  /\ hardQ = <<>> /\ hardClosed = FALSE
  /\ san = "off" /\ sanErr = FALSE /\ sanGot = <<>>
  /\ hard = "off" /\ hardGot = <<>>
  /\ err = NoErr

-----------------------------------------------------------------------------
(* What is detected. *)

\* ScanFilesWithYara: the listed files in order, every matching rule of each.
Scanned(files) ==
  FlattenSeq([i \in DOMAIN files |->
    [j \in DOMAIN input.rules[files[i]] |-> [rule |-> input.rules[files[i]][j], path |-> files[i]]]])

KeepsLongerPaths(l) == l.rule # None /\ l.length > 3
KeepsLine(l) == l.rule # None /\ l.length >= 3

\* ParseYaraScanResultText: a line counts with a rule before its first blank and
\* at least three characters behind it.  Its path is the line's own.
Parsed(lines) ==
  FlattenSeq([i \in DOMAIN lines |->
    IF KeepsLine(lines[i]) THEN <<[rule |-> lines[i].rule, path |-> i]>> ELSE <<>>])

-----------------------------------------------------------------------------
(* main and the producer. *)

\* The sanitizer, the hardener (when enabled) and the dispatcher are started;
\* StartSanitizer reports that it begins.
HandOver ==
  /\ main = "searched" /\ main' = "load"
  /\ found' = (IF input.noDiskScan THEN Parsed(input.lines) ELSE Scanned(list))
  /\ disp' = "receive"
  /\ san' = "starting" /\ Posts("san")
  /\ hard' = (IF input.hardening THEN "receive" ELSE "off")
  /\ UNCHANGED <<prod, parseErr, produced, nth, queueVars, sanErr, sanGot, hardGot, err, agent>>

\* LoadRuleAndCreateYaraScanner reports its failure, and main once more.
LoadFails == main' = "reported" /\ Posts("main") /\ UNCHANGED agent
ReportLoading ==
  /\ main = "reported" /\ main' = "failing" /\ Posts("main")
  /\ UNCHANGED <<pipeVars, agent>>

\* The rules are read, decrypted and loaded; without them the process exits under
\* the goroutines it has started.  A list needs none.
StartProducer ==
  /\ main = "load"
  /\ \/ main' = "wait" /\ prod' = "produce" /\ UNCHANGED <<http, agent>>
     \/ ~input.noDiskScan /\ (Exits("exit-1") \/ DecryptFails \/ LoadFails) /\ UNCHANGED prod
  /\ UNCHANGED <<found, parseErr, dispVars, queueVars, sanVars, hardVars, err>>

\* wg.Wait, five seconds, and the end.
MainReturns ==
  /\ main = "wait"
  /\ prod = "returned" /\ disp = "returned" /\ san = "returned" /\ hard \in {"off", "returned"}
  /\ agent' = "done"
  /\ UNCHANGED <<main, http, pipeVars>>

\* scanMatchedFiles is unbuffered: sending and receiving is one step.
Deliver ==
  /\ prod = "produce" /\ disp = "receive" /\ produced < Len(found)
  /\ produced' = produced + 1 /\ nth' = 1
  /\ disp' = (IF Matches[found[produced + 1].rule] = 0 THEN "receive" ELSE "sanitize")
  /\ UNCHANGED <<prodVars, queueVars, sanVars, hardVars, err, http, agent>>

SharesErrAlways == TRUE
SharesErr == input.noDiskScan

\* An assignment to err writes its two words one after the other.
StoreType(e) == err' = [err EXCEPT !.type = e]
StoreData(e) == err' = [err EXCEPT !.data = e]
Outcome == IF parseErr THEN "parser" ELSE "nil"

\* The producer closes scanMatchedFiles and returns.  Only a list can fail.
ProducerReturns ==
  /\ prod = "produce"
  /\ \/ produced = Len(found) /\ UNCHANGED parseErr
     \/ input.noDiskScan /\ parseErr' = TRUE
  /\ prod' = (IF SharesErr THEN "assign" ELSE "returned")
  /\ UNCHANGED <<found, err, agent>>

\* Its result goes to main's err in list mode, to an err of its block otherwise.
ProducerAssigns ==
  /\ \/ prod = "assign" /\ prod' = "assigning" /\ StoreType(Outcome)
     \/ prod = "assigning" /\ prod' = "check" /\ StoreData(Outcome)
  /\ UNCHANGED <<found, parseErr, agent>>

\* In list mode an error found in err ends the process ...
ProducerChecks ==
  /\ prod = "check"
  /\ prod' = (IF err.type = "nil" THEN "returned" ELSE "report")
  /\ UNCHANGED <<found, parseErr, err, agent>>

\* err.Error(): nil by now is a panic, and so may be a type with another's data.
MayPanic == err.type = "nil" \/ err.type # err.data
MayReport == err.type # "nil"

\* ... once it has been logged.
ProducerReports ==
  /\ prod = "report"
  /\ \/ MayReport /\ agent' = "exit1"
     \/ MayPanic /\ agent' = "panic"
  /\ UNCHANGED <<prodVars, err>>

ProducerStep == ProducerReturns \/ ProducerAssigns \/ ProducerChecks \/ ProducerReports

-----------------------------------------------------------------------------
(* The dispatcher. *)

BreakAfterFirst == nth' = nth + 1 /\ disp' = "receive"
NextSolution ==
  /\ nth' = nth + 1
  /\ disp' = (IF nth < Current THEN "sanitize" ELSE "receive")

RoomAndOne(q) == Len(q) <= Cap
Room(q) == Len(q) < Cap

SendSanitize ==
  /\ disp = "sanitize" /\ Room(sanQ)
  /\ sanQ' = Append(sanQ, Item)
  /\ IF input.hardening THEN disp' = "harden" /\ UNCHANGED nth ELSE NextSolution
  /\ UNCHANGED <<produced, sanClosed, hardQ, hardClosed>>

SendHarden ==
  /\ disp = "harden" /\ Room(hardQ)
  /\ hardQ' = Append(hardQ, Item)
  /\ NextSolution
  /\ UNCHANGED <<produced, sanQ, sanClosed, hardClosed>>

ClosesHardeningForgotten == hardClosed
ClosesHardening == TRUE

\* scanMatchedFiles is closed: both queues are closed on the way out.
DispatcherReturns ==
  /\ disp = "receive" /\ prod \notin {"off", "produce"}
  /\ disp' = "returned" /\ sanClosed' = TRUE /\ hardClosed' = ClosesHardening
  /\ UNCHANGED <<produced, nth, sanQ, hardQ>>

DispatcherStep == SendSanitize \/ SendHarden \/ DispatcherReturns

-----------------------------------------------------------------------------
(* The sanitizer goroutine. *)

\* StartSanitizer gives up: no user token, no helper process, no connection; the
\* last two are reported.
SanitizerFails ==
  /\ san = "starting" /\ san' = "assign" /\ sanErr' = TRUE
  /\ Posts("san") \/ UNCHANGED http
  /\ UNCHANGED <<queueVars, sanGot, err, agent>>

SanitizerConnects ==
  /\ san = "starting" /\ san' = "receive"
  /\ UNCHANGED <<queueVars, sanErr, sanGot, err, http, agent>>

SanitizerTakes ==
  /\ san = "receive"
  /\ \/ /\ sanQ # <<>> /\ sanQ' = Tail(sanQ) /\ sanGot' = Append(sanGot, Head(sanQ))
        /\ san' = "busy"
     \/ sanQ = <<>> /\ sanClosed /\ san' = "quitting" /\ UNCHANGED <<sanQ, sanGot>>
  /\ UNCHANGED <<sanClosed, hardQ, hardClosed, sanErr, err, http, agent>>

\* The calls to the helper return, for a document and at the end, and so do the
\* reports of those that failed.
HelperAnswers ==
  /\ \/ san = "busy" /\ san' = "receive"
     \/ san = "quitting" /\ san' = "assign"
  /\ UNCHANGED <<queueVars, sanErr, sanGot, err, http, agent>>

\* err = StartSanitizer(), in two stores, then the test of err, then its uses,
\* while the list parser may do the same.
Returned == IF sanErr THEN "sanitizer" ELSE "nil"
SanitizerAssigns ==
  /\ \/ san = "assign" /\ san' = "assigning" /\ StoreType(Returned)
     \/ san = "assigning" /\ san' = "check" /\ StoreData(Returned)
  /\ UNCHANGED <<queueVars, sanErr, sanGot, http, agent>>

SanitizerChecks ==
  /\ san = "check" /\ san' = (IF err.type = "nil" THEN "returned" ELSE "report")
  /\ UNCHANGED <<queueVars, sanErr, sanGot, err, http, agent>>

\* err.Error() twice: for the report, and when that is sent for the log.
SanitizerReports ==
  /\ \/ san = "report" /\ MayReport /\ san' = "log" /\ Posts("san") /\ UNCHANGED agent
     \/ san = "log" /\ MayReport /\ san' = "returned" /\ UNCHANGED <<http, agent>>
     \/ san \in {"report", "log"} /\ MayPanic /\ agent' = "panic" /\ UNCHANGED <<san, http>>
  /\ UNCHANGED <<queueVars, sanErr, sanGot, err>>

SanitizerStep ==
  \/ SanitizerFails \/ SanitizerConnects \/ SanitizerTakes \/ SanitizerAssigns
  \/ SanitizerChecks \/ SanitizerReports

-----------------------------------------------------------------------------
(* The hardener goroutine: a failed action is logged, the loop goes on. *)

AfterHardenReturn == "returned"
AfterHarden == "receive"

HardenerTakes ==
  /\ hard = "receive"
  /\ \/ /\ hardQ # <<>> /\ hardQ' = Tail(hardQ) /\ hardGot' = Append(hardGot, Head(hardQ))
        /\ hard' = "act"
     \/ hardQ = <<>> /\ hardClosed /\ hard' = "returned" /\ UNCHANGED <<hardQ, hardGot>>
  /\ UNCHANGED <<sanQ, sanClosed, hardClosed, http>>

\* An action the code does not know is reported, though not in a dry run.
HardenerActs ==
  /\ hard = "act" /\ hard' = AfterHarden
  /\ (~input.dryRun /\ Posts("hard")) \/ UNCHANGED http
  /\ UNCHANGED <<queueVars, hardGot>>

HardenerStep == HardenerTakes \/ HardenerActs

-----------------------------------------------------------------------------
MainNext ==
  /\ Up
  /\ \/ StartStep /\ UNCHANGED <<searchVars, pipeVars>>
     \/ SearchMainStep /\ UNCHANGED pipeVars
     \/ HandOver /\ UNCHANGED <<input, searchVars>>
     \/ (StartProducer \/ ("main" \notin http /\ ReportLoading)) /\ UNCHANGED <<input, searchVars>>
     \/ MainReturns /\ UNCHANGED <<input, searchVars>>
SearchNext == Up /\ (SearcherStep \/ ConsumerStep) /\ UNCHANGED pipeVars
ProducerNext ==
  /\ Up /\ ProducerStep
  /\ UNCHANGED <<input, main, http, searchVars, dispVars, queueVars, sanVars, hardVars>>
DispatcherNext ==
  /\ Up /\ UNCHANGED <<input, main, searchVars>>
  /\ \/ Deliver
     \/ DispatcherStep /\ UNCHANGED <<http, agent, prodVars, sanVars, hardVars, err>>
SanitizerNext ==
  /\ Up /\ "san" \notin http /\ SanitizerStep
  /\ UNCHANGED <<input, main, searchVars, prodVars, dispVars, hardVars>>
HelperNext == Up /\ HelperAnswers /\ UNCHANGED <<input, main, searchVars, prodVars, dispVars, hardVars>>
HardenerNext ==
  /\ Up /\ "hard" \notin http /\ HardenerStep
  /\ UNCHANGED <<input, main, agent, searchVars, prodVars, dispVars, sanVars, err>>
HttpNext == Up /\ (\E a \in http : HttpReturns(a)) /\ UNCHANGED <<searchVars, pipeVars>>

Goroutines ==
  MainNext \/ SearchNext \/ ProducerNext \/ DispatcherNext \/ SanitizerNext \/ HardenerNext

Next == Goroutines \/ HelperNext \/ HttpNext

Spec == Init /\ [][Next]_vars

\* While a goroutine can run, one of them does: none of them loops without end, for
\* volumes, lists and the cleanup DB are finite.  The helper and the servers that
\* telemetry talks to may never answer.
FairSpec == Spec /\ WF_vars(Goroutines)

-----------------------------------------------------------------------------
(* Properties. *)

AgentTypeOK ==
  /\ StartTypeOK /\ SearchTypeOK
  /\ prod \in {"off", "produce", "assign", "assigning", "check", "report", "returned"}
  /\ parseErr \in BOOLEAN /\ produced \in 0..Len(found)
  /\ disp \in {"off", "receive", "sanitize", "harden", "returned"} /\ nth \in Nat
  /\ Len(sanQ) <= Cap /\ Len(hardQ) <= Cap
  /\ sanClosed \in BOOLEAN /\ hardClosed \in BOOLEAN /\ sanErr \in BOOLEAN
  /\ san \in {"off", "starting", "receive", "busy", "quitting", "assign", "assigning", "check",
              "report", "log", "returned"}
  /\ hard \in {"off", "receive", "act", "returned"}
  /\ err \in [type : {"nil", "sanitizer", "parser"}, data : {"nil", "sanitizer", "parser"}]

\* What a queue was ever sent, in order.
ToSanitizer == sanGot \o sanQ
ToHardener == hardGot \o hardQ
Before(x, y) == x[1] < y[1] \/ (x[1] = y[1] /\ x[2] < y[2])
Requests(n) == UNION {{i} \X (1..Matches[found[i].rule]) : i \in 1..n}
Wanted == Requests(IF parseErr THEN produced ELSE Len(found)) \ Range(ToSanitizer)

\* The dispatcher and its queues are one stream of requests: every solution of every
\* detection becomes one sanitize request, in the order of detection, the hardening
\* requests are the same ones, at most one behind, and the queues are closed when all
\* is sent that was detected before the list failed, so that no request overtakes,
\* doubles or loses another across the two queues, whoever is slow (main.go:303-336).
Stream == INSTANCE RequestStream WITH
  RequestIds <- Nat \X Nat,
  wanted <- Wanted, failed <- parseErr, hardening <- input.hardening
StreamRefinement == Stream!StreamSpec

\* Hence, whenever the dispatcher waits for a detection, those it has received are
\* all sent, and to both queues alike.
QueuesAgree ==
  /\ \A i, j \in DOMAIN ToSanitizer : i < j => Before(ToSanitizer[i], ToSanitizer[j])
  /\ disp = "receive" => Range(ToSanitizer) = Requests(produced)
  /\ input.hardening => \/ ToHardener = ToSanitizer
                        \/ disp = "harden" /\ ToSanitizer = Append(ToHardener, Item)

\* The race on err harms no scan, and no run in which the list was read and the
\* sanitizer succeeded: a panic in err.Error(), or an exit with status 1, needs
\* list mode and a failure of one of the two (main.go:266-271, 395-399).
ErrRaceNeedsFailure ==
  agent \in {"panic", "exit1"} => input.noDiskScan /\ (sanErr \/ parseErr)

\* From end to end: when the agent is done, and neither the sanitizer nor the list
\* parser failed, the sanitizer was handed every document with a rule the cleanup
\* DB solves that is below actionPath or that the list names with "at least two
\* bytes" (parse_iptlist.go:25), and no other.  The exceptions are the code's own
\* faults: those of the boosted search, what the walk may not list, and names of
\* exactly two bytes, which the parser may drop.  A dry run hands over no fewer, for
\* nobody on the way asks (main.go:40, 125-126, 318).
InfectedAreSent ==
  agent = "done" /\ ~sanErr /\ ~parseErr =>
    LET sent == {found[x[1]] : x \in Range(sanGot)}
        Infected(files) ==
          {[rule |-> r, path |-> f] : r \in {q \in Rules : Matches[q] > 0}, f \in files}
            \cap UNION {{[rule |-> r, path |-> f] : r \in Range(input.rules[f])} : f \in files}
        Named == {[rule |-> input.lines[i].rule, path |-> i] :
                    i \in {j \in DOMAIN input.lines : /\ input.lines[j].rule \in Rules
                                                      /\ Matches[input.lines[j].rule] > 0
                                                      /\ input.lines[j].length >= 2}}
    IN IF input.noDiskScan
       THEN /\ sent \subseteq Named
            /\ \A d \in Named \ sent : input.lines[d.path].length = 2
       ELSE /\ ~MayMissAll => Infected(ToBeScanned \ (IF fallback THEN input.denied ELSE {})) \subseteq sent
            /\ sent \subseteq Infected(ToBeScanned \cup
                                       (IF MayTakeBeside THEN input.beside \cap input.local ELSE {}))

\* The send marked as a deadlock always completes, unless the hardener reports an
\* unknown action to a server that does not answer: it keeps receiving whatever
\* its actions return (main.go:328, 282-289).
HardenSendCompletes == disp = "harden" ~> (disp # "harden" \/ ~Up \/ "hard" \in http)

\* The agent ends, or it is wedged in one of three ways: a telemetry call never
\* returns, the helper never answers, or the sanitizer gave up and nobody drains
\* a full SanitizeQueue (telemetry/general.go:22, betterstack.go:57, main.go:318).
EndsOrWedged ==
  \/ <>~Up
  \/ <>[](http # {})
  \/ <>[](san \in {"busy", "quitting"})
  \/ <>[](san = "returned" /\ sanErr /\ disp = "sanitize" /\ Len(sanQ) = Cap)
==============================================================================
