------------------------------ MODULE AgentProofs ------------------------------
(***************************************************************************)
(* Theorems about Agent, for every volume, result list, set of rules and   *)
(* capacity of the queues: what the search finds, what the dispatcher      *)
(* sends, that it implements RequestStream, who may find another's error,  *)
(* and, from end to end, that every detected document with a solution is   *)
(* handed to the sanitizer.                                                *)
(***************************************************************************)
EXTENDS Agent, SetInduction, SequenceTheorems, TLAPS

\* Where main is before the search, and until the detections are handed over.
Starting == {"arguments", "database", "update", "privileges", "search"}
Searching == Starting \cup {"waitBoosted", "decide", "waitGeneral", "searched"}

\* The rounds of the search: which searcher runs, on which channel, and when the
\* consumer of each round has returned.
Rounds ==
  /\ main \in Starting => searcher = "off" /\ consumer = "off" /\ closed = {} /\ ~fallback
  /\ main \in Starting \cup {"waitBoosted", "decide"} => chan = 1
  /\ main \notin {"waitBoosted", "waitGeneral"} => Joined
  /\ main = "waitBoosted" => input.boostable /\ searcher # "off" /\ (searcher # "returned" => ~fallback)
  /\ main = "decide" =>
       /\ ~input.boostable => closed = {} /\ fallback
       /\ ~fallback => searcher = "returned"
  /\ main \in {"waitGeneral", "searched"} =>
       \/ input.noDiskScan /\ main = "searched"
       \/ searcher # "off" /\ (fallback <=> chan = 2)
  /\ searcher = "mft" => main = "waitBoosted"
  /\ searcher = "walk" => main = "waitGeneral" /\ chan = 2

\* A channel that a searcher will close is open.
Closing == closed \subseteq 1..chan /\ (Up /\ searcher \in {"mft", "walk", "reporting"} => chan \notin closed)

\* What the search of the current round is to report, and what of it has come out.
Target ==
  IF chan = 2 THEN input.under \ input.denied
  ELSE IF input.exactCase THEN input.under \cup input.beside ELSE {}
Failed == fallback /\ chan = 1
Delivered == IF searcher \in {"off", "mft", "walk"} \/ Failed THEN {} ELSE Target \ todo

ListInv ==
  /\ searcher = "reporting" => todo \subseteq Target
  /\ searcher = "returned" /\ ~Failed => todo = {}
  /\ IsInjective(list)
  /\ item # None => item \in Delivered \ Range(list)
  /\ Range(list) = input.local \cap (Delivered \ {item})

\* Until the detections are handed over nothing of the pipeline has begun, and
\* until main waits there is no producer.
PipeIdle ==
  /\ main \in Searching =>
       /\ disp = "off" /\ san = "off" /\ hard = "off"
       /\ produced = 0 /\ ~sanClosed /\ ~parseErr /\ ~sanErr
       /\ sanQ = <<>> /\ sanGot = <<>> /\ hardQ = <<>> /\ hardGot = <<>>
       /\ err = NoErr
  /\ main # "wait" => prod = "off"

\* What has been sent when the dispatcher is where it is.
Sent ==
  CASE disp = "sanitize" -> Requests(produced - 1) \cup ({produced} \X (1..(nth - 1)))
    [] disp = "harden" -> Requests(produced - 1) \cup ({produced} \X (1..nth))
    [] OTHER -> Requests(produced)

Dispatched ==
  /\ disp \in {"sanitize", "harden"} => produced \in 1..Len(found) /\ nth \in 1..Current
  /\ disp = "harden" => input.hardening
  /\ Range(ToSanitizer) = Sent
  /\ \A i, j \in DOMAIN ToSanitizer : i < j => Before(ToSanitizer[i], ToSanitizer[j])
  /\ input.hardening => IF disp = "harden" THEN ToSanitizer = Append(ToHardener, Item) ELSE ToHardener = ToSanitizer

\* Who has returned, and what that means for what is behind it.
Returning ==
  /\ sanClosed => disp = "returned"
  /\ disp = "returned" => prod \notin {"off", "produce"}
  /\ prod \notin {"off", "produce"} /\ ~parseErr => produced = Len(found)
  /\ san \notin {"off", "starting", "receive", "busy"} /\ ~sanErr => sanQ = <<>> /\ sanClosed
  /\ agent = "done" => prod = "returned" /\ disp = "returned" /\ san = "returned"

\* Whose error err may hold.
ErrInv ==
  /\ "sanitizer" \in {err.type, err.data} => sanErr
  /\ "parser" \in {err.type, err.data} => parseErr
  /\ prod \in {"assign", "assigning", "check", "report"} => input.noDiskScan
  /\ prod = "report" \/ san \in {"report", "log"} => sanErr \/ parseErr
  /\ ~input.noDiskScan =>
       /\ san \in {"off", "starting", "receive", "busy", "quitting", "assign"} => err = NoErr
       /\ san = "assigning" => err.type = Returned
       /\ san \in {"check", "report", "log"} => err = [type |-> Returned, data |-> Returned]
       /\ san \in {"report", "log"} => sanErr
  /\ ErrRaceNeedsFailure

\* The detections are those of the list, or of the files that were found.
FoundInv ==
  disp # "off" =>
    /\ main \notin Searching
    /\ found = IF input.noDiskScan THEN Parsed(input.lines) ELSE Scanned(list)
    /\ ~input.noDiskScan =>
         Range(list) = input.local \cap (IF fallback THEN input.under \ input.denied
                                      ELSE IF input.exactCase THEN input.under \cup input.beside
                                      ELSE {})

\* The types of the search, and of the pipeline.
SearchTypes ==
  /\ input \in Inputs
  /\ StartTypeOK /\ SearchTypeOK /\ item \in Files \cup {None}

Detections == [rule : Rules, path : Files \cup Nat]
RequestIds == Nat \X Nat

PipeTypes ==
  /\ prod \in {"off", "produce", "assign", "assigning", "check", "report", "returned"}
  /\ parseErr \in BOOLEAN /\ produced \in 0..Len(found) /\ found \in Seq(Detections)
  /\ disp \in {"off", "receive", "sanitize", "harden", "returned"} /\ nth \in Nat
  /\ sanQ \in Seq(RequestIds) /\ sanGot \in Seq(RequestIds) /\ Len(sanQ) <= Cap
  /\ hardQ \in Seq(RequestIds) /\ hardGot \in Seq(RequestIds) /\ Len(hardQ) <= Cap
  /\ sanClosed \in BOOLEAN /\ hardClosed \in BOOLEAN /\ sanErr \in BOOLEAN
  /\ san \in {"off", "starting", "receive", "busy", "quitting", "assign", "assigning", "check",
              "report", "log", "returned"}
  /\ hard \in {"off", "receive", "act", "returned"}
  /\ err \in [type : {"nil", "sanitizer", "parser"}, data : {"nil", "sanitizer", "parser"}]

PipeInv == PipeTypes /\ PipeIdle /\ Dispatched /\ Returning /\ ErrInv /\ FoundInv

SearchInv == SearchTypes /\ Rounds /\ Closing /\ ListInv

AgentInv == SearchInv /\ PipeInv

-----------------------------------------------------------------------------
(* The search. *)

\* At first nothing is searched.
LEMMA SearchInvInit == StartInit /\ SearchInit => SearchInv
<1> SUFFICES ASSUME StartInit, SearchInit
             PROVE  SearchInv
  OBVIOUS
<1>1. SearchTypes
  <2>1. <<>> \in Seq(Files)
    OBVIOUS
  <2>2. StartTypeOK /\ input \in Inputs
    BY DEF StartInit, StartTypeOK
  <2>3. SearchTypeOK /\ item \in Files \cup {None}
    <3>1. /\ fallback = FALSE /\ chan = 1 /\ closed = {} /\ source = 0
          /\ searcher = "off" /\ consumer = "off" /\ todo = {} /\ item = None
      BY DEF SearchInit
    <3>2. list \in Seq(Files)
      BY <2>1 DEF SearchInit
    <3>3. fallback \in BOOLEAN /\ closed \subseteq 1..2
      BY <3>1
    <3>4. chan \in 1..2 /\ source \in 0..chan
      BY <3>1
    <3> QED
      BY <3>1, <3>2, <3>3, <3>4 DEF SearchTypeOK
  <2> QED
    BY <2>2, <2>3 DEF SearchTypes
<1>2. Rounds /\ Closing
  BY DEF StartInit, SearchInit, Rounds, Closing, Joined, Starting
<1>3. IsInjective(list) /\ Range(list) = {}
  BY DEF SearchInit, IsInjective, Range
<1>4. ListInv
  BY <1>3 DEF SearchInit, ListInv, Delivered
<1> QED
  BY <1>1, <1>2, <1>4 DEF SearchInv

\* What an input says of its files.
LEMMA InputFields ==
  ASSUME SearchTypes
  PROVE  /\ input.under \subseteq Files /\ input.beside \subseteq Files
         /\ Target \subseteq Files
  BY StartAssumption DEF SearchTypes, Target

\* Main's steps: they start a searcher only when the one before it has returned.
LEMMA SearchMainInv ==
  ASSUME SearchInv, Up, SearchMainStep
  PROVE  SearchInv'
<1> USE DEF SearchInv, searcherVars, consumerVars
<1>1. CASE StartBoosted
  <2>1. SearchTypes' /\ Rounds' /\ Closing'
    BY <1>1 DEF StartBoosted, SearchTypes, StartTypeOK, SearchTypeOK, Rounds, Closing, Starting, Joined
  <2>2. Target' = Target /\ Failed' = Failed /\ Delivered = {} /\ Delivered' = {}
    BY <1>1 DEF StartBoosted, Target, Failed, Delivered, Rounds, Starting
  <2> QED
    BY <1>1, <2>1, <2>2 DEF StartBoosted, ListInv
<1>2. CASE SkipBoosted
  <2>1. SearchTypes' /\ Rounds' /\ Closing'
    BY <1>2 DEF SkipBoosted, SearchTypes, StartTypeOK, SearchTypeOK, Rounds, Closing, Starting, Joined
  <2>2. Delivered = {} /\ Delivered' = {} /\ searcher = "off"
    BY <1>2 DEF SkipBoosted, Delivered, Rounds, Starting
  <2> QED
    BY <1>2, <2>1, <2>2 DEF SkipBoosted, ListInv
<1>3. CASE JoinBoosted
  <2>1. SearchTypes' /\ Rounds' /\ Closing'
    BY <1>3 DEF JoinBoosted, SearchTypes, StartTypeOK, SearchTypeOK, Rounds, Closing, Starting, Joined
  <2> QED
    BY <1>3, <2>1 DEF JoinBoosted, ListInv, Delivered, Target, Failed
<1>4. CASE FallBack
  <2>1. SearchTypes' /\ Rounds' /\ Closing'
    BY <1>4 DEF FallBack, SearchTypes, StartTypeOK, SearchTypeOK, Rounds, Closing, Starting, Joined
  <2>2. Delivered = {} /\ Delivered' = {} /\ searcher' = "walk"
    BY <1>4 DEF FallBack, Delivered, Failed, Rounds
  <2> QED
    BY <1>4, <2>1, <2>2 DEF FallBack, ListInv
<1>5. CASE BoostedWasEnough
  <2>1. SearchTypes' /\ Rounds' /\ Closing'
    BY <1>5 DEF BoostedWasEnough, SearchTypes, StartTypeOK, SearchTypeOK, Rounds, Closing, Starting, Joined
  <2> QED
    BY <1>5, <2>1 DEF BoostedWasEnough, ListInv, Delivered, Target, Failed
<1>6. CASE JoinGeneral
  <2>1. SearchTypes' /\ Rounds' /\ Closing'
    BY <1>6 DEF JoinGeneral, SearchTypes, StartTypeOK, SearchTypeOK, Rounds, Closing, Starting, Joined
  <2> QED
    BY <1>6, <2>1 DEF JoinGeneral, ListInv, Delivered, Target, Failed
<1> QED
  BY <1>1, <1>2, <1>3, <1>4, <1>5, <1>6 DEF SearchMainStep

\* What a searcher reports is delivered file by file.
LEMMA SearcherInv ==
  ASSUME SearchInv, Up, SearcherStep
  PROVE  SearchInv'
<1> USE DEF SearchInv, searcherVars, consumerVars
<1>1. CASE BoostedFails
  <2>4. SearchTypes'
    BY <1>1 DEF BoostedFails, SearchTypes, StartTypeOK, SearchTypeOK
  <2>5. Rounds'
    BY <1>1 DEF BoostedFails, Rounds, Starting, Joined
  <2>6. Closing'
    BY <1>1 DEF BoostedFails, SearchTypes, SearchTypeOK, Closing, Up
  <2>1. SearchTypes' /\ Rounds' /\ Closing'
    BY <2>4, <2>5, <2>6
  <2>2. Delivered = {} /\ Delivered' = {}
    BY <1>1 DEF BoostedFails, Delivered, Failed, Rounds, Starting
  <2>3. searcher' = "returned" => Failed'
    BY <1>1 DEF BoostedFails, Failed, Rounds, Starting
  <2> QED
    BY <1>1, <2>1, <2>2, <2>3 DEF BoostedFails, ListInv
<1>2. CASE BeginSearch
  <2>1. Reported = Target /\ Target' = Target
    <3>1. CASE searcher = "mft"
      BY <1>2, <3>1, StartAssumption DEF BeginSearch, Reported, Target, Rounds, Starting, SearchTypes
    <3>2. CASE searcher = "walk"
      BY <1>2, <3>2 DEF BeginSearch, Reported, Target, Rounds
    <3> QED
      BY <1>2, <3>1, <3>2 DEF BeginSearch
  <2>2. todo' = Target /\ Target \subseteq Files
    BY <1>2, <2>1, InputFields DEF BeginSearch
  <2>3. SearchTypes' /\ Rounds' /\ Closing'
    BY <1>2, <2>2 DEF BeginSearch, SearchTypes, StartTypeOK, SearchTypeOK, Rounds, Closing, Starting, Joined
  <2>4. Delivered = {} /\ Delivered' = {}
    BY <1>2, <2>1, <2>2 DEF BeginSearch, Delivered
  <2> QED
    BY <1>2, <2>1, <2>2, <2>3, <2>4 DEF BeginSearch, ListInv
<1>3. CASE Report
  <2>1. PICK f \in todo : todo' = todo \ {f} /\ item' = f
    BY <1>3 DEF Report
  <2>2. f \in Files /\ f # None /\ item = None
    BY <1>3, SearchAssumption DEF Report, SearchTypes, SearchTypeOK
  <2>3. SearchTypes' /\ Rounds' /\ Closing'
    BY <1>3, <2>1, <2>2 DEF Report, SearchTypes, StartTypeOK, SearchTypeOK, Rounds, Closing, Starting, Joined
  <2>4. ~Failed /\ ~Failed' /\ Target' = Target /\ f \in Target
    BY <1>3, <2>1 DEF Report, Failed, Target, ListInv, Rounds, Joined, Starting
  <2>5. Delivered = Target \ todo /\ Delivered' = Target \ todo'
    BY <1>3, <2>4 DEF Report, Delivered
  <2>6. Delivered' \ {f} = Delivered /\ f \in Delivered' /\ None \notin Delivered /\ f \notin Delivered
    BY <2>1, <2>2, <2>4, <2>5, InputFields, SearchAssumption
  <2>7. Range(list) = input.local \cap Delivered /\ IsInjective(list)
    BY <2>2, <2>6 DEF ListInv
  <2> QED
    BY <1>3, <2>1, <2>3, <2>4, <2>6, <2>7 DEF Report, ListInv
<1>4. CASE SearchEnds
  <2>1. SearchTypes' /\ Rounds' /\ Closing'
    BY <1>4 DEF SearchEnds, SearchTypes, StartTypeOK, SearchTypeOK, Rounds, Closing, Starting, Joined
  <2> QED
    BY <1>4, <2>1 DEF SearchEnds, ListInv, Delivered, Target, Failed
<1> QED
  BY <1>1, <1>2, <1>3, <1>4 DEF SearcherStep

\* A list that is longer by an item it did not hold.
LEMMA AppendNew ==
  ASSUME NEW S, NEW s \in Seq(S), NEW x \in S
  PROVE  /\ Range(Append(s, x)) = Range(s) \cup {x}
         /\ IsInjective(s) /\ x \notin Range(s) => IsInjective(Append(s, x))
<1>1. /\ Append(s, x) \in Seq(S) /\ Len(Append(s, x)) = Len(s) + 1
      /\ \A i \in 1..Len(s) : Append(s, x)[i] = s[i]
      /\ Append(s, x)[Len(s) + 1] = x
  BY AppendProperties
<1>2. DOMAIN s = 1..Len(s) /\ DOMAIN Append(s, x) = (1..Len(s)) \cup {Len(s) + 1} /\ Len(s) \in Nat
  BY <1>1
<1>3. Range(Append(s, x)) = Range(s) \cup {x}
  BY <1>1, <1>2 DEF Range
<1>4. ASSUME IsInjective(s), x \notin Range(s)
      PROVE  IsInjective(Append(s, x))
  BY <1>1, <1>2, <1>4 DEF IsInjective, Range
<1> QED
  BY <1>3, <1>4

\* The consumer appends what it has received when it is on the local disk.
LEMMA ConsumerInv ==
  ASSUME SearchInv, Up, ConsumerStep
  PROVE  SearchInv'
<1> USE DEF SearchInv, searcherVars, consumerVars
<1>1. CASE BeginConsuming
  <2>1. SearchTypes' /\ Rounds' /\ Closing'
    BY <1>1 DEF BeginConsuming, SearchTypes, StartTypeOK, SearchTypeOK, Rounds, Closing, Starting, Joined
  <2> QED
    BY <1>1, <2>1 DEF BeginConsuming, ListInv, Delivered, Target, Failed
<1>2. CASE Check
  <2>1. item \in Files /\ item # None /\ list \in Seq(Files)
    BY <1>2 DEF Check, SearchTypes, SearchTypeOK
  <2>2. list' \in Seq(Files)
    BY <1>2, <2>1 DEF Check
  <2>3. SearchTypes' /\ Rounds' /\ Closing'
    BY <1>2, <2>2 DEF Check, SearchTypes, StartTypeOK, SearchTypeOK, Rounds, Closing, Starting, Joined
  <2>4. Delivered' = Delivered /\ Target' = Target /\ Failed' = Failed
    BY <1>2 DEF Check, Delivered, Target, Failed
  <2>5. item \in Delivered \ Range(list) /\ IsInjective(list) /\ None \notin Delivered
    BY <2>1, InputFields, SearchAssumption DEF ListInv, Delivered
  <2>6. Range(list') = input.local \cap Delivered /\ IsInjective(list')
    <3>1. CASE item \in input.local
      BY <1>2, <2>1, <2>5, <3>1, AppendNew DEF Check, Keeps, ListInv
    <3>2. CASE item \notin input.local
      BY <1>2, <2>1, <2>5, <3>2 DEF Check, Keeps, ListInv
    <3> QED
      BY <3>1, <3>2
  <2> QED
    BY <1>2, <2>3, <2>4, <2>5, <2>6 DEF Check, ListInv
<1>3. CASE ConsumingEnds
  <2>1. SearchTypes' /\ Rounds' /\ Closing'
    BY <1>3 DEF ConsumingEnds, SearchTypes, StartTypeOK, SearchTypeOK, Rounds, Closing, Starting, Joined
  <2> QED
    BY <1>3, <2>1 DEF ConsumingEnds, ListInv, Delivered, Target, Failed
<1> QED
  BY <1>1, <1>2, <1>3 DEF ConsumerStep

\* Elsewhere main goes neither into a round of the search nor back before it.
LEMMA SearchStays ==
  ASSUME SearchInv, UNCHANGED <<input, searchVars>>, StartTypeOK', Up' => Up,
         \/ main' = main
         \/ /\ main \notin {"waitBoosted", "waitGeneral"}
            /\ main' \notin {"waitBoosted", "waitGeneral", "decide"}
            /\ main' \in Starting => main \in Starting
            /\ main' = "searched" => input.noDiskScan
  PROVE  SearchInv'
<1> USE DEF SearchInv, searchVars, searcherVars, consumerVars
<1>1. SearchTypes'
  BY DEF SearchTypes, SearchTypeOK
<1>2. Rounds'
  BY DEF Rounds, Joined, Starting
<1>3. Closing'
  BY DEF Closing
<1>4. ListInv'
  BY DEF ListInv, Delivered, Target, Failed
<1> QED
  BY <1>1, <1>2, <1>3, <1>4

\* What main does before and after the search, and the others beside it.
LEMMA SearchInvStep ==
  ASSUME SearchInv, Next
  PROVE  SearchInv'
<1>1. Up
  BY DEF Next, Goroutines, MainNext, SearchNext, ProducerNext, DispatcherNext, SanitizerNext, HardenerNext,
     HelperNext, HttpNext
<1>2. SearchTypes /\ StartTypeOK
  BY DEF SearchInv, SearchTypes
<1> USE DEF StartTypeOK, Starting, Posts, Exits
<1>3. CASE StartStep /\ UNCHANGED searchVars
  <2>1. /\ UNCHANGED input /\ StartTypeOK'
        /\ \/ main' = main
           \/ /\ main \notin {"waitBoosted", "waitGeneral"}
              /\ main' \notin {"waitBoosted", "waitGeneral", "decide"}
              /\ main' \in Starting => main \in Starting
              /\ main' = "searched" => input.noDiskScan
    BY <1>2, <1>3 DEF StartStep, CheckArguments, ReadDatabase, DecryptFails, GiveUp, CheckUpdate, CheckPrivileges
  <2> QED
    BY <1>1, <1>3, <2>1, SearchStays
<1>4. CASE SearchMainStep
  BY <1>1, <1>4, SearchMainInv
<1>5. CASE SearcherStep \/ ConsumerStep
  BY <1>1, <1>5, SearcherInv, ConsumerInv
<1>6. CASE (HandOver \/ StartProducer \/ ReportLoading \/ MainReturns) /\ UNCHANGED <<input, searchVars>>
  <2>1. /\ StartTypeOK'
        /\ main \notin {"waitBoosted", "waitGeneral"} /\ main' \in {"load", "reported", "failing", "wait"}
    BY <1>2, <1>6 DEF HandOver, StartProducer, LoadFails, DecryptFails, ReportLoading, MainReturns
  <2> QED
    BY <1>1, <1>6, <2>1, SearchStays
<1>7. CASE UNCHANGED <<input, main, searchVars>> /\ StartTypeOK'
  BY <1>1, <1>7, SearchStays
<1>8. CASE ProducerNext
  BY <1>2, <1>7, <1>8 DEF ProducerNext, ProducerStep, ProducerReturns, ProducerAssigns, ProducerChecks, ProducerReports
<1>9. CASE DispatcherNext
  BY <1>2, <1>7, <1>9 DEF DispatcherNext, Deliver
<1>10. CASE SanitizerNext
  BY <1>2, <1>7, <1>10 DEF SanitizerNext, SanitizerStep, SanitizerFails, SanitizerConnects, SanitizerTakes, SanitizerAssigns,
     SanitizerChecks, SanitizerReports
<1>11. CASE HelperNext
  BY <1>2, <1>7, <1>11 DEF HelperNext, HelperAnswers
<1>12. CASE HardenerNext
  BY <1>2, <1>7, <1>12 DEF HardenerNext, HardenerStep, HardenerTakes, HardenerActs
<1>13. CASE HttpNext
  BY <1>2, <1>7, <1>13 DEF HttpNext, HttpReturns
<1> QED
  BY <1>3, <1>4, <1>5, <1>6, <1>8, <1>9, <1>10, <1>11, <1>12, <1>13 DEF Next, Goroutines, MainNext, SearchNext

-----------------------------------------------------------------------------
(* What is detected. *)

\* What two sequences one behind the other hold.
LEMMA ConcatRange ==
  ASSUME NEW S, NEW s \in Seq(S), NEW t \in Seq(S)
  PROVE  s \o t \in Seq(S) /\ Range(s \o t) = Range(s) \cup Range(t)
<1>1. /\ s \o t \in Seq(S) /\ Len(s \o t) = Len(s) + Len(t)
      /\ \A i \in 1..(Len(s) + Len(t)) : (s \o t)[i] = IF i <= Len(s) THEN s[i] ELSE t[i - Len(s)]
  BY ConcatProperties
<1>2. \A i \in 1..Len(s) : (s \o t)[i] = s[i] /\ i \in 1..Len(s \o t)
  BY <1>1
<1>3. \A i \in 1..Len(t) : (s \o t)[Len(s) + i] = t[i] /\ Len(s) + i \in 1..Len(s \o t)
  BY <1>1
<1>4. \A i \in 1..Len(s \o t) : i \in 1..Len(s) \/ i - Len(s) \in 1..Len(t)
  BY <1>1
<1>5. Range(s \o t) \subseteq Range(s) \cup Range(t)
  BY <1>1, <1>4 DEF Range
<1>6. Range(s) \cup Range(t) \subseteq Range(s \o t)
  <2>1. \A i \in DOMAIN s : s[i] \in Range(s \o t)
    BY <1>1, <1>2 DEF Range
  <2>2. \A i \in DOMAIN t : t[i] \in Range(s \o t)
    <3>1. ASSUME NEW i \in DOMAIN t
          PROVE  t[i] \in Range(s \o t)
      <4>1. i \in 1..Len(t) /\ DOMAIN (s \o t) = 1..Len(s \o t)
        BY <1>1
      <4>2. Len(s) + i \in DOMAIN (s \o t) /\ (s \o t)[Len(s) + i] = t[i]
        BY <1>3, <4>1
      <4> QED
        BY <4>2 DEF Range
    <3> QED
      BY <3>1
  <2> QED
    BY <2>1, <2>2 DEF Range
<1> QED
  BY <1>1, <1>5, <1>6

\* What a sequence of sequences, put one behind the other, is and holds.
LEMMA FlattenProperties ==
  ASSUME NEW S, NEW ss \in Seq(Seq(S))
  PROVE  /\ FlattenSeq(ss) \in Seq(S)
         /\ Range(FlattenSeq(ss)) = UNION {Range(ss[i]) : i \in DOMAIN ss}
<1>1. CASE Len(ss) = 0
  BY <1>1 DEF FlattenSeq, Range
<1>2. CASE Len(ss) # 0
  <2> DEFINE f == CHOOSE g : g = [i \in 1..Len(ss) |-> IF i = 1 THEN ss[i] ELSE g[i - 1] \o ss[i]]
  <2>1. FlattenSeq(ss) = f[Len(ss)]
    BY <1>2 DEF FlattenSeq
  <2>2. f = [i \in 1..Len(ss) |-> IF i = 1 THEN ss[i] ELSE f[i - 1] \o ss[i]]
    <3>1. \E g : g = [i \in 1..Len(ss) |-> IF i = 1 THEN ss[i] ELSE g[i - 1] \o ss[i]]
      <4>1. Len(ss) \in Nat
        OBVIOUS
      <4> QED
        BY <4>1, FlattenRecursion
    <3> QED
      BY <3>1, Zenon
  <2> HIDE DEF f
  <2> DEFINE Right == {n \in Nat : n \in 1..Len(ss) =>
                         f[n] \in Seq(S) /\ Range(f[n]) = UNION {Range(ss[i]) : i \in 1..n}}
  <2>3. 0 \in Right
    OBVIOUS
  <2>4. ASSUME NEW n \in Nat, n \in Right
        PROVE  n + 1 \in Right
    <3>1. CASE n + 1 \notin 1..Len(ss)
      BY <3>1
    <3>2. CASE n = 0 /\ 1 \in 1..Len(ss)
      <4>1. f[1] = ss[1] /\ ss[1] \in Seq(S)
        BY <2>2, <3>2
      <4> QED
        BY <3>2, <4>1
    <3>3. CASE n \in 1..Len(ss) /\ n + 1 \in 1..Len(ss)
      <4>1. f[n + 1] = f[n] \o ss[n + 1]
        <5>1. (n + 1) - 1 = n /\ n + 1 # 1
          BY <3>3
        <5> QED
          BY <2>2, <3>3, <5>1
      <4>2. f[n] \in Seq(S) /\ ss[n + 1] \in Seq(S) /\ Range(f[n]) = UNION {Range(ss[i]) : i \in 1..n}
        BY <2>4, <3>3
      <4>3. f[n + 1] \in Seq(S) /\ Range(f[n + 1]) = Range(f[n]) \cup Range(ss[n + 1])
        BY <4>1, <4>2, ConcatRange
      <4>4. 1..(n + 1) = (1..n) \cup {n + 1}
        OBVIOUS
      <4>5. UNION {Range(ss[i]) : i \in 1..(n + 1)} = (UNION {Range(ss[i]) : i \in 1..n}) \cup Range(ss[n + 1])
        BY <4>4, Zenon
      <4> QED
        BY <4>2, <4>3, <4>5
    <3> QED
      BY <3>1, <3>2, <3>3
  <2> HIDE DEF Right
  <2>5. Len(ss) \in Right
    <3>1. Nat \subseteq Right
      BY <2>3, <2>4, InductiveSet
    <3> QED
      BY <3>1
  <2> QED
    <3>1. Len(ss) \in 1..Len(ss) /\ DOMAIN ss = 1..Len(ss)
      BY <1>2
    <3> QED
      BY <2>1, <2>5, <3>1 DEF Right
<1> QED
  BY <1>1, <1>2

\* Every matching rule of every listed file.
LEMMA ScannedProperties ==
  ASSUME input \in Inputs, NEW files \in Seq(Files)
  PROVE  /\ Scanned(files) \in Seq(Detections)
         /\ Range(Scanned(files)) =
              UNION {{[rule |-> r, path |-> f] : r \in Range(input.rules[f])} : f \in Range(files)}
<1> DEFINE Of(f) == [j \in DOMAIN input.rules[f] |-> [rule |-> input.rules[f][j], path |-> f]]
           all == [i \in DOMAIN files |-> Of(files[i])]
<1>1. ASSUME NEW f \in Files
      PROVE  Of(f) \in Seq(Detections) /\ Range(Of(f)) = {[rule |-> r, path |-> f] : r \in Range(input.rules[f])}
  <2>1. input.rules[f] \in Seq(Rules)
    BY AgentAssumption
  <2>2. DOMAIN input.rules[f] = 1..Len(input.rules[f]) /\ Len(input.rules[f]) \in Nat
        /\ \A j \in DOMAIN input.rules[f] : input.rules[f][j] \in Rules
    BY <2>1
  <2>3. Of(f) \in Seq(Detections)
    BY <2>2 DEF Detections
  <2>4. Range(Of(f)) = {[rule |-> r, path |-> f] : r \in Range(input.rules[f])}
    BY DEF Range
  <2> QED
    BY <2>3, <2>4
<1> HIDE DEF Of
<1>2. DOMAIN files = 1..Len(files) /\ Len(files) \in Nat /\ \A i \in DOMAIN files : files[i] \in Files
  OBVIOUS
<1>3. all \in Seq(Seq(Detections)) /\ DOMAIN all = DOMAIN files /\ \A i \in DOMAIN files : all[i] = Of(files[i])
  BY <1>1, <1>2
<1>4. Scanned(files) = FlattenSeq(all)
  BY DEF Scanned, Of
<1> HIDE DEF all
<1>5. /\ Scanned(files) \in Seq(Detections)
      /\ Range(Scanned(files)) = UNION {Range(all[i]) : i \in DOMAIN all}
  BY <1>3, <1>4, FlattenProperties
<1>6. UNION {Range(all[i]) : i \in DOMAIN all} = UNION {Range(Of(f)) : f \in Range(files)}
  BY <1>3 DEF Range
<1>7. UNION {Range(Of(f)) : f \in Range(files)} =
        UNION {{[rule |-> r, path |-> f] : r \in Range(input.rules[f])} : f \in Range(files)}
  <2>1. \A f \in Range(files) : Range(Of(f)) = {[rule |-> r, path |-> f] : r \in Range(input.rules[f])}
    BY <1>1, <1>2 DEF Range
  <2>2. ASSUME NEW x
        PROVE  x \in UNION {Range(Of(f)) : f \in Range(files)} <=>
               x \in UNION {{[rule |-> r, path |-> f] : r \in Range(input.rules[f])} : f \in Range(files)}
    <3>1. x \in UNION {Range(Of(f)) : f \in Range(files)} <=> \E f \in Range(files) : x \in Range(Of(f))
      OBVIOUS
    <3>2. x \in UNION {{[rule |-> r, path |-> f] : r \in Range(input.rules[f])} : f \in Range(files)} <=>
            \E f \in Range(files) : x \in {[rule |-> r, path |-> f] : r \in Range(input.rules[f])}
      OBVIOUS
    <3> QED
      BY <2>1, <3>1, <3>2, Zenon
  <2> QED
    BY <2>2
<1> QED
  BY <1>5, <1>6, <1>7

\* The lines with a rule and a path.
LEMMA ParsedProperties ==
  ASSUME NEW lines \in Seq([rule : Rules \cup {None}, length : Nat])
  PROVE  /\ Parsed(lines) \in Seq(Detections)
         /\ Range(Parsed(lines)) =
              {[rule |-> lines[i].rule, path |-> i] : i \in {j \in DOMAIN lines : KeepsLine(lines[j])}}
<1> DEFINE Of(i) == IF KeepsLine(lines[i]) THEN <<[rule |-> lines[i].rule, path |-> i]>> ELSE <<>>
           all == [i \in DOMAIN lines |-> Of(i)]
<1>1. ASSUME NEW i \in DOMAIN lines
      PROVE  /\ Of(i) \in Seq(Detections)
             /\ Range(Of(i)) = {[rule |-> lines[j].rule, path |-> j] : j \in {k \in {i} : KeepsLine(lines[k])}}
  <2>1. lines[i] \in [rule : Rules \cup {None}, length : Nat] /\ i \in Nat
    <3>1. DOMAIN lines = 1..Len(lines) /\ Len(lines) \in Nat
      BY LenProperties
    <3>2. i \in 1..Len(lines)
      BY <3>1
    <3>3. lines[i] \in [rule : Rules \cup {None}, length : Nat]
      BY <3>2, ElementOfSeq
    <3> QED
      BY <3>2, <3>3
  <2>2. CASE KeepsLine(lines[i])
    <3>1. [rule |-> lines[i].rule, path |-> i] \in Detections
      BY <2>1, <2>2 DEF Detections, KeepsLine
    <3>2. Of(i) = <<[rule |-> lines[i].rule, path |-> i]>>
      BY <2>2
    <3> QED
      BY <2>2, <3>1, <3>2 DEF Range
  <2>3. CASE ~ KeepsLine(lines[i])
    BY <2>3 DEF Range
  <2> QED
    BY <2>2, <2>3
<1> HIDE DEF Of
<1>2. DOMAIN lines = 1..Len(lines) /\ Len(lines) \in Nat
  OBVIOUS
<1>3. all \in Seq(Seq(Detections)) /\ DOMAIN all = DOMAIN lines /\ \A i \in DOMAIN lines : all[i] = Of(i)
  BY <1>1, <1>2
<1>4. Parsed(lines) = FlattenSeq(all)
  BY DEF Parsed, Of
<1> HIDE DEF all
<1>5. /\ Parsed(lines) \in Seq(Detections)
      /\ Range(Parsed(lines)) = UNION {Range(all[i]) : i \in DOMAIN all}
  BY <1>3, <1>4, FlattenProperties
<1>6. UNION {Range(all[i]) : i \in DOMAIN all} =
        {[rule |-> lines[i].rule, path |-> i] : i \in {j \in DOMAIN lines : KeepsLine(lines[j])}}
  BY <1>1, <1>3
<1> QED
  BY <1>5, <1>6

-----------------------------------------------------------------------------
(* The queues. *)

\* The order of the requests that were sent.
Ordered(s) == \A i, j \in DOMAIN s : i < j => Before(s[i], s[j])

\* A request that comes after all that were sent goes behind them.
LEMMA AppendLater ==
  ASSUME NEW s \in Seq(RequestIds), NEW x \in RequestIds, Ordered(s), \A y \in Range(s) : Before(y, x)
  PROVE  /\ Append(s, x) \in Seq(RequestIds) /\ Ordered(Append(s, x))
         /\ Range(Append(s, x)) = Range(s) \cup {x}
<1>1. /\ Append(s, x) \in Seq(RequestIds) /\ Len(Append(s, x)) = Len(s) + 1
      /\ \A i \in 1..Len(s) : Append(s, x)[i] = s[i]
      /\ Append(s, x)[Len(s) + 1] = x
  BY AppendProperties
<1>2. DOMAIN s = 1..Len(s) /\ DOMAIN Append(s, x) = (1..Len(s)) \cup {Len(s) + 1} /\ Len(s) \in Nat
  BY <1>1
<1>3. ASSUME NEW i \in DOMAIN Append(s, x), NEW j \in DOMAIN Append(s, x), i < j
      PROVE  Before(Append(s, x)[i], Append(s, x)[j])
  <2>1. i \in DOMAIN s /\ Append(s, x)[i] = s[i]
    BY <1>1, <1>2, <1>3
  <2>2. CASE j \in DOMAIN s
    <3>1. Append(s, x)[j] = s[j]
      BY <1>1, <1>2, <2>2
    <3>2. Before(s[i], s[j])
      BY <1>3, <2>1, <2>2 DEF Ordered
    <3> QED
      BY <2>1, <3>1, <3>2
  <2>3. CASE j = Len(s) + 1
    <3>1. s[i] \in Range(s)
      BY <2>1 DEF Range
    <3>2. Append(s, x)[j] = x
      BY <1>1, <2>3
    <3> QED
      BY <2>1, <3>1, <3>2
  <2> QED
    BY <1>2, <2>2, <2>3
<1>4. Ordered(Append(s, x))
  BY <1>3 DEF Ordered
<1> QED
  BY <1>1, <1>4, AppendNew

\* What a receiver takes from the head of its queue it has behind the rest of it.
LEMMA TakeHead ==
  ASSUME NEW S, NEW g \in Seq(S), NEW q \in Seq(S), q # <<>>
  PROVE  /\ Append(g, Head(q)) \in Seq(S) /\ Tail(q) \in Seq(S) /\ Len(Tail(q)) < Len(q)
         /\ Append(g, Head(q)) \o Tail(q) = g \o q
<1>1. /\ Head(q) \in S /\ Tail(q) \in Seq(S) /\ Len(Tail(q)) = Len(q) - 1 /\ Len(q) \in Nat /\ Len(q) > 0
      /\ Head(q) = q[1] /\ \A i \in 1..(Len(q) - 1) : Tail(q)[i] = q[i + 1]
  BY HeadTailProperties, EmptySeq, LenProperties
<1>2. Append(g, Head(q)) \in Seq(S)
  BY <1>1
<1>3. Append(g, Head(q)) \o Tail(q) = g \o q
  BY <1>1
<1> QED
  BY <1>1, <1>2, <1>3

\* What a sender puts into a queue goes behind all that was ever sent through it.
LEMMA SendBehind ==
  ASSUME NEW S, NEW g \in Seq(S), NEW q \in Seq(S), NEW x \in S
  PROVE  Append(q, x) \in Seq(S) /\ g \o Append(q, x) = Append(g \o q, x) /\ Len(Append(q, x)) = Len(q) + 1
  OBVIOUS

\* The requests of one more detection.
LEMMA RequestsNext ==
  ASSUME NEW n \in Nat
  PROVE  Requests(n + 1) = Requests(n) \cup ({n + 1} \X (1..Matches[found[n + 1].rule]))
<1> DEFINE Of(i) == {i} \X (1..Matches[found[i].rule])
<1>1. 1..(n + 1) = (1..n) \cup {n + 1}
  OBVIOUS
<1>2. /\ Requests(n) = UNION {Of(i) : i \in 1..n}
      /\ Requests(n + 1) = UNION {Of(i) : i \in 1..(n + 1)}
  BY DEF Requests
<1> HIDE DEF Of
<1>3. Requests(n + 1) = Requests(n) \cup Of(n + 1)
  BY <1>1, <1>2, Zenon
<1> QED
  BY <1>3 DEF Of

\* The requests of the detections before the current one, and those of its
\* solutions before the current one, come before the current one.
LEMMA SentBefore ==
  ASSUME NEW n \in Nat, NEW k \in Nat
  PROVE  \A y \in Requests(n) \cup ({n + 1} \X (1..k)) : Before(y, <<n + 1, k + 1>>)
<1>1. \A y \in Requests(n) : y[1] < n + 1
  BY DEF Requests
<1>2. \A y \in {n + 1} \X (1..k) : y[1] = n + 1 /\ y[2] < k + 1
  OBVIOUS
<1> QED
  BY <1>1, <1>2 DEF Before

-----------------------------------------------------------------------------
(* The pipeline. *)

\* At first nothing is sent.
LEMMA PipeInvInit == Init => PipeInv
<1> SUFFICES ASSUME Init
             PROVE  PipeInv
  OBVIOUS
<1> USE DEF Init
<1>1. <<>> \in Seq(Detections) /\ <<>> \in Seq(RequestIds) /\ Cap \in Nat
  BY AgentAssumption
<1>2. PipeTypes
  <2>1. /\ produced \in 0..Len(found) /\ found \in Seq(Detections) /\ nth \in Nat
        /\ Len(sanQ) <= Cap /\ Len(hardQ) <= Cap
    BY <1>1
  <2>2. err \in [type : {"nil", "sanitizer", "parser"}, data : {"nil", "sanitizer", "parser"}]
    BY DEF NoErr
  <2> QED
    BY <1>1, <2>1, <2>2 DEF PipeTypes
<1>3. ToSanitizer = <<>> /\ ToHardener = <<>>
  BY <1>1 DEF ToSanitizer, ToHardener
<1>4. Requests(0) = {}
  BY DEF Requests
<1>5. Dispatched
  BY <1>3, <1>4 DEF Dispatched, Sent, Range
<1>6. PipeIdle /\ Returning /\ ErrInv /\ FoundInv
  BY DEF StartInit, PipeIdle, Returning, ErrInv, NoErr, ErrRaceNeedsFailure, FoundInv
<1> QED
  BY <1>2, <1>5, <1>6 DEF PipeInv

\* The dispatcher's part depends on nothing but these.
LEMMA DispatchedStays ==
  ASSUME Dispatched, UNCHANGED <<input, found, produced, disp, nth>>,
         ToSanitizer' = ToSanitizer, ToHardener' = ToHardener
  PROVE  Dispatched'
<1>1. Sent' = Sent /\ Current' = Current /\ Item' = Item
  BY DEF Sent, Requests, Current, Item
<1> QED
  BY <1>1 DEF Dispatched

\* Before the detections are handed over, and where telemetry or the search goes
\* on, the pipeline rests.
LEMMA QuietPipe ==
  ASSUME PipeInv, UNCHANGED <<input, pipeVars>>,
         agent' = agent \/ agent' \notin {"done", "panic", "exit1"},
         main' = main \/ (main # "wait" /\ (main' \in Searching => main \in Searching)),
         disp # "off" => UNCHANGED <<fallback, list>>
  PROVE  PipeInv'
<1> USE DEF PipeInv, pipeVars, prodVars, dispVars, queueVars, sanVars, hardVars
<1>1. PipeTypes'
  BY DEF PipeTypes
<1>2. PipeIdle'
  BY DEF PipeIdle
<1>3. Dispatched'
  <2>1. ToSanitizer' = ToSanitizer /\ ToHardener' = ToHardener
    BY DEF ToSanitizer, ToHardener
  <2> QED
    BY <2>1, DispatchedStays
<1>4. Returning'
  BY DEF Returning
<1>5. ErrInv'
  BY DEF ErrInv, ErrRaceNeedsFailure, Returned
<1>6. FoundInv'
  BY DEF FoundInv, Scanned
<1> QED
  BY <1>1, <1>2, <1>3, <1>4, <1>5, <1>6

\* When the search is over it has found just what the searcher that went last reports.
LEMMA SearchIsExact ==
  ASSUME SearchInv, main = "searched", ~input.noDiskScan
  PROVE  /\ IsInjective(list)
         /\ Range(list) = input.local \cap (IF fallback THEN input.under \ input.denied
                                           ELSE IF input.exactCase THEN input.under \cup input.beside
                                           ELSE {})
<1> USE DEF SearchInv
<1>1. searcher = "returned" /\ (fallback <=> chan = 2) /\ item = None
  BY DEF Rounds, Joined, SearchTypes, SearchTypeOK
<1>2. Delivered = Target
  BY <1>1 DEF ListInv, Delivered, Failed
<1>3. Range(list) = input.local \cap Target
  BY <1>1, <1>2, InputFields, SearchAssumption DEF ListInv
<1> QED
  BY <1>1, <1>3 DEF ListInv, Target

\* The sanitizer, the hardener and the dispatcher start with nothing behind them.
LEMMA HandOverInv ==
  ASSUME SearchInv, PipeInv, Up, HandOver, UNCHANGED <<input, searchVars>>
  PROVE  PipeInv'
<1> USE DEF PipeInv, HandOver, queueVars, searchVars, consumerVars, Searching
<1>1. found' \in Seq(Detections)
  <2>1. input.lines \in Seq([rule : Rules \cup {None}, length : Nat]) /\ input \in Inputs /\ list \in Seq(Files)
    BY AgentAssumption DEF SearchInv, SearchTypes, SearchTypeOK
  <2> QED
    BY <2>1, ScannedProperties, ParsedProperties
<1>2. PipeTypes'
  <2>1. produced' \in 0..Len(found')
    BY <1>1 DEF PipeIdle
  <2> QED
    BY <1>1, <2>1 DEF PipeTypes
<1>3. PipeIdle'
  BY DEF PipeIdle, Starting
<1>4. Dispatched'
  <2>1. ToSanitizer' = <<>> /\ ToHardener' = <<>>
    BY DEF PipeIdle, ToSanitizer, ToHardener
  <2>2. Sent' = {}
    BY DEF PipeIdle, Sent, Requests
  <2> QED
    BY <2>1, <2>2 DEF Dispatched, Range
<1>5. Returning' /\ ErrInv'
  BY DEF PipeIdle, Returning, ErrInv, ErrRaceNeedsFailure, NoErr, Up
<1>6. FoundInv'
  <2>1. found' = IF input'.noDiskScan THEN Parsed(input'.lines) ELSE Scanned(list)'
    BY DEF Scanned
  <2> QED
    BY <2>1, SearchIsExact DEF FoundInv, Starting
<1> QED
  BY <1>2, <1>3, <1>4, <1>5, <1>6

\* What is found is decided when the dispatcher starts.
LEMMA FoundStays ==
  ASSUME FoundInv, UNCHANGED <<input, searchVars, found>>,
         disp # "off" => main' \notin Searching, disp' # "off" => disp # "off"
  PROVE  FoundInv'
  BY DEF FoundInv, Scanned, searchVars, consumerVars

\* The producer starts when main begins to wait.
LEMMA StartProducerInv ==
  ASSUME PipeInv, Up, StartProducer, UNCHANGED <<input, searchVars>>
  PROVE  PipeInv'
<1> USE DEF PipeInv, StartProducer, dispVars, queueVars, sanVars, hardVars
<1>1. /\ UNCHANGED <<input, found, parseErr, produced, disp, nth, sanQ, sanClosed, hardQ, hardClosed,
                     san, sanErr, sanGot, hard, hardGot, err>>
      /\ main = "load" /\ main' \in {"wait", "load", "failing", "reported"}
      /\ (main' = "wait" /\ prod' = "produce") \/ prod' = prod
      /\ agent' = agent \/ agent' \in {"exit-1", "outOfRange"}
  BY DEF Exits, DecryptFails, LoadFails
<1>2. prod = "off" /\ disp # "returned" /\ ~sanClosed
  BY <1>1 DEF PipeIdle, Returning
<1>3. PipeTypes'
  BY <1>1 DEF PipeTypes
<1>4. PipeIdle'
  BY <1>1, <1>2 DEF PipeIdle, Searching, Starting
<1>5. Dispatched'
  <2>1. ToSanitizer' = ToSanitizer /\ ToHardener' = ToHardener
    BY <1>1 DEF ToSanitizer, ToHardener
  <2> QED
    BY <1>1, <2>1, DispatchedStays
<1>6. Returning'
  BY <1>1, <1>2 DEF Returning
<1>7. ErrInv'
  BY <1>1, <1>2 DEF ErrInv, ErrRaceNeedsFailure, Returned, Up
<1>8. FoundInv'
  BY <1>1, FoundStays DEF Searching, Starting
<1> QED
  BY <1>3, <1>4, <1>5, <1>6, <1>7, <1>8

\* Main returns when all the others have.
LEMMA MainReturnsInv ==
  ASSUME PipeInv, Up, MainReturns, UNCHANGED <<input, searchVars>>
  PROVE  PipeInv'
<1> USE DEF PipeInv, MainReturns, pipeVars, prodVars, dispVars, queueVars, sanVars, hardVars
<1>1. PipeTypes' /\ PipeIdle'
  BY DEF PipeTypes, PipeIdle
<1>2. Dispatched'
  <2>1. ToSanitizer' = ToSanitizer /\ ToHardener' = ToHardener
    BY DEF ToSanitizer, ToHardener
  <2> QED
    BY <2>1, DispatchedStays
<1>3. Returning' /\ ErrInv'
  BY DEF Returning, ErrInv, ErrRaceNeedsFailure, Returned
<1>4. FoundInv'
  BY FoundStays DEF Searching, Starting
<1> QED
  BY <1>1, <1>2, <1>3, <1>4

\* What main does leaves the pipeline right.
LEMMA MainPipeInv ==
  ASSUME SearchInv, PipeInv, MainNext
  PROVE  PipeInv'
<1>1. Up
  BY DEF MainNext
<1>2. CASE StartStep /\ UNCHANGED <<searchVars, pipeVars>>
  <2>1. /\ UNCHANGED input
        /\ agent' = agent \/ agent' \notin {"done", "panic", "exit1"}
        /\ main' = main \/ (main # "wait" /\ main \in Searching)
    BY <1>2 DEF StartStep, CheckArguments, ReadDatabase, DecryptFails, GiveUp, CheckUpdate, CheckPrivileges, Exits,
       Searching, Starting
  <2> QED
    BY <1>2, <2>1, QuietPipe DEF searchVars, consumerVars
<1>3. CASE SearchMainStep /\ UNCHANGED pipeVars
  <2>1. UNCHANGED <<input, agent>> /\ main \in Searching
    BY <1>3 DEF SearchMainStep, StartBoosted, SkipBoosted, JoinBoosted, FallBack, BoostedWasEnough, JoinGeneral,
       Searching, Starting
  <2>2. main # "wait" /\ disp = "off"
    BY <2>1 DEF PipeInv, PipeIdle, Searching, Starting
  <2> QED
    BY <1>3, <2>1, <2>2, QuietPipe
<1>4. CASE HandOver /\ UNCHANGED <<input, searchVars>>
  BY <1>1, <1>4, HandOverInv
<1>5. CASE StartProducer /\ UNCHANGED <<input, searchVars>>
  BY <1>1, <1>5, StartProducerInv
<1>6. CASE ReportLoading /\ UNCHANGED <<input, searchVars>>
  BY <1>6, QuietPipe DEF ReportLoading, Searching, Starting, searchVars, consumerVars
<1>7. CASE MainReturns /\ UNCHANGED <<input, searchVars>>
  BY <1>1, <1>7, MainReturnsInv
<1> QED
  BY <1>2, <1>3, <1>4, <1>5, <1>6, <1>7 DEF MainNext

\* The search goes on only before the pipeline starts.
LEMMA SearchPipeInv ==
  ASSUME SearchInv, PipeInv, SearchNext
  PROVE  PipeInv'
<1> USE DEF SearchInv
<1>1. /\ UNCHANGED <<input, main>>
      /\ agent' = agent \/ agent' = "exit5"
      /\ searcher = "mft" \/ consumer = "checking" \/ UNCHANGED <<fallback, list>>
  BY DEF SearchNext, SearcherStep, ConsumerStep, BoostedFails, BeginSearch, Report, SearchEnds, BeginConsuming, Check,
     ConsumingEnds, consumerVars
<1>2. searcher = "mft" \/ consumer = "checking" => main \in Searching
  BY DEF Rounds, Joined, Searching
<1>3. disp # "off" => UNCHANGED <<fallback, list>>
  BY <1>1, <1>2 DEF PipeInv, PipeIdle
<1> QED
  BY <1>1, <1>3, QuietPipe DEF SearchNext

\* The producer ends, and its result goes through err.
LEMMA ProducerInv ==
  ASSUME PipeInv, ProducerNext
  PROVE  PipeInv'
<1> USE DEF PipeInv, ProducerNext, dispVars, queueVars, sanVars, hardVars
<1>1. Dispatched'
  <2>1. ToSanitizer' = ToSanitizer /\ ToHardener' = ToHardener
    BY DEF ToSanitizer, ToHardener
  <2>2. found' = found
    BY DEF ProducerStep, ProducerReturns, ProducerAssigns, ProducerChecks, ProducerReports, prodVars
  <2> QED
    BY <2>1, <2>2, DispatchedStays
<1>2. FoundInv'
  <2>1. found' = found
    BY DEF ProducerStep, ProducerReturns, ProducerAssigns, ProducerChecks, ProducerReports, prodVars
  <2> QED
    BY <2>1, FoundStays DEF FoundInv
<1>3. main = "wait" \/ prod = "off"
  BY DEF PipeIdle
<1>4. CASE ProducerReturns
  <2>1. /\ UNCHANGED <<found, err, agent>>
        /\ prod' \in {"assign", "returned"} /\ (prod' = "assign" => input.noDiskScan)
        /\ (produced = Len(found) /\ parseErr' = parseErr) \/ parseErr' = TRUE
    BY <1>4 DEF ProducerReturns, SharesErr
  <2>5. main' = "wait" /\ parseErr' \in BOOLEAN
    BY <1>3, <1>4, <2>1 DEF ProducerReturns, PipeTypes
  <2>6. PipeTypes'
    BY <2>1, <2>5 DEF PipeTypes
  <2>2. PipeTypes' /\ PipeIdle'
    BY <2>5, <2>6 DEF PipeIdle, Searching, Starting
  <2>3. Returning'
    BY <1>4, <2>1 DEF Returning, ProducerReturns
  <2>4. ErrInv'
    BY <2>1 DEF ErrInv, ErrRaceNeedsFailure, Returned
  <2> QED
    BY <1>1, <1>2, <2>2, <2>3, <2>4
<1>5. CASE ProducerAssigns
  <2>1. /\ UNCHANGED <<found, parseErr, agent>> /\ prod \in {"assign", "assigning"}
        /\ prod' \in {"assigning", "check"}
    BY <1>5 DEF ProducerAssigns
  <2>2. Outcome \in {"nil", "parser"} /\ (Outcome = "parser" => parseErr)
    BY DEF Outcome
  <2>3. /\ err' \in [type : {"nil", "sanitizer", "parser"}, data : {"nil", "sanitizer", "parser"}]
        /\ err'.type \in {err.type, Outcome} /\ err'.data \in {err.data, Outcome}
    BY <1>5, <2>2 DEF ProducerAssigns, StoreType, StoreData, PipeTypes
  <2>4. PipeTypes' /\ PipeIdle' /\ Returning'
    BY <1>3, <2>1, <2>3 DEF PipeTypes, PipeIdle, Returning, Searching, Starting
  <2>5. ErrInv'
    BY <2>1, <2>2, <2>3 DEF ErrInv, ErrRaceNeedsFailure
  <2> QED
    BY <1>1, <1>2, <2>4, <2>5
<1>6. CASE ProducerChecks
  <2>1. /\ UNCHANGED <<found, parseErr, err, agent>> /\ prod = "check"
        /\ prod' = "returned" \/ (prod' = "report" /\ err.type # "nil")
    BY <1>6 DEF ProducerChecks
  <2>2. PipeTypes' /\ PipeIdle' /\ Returning'
    BY <1>3, <2>1 DEF PipeTypes, PipeIdle, Returning, Searching, Starting
  <2>3. err.type # "nil" => sanErr \/ parseErr
    BY DEF ErrInv, PipeTypes
  <2>4. ErrInv'
    BY <2>1, <2>3 DEF ErrInv, ErrRaceNeedsFailure, Returned
  <2> QED
    BY <1>1, <1>2, <2>2, <2>4
<1>7. CASE ProducerReports
  <2>1. /\ UNCHANGED <<found, prod, parseErr, err>> /\ prod = "report" /\ agent' \in {"exit1", "panic"}
    BY <1>7 DEF ProducerReports, prodVars
  <2>2. PipeTypes' /\ PipeIdle' /\ Returning'
    BY <2>1 DEF PipeTypes, PipeIdle, Returning
  <2>3. ErrInv'
    BY <2>1 DEF ErrInv, ErrRaceNeedsFailure, Returned
  <2> QED
    BY <1>1, <1>2, <2>2, <2>3
<1> QED
  BY <1>4, <1>5, <1>6, <1>7 DEF ProducerStep

\* The sanitizer takes from the head of its queue, and its result goes through err.
LEMMA SanitizerInv ==
  ASSUME PipeInv, SanitizerNext \/ HelperNext
  PROVE  PipeInv'
<1> USE DEF PipeInv, prodVars, dispVars, queueVars, hardVars
<1>1. UNCHANGED <<input, main, searchVars, found, prod, parseErr, produced, disp, nth, hard, hardGot>> /\ Up
  BY DEF SanitizerNext, HelperNext
<1>2. FoundInv'
  BY <1>1, FoundStays DEF FoundInv
<1>3. main \in Searching => san = "off"
  BY DEF PipeIdle
<1>4. sanErr => Returned = "sanitizer"
  BY DEF Returned
<1>5. ~sanErr => Returned = "nil"
  BY DEF Returned
<1>6. CASE SanitizerTakes
  <2>1. /\ UNCHANGED <<sanClosed, hardQ, hardClosed, sanErr, err, agent>> /\ san = "receive"
        /\ \/ san' = "busy" /\ sanQ # <<>> /\ sanQ' = Tail(sanQ) /\ sanGot' = Append(sanGot, Head(sanQ))
           \/ san' = "quitting" /\ sanQ = <<>> /\ sanClosed /\ sanQ' = sanQ /\ sanGot' = sanGot
    BY <1>6 DEF SanitizerTakes
  <2>2. /\ sanQ' \in Seq(RequestIds) /\ sanGot' \in Seq(RequestIds) /\ Len(sanQ') <= Cap
        /\ ToSanitizer' = ToSanitizer /\ ToHardener' = ToHardener
    <3>1. sanQ \in Seq(RequestIds) /\ sanGot \in Seq(RequestIds) /\ Len(sanQ) <= Cap /\ Cap \in Nat
      BY AgentAssumption DEF PipeTypes
    <3>2. CASE sanQ # <<>> /\ sanQ' = Tail(sanQ) /\ sanGot' = Append(sanGot, Head(sanQ))
      <4>1. /\ Append(sanGot, Head(sanQ)) \in Seq(RequestIds) /\ Tail(sanQ) \in Seq(RequestIds)
            /\ Len(Tail(sanQ)) < Len(sanQ)
            /\ Append(sanGot, Head(sanQ)) \o Tail(sanQ) = sanGot \o sanQ
        BY <3>1, <3>2, TakeHead
      <4>2. Len(Tail(sanQ)) <= Cap
        BY <3>1, <4>1
      <4> QED
        BY <1>1, <2>1, <3>2, <4>1, <4>2 DEF ToSanitizer, ToHardener
    <3>3. CASE sanQ' = sanQ /\ sanGot' = sanGot
      BY <1>1, <2>1, <3>1, <3>3 DEF ToSanitizer, ToHardener
    <3> QED
      BY <2>1, <3>2, <3>3
  <2>3. PipeTypes'
    BY <1>1, <2>1, <2>2 DEF PipeTypes
  <2>4. PipeIdle'
    BY <1>1, <1>3, <2>1 DEF PipeIdle
  <2>5. Dispatched'
    BY <1>1, <2>2, DispatchedStays
  <2>6. Returning'
    BY <1>1, <2>1 DEF Returning
  <2>7. ErrInv'
    BY <1>1, <2>1 DEF ErrInv, ErrRaceNeedsFailure, Returned
  <2> QED
    BY <1>2, <2>3, <2>4, <2>5, <2>6, <2>7
<1>7. ASSUME UNCHANGED <<queueVars, sanGot>>
      PROVE  Dispatched'
  <2>1. ToSanitizer' = ToSanitizer /\ ToHardener' = ToHardener
    BY <1>1, <1>7 DEF ToSanitizer, ToHardener
  <2> QED
    BY <1>1, <2>1, DispatchedStays
<1>8. CASE SanitizerFails
  <2>1. UNCHANGED <<queueVars, sanGot, err, agent>> /\ san = "starting" /\ san' = "assign" /\ sanErr' = TRUE
    BY <1>8 DEF SanitizerFails
  <2>2. PipeTypes' /\ PipeIdle' /\ Returning'
    BY <1>1, <1>3, <2>1 DEF PipeTypes, PipeIdle, Returning, Up
  <2>3. ErrInv'
    BY <1>1, <2>1 DEF ErrInv, ErrRaceNeedsFailure, Up
  <2> QED
    BY <1>2, <1>7, <2>1, <2>2, <2>3
<1>9. CASE SanitizerConnects \/ HelperAnswers
  <2>1. /\ UNCHANGED <<queueVars, sanErr, sanGot, err, agent>>
        /\ \/ san \in {"starting", "busy"} /\ san' = "receive"
           \/ san = "quitting" /\ san' = "assign"
    BY <1>9 DEF SanitizerConnects, HelperAnswers
  <2>2. PipeTypes' /\ PipeIdle' /\ Returning'
    BY <1>1, <1>3, <2>1 DEF PipeTypes, PipeIdle, Returning, Up
  <2>3. ErrInv'
    BY <1>1, <2>1 DEF ErrInv, ErrRaceNeedsFailure, Returned
  <2> QED
    BY <1>2, <1>7, <2>1, <2>2, <2>3
<1>10. CASE SanitizerAssigns
  <2>1. /\ UNCHANGED <<queueVars, sanErr, sanGot, agent>>
        /\ \/ san = "assign" /\ san' = "assigning" /\ StoreType(Returned)
           \/ san = "assigning" /\ san' = "check" /\ StoreData(Returned)
    BY <1>10 DEF SanitizerAssigns
  <2>2. /\ err' \in [type : {"nil", "sanitizer", "parser"}, data : {"nil", "sanitizer", "parser"}]
        /\ err'.type \in {err.type, Returned} /\ err'.data \in {err.data, Returned}
        /\ san = "assign" => err'.type = Returned
        /\ san = "assigning" => err'.type = err.type /\ err'.data = Returned
    BY <2>1, <1>4, <1>5 DEF StoreType, StoreData, PipeTypes
  <2>5. san \in {"assign", "assigning"} /\ san' \in {"assigning", "check"}
    BY <2>1
  <2>6. PipeTypes'
    BY <1>1, <2>1, <2>2, <2>5 DEF PipeTypes
  <2>7. PipeIdle' /\ Returning'
    BY <1>1, <1>3, <2>1, <2>5 DEF PipeIdle, Returning, Up
  <2>3. PipeTypes' /\ PipeIdle' /\ Returning'
    BY <2>6, <2>7
  <2>4. ErrInv'
    <3>1. Returned' = Returned
      BY <2>1 DEF Returned
    <3>2. ~input.noDiskScan /\ san = "assigning" => err' = [type |-> Returned, data |-> Returned]
      BY <2>2 DEF ErrInv
    <3> QED
      BY <1>1, <1>4, <1>5, <2>1, <2>2, <3>1, <3>2 DEF ErrInv, ErrRaceNeedsFailure, Up
  <2> QED
    BY <1>2, <1>7, <2>1, <2>3, <2>4
<1>11. CASE SanitizerChecks
  <2>1. /\ UNCHANGED <<queueVars, sanErr, sanGot, err, agent>> /\ san = "check"
        /\ san' = "returned" \/ (san' = "report" /\ err.type # "nil")
    BY <1>11 DEF SanitizerChecks
  <2>5. san' \in {"returned", "report"}
    BY <2>1
  <2>6. PipeTypes'
    BY <1>1, <2>1, <2>5 DEF PipeTypes
  <2>7. PipeIdle' /\ Returning'
    BY <1>1, <1>3, <2>1, <2>5 DEF PipeIdle, Returning, Up
  <2>2. PipeTypes' /\ PipeIdle' /\ Returning'
    BY <2>6, <2>7
  <2>3. err.type # "nil" => (sanErr \/ parseErr) /\ (~input.noDiskScan => sanErr)
    BY <1>5, <2>1 DEF ErrInv, PipeTypes
  <2>4. ErrInv'
    BY <1>1, <2>1, <2>3 DEF ErrInv, ErrRaceNeedsFailure, Returned
  <2> QED
    BY <1>2, <1>7, <2>1, <2>2, <2>4
<1>12. CASE SanitizerReports
  <2>1. /\ UNCHANGED <<queueVars, sanErr, sanGot, err>> /\ san \in {"report", "log"}
        /\ san' \in {san, "log", "returned"}
        /\ agent' = agent \/ (agent' = "panic" /\ MayPanic)
    BY <1>12 DEF SanitizerReports
  <2>5. san' \in {"report", "log", "returned"} /\ agent' # "done"
    BY <1>1, <2>1 DEF Up
  <2>6. PipeTypes'
    BY <1>1, <2>1, <2>5 DEF PipeTypes
  <2>7. PipeIdle' /\ Returning'
    BY <1>1, <1>3, <2>1, <2>5 DEF PipeIdle, Returning
  <2>2. PipeTypes' /\ PipeIdle' /\ Returning'
    BY <2>6, <2>7
  <2>3. MayPanic => input.noDiskScan /\ (sanErr \/ parseErr)
    BY <1>4, <2>1 DEF MayPanic, ErrInv
  <2>4. ErrInv'
    BY <1>1, <2>1, <2>3 DEF ErrInv, ErrRaceNeedsFailure, Returned
  <2> QED
    BY <1>2, <1>7, <2>1, <2>2, <2>4
<1> QED
  BY <1>6, <1>8, <1>9, <1>10, <1>11, <1>12 DEF SanitizerNext, HelperNext, SanitizerStep

\* One more detection, its first solution or the next one: what was sent stays
\* all that there was to send.
LEMMA DeliverInv ==
  ASSUME PipeInv, Deliver, UNCHANGED input
  PROVE  Dispatched'
<1> USE DEF PipeInv, Deliver, queueVars, sanVars, hardVars, prodVars
<1>1. produced \in Nat /\ produced + 1 \in 1..Len(found) /\ Matches[found[produced + 1].rule] \in Nat
  <2>1. produced \in Nat /\ produced + 1 \in 1..Len(found)
    BY DEF PipeTypes
  <2>2. found[produced + 1] \in Detections
    BY <2>1, ElementOfSeq DEF PipeTypes
  <2> QED
    BY <2>1, <2>2, AgentAssumption DEF Detections
<1>2. ToSanitizer' = ToSanitizer /\ ToHardener' = ToHardener
  BY DEF ToSanitizer, ToHardener
<1>3. Range(ToSanitizer) = Requests(produced) /\ (input.hardening => ToHardener = ToSanitizer)
  BY DEF Dispatched, Sent
<1>4. CASE Matches[found[produced + 1].rule] = 0
  <2>1. disp' = "receive" /\ Sent' = Requests(produced + 1)
    BY <1>4 DEF Sent, Requests
  <2>2. Requests(produced + 1) = Requests(produced)
    <3>1. Requests(produced + 1) = Requests(produced) \cup ({produced + 1} \X (1..Matches[found[produced + 1].rule]))
      BY <1>1, RequestsNext
    <3>2. {produced + 1} \X (1..0) = {}
      OBVIOUS
    <3> QED
      BY <1>4, <3>1, <3>2
  <2> QED
    BY <1>2, <1>3, <2>1, <2>2 DEF Dispatched
<1>5. CASE Matches[found[produced + 1].rule] # 0
  <2>1. disp' = "sanitize" /\ nth' \in 1..Current' /\ produced' \in 1..Len(found')
    BY <1>1, <1>5 DEF Current
  <2>2. Sent' = Requests(produced)
    <3>1. Sent' = Requests((produced + 1) - 1) \cup ({produced + 1} \X (1..(1 - 1)))
      BY <2>1 DEF Sent, Requests
    <3>2. (produced + 1) - 1 = produced /\ 1..(1 - 1) = {}
      BY <1>1
    <3> QED
      BY <3>1, <3>2
  <2> QED
    BY <1>2, <1>3, <2>1, <2>2 DEF Dispatched
<1> QED
  BY <1>4, <1>5

\* Where the dispatcher is once a request has gone to all it goes to.
LEMMA NextSolutionSent ==
  ASSUME PipeTypes, Dispatched, disp \in {"sanitize", "harden"}, NextSolution, UNCHANGED <<found, produced>>
  PROVE  /\ disp' \in {"sanitize", "receive"}
         /\ nth' \in Nat
         /\ disp' = "sanitize" => produced' \in 1..Len(found') /\ nth' \in 1..Current'
         /\ Sent' = Requests(produced - 1) \cup ({produced} \X (1..nth))
<1>1. produced \in 1..Len(found) /\ nth \in 1..Current /\ nth \in Nat /\ Current \in Nat /\ Current' = Current
  <2>1. produced \in 1..Len(found) /\ nth \in 1..Current /\ nth \in Nat
    BY DEF Dispatched, PipeTypes
  <2>2. found[produced] \in Detections
    BY <2>1, ElementOfSeq DEF PipeTypes
  <2> QED
    BY <2>1, <2>2, AgentAssumption DEF Detections, Current
<1>2. CASE nth < Current
  <2>1. disp' = "sanitize" /\ nth' = nth + 1
    BY <1>2 DEF NextSolution
  <2>2. Sent' = Requests(produced - 1) \cup ({produced} \X (1..(nth' - 1)))
    BY <2>1 DEF Sent, Requests
  <2>3. nth' - 1 = nth /\ nth' \in 1..Current /\ nth' \in Nat
    BY <1>1, <1>2, <2>1
  <2> QED
    BY <1>1, <2>1, <2>2, <2>3
<1>3. CASE ~(nth < Current)
  <2>1. disp' = "receive" /\ nth' = nth + 1 /\ nth = Current /\ nth' \in Nat
    BY <1>1, <1>3 DEF NextSolution
  <2>2. Sent' = Requests(produced)
    BY <2>1 DEF Sent, Requests
  <2>3. produced - 1 \in Nat /\ (produced - 1) + 1 = produced
    BY <1>1 DEF PipeTypes
  <2>4. Requests((produced - 1) + 1) =
          Requests(produced - 1) \cup ({(produced - 1) + 1} \X (1..Matches[found[(produced - 1) + 1].rule]))
    BY <2>3, RequestsNext
  <2>5. Requests(produced) = Requests(produced - 1) \cup ({produced} \X (1..nth))
    BY <2>1, <2>3, <2>4 DEF Current
  <2> QED
    BY <1>1, <2>1, <2>2, <2>5
<1> QED
  BY <1>2, <1>3

\* A sanitize request follows all those before it.
LEMMA SendSanitizeInv ==
  ASSUME PipeInv, SendSanitize, UNCHANGED <<input, found, sanGot, hardGot>>
  PROVE  Dispatched' /\ sanQ' \in Seq(RequestIds) /\ Len(sanQ') <= Cap /\ disp' \in {"sanitize", "receive", "harden"} /\ nth' \in Nat
<1> USE DEF PipeInv, SendSanitize
<1>1. produced \in 1..Len(found) /\ nth \in 1..Current /\ nth \in Nat /\ produced \in Nat
  BY DEF Dispatched, PipeTypes
<1>2. Item \in RequestIds /\ produced - 1 \in Nat /\ nth - 1 \in Nat /\ Item = <<(produced - 1) + 1, (nth - 1) + 1>>
  <2>1. produced - 1 \in Nat /\ nth - 1 \in Nat /\ (produced - 1) + 1 = produced /\ (nth - 1) + 1 = nth
    BY <1>1
  <2> QED
    BY <1>1, <2>1 DEF Item, RequestIds
<1>3. Range(ToSanitizer) = Requests(produced - 1) \cup ({produced} \X (1..(nth - 1)))
  BY DEF Dispatched, Sent
<1>4. \A y \in Range(ToSanitizer) : Before(y, Item)
  <2>1. {(produced - 1) + 1} = {produced}
    BY <1>1
  <2> QED
    BY <1>2, <1>3, <2>1, SentBefore
<1>5. /\ sanQ' \in Seq(RequestIds) /\ Len(sanQ') = Len(sanQ) + 1
      /\ ToSanitizer' = Append(ToSanitizer, Item) /\ ToSanitizer \in Seq(RequestIds)
  BY <1>2, SendBehind, ConcatProperties DEF ToSanitizer, PipeTypes
<1>6. Len(sanQ') <= Cap
  <2>1. Len(sanQ) \in Nat /\ Cap \in Nat
    BY AgentAssumption DEF PipeTypes
  <2> QED
    BY <1>5, <2>1 DEF Room
<1>7. /\ Ordered(ToSanitizer') /\ Range(ToSanitizer') = Range(ToSanitizer) \cup {Item}
  <2>1. Ordered(ToSanitizer)
    BY DEF Dispatched, Ordered
  <2>2. Ordered(Append(ToSanitizer, Item)) /\ Range(Append(ToSanitizer, Item)) = Range(ToSanitizer) \cup {Item}
    BY <1>2, <1>4, <1>5, <2>1, AppendLater
  <2> QED
    BY <1>5, <2>2 DEF Ordered
<1>8. Range(ToSanitizer') = Requests(produced - 1) \cup ({produced} \X (1..nth))
  <2>1. {produced} \X (1..nth) = ({produced} \X (1..(nth - 1))) \cup {Item}
    <3>1. 1..nth = (1..(nth - 1)) \cup {nth}
      BY <1>1
    <3> QED
      BY <3>1 DEF Item
  <2> QED
    BY <1>3, <1>7, <2>1
<1>9. CASE input.hardening
  <2>1. disp' = "harden" /\ nth' = nth
    BY <1>9
  <2>2. Sent' = Requests(produced - 1) \cup ({produced} \X (1..nth)) /\ Current' = Current /\ Item' = Item
    BY <2>1 DEF Sent, Requests, Current, Item
  <2>3. ToHardener' = ToHardener /\ ToHardener = ToSanitizer
    BY <1>9 DEF ToHardener, Dispatched
  <2>4. Dispatched'
    BY <1>1, <1>5, <1>7, <1>8, <1>9, <2>1, <2>2, <2>3 DEF Dispatched, Ordered
  <2> QED
    BY <1>1, <1>5, <1>6, <2>1, <2>4
<1>10. CASE ~input.hardening
  <2>1. NextSolution
    BY <1>10
  <2>2. /\ disp' \in {"sanitize", "receive"} /\ nth' \in Nat
        /\ disp' = "sanitize" => produced' \in 1..Len(found') /\ nth' \in 1..Current'
        /\ Sent' = Requests(produced - 1) \cup ({produced} \X (1..nth))
    BY <2>1, NextSolutionSent
  <2>3. Dispatched'
    BY <1>7, <1>8, <1>10, <2>2 DEF Dispatched, Ordered
  <2> QED
    BY <1>5, <1>6, <2>2, <2>3
<1> QED
  BY <1>9, <1>10

\* The hardening request makes the queues equal again.
LEMMA SendHardenInv ==
  ASSUME PipeInv, SendHarden, UNCHANGED <<input, found, sanGot, hardGot>>
  PROVE  Dispatched' /\ hardQ' \in Seq(RequestIds) /\ Len(hardQ') <= Cap /\ disp' \in {"sanitize", "receive"} /\ nth' \in Nat
<1> USE DEF PipeInv, SendHarden
<1>1. produced \in 1..Len(found) /\ nth \in 1..Current /\ nth \in Nat /\ produced \in Nat /\ input.hardening
  BY DEF Dispatched, PipeTypes
<1>2. Item \in RequestIds
  BY <1>1 DEF Item, RequestIds
<1>3. hardQ' \in Seq(RequestIds) /\ Len(hardQ') = Len(hardQ) + 1 /\ ToHardener' = Append(ToHardener, Item)
  BY <1>2, SendBehind DEF ToHardener, PipeTypes
<1>4. Len(hardQ') <= Cap
  <2>1. Len(hardQ) \in Nat /\ Cap \in Nat
    BY AgentAssumption DEF PipeTypes
  <2> QED
    BY <1>3, <2>1 DEF Room
<1>5. /\ disp' \in {"sanitize", "receive"} /\ nth' \in Nat
      /\ disp' = "sanitize" => produced' \in 1..Len(found') /\ nth' \in 1..Current'
      /\ Sent' = Requests(produced - 1) \cup ({produced} \X (1..nth))
  BY NextSolutionSent
<1>6. /\ ToSanitizer' = ToSanitizer /\ ToSanitizer = Append(ToHardener, Item) 
      /\ Range(ToSanitizer) = Requests(produced - 1) \cup ({produced} \X (1..nth))
  BY <1>1 DEF ToSanitizer, Dispatched, Sent
<1>7. Dispatched'
  BY <1>3, <1>5, <1>6 DEF Dispatched
<1> QED
  BY <1>3, <1>4, <1>5, <1>7

\* What the dispatcher receives, sends and closes.
LEMMA DispatcherInv ==
  ASSUME PipeInv, DispatcherNext
  PROVE  PipeInv'
<1> USE DEF PipeInv, prodVars, queueVars, sanVars, hardVars
<1>1. /\ UNCHANGED <<input, main, searchVars, agent, found, prod, parseErr, san, sanErr, sanGot, hard, hardGot, err>>
      /\ Up /\ disp # "off" /\ disp' # "off"
  BY DEF DispatcherNext, Deliver, DispatcherStep, SendSanitize, SendHarden, NextSolution, DispatcherReturns
<1>2. FoundInv' /\ main \notin Searching
  BY <1>1, FoundStays DEF FoundInv
<1>3. PipeIdle'
  BY <1>1, <1>2 DEF PipeIdle
<1>4. ErrInv'
  BY <1>1 DEF ErrInv, ErrRaceNeedsFailure, Returned
<1>5. CASE Deliver
  <2>1. Dispatched'
    BY <1>1, <1>5, DeliverInv
  <2>2. produced' \in 0..Len(found')
    BY <1>1, <1>5 DEF Deliver, PipeTypes
  <2>3. PipeTypes'
    BY <1>1, <1>5, <2>2 DEF Deliver, PipeTypes
  <2>4. Returning'
    BY <1>1, <1>5 DEF Deliver, Returning, Up
  <2> QED
    BY <1>2, <1>3, <1>4, <2>1, <2>3, <2>4
<1>6. CASE SendSanitize
  <2>1. /\ Dispatched' /\ sanQ' \in Seq(RequestIds) /\ Len(sanQ') <= Cap
        /\ disp' \in {"sanitize", "receive", "harden"} /\ nth' \in Nat
    BY <1>1, <1>6, SendSanitizeInv
  <2>2. UNCHANGED <<produced, sanClosed, hardQ, hardClosed>> /\ disp = "sanitize"
    BY <1>6 DEF SendSanitize
  <2>3. PipeTypes'
    BY <1>1, <2>1, <2>2 DEF PipeTypes
  <2>4. Returning'
    BY <1>1, <2>1, <2>2 DEF Returning, Up
  <2> QED
    BY <1>2, <1>3, <1>4, <2>1, <2>3, <2>4
<1>7. CASE SendHarden
  <2>1. /\ Dispatched' /\ hardQ' \in Seq(RequestIds) /\ Len(hardQ') <= Cap
        /\ disp' \in {"sanitize", "receive"} /\ nth' \in Nat
    BY <1>1, <1>7, SendHardenInv
  <2>2. UNCHANGED <<produced, sanQ, sanClosed, hardClosed>> /\ disp = "harden"
    BY <1>7 DEF SendHarden
  <2>3. PipeTypes'
    BY <1>1, <2>1, <2>2 DEF PipeTypes
  <2>4. Returning'
    BY <1>1, <2>1, <2>2 DEF Returning, Up
  <2> QED
    BY <1>2, <1>3, <1>4, <2>1, <2>3, <2>4
<1>8. CASE DispatcherReturns
  <2>1. /\ UNCHANGED <<produced, nth, sanQ, hardQ>> /\ disp = "receive" /\ disp' = "returned"
        /\ prod \notin {"off", "produce"} /\ sanClosed' = TRUE /\ hardClosed' = TRUE
    BY <1>8 DEF DispatcherReturns, ClosesHardening
  <2>2. PipeTypes'
    BY <1>1, <2>1 DEF PipeTypes
  <2>3. Dispatched'
    <3>1. ToSanitizer' = ToSanitizer /\ ToHardener' = ToHardener
      BY <1>1, <2>1 DEF ToSanitizer, ToHardener
    <3>2. Sent' = Sent
      BY <1>1, <2>1 DEF Sent, Requests
    <3> QED
      BY <1>1, <2>1, <3>1, <3>2 DEF Dispatched
  <2>4. Returning'
    BY <1>1, <2>1 DEF Returning, Up
  <2> QED
    BY <1>2, <1>3, <1>4, <2>2, <2>3, <2>4
<1> QED
  BY <1>5, <1>6, <1>7, <1>8 DEF DispatcherNext, DispatcherStep

\* The hardener takes from the head of its queue.
LEMMA HardenerInv ==
  ASSUME PipeInv, HardenerNext
  PROVE  PipeInv'
<1> USE DEF PipeInv, prodVars, dispVars, sanVars, queueVars
<1>1. /\ UNCHANGED <<input, main, agent, searchVars, found, prod, parseErr, produced, disp, nth, san, sanErr, sanGot,
                     err, sanQ, sanClosed, hardClosed>>
      /\ hard \in {"receive", "act"} /\ hard' \in {"receive", "act", "returned"}
      /\ \/ UNCHANGED <<hardQ, hardGot>>
         \/ hardQ # <<>> /\ hardQ' = Tail(hardQ) /\ hardGot' = Append(hardGot, Head(hardQ))
  BY DEF HardenerNext, HardenerStep, HardenerTakes, HardenerActs, AfterHarden
<1>2. /\ hardQ' \in Seq(RequestIds) /\ hardGot' \in Seq(RequestIds) /\ Len(hardQ') <= Cap
      /\ ToSanitizer' = ToSanitizer /\ ToHardener' = ToHardener
  <2>1. hardQ \in Seq(RequestIds) /\ hardGot \in Seq(RequestIds) /\ Len(hardQ) <= Cap /\ Cap \in Nat
    BY AgentAssumption DEF PipeTypes
  <2>2. CASE hardQ # <<>> /\ hardQ' = Tail(hardQ) /\ hardGot' = Append(hardGot, Head(hardQ))
    <3>1. /\ Append(hardGot, Head(hardQ)) \in Seq(RequestIds) /\ Tail(hardQ) \in Seq(RequestIds)
          /\ Len(Tail(hardQ)) < Len(hardQ)
          /\ Append(hardGot, Head(hardQ)) \o Tail(hardQ) = hardGot \o hardQ
      BY <2>1, <2>2, TakeHead
    <3>2. Len(Tail(hardQ)) <= Cap
      BY <2>1, <3>1
    <3> QED
      BY <1>1, <2>2, <3>1, <3>2 DEF ToSanitizer, ToHardener
  <2>3. CASE UNCHANGED <<hardQ, hardGot>>
    BY <1>1, <2>1, <2>3 DEF ToSanitizer, ToHardener
  <2> QED
    BY <1>1, <2>2, <2>3
<1>3. PipeTypes'
  BY <1>1, <1>2 DEF PipeTypes
<1>4. PipeIdle' /\ Returning'
  BY <1>1 DEF PipeIdle, Returning
<1>5. Dispatched'
  BY <1>1, <1>2, DispatchedStays
<1>6. ErrInv'
  BY <1>1 DEF ErrInv, ErrRaceNeedsFailure, Returned
<1>7. FoundInv'
  BY <1>1, FoundStays DEF FoundInv
<1> QED
  BY <1>3, <1>4, <1>5, <1>6, <1>7

-----------------------------------------------------------------------------
(* The theorems. *)

\* Every step leaves the pipeline right.
LEMMA PipeInvStep ==
  ASSUME SearchInv, PipeInv, Next
  PROVE  PipeInv'
<1>1. CASE HttpNext
  BY <1>1, QuietPipe DEF HttpNext, HttpReturns, searchVars, consumerVars
<1> QED
  BY <1>1, MainPipeInv, SearchPipeInv, ProducerInv, DispatcherInv, SanitizerInv, HardenerInv DEF Next, Goroutines

\* The inductive invariant of the agent: the rounds of the search, what has been
\* found and what has been sent (cmd/aioagent/main.go).
THEOREM AgentInvariant == Spec => []AgentInv
<1>1. Init => AgentInv
  BY SearchInvInit, PipeInvInit DEF Init, AgentInv
<1>2. AgentInv /\ [Next]_vars => AgentInv'
  <2> SUFFICES ASSUME AgentInv, [Next]_vars
               PROVE  AgentInv'
    OBVIOUS
  <2>1. CASE Next
    BY <2>1, SearchInvStep, PipeInvStep DEF AgentInv
  <2>2. CASE UNCHANGED vars
    <3>1. UNCHANGED <<startVars, searchVars, pipeVars>>
      BY <2>2 DEF vars
    <3>2. SearchInv'
      BY <3>1, SearchStays DEF AgentInv, startVars, Up, SearchInv, SearchTypes, StartTypeOK
    <3>3. PipeInv'
      BY <3>1, QuietPipe DEF AgentInv, startVars, searchVars, consumerVars
    <3> QED
      BY <3>2, <3>3 DEF AgentInv
  <2> QED
    BY <2>1, <2>2
<1> QED
  BY <1>1, <1>2, PTL DEF Spec

\* Every variable of the agent has its type.
THEOREM AgentTypes == Spec => []AgentTypeOK
<1>1. AgentInv => AgentTypeOK
  BY DEF AgentInv, SearchInv, SearchTypes, PipeInv, PipeTypes, AgentTypeOK
<1> QED
  BY <1>1, AgentInvariant, PTL

\* No searcher sends on a closed channel and no channel is closed twice, whichever
\* searchers ran (main.go:230-235, filesearcher.go:13).
THEOREM ChannelsCloseOnce == Spec => []ClosesOnce
<1>1. AgentInv => ClosesOnce
  BY DEF AgentInv, SearchInv, Closing, Rounds, ClosesOnce, ClosesOld
<1> QED
  BY <1>1, AgentInvariant, PTL

\* The search ends with every local file below actionPath and no other, each once,
\* for every volume, but for what the walk may not list and for the boosted search's
\* two faults in comparing paths (main.go:40, 164-178,
\* filesearcher_booster_windows.go:161).
THEOREM SearchFindsExactly == Spec => []ListIsExact
<1>1. AgentInv => ListIsExact
  BY SearchIsExact DEF AgentInv, ListIsExact, ToBeScanned, MayMissAll, MayTakeBeside
<1> QED
  BY <1>1, AgentInvariant, PTL

\* Every solution of every detection is sent once, in order, and to both queues
\* alike, for every capacity of theirs (main.go:303-336).
THEOREM QueuesAlwaysAgree == Spec => []QueuesAgree
<1>1. AgentInv => QueuesAgree
  <2> SUFFICES ASSUME Dispatched
               PROVE  QueuesAgree
    BY DEF AgentInv, PipeInv
  <2>1. disp = "receive" => Range(ToSanitizer) = Requests(produced)
    BY DEF Dispatched, Sent
  <2> QED
    BY <2>1 DEF Dispatched, QueuesAgree
<1> QED
  BY <1>1, AgentInvariant, PTL

-----------------------------------------------------------------------------
(* The stream of requests. *)

\* Until the dispatcher starts nothing is detected, a list that failed has no
\* producer any more, and the queues are closed together.
StreamInv ==
  /\ disp = "off" => found = <<>>
  /\ prod \in {"off", "produce"} => ~parseErr
  /\ sanClosed <=> hardClosed

\* Every step keeps this.
LEMMA StreamInvStep ==
  ASSUME AgentInv, StreamInv, [Next]_vars
  PROVE  StreamInv'
<1> USE DEF StreamInv, AgentInv, PipeInv, prodVars, dispVars, queueVars, sanVars, hardVars, pipeVars
<1>1. CASE MainNext
  <2>1. CASE HandOver
    BY <2>1 DEF HandOver
  <2>2. CASE StartProducer
    BY <2>2 DEF StartProducer, PipeIdle
  <2>3. CASE UNCHANGED pipeVars
    BY <2>3
  <2> QED
    BY <1>1, <2>1, <2>2, <2>3 DEF MainNext, ReportLoading, MainReturns
<1>2. CASE ProducerNext
  BY <1>2 DEF ProducerNext, ProducerStep, ProducerReturns, ProducerAssigns, ProducerChecks, ProducerReports
<1>3. CASE DispatcherNext
  BY <1>3 DEF DispatcherNext, Deliver, DispatcherStep, SendSanitize, SendHarden, NextSolution, DispatcherReturns,
     ClosesHardening
<1>4. CASE SanitizerNext \/ HelperNext
  BY <1>4 DEF SanitizerNext, HelperNext, SanitizerStep, SanitizerFails, SanitizerConnects, SanitizerTakes,
     SanitizerAssigns, SanitizerChecks, SanitizerReports, HelperAnswers
<1>5. CASE HardenerNext
  BY <1>5 DEF HardenerNext, HardenerStep, HardenerTakes, HardenerActs
<1>6. CASE SearchNext \/ HttpNext \/ UNCHANGED vars
  BY <1>6 DEF SearchNext, HttpNext, vars
<1> QED
  BY <1>1, <1>2, <1>3, <1>4, <1>5, <1>6 DEF Next, Goroutines

\* The stream depends on nothing but these.
LEMMA StreamStays ==
  ASSUME UNCHANGED <<input, found, parseErr, queueVars, sanGot, hardGot>>, parseErr => produced' = produced
  PROVE  UNCHANGED Stream!stream
<1>1. Wanted' = Wanted
  BY DEF Wanted, Requests, ToSanitizer, queueVars
<1> QED
  BY <1>1 DEF Stream!stream, Stream!sanitizer, Stream!hardener, queueVars

\* What is wanted stays so where nothing is detected, given up or sent.
LEMMA WantedStays ==
  ASSUME UNCHANGED <<found, parseErr, produced>>, ToSanitizer' = ToSanitizer
  PROVE  Wanted' = Wanted
  BY DEF Wanted, Requests

\* The detections are handed over at once, before anything is sent.
LEMMA HandOverStream ==
  ASSUME AgentInv, StreamInv, MainNext, HandOver, UNCHANGED input
  PROVE  Stream!Detect
<1> USE DEF AgentInv, PipeInv
<1>1. main \in Searching
  BY DEF HandOver, Searching
<1>2. /\ sanQ = <<>> /\ sanGot = <<>> /\ ~sanClosed /\ ~parseErr /\ found = <<>> /\ produced = 0
  BY <1>1 DEF PipeIdle, StreamInv
<1>3. Wanted = {}
  BY <1>2 DEF Wanted, Requests
<1>4. UNCHANGED <<input, parseErr, produced, queueVars, sanGot, hardGot>>
  BY DEF HandOver
<1>5. Wanted' \in SUBSET (Nat \X Nat)
  <2>1. PipeTypes'
    BY PipeInvStep DEF Next, Goroutines
  <2>2. (IF parseErr THEN produced ELSE Len(found))' \in Nat
    BY <2>1 DEF PipeTypes
  <2> QED
    BY <2>2 DEF Wanted, Requests
<1> QED
  BY <1>2, <1>3, <1>4, <1>5 DEF Stream!Detect, Stream!SentOn, Stream!sanitizer, Stream!hardener, queueVars

\* A request names a detection and one of its solutions.
LEMMA RequestsAre ==
  ASSUME NEW n \in Nat, NEW y
  PROVE  y \in Requests(n) <=> \E i \in 1..n : \E k \in 1..Matches[found[i].rule] : y = <<i, k>>
  BY DEF Requests

\* The next request is wanted, and all others that are come after it.
LEMMA ItemIsLeast ==
  ASSUME AgentInv, disp = "sanitize"
  PROVE  Item \in Wanted /\ \A y \in Wanted \ {Item} : Before(Item, y)
<1> DEFINE n == IF parseErr THEN produced ELSE Len(found)
<1>1. /\ produced \in 1..n /\ n \in Nat /\ produced - 1 \in Nat /\ produced \in Nat
      /\ nth \in 1..Current /\ nth \in Nat /\ Current = Matches[found[produced].rule]
  BY DEF AgentInv, PipeInv, PipeTypes, Dispatched, Current
<1>2. Wanted = Requests(n) \ (Requests(produced - 1) \cup ({produced} \X (1..(nth - 1))))
  BY DEF AgentInv, PipeInv, Dispatched, Sent, Wanted
<1> HIDE DEF n
<1>3. Item \in Wanted
  <2>1. Item \in Requests(n)
    BY <1>1, RequestsAre DEF Item
  <2>2. Item \notin Requests(produced - 1)
    <3>1. \A i \in 1..(produced - 1) : i # produced
      BY <1>1
    <3> QED BY <1>1, <3>1, RequestsAre DEF Item
  <2>3. Item \notin {produced} \X (1..(nth - 1))
    BY <1>1 DEF Item
  <2> QED BY <1>2, <2>1, <2>2, <2>3
<1>4. ASSUME NEW y \in Wanted \ {Item} PROVE Before(Item, y)
  <2>0. PICK i \in 1..n : \E k \in 1..Matches[found[i].rule] : y = <<i, k>>
    BY <1>1, <1>2, RequestsAre
  <2>1. PICK k \in 1..Matches[found[i].rule] : y = <<i, k>>
    BY <2>0
  <2>2. ~(i < produced)
    <3>1. y \notin Requests(produced - 1)
      BY <1>2
    <3>2. i < produced => i \in 1..(produced - 1)
      BY <1>1
    <3> QED BY <1>1, <2>1, <3>1, <3>2, RequestsAre
  <2>3. i = produced => k > nth
    <3>1. i = produced => k \notin 1..(nth - 1)
      BY <1>2, <2>1
    <3>2. i = produced => k # nth
      BY <2>1 DEF Item
    <3>3. i = produced => k \in 1..Current
      BY <1>1
    <3> QED BY <1>1, <3>1, <3>2, <3>3
  <2>4. i = produced \/ i > produced
    BY <1>1, <2>2
  <2> QED BY <2>1, <2>3, <2>4 DEF Before, Item
<1> QED BY <1>3, <1>4

\* The dispatcher sends the sanitizer what comes next.
LEMMA SendSanitizeStream ==
  ASSUME AgentInv, StreamInv, DispatcherNext, SendSanitize
  PROVE  Stream!SendNext
<1> USE DEF AgentInv, PipeInv
<1>1. /\ disp = "sanitize" /\ Len(sanQ) < Cap /\ sanQ' = Append(sanQ, Item)
      /\ UNCHANGED <<input, found, parseErr, produced, sanGot, sanClosed, hardQ, hardGot, hardClosed>>
  BY DEF DispatcherNext, DispatcherStep, Deliver, SendSanitize, SendHarden, DispatcherReturns, Room, prodVars,
     sanVars, hardVars
<1>2. ~sanClosed /\ (input.hardening => ToHardener = ToSanitizer)
  BY <1>1 DEF Returning, Dispatched
<1>3. Item \in RequestIds /\ ToSanitizer' = Append(ToSanitizer, Item) /\ ToSanitizer \in Seq(RequestIds)
  <2>1. Item \in RequestIds
    BY <1>1 DEF Dispatched, PipeTypes, Item, RequestIds
  <2> QED BY <1>1, <2>1, SendBehind, ConcatProperties DEF ToSanitizer, PipeTypes
<1>4. Wanted' = Wanted \ {Item}
  <2>1. Range(Append(ToSanitizer, Item)) = Range(ToSanitizer) \cup {Item}
    BY <1>3, AppendNew
  <2>2. (IF parseErr THEN produced ELSE Len(found))' = (IF parseErr THEN produced ELSE Len(found))
    BY <1>1
  <2> QED BY <1>1, <1>3, <2>1, <2>2 DEF Wanted, Requests
<1> QED BY <1>1, <1>2, <1>4, ItemIsLeast
        DEF Stream!SendNext, Stream!Behind, Stream!SentOn, Stream!hardener, ToSanitizer, ToHardener

\* And then the hardener the same.
LEMMA SendHardenStream ==
  ASSUME AgentInv, StreamInv, DispatcherNext, SendHarden
  PROVE  Stream!SendSame
<1> USE DEF AgentInv, PipeInv
<1>1. /\ disp = "harden" /\ Len(hardQ) < Cap /\ hardQ' = Append(hardQ, Item)
      /\ UNCHANGED <<input, found, parseErr, produced, sanQ, sanGot, sanClosed, hardGot, hardClosed>>
  BY DEF DispatcherNext, DispatcherStep, Deliver, SendSanitize, SendHarden, DispatcherReturns, Room, prodVars,
     sanVars, hardVars
<1>2. ~hardClosed /\ input.hardening /\ ToSanitizer = Append(ToHardener, Item)
  BY <1>1 DEF Returning, Dispatched, StreamInv
<1>3. /\ ToHardener \in Seq(RequestIds) /\ Item \in RequestIds
      /\ ToSanitizer # ToHardener /\ ToSanitizer[Len(ToSanitizer)] = Item
  <2>1. ToHardener \in Seq(RequestIds) /\ Item \in RequestIds
    BY <1>1, ConcatProperties DEF ToHardener, Dispatched, PipeTypes, Item, RequestIds
  <2>2. Len(ToSanitizer) = Len(ToHardener) + 1 /\ Len(ToHardener) \in Nat
        /\ ToSanitizer[Len(ToHardener) + 1] = Item
    BY <1>2, <2>1, AppendProperties
  <2>3. Len(ToSanitizer) # Len(ToHardener)
    BY <2>2
  <2> QED BY <2>1, <2>2, <2>3
<1>4. Wanted' = Wanted
  BY <1>1, WantedStays DEF ToSanitizer
<1> QED BY <1>1, <1>2, <1>3, <1>4
        DEF Stream!SendSame, Stream!Behind, Stream!SentOn, Stream!sanitizer, ToSanitizer, ToHardener

\* The queues are closed when all is sent that is wanted.
LEMMA CloseStream ==
  ASSUME AgentInv, StreamInv, DispatcherNext, DispatcherReturns
  PROVE  Stream!Close
<1> USE DEF AgentInv, PipeInv
<1>1. /\ disp = "receive" /\ prod \notin {"off", "produce"} /\ sanClosed' = TRUE /\ hardClosed' = TRUE
      /\ UNCHANGED <<input, found, parseErr, produced, sanQ, sanGot, hardQ, hardGot>>
  BY DEF DispatcherNext, DispatcherStep, Deliver, SendSanitize, SendHarden, DispatcherReturns, ClosesHardening,
     prodVars, sanVars, hardVars
<1>2. ~sanClosed /\ (input.hardening => ToHardener = ToSanitizer) /\ Range(ToSanitizer) = Requests(produced)
  BY <1>1 DEF Returning, Dispatched, Sent
<1>3. ~parseErr => produced = Len(found)
  BY <1>1 DEF Returning
<1>4. Wanted = {} /\ Wanted' = Wanted
  BY <1>1, <1>2, <1>3, WantedStays DEF Wanted, ToSanitizer
<1> QED BY <1>1, <1>2, <1>4 DEF Stream!Close, Stream!Behind, Stream!SentOn, ToSanitizer, ToHardener

\* Nothing is given up but the rest of a list that cannot be read.
LEMMA ProducerStream ==
  ASSUME AgentInv, StreamInv, ProducerNext
  PROVE  Stream!Abandon \/ UNCHANGED Stream!stream
<1> USE DEF AgentInv, PipeInv, dispVars, sanVars, hardVars
<1>1. /\ UNCHANGED <<input, found, produced, queueVars, sanGot, hardGot>>
      /\ parseErr' = parseErr \/ (prod = "produce" /\ parseErr' = TRUE)
  BY DEF ProducerNext, ProducerStep, ProducerReturns, ProducerAssigns, ProducerChecks, ProducerReports, prodVars
<1>2. CASE parseErr' = parseErr
  BY <1>1, <1>2, StreamStays
<1>3. CASE prod = "produce" /\ parseErr' = TRUE
  <2>1. ~parseErr
    BY <1>3 DEF StreamInv
  <2>2. Wanted' \subseteq Wanted
    <3>1. Wanted = Requests(Len(found)) \ Range(ToSanitizer)
      BY <2>1 DEF Wanted
    <3>2. Wanted' = Requests(produced) \ Range(ToSanitizer)
      BY <1>1, <1>3 DEF Wanted, Requests, ToSanitizer, queueVars
    <3>3. Requests(produced) \subseteq Requests(Len(found))
      <4>1. 1..produced \subseteq 1..Len(found)
        BY DEF PipeTypes
      <4> QED BY <4>1 DEF Requests
    <3> QED BY <3>1, <3>2, <3>3
  <2> QED BY <1>1, <1>3, <2>1, <2>2 DEF Stream!Abandon, Stream!sanitizer, Stream!hardener, queueVars
<1> QED BY <1>1, <1>2, <1>3, Zenon

\* What is taken is the head of a queue.
LEMMA SanitizerStream ==
  ASSUME AgentInv, SanitizerNext \/ HelperNext
  PROVE  Stream!SanitizerTakes \/ UNCHANGED Stream!stream
<1> USE DEF AgentInv, PipeInv
<1>1. UNCHANGED <<input, found, parseErr, produced, sanClosed, hardQ, hardGot, hardClosed>>
  BY DEF SanitizerNext, HelperNext, SanitizerStep, SanitizerFails, SanitizerConnects, SanitizerTakes,
     SanitizerAssigns, SanitizerChecks, SanitizerReports, HelperAnswers, prodVars, dispVars, hardVars, queueVars
<1>2. CASE UNCHANGED <<sanQ, sanGot>>
  BY <1>1, <1>2, StreamStays DEF queueVars
<1>3. CASE SanitizerTakes /\ ~ UNCHANGED <<sanQ, sanGot>>
  <2>1. sanQ # <<>> /\ sanQ' = Tail(sanQ) /\ sanGot' = Append(sanGot, Head(sanQ))
    BY <1>3 DEF SanitizerTakes
  <2>2. ToSanitizer' = ToSanitizer
    <3>1. sanQ \in Seq(RequestIds) /\ sanGot \in Seq(RequestIds)
      BY DEF PipeTypes
    <3>2. Append(sanGot, Head(sanQ)) \o Tail(sanQ) = sanGot \o sanQ
      BY <2>1, <3>1, TakeHead
    <3> QED BY <2>1, <3>2 DEF ToSanitizer
  <2>3. Wanted' = Wanted
    BY <1>1, <2>2, WantedStays
  <2> QED BY <1>1, <2>1, <2>3 DEF Stream!SanitizerTakes, Stream!hardener
<1> QED
  BY <1>2, <1>3 DEF SanitizerNext, HelperNext, SanitizerStep, SanitizerFails, SanitizerConnects, SanitizerAssigns,
     SanitizerChecks, SanitizerReports, HelperAnswers, queueVars

LEMMA HardenerStream ==
  ASSUME AgentInv, HardenerNext
  PROVE  Stream!HardenerTakes \/ UNCHANGED Stream!stream
<1> USE DEF HardenerNext, HardenerStep, HardenerTakes, HardenerActs, prodVars, dispVars, sanVars, queueVars
<1>1. UNCHANGED <<input, found, parseErr, produced, sanQ, sanGot, sanClosed, hardClosed>>
  OBVIOUS
<1>2. CASE UNCHANGED <<hardQ, hardGot>>
  BY <1>1, <1>2, StreamStays
<1>3. CASE hardQ # <<>> /\ hardQ' = Tail(hardQ) /\ hardGot' = Append(hardGot, Head(hardQ))
  <2>1. Wanted' = Wanted
    BY <1>1, WantedStays DEF ToSanitizer
  <2> QED BY <1>1, <1>3, <2>1 DEF Stream!HardenerTakes, Stream!sanitizer
<1> QED BY <1>2, <1>3

\* A detection that is received was wanted before.
LEMMA DispatcherStream ==
  ASSUME AgentInv, StreamInv, DispatcherNext
  PROVE  [Stream!StreamNext]_(Stream!stream)
<1>1. CASE Deliver
  <2>1. UNCHANGED <<input, found, parseErr, queueVars, sanGot, hardGot>> /\ ~parseErr
    BY <1>1 DEF DispatcherNext, Deliver, prodVars, sanVars, hardVars, StreamInv
  <2> QED BY <2>1, StreamStays
<1> QED
  BY <1>1, SendSanitizeStream, SendHardenStream, CloseStream
  DEF DispatcherNext, DispatcherStep, Stream!StreamNext

\* Main adds to the stream only when it hands the detections over.
LEMMA MainStream ==
  ASSUME AgentInv, StreamInv, MainNext
  PROVE  Stream!Detect \/ UNCHANGED Stream!stream
<1>1. UNCHANGED input
  BY DEF MainNext, StartStep, CheckArguments, ReadDatabase, DecryptFails, GiveUp, CheckUpdate, CheckPrivileges,
     SearchMainStep, StartBoosted, SkipBoosted, JoinBoosted, FallBack, BoostedWasEnough, JoinGeneral
<1>2. CASE HandOver
  BY <1>1, <1>2, HandOverStream
<1>3. CASE ~ HandOver
  <2>1. UNCHANGED <<found, parseErr, produced, queueVars, sanGot, hardGot>>
    BY <1>3 DEF MainNext, StartProducer, ReportLoading, MainReturns, pipeVars, prodVars, dispVars, sanVars, hardVars
  <2> QED BY <1>1, <2>1, StreamStays
<1> QED BY <1>2, <1>3

\* The agent implements the stream of requests, for every cleanup database, every
\* capacity of the queues and whoever is slow: each solution of each detection goes
\* out once and in order, to both queues alike, and what a list names is given up
\* only when it cannot be read (main.go:269-336).
THEOREM AgentImplementsStream == Spec => StreamRefinement
<1>1. Init => StreamInv /\ Stream!StreamInit
  <2> SUFFICES ASSUME Init PROVE StreamInv /\ Stream!StreamInit
    OBVIOUS
  <2>1. Wanted = {}
    BY DEF Init, Wanted, Requests
  <2>2. input.hardening \in BOOLEAN
    BY StartAssumption DEF Init, StartInit
  <2> QED BY <2>1, <2>2 DEF Init, StreamInv, Stream!StreamInit
<1>2. AgentInv /\ StreamInv /\ [Next]_vars => StreamInv' /\ [Stream!StreamNext]_(Stream!stream)
  <2> SUFFICES ASSUME AgentInv, StreamInv, [Next]_vars PROVE [Stream!StreamNext]_(Stream!stream)
    BY StreamInvStep
  <2>1. CASE SearchNext \/ HttpNext \/ UNCHANGED vars
    <3>1. UNCHANGED <<input, pipeVars>>
      BY <2>1 DEF SearchNext, SearcherStep, ConsumerStep, BoostedFails, BeginSearch, Report, SearchEnds,
         BeginConsuming, Check, ConsumingEnds, HttpNext, HttpReturns, vars, startVars
    <3> QED BY <3>1, StreamStays DEF pipeVars, prodVars, dispVars, queueVars, sanVars, hardVars
  <2> QED
    BY <2>1, MainStream, ProducerStream, DispatcherStream, SanitizerStream, HardenerStream
    DEF Next, Goroutines, Stream!StreamNext
<1> QED
  BY <1>1, <1>2, AgentInvariant, PTL DEF Spec, StreamRefinement, Stream!StreamSpec

-----------------------------------------------------------------------------
(* The end of the agent. *)

\* A panic in err.Error(), or an exit with status 1, needs a result list and a
\* failure, whatever the order of the stores into err (main.go:266-271, 395-399).
THEOREM ErrRace == Spec => []ErrRaceNeedsFailure
<1>1. AgentInv => ErrRaceNeedsFailure
  BY DEF AgentInv, PipeInv, ErrInv
<1> QED
  BY <1>1, AgentInvariant, PTL

\* From end to end, for every volume, result list, cleanup database and capacity:
\* an agent that is done, and whose sanitizer and list parser did not fail, has
\* handed over every infected document below actionPath, or named by the list with
\* at least two bytes, and no other; excepted are what the walk may not list, the
\* boosted search's two faults and names of exactly two bytes (main.go:40, 156-399,
\* filesearcher_booster_windows.go:161, parse_iptlist.go:25-26).
THEOREM InfectedAlwaysSent == Spec => []InfectedAreSent
<1> DEFINE Infected(files) ==
             {[rule |-> r, path |-> f] : r \in {q \in Rules : Matches[q] > 0}, f \in files}
               \cap UNION {{[rule |-> r, path |-> f] : r \in Range(input.rules[f])} : f \in files}
           Named == {[rule |-> input.lines[i].rule, path |-> i] :
                       i \in {j \in DOMAIN input.lines : /\ input.lines[j].rule \in Rules
                                                         /\ Matches[input.lines[j].rule] > 0
                                                         /\ input.lines[j].length >= 2}}
           Least == ToBeScanned \ (IF fallback THEN input.denied ELSE {})
           Most == ToBeScanned \cup (IF MayTakeBeside THEN input.beside \cap input.local ELSE {})
           sent == {found[x[1]] : x \in Range(sanGot)}
<1>1. AgentInv => InfectedAreSent
  <2> SUFFICES ASSUME AgentInv, agent = "done", ~sanErr, ~parseErr
               PROVE  IF input.noDiskScan
                      THEN /\ sent \subseteq Named
                           /\ \A d \in Named \ sent : input.lines[d.path].length = 2
                      ELSE /\ ~MayMissAll => Infected(Least) \subseteq sent
                           /\ sent \subseteq Infected(Most)
    BY DEF InfectedAreSent
  <2> USE DEF AgentInv, PipeInv
  <2>1. /\ prod = "returned" /\ disp = "returned" /\ san = "returned" /\ sanQ = <<>>
        /\ produced = Len(found) /\ Len(found) \in Nat
    BY DEF Returning, PipeTypes
  <2>2. Range(sanGot) = Requests(Len(found))
    <3>1. sanGot \in Seq(RequestIds) /\ sanGot \o <<>> = sanGot
      BY DEF PipeTypes
    <3> QED
      BY <2>1, <3>1 DEF Dispatched, Sent, ToSanitizer
  <2>3. /\ DOMAIN found = 1..Len(found)
        /\ \A i \in 1..Len(found) : found[i] \in Detections /\ found[i].rule \in Rules /\ Matches[found[i].rule] \in Nat
    <3>1. found \in Seq(Detections)
      BY DEF PipeTypes
    <3>2. \A i \in 1..Len(found) : found[i] \in Detections
      BY <3>1, ElementOfSeq
    <3> QED
      BY <3>1, <3>2, AgentAssumption DEF Detections
  <2>4. sent = {d \in Range(found) : Matches[d.rule] > 0}
    <3>1. ASSUME NEW d \in sent
          PROVE  d \in Range(found) /\ Matches[d.rule] > 0
      <4>1. PICK x \in Requests(Len(found)) : d = found[x[1]]
        BY <2>2
      <4>2. PICK i \in 1..Len(found) : x \in {i} \X (1..Matches[found[i].rule])
        BY DEF Requests
      <4>3. x[1] = i /\ Matches[found[i].rule] > 0
        BY <2>3, <4>2
      <4> QED
        BY <2>3, <4>1, <4>3 DEF Range
    <3>2. ASSUME NEW d \in Range(found), Matches[d.rule] > 0
          PROVE  d \in sent
      <4>1. PICK i \in 1..Len(found) : d = found[i]
        BY <2>3 DEF Range
      <4>2. <<i, 1>> \in {i} \X (1..Matches[found[i].rule])
        BY <2>3, <3>2, <4>1
      <4>3. <<i, 1>> \in Requests(Len(found))
        BY <4>2 DEF Requests
      <4>4. <<i, 1>> \in Range(sanGot) /\ <<i, 1>>[1] = i
        BY <2>2, <4>3
      <4> QED
        BY <4>1, <4>4
    <3> HIDE DEF sent
    <3> QED
      BY <3>1, <3>2
  <2> HIDE DEF sent
  <2>5. /\ input \in Inputs /\ main \notin Searching
        /\ found = IF input.noDiskScan THEN Parsed(input.lines) ELSE Scanned(list)
    BY <2>1 DEF SearchInv, SearchTypes, FoundInv
  <2>6. CASE input.noDiskScan
    <3>1. input.lines \in Seq([rule : Rules \cup {None}, length : Nat])
      BY <2>5, AgentAssumption
    <3>2. Range(found) = {[rule |-> input.lines[i].rule, path |-> i] :
                            i \in {j \in DOMAIN input.lines : KeepsLine(input.lines[j])}}
      BY <2>5, <2>6, <3>1, ParsedProperties
    <3>3. ASSUME NEW j \in DOMAIN input.lines
          PROVE  /\ input.lines[j].rule \in Rules \cup {None} /\ input.lines[j].length \in Nat
                 /\ input.lines[j].length >= 3 => input.lines[j].length >= 2
                 /\ input.lines[j].length >= 2 => input.lines[j].length >= 3 \/ input.lines[j].length = 2
      <4>1. DOMAIN input.lines = 1..Len(input.lines)
        BY <3>1, LenProperties
      <4>2. input.lines[j] \in [rule : Rules \cup {None}, length : Nat]
        BY <3>1, <4>1, ElementOfSeq
      <4>3. input.lines[j].length \in Nat
        BY <4>2
      <4> QED
        BY <4>2, <4>3
    <3>4. sent \subseteq Named
      BY <2>3, <2>4, <3>2, <3>3 DEF KeepsLine, Range
    <3>5. ASSUME NEW d \in Named \ sent
          PROVE  input.lines[d.path].length = 2
      <4>1. PICK j \in DOMAIN input.lines :
              /\ d = [rule |-> input.lines[j].rule, path |-> j]
              /\ input.lines[j].rule \in Rules /\ Matches[input.lines[j].rule] > 0
              /\ input.lines[j].length >= 2
        OBVIOUS
      <4>2. ~ KeepsLine(input.lines[j])
        BY <2>4, <3>2, <4>1
      <4> QED
        BY <3>3, <4>1, <4>2, AgentAssumption DEF KeepsLine
    <3> QED
      BY <2>6, <3>4, <3>5
  <2>7. CASE ~input.noDiskScan
    <3>1. list \in Seq(Files)
      BY DEF SearchInv, SearchTypes, SearchTypeOK
    <3>2. Range(found) = UNION {{[rule |-> r, path |-> f] : r \in Range(input.rules[f])} : f \in Range(list)}
      BY <2>5, <2>7, <3>1, ScannedProperties
    <3>3. Range(list) = input.local \cap (IF fallback THEN input.under \ input.denied
                                      ELSE IF input.exactCase THEN input.under \cup input.beside
                                      ELSE {})
      BY <2>1, <2>7 DEF FoundInv
    <3>4. sent = Infected(Range(list))
      <4>1. ASSUME NEW d \in sent
            PROVE  d \in Infected(Range(list))
        <5>1. d \in Range(found) /\ Matches[d.rule] > 0 /\ d.rule \in Rules
          BY <2>3, <2>4 DEF Range
        <5>2. PICK f \in Range(list) : d \in {[rule |-> r, path |-> f] : r \in Range(input.rules[f])}
          BY <3>2, <5>1
        <5>3. PICK r \in Range(input.rules[f]) : d = [rule |-> r, path |-> f]
          BY <5>2
        <5>4. r \in {q \in Rules : Matches[q] > 0}
          BY <5>1, <5>3
        <5>5. d \in {[rule |-> q, path |-> g] : q \in {q \in Rules : Matches[q] > 0}, g \in Range(list)}
          BY <5>3, <5>4
        <5> QED
          BY <3>2, <5>1, <5>5
      <4>2. ASSUME NEW d \in Infected(Range(list))
            PROVE  d \in sent
        <5>1. d \in Range(found)
          BY <3>2
        <5>2. Matches[d.rule] > 0
          OBVIOUS
        <5> QED
          BY <2>4, <5>1, <5>2
      <4> QED
        BY <4>1, <4>2
    <3>5. ASSUME NEW A, NEW B, A \subseteq B
          PROVE  Infected(A) \subseteq Infected(B)
      BY <3>5
    <3>6. Range(list) \subseteq Most
      BY <3>3 DEF ToBeScanned, MayTakeBeside
    <3>7. ~MayMissAll => Least \subseteq Range(list)
      BY <3>3 DEF ToBeScanned, MayMissAll
    <3> HIDE DEF Infected, Least, Most
    <3> QED
      BY <2>7, <3>4, <3>5, <3>6, <3>7
  <2> QED
    BY <2>6, <2>7
<1> QED
  BY <1>1, AgentInvariant, PTL
==============================================================================
