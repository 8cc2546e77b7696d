---------------------------- MODULE RequestStream ----------------------------
(***************************************************************************)
(* What the agent promises between detecting and acting: the solutions of  *)
(* what was detected are one stream of requests, which the sanitizer and,  *)
(* when it is enabled, the hardener are handed, each request once and in   *)
(* order, the hardener at most one request behind; the stream ends with    *)
(* its last request, or where the list that was being read failed.         *)
(*                                                                         *)
(* Agent is shown to implement this: who produces and who dispatches, and  *)
(* what becomes of a request that was taken, is not in it.                 *)
(***************************************************************************)
EXTENDS Naturals, Sequences

CONSTANTS
  RequestIds,       \* all requests
  Before(_, _),     \* their order
  Cap               \* the capacity of both queues

VARIABLES
  wanted,           \* the requests that are to be sent yet
  failed,           \* reading the list has failed
  hardening,        \* the hardener is enabled
  sanQ, sanGot,     \* what the sanitizer is being sent and has taken
  sanClosed,
  hardQ, hardGot,   \* the same of the hardener
  hardClosed

sanitizer == <<sanQ, sanGot, sanClosed>>
hardener == <<hardQ, hardGot, hardClosed>>
stream == <<wanted, failed, hardening, sanitizer, hardener>>

SentOn(got, q) == got \o q          \* all that was ever sent on a queue
Behind == hardening /\ SentOn(hardGot, hardQ) # SentOn(sanGot, sanQ)

StreamInit ==
  /\ wanted = {} /\ failed = FALSE /\ hardening \in BOOLEAN
  /\ sanQ = <<>> /\ sanGot = <<>> /\ sanClosed = FALSE
  /\ hardQ = <<>> /\ hardGot = <<>> /\ hardClosed = FALSE

\* The search, or the list, determines all there is to send.
Detect ==
  /\ wanted = {} /\ SentOn(sanGot, sanQ) = <<>> /\ ~sanClosed
  /\ wanted' \in SUBSET RequestIds
  /\ UNCHANGED <<failed, hardening, sanitizer, hardener>>

\* The rest of a list that cannot be read is not sent.
Abandon ==
  /\ ~failed /\ failed' = TRUE
  /\ wanted' \subseteq wanted
  /\ UNCHANGED <<hardening, sanitizer, hardener>>

SendNext ==
  /\ ~Behind /\ ~sanClosed /\ Len(sanQ) < Cap
  /\ \E x \in wanted :
       /\ \A y \in wanted \ {x} : Before(x, y)
       /\ wanted' = wanted \ {x} /\ sanQ' = Append(sanQ, x)
  /\ UNCHANGED <<failed, hardening, sanGot, sanClosed, hardener>>

\* The hardener is sent what the sanitizer was sent last.
SendSame ==
  /\ Behind /\ ~hardClosed /\ Len(hardQ) < Cap
  /\ LET sent == SentOn(sanGot, sanQ)
         last == sent[Len(sent)]
     IN sent = Append(SentOn(hardGot, hardQ), last) /\ hardQ' = Append(hardQ, last)
  /\ UNCHANGED <<wanted, failed, hardening, sanitizer, hardGot, hardClosed>>

Close ==
  /\ wanted = {} /\ ~Behind /\ ~sanClosed
  /\ sanClosed' = TRUE /\ hardClosed' = TRUE
  /\ UNCHANGED <<wanted, failed, hardening, sanQ, sanGot, hardQ, hardGot>>

SanitizerTakes ==
  /\ sanQ # <<>> /\ sanGot' = Append(sanGot, Head(sanQ)) /\ sanQ' = Tail(sanQ)
  /\ UNCHANGED <<wanted, failed, hardening, sanClosed, hardener>>

HardenerTakes ==
  /\ hardQ # <<>> /\ hardGot' = Append(hardGot, Head(hardQ)) /\ hardQ' = Tail(hardQ)
  /\ UNCHANGED <<wanted, failed, hardening, sanitizer, hardClosed>>

StreamNext ==
  Detect \/ Abandon \/ SendNext \/ SendSame \/ Close \/ SanitizerTakes \/ HardenerTakes

StreamSpec == StreamInit /\ [][StreamNext]_stream
==============================================================================
