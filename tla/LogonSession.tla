----------------------------- MODULE LogonSession -----------------------------
(***************************************************************************)
(* For whom a program that runs as SYSTEM acts (token_dgd_windows.go):     *)
(* StartSanitizer, once, when it starts the helper, and the hardener, for  *)
(* every measure, ask which logged-on session is to be served and take its *)
(* user's token.  They are two goroutines, and people log on, disconnect,  *)
(* come back and log off while they ask.                                   *)
(*                                                                         *)
(* Abstracted: a session's user, who has this session and no other, is the *)
(* session itself; the errors of the privileges are only logged.           *)
(***************************************************************************)
EXTENDS Naturals, Sequences, FiniteSets, SequencesExt

CONSTANTS
  Sessions,     \* the session ids
  None,         \* no session
  Special,      \* those of them the loop skips: 0 and everything above 65530
  MaxMeasures,  \* bound: how many measures the hardener takes
  MaxChanges    \* bound: how often a session changes its state

ASSUME SessionAssumption ==
  /\ IsFiniteSet(Sessions) /\ Special \subseteq Sessions /\ None \notin Sessions
  /\ MaxMeasures \in Nat /\ MaxChanges \in Nat

Callers == {"sanitizer", "hardener"}

\* "empty" is disconnected as well, but nobody is logged on there.
States == {"gone", "connected", "empty", "active", "disconnected"}
LoggedOn == {"active", "disconnected"}
Disconnected == {"empty", "disconnected"}

VARIABLES
  order,        \* the order in which Windows lists the sessions
  state,        \* state[s]: the state of session s
  at,           \* at[c]: where GetLoggedInUserToken is for caller c
  todo,         \* todo[c]: the listed sessions c has not looked at, as listed
  selected,     \* selected[c]: selectedSessionID, or None
  asked,        \* asked[c]: how often c has asked
  served,       \* served[c]: the users c has acted for
  alive,        \* the agent runs
  changes,      \* how often a session has changed
  outdated,     \* history: the callers whose list is not how things are
  disturbed     \* history: a session has changed since somebody first asked

system == <<order, state, changes>>
callVars == <<at, todo, selected, asked, served>>
vars == <<system, callVars, alive, outdated, disturbed>>

Asking == {"loop", "chosen"}

Init ==
  /\ order \in SetToSeqs(Sessions)
  /\ state \in [Sessions -> States]
  /\ \A s \in Special : state[s] \in {"connected", "empty"}
  /\ at = [c \in Callers |-> "idle"]
  /\ todo = [c \in Callers |-> <<>>]
  /\ selected = [c \in Callers |-> None]
  /\ asked = [c \in Callers |-> 0]
  /\ served = [c \in Callers |-> {}]
  /\ alive = TRUE /\ changes = 0 /\ outdated = {} /\ disturbed = FALSE

-----------------------------------------------------------------------------
Moves(c, from, to) == at[c] = from /\ at' = [at EXCEPT ![c] = to]

\* The sanitizer asks once, the hardener for every measure.
Budget(c) == IF c = "sanitizer" THEN 1 ELSE MaxMeasures

\* WTSEnumerateSessions copies the list with the states of this moment.
Listed ==
  FlattenSeq([i \in DOMAIN order |->
    IF state[order[i]] = "gone" THEN <<>> ELSE <<[id |-> order[i], state |-> state[order[i]]]>>])

Enumerate(c) ==
  /\ asked[c] < Budget(c) /\ Moves(c, "idle", "loop")
  /\ asked' = [asked EXCEPT ![c] = @ + 1]
  /\ todo' = [todo EXCEPT ![c] = Listed]
  /\ outdated' = outdated \ {c}
  /\ UNCHANGED <<system, selected, served, alive, disturbed>>

\* The caller cannot tell whether it is SYSTEM, or cannot list the sessions: the
\* hardener skips the measure, and the sanitizer returns an error, or starts the
\* helper as SYSTEM, which the helper refuses.
AskFails(c) ==
  /\ at[c] = "idle" /\ asked[c] < Budget(c)
  /\ asked' = [asked EXCEPT ![c] = @ + 1]
  /\ UNCHANGED <<system, at, todo, selected, served, alive, outdated, disturbed>>

Skips(s) == s \in Special

\* break, or on to the next.
SelectAndGoOn(c, s) == selected' = [selected EXCEPT ![c] = s] /\ todo' = [todo EXCEPT ![c] = Tail(@)]
Select(c, s) == selected' = [selected EXCEPT ![c] = s] /\ todo' = [todo EXCEPT ![c] = <<>>]
Pass(c) == todo' = [todo EXCEPT ![c] = Tail(@)] /\ UNCHANGED selected

\* An active session is taken at once.
InspectActive(c) ==
  /\ at[c] = "loop" /\ todo[c] # <<>>
  /\ LET e == Head(todo[c])
     IN ~Skips(e.id) /\ e.state = "active" /\ Select(c, e.id)
  /\ UNCHANGED <<system, at, asked, served, alive, outdated, disturbed>>

InspectOther(c) ==
  /\ at[c] = "loop" /\ todo[c] # <<>>
  /\ LET e == Head(todo[c]) IN Skips(e.id) \/ e.state = "connected"
  /\ Pass(c)
  /\ UNCHANGED <<system, at, asked, served, alive, outdated, disturbed>>

\* Does the session have a user name?  SyscallN counts its arguments itself, so the
\* 5 it is given is taken for the first of them and every other for the next: no
\* server 5 is known, and no name is ever found.
HasNameAtTimes(s) == {FALSE, state[s] \in LoggedOn}
HasName(s) == {FALSE}

\* A disconnected session would be taken for its user's name.  Or the call, whose
\* buffer is at address 5, is the end of the process.
InspectDisconnected(c) ==
  /\ at[c] = "loop" /\ todo[c] # <<>>
  /\ LET e == Head(todo[c])
     IN /\ ~Skips(e.id) /\ e.state \in Disconnected
        /\ \/ /\ \E named \in HasName(e.id) : IF named THEN Select(c, e.id) ELSE Pass(c)
              /\ UNCHANGED alive
           \/ alive' = FALSE /\ UNCHANGED <<todo, selected>>
  /\ UNCHANGED <<system, at, asked, served, outdated, disturbed>>

SessionFoundAlways(c) == TRUE
SessionFound(c) == selected[c] # None

\* Without a session the caller gets an error.
LoopEnds(c) ==
  /\ todo[c] = <<>> /\ Moves(c, "loop", IF SessionFound(c) THEN "chosen" ELSE "idle")
  /\ UNCHANGED <<system, todo, selected, asked, served, alive, outdated, disturbed>>

\* WTSQueryUserToken, which needs a user, and DuplicateTokenEx; any call may fail.
Token(c) ==
  /\ Moves(c, "chosen", "idle")
  /\ \/ /\ state[selected[c]] \in LoggedOn
        /\ served' = [served EXCEPT ![c] = @ \cup {selected[c]}]
     \/ UNCHANGED served
  /\ selected' = [selected EXCEPT ![c] = None]
  /\ UNCHANGED <<system, todo, asked, alive, outdated, disturbed>>

-----------------------------------------------------------------------------
(* What people and Windows do. *)

Becomes(st) ==
  CASE st = "gone" -> {"connected"}
    [] st = "connected" -> {"active", "empty"}
    [] st = "empty" -> {"connected"}
    [] st = "active" -> {"disconnected", "gone"}
    [] st = "disconnected" -> {"active", "gone"}

Change ==
  /\ changes < MaxChanges /\ changes' = changes + 1
  /\ \E s \in Sessions \ Special : \E st \in Becomes(state[s]) : state' = [state EXCEPT ![s] = st]
  /\ outdated' = outdated \cup {c \in Callers : at[c] \in Asking}
  /\ disturbed' = (disturbed \/ \E c \in Callers : asked[c] > 0)
  /\ UNCHANGED <<order, callVars, alive>>

CallerNext(c) ==
  \/ Enumerate(c) \/ AskFails(c) \/ InspectActive(c) \/ InspectOther(c)
  \/ InspectDisconnected(c) \/ LoopEnds(c) \/ Token(c)

Next == alive /\ (Change \/ \E c \in Callers : CallerNext(c))

Spec == Init /\ [][Next]_vars

-----------------------------------------------------------------------------
(* Properties. *)

TypeOK ==
  /\ state \in [Sessions -> States] /\ changes \in 0..MaxChanges
  /\ at \in [Callers -> {"idle"} \cup Asking]
  /\ \A c \in Callers :
       /\ todo[c] \in Seq([id : Sessions, state : States \ {"gone"}])
       /\ selected[c] \in (Sessions \ Special) \cup {None}
       /\ at[c] = "idle" => selected[c] = None
       /\ at[c] = "chosen" => selected[c] # None
       /\ served[c] \subseteq Sessions \ Special
  /\ alive \in BOOLEAN /\ outdated \subseteq Callers /\ disturbed \in BOOLEAN

\* Among the sessions of people the first active one is chosen, in the order in
\* which Windows lists them: no caller depends on how far another has come, or on
\* sessions that are not active (token_dgd_windows.go:91-133).
FirstActiveIsChosen ==
  \A c \in Callers : at[c] = "chosen" /\ c \notin outdated =>
    LET active == {i \in DOMAIN order : order[i] \notin Special /\ state[order[i]] = "active"}
    IN \E i \in active : order[i] = selected[c] /\ \A j \in active : i <= j

\* The helper works for one user and every measure hardens one user's profile.
\* These are different users only if a session has changed since the first of them
\* asked (entrypoint_windows.go:46-71, tinyActions.go:86-112).
OneUserUnlessDisturbed ==
  ~disturbed => Cardinality(UNION {served[c] : c \in Callers}) <= 1

\* Refuted: when no active session is left the first disconnected one is found, so
\* that whoever is logged on is served (token_dgd_windows.go:109-110, 134).
DisconnectedIsFound ==
  \A c \in Callers :
    at[c] = "loop" /\ todo[c] = <<>> /\ selected[c] = None /\ c \notin outdated =>
      \A s \in Sessions \ Special : state[s] \notin LoggedOn
==============================================================================
