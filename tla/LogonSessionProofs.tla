------------------------- MODULE LogonSessionProofs -------------------------
(***************************************************************************)
(* Theorems about LogonSession, for any number of sessions, measures and   *)
(* changes: types, that the first active session is chosen, and that the   *)
(* helper and every measure serve one user while no session changes.       *)
(***************************************************************************)
EXTENDS LogonSession, SetInduction, FiniteSetTheorems, SequenceTheorems

Entries == [id : Sessions, state : States \ {"gone"}]
EntryAt(ord, st, i) == [id |-> ord[i], state |-> st[ord[i]]]

\* Where in the order of Windows the sessions that count stand, and the first.
ActiveAt(ord, st) == {i \in DOMAIN ord : ord[i] \notin Special /\ st[ord[i]] = "active"}
PresentAt(ord, st, n) == {i \in 1..n : st[ord[i]] # "gone"}
IsFirst(s, ord, st) == \E i \in ActiveAt(ord, st) : ord[i] = s /\ \A j \in ActiveAt(ord, st) : i <= j

\* t lists sessions among the first n in their order; pos says which, and those of
\* W are among them.
Lists(t, pos, ord, st, n, W) ==
  /\ pos \in [1..Len(t) -> 1..n]
  /\ \A j, k \in 1..Len(t) : j < k => pos[j] < pos[k]
  /\ \A k \in 1..Len(t) : t[k] = EntryAt(ord, st, pos[k])
  /\ \A i \in W : \E k \in 1..Len(t) : pos[k] = i

\* t still has every active session, in order.
Covers(t, ord, st) == \E pos : Lists(t, pos, ord, st, Len(ord), ActiveAt(ord, st))

Types ==
  /\ order \in Seq(Sessions)
  /\ todo = [c \in Callers |-> todo[c]] /\ selected = [c \in Callers |-> selected[c]]
  /\ served = [c \in Callers |-> served[c]]
  /\ TypeOK

\* Who asks, or has acted, has asked, and leaves the loop when it has chosen.
Asked ==
  /\ asked \in [Callers -> Nat]
  /\ \A c \in Callers :
       /\ at[c] # "idle" \/ served[c] # {} => asked[c] > 0
       /\ at[c] = "loop" /\ selected[c] # None => todo[c] = <<>>

\* What the loop has chosen, or has left to look at, is still right for those whose
\* list is how things are.
Choosing ==
  \A c \in Callers :
    c \notin outdated =>
      /\ at[c] \in Asking /\ selected[c] # None => IsFirst(selected[c], order, state)
      /\ at[c] = "loop" /\ selected[c] = None => Covers(todo[c], order, state)

\* Before anything changes every list is how things are and one user is served.
Undisturbed ==
  ~disturbed => outdated = {} /\ \A c \in Callers : \A s \in served[c] : IsFirst(s, order, state)

LogonInv == Types /\ Asked /\ Choosing /\ Undisturbed

-----------------------------------------------------------------------------
(* The list of the sessions. *)

\* One more session of the order is listed behind the others, unless it is gone.
LEMMA ListsMore ==
  ASSUME NEW ord \in Seq(Sessions), NEW st \in [Sessions -> States],
         NEW n \in Nat, n + 1 \in 1..Len(ord),
         NEW t \in Seq(Entries), NEW pos, Lists(t, pos, ord, st, n, PresentAt(ord, st, n))
  PROVE  LET more == t \o (IF st[ord[n + 1]] = "gone" THEN <<>> ELSE <<EntryAt(ord, st, n + 1)>>)
         IN /\ more \in Seq(Entries)
            /\ \E p : Lists(more, p, ord, st, n + 1, PresentAt(ord, st, n + 1))
<1>1. 1..(n + 1) = (1..n) \cup {n + 1} /\ n + 1 \notin 1..n
  OBVIOUS
<1>2. ord[n + 1] \in Sessions
  BY ElementOfSeq
<1>3. CASE st[ord[n + 1]] = "gone"
  <2>1. t \o <<>> = t
    OBVIOUS
  <2>2. PresentAt(ord, st, n + 1) = PresentAt(ord, st, n)
    BY <1>1, <1>3 DEF PresentAt
  <2>3. Lists(t, pos, ord, st, n + 1, PresentAt(ord, st, n + 1))
    <3>1. pos \in [1..Len(t) -> 1..(n + 1)]
      BY <1>1 DEF Lists
    <3> QED
      BY <2>2, <3>1 DEF Lists
  <2> QED
    BY <1>3, <2>1, <2>3
<1>4. CASE st[ord[n + 1]] # "gone"
  <2> DEFINE e == EntryAt(ord, st, n + 1)
             more == t \o <<e>>
             p == [k \in 1..(Len(t) + 1) |-> IF k <= Len(t) THEN pos[k] ELSE n + 1]
  <2>1. e \in Entries
    BY <1>2, <1>4 DEF EntryAt, Entries
  <2> HIDE DEF e
  <2>2. /\ more \in Seq(Entries) /\ Len(more) = Len(t) + 1 /\ Len(t) \in Nat
        /\ \A k \in 1..Len(t) : more[k] = t[k]
        /\ more[Len(t) + 1] = e
    BY <2>1
  <2> HIDE DEF more
  <2>3. 1..(Len(t) + 1) = (1..Len(t)) \cup {Len(t) + 1} /\ ~(Len(t) + 1 <= Len(t))
    BY <2>2
  <2>4. /\ \A k \in 1..Len(t) : p[k] = pos[k] /\ pos[k] \in 1..n /\ k <= Len(t)
        /\ p[Len(t) + 1] = n + 1
    <3>1. \A k \in 1..Len(t) : pos[k] \in 1..n
      BY DEF Lists
    <3>2. \A k \in 1..Len(t) : k <= Len(t) /\ k \in 1..(Len(t) + 1)
      BY <2>2
    <3>3. Len(t) + 1 \in 1..(Len(t) + 1)
      BY <2>2
    <3> QED
      BY <2>3, <3>1, <3>2, <3>3
  <2>5. p \in [1..Len(more) -> 1..(n + 1)]
    <3>1. \A k \in 1..(Len(t) + 1) : p[k] \in 1..(n + 1)
      BY <1>1, <2>3, <2>4
    <3>2. p = [k \in 1..(Len(t) + 1) |-> p[k]]
      OBVIOUS
    <3> HIDE DEF p
    <3> QED
      BY <2>2, <3>1, <3>2
  <2> HIDE DEF p
  <2>6. ASSUME NEW j \in 1..Len(more), NEW k \in 1..Len(more), j < k
        PROVE  p[j] < p[k]
    <3>1. j \in 1..Len(t)
      BY <2>2, <2>6
    <3>2. CASE k \in 1..Len(t)
      BY <2>4, <2>6, <3>1, <3>2 DEF Lists
    <3>3. CASE k = Len(t) + 1
      BY <2>4, <3>1, <3>3
    <3> QED
      BY <2>2, <2>3, <3>2, <3>3
  <2>7. \A k \in 1..Len(more) : more[k] = EntryAt(ord, st, p[k])
    BY <2>2, <2>3, <2>4 DEF Lists, e
  <2>8. \A i \in PresentAt(ord, st, n + 1) : \E k \in 1..Len(more) : p[k] = i
    <3>1. ASSUME NEW i \in PresentAt(ord, st, n + 1)
          PROVE  \E k \in 1..Len(more) : p[k] = i
      <4>1. i \in PresentAt(ord, st, n) \/ i = n + 1
        BY <1>1 DEF PresentAt
      <4>2. CASE i \in PresentAt(ord, st, n)
        BY <2>2, <2>3, <2>4, <4>2 DEF Lists
      <4>3. CASE i = n + 1
        BY <2>2, <2>3, <2>4, <4>3
      <4> QED
        BY <4>1, <4>2, <4>3
    <3> QED
      BY <3>1
  <2>9. Lists(more, p, ord, st, n + 1, PresentAt(ord, st, n + 1))
    BY <2>5, <2>6, <2>7, <2>8 DEF Lists
  <2> QED
    BY <1>4, <2>2, <2>9 DEF more, e
<1> QED
  BY <1>3, <1>4

\* WTSEnumerateSessions lists all that are not gone, in order.
LEMMA ListedInOrder ==
  ASSUME Types
  PROVE  Listed \in Seq(Entries) /\ Covers(Listed, order, state)
<1> DEFINE Of(i) == IF state[order[i]] = "gone" THEN <<>> ELSE <<EntryAt(order, state, i)>>
           ss == [i \in DOMAIN order |-> Of(i)]
           Right(t, n) == t \in Seq(Entries) /\ \E p : Lists(t, p, order, state, n, PresentAt(order, state, n))
<1>1. order \in Seq(Sessions) /\ state \in [Sessions -> States] /\ Len(order) \in Nat /\ DOMAIN order = 1..Len(order)
  BY DEF Types, TypeOK
<1>2. Listed = FlattenSeq(ss)
  BY DEF Listed, EntryAt
<1>3. /\ \A i \in 1..Len(order) : ss[i] = Of(i)
      /\ ss = [i \in 1..Len(order) |-> ss[i]] /\ Len(ss) = Len(order)
  BY <1>1
<1> HIDE DEF Of, ss
<1>4. ASSUME NEW n \in Nat, n + 1 \in 1..Len(order), NEW t, Right(t, n)
      PROVE  Right(t \o ss[n + 1], n + 1)
  <2>1. PICK p : Lists(t, p, order, state, n, PresentAt(order, state, n))
    BY <1>4
  <2>2. ss[n + 1] = IF state[order[n + 1]] = "gone" THEN <<>> ELSE <<EntryAt(order, state, n + 1)>>
    BY <1>3, <1>4 DEF Of
  <2> QED
    BY <1>1, <1>4, <2>1, <2>2, ListsMore
<1>5. Right(<<>>, 0)
  <2>1. <<>> \in Seq(Entries) /\ Len(<<>>) = 0 /\ 1..0 = {}
    OBVIOUS
  <2>2. Lists(<<>>, <<>>, order, state, 0, PresentAt(order, state, 0))
    BY <2>1 DEF Lists, PresentAt
  <2> QED
    BY <2>1, <2>2
<1>6. Right(Listed, Len(order))
  <2>1. CASE Len(order) = 0
    <3>1. Listed = <<>>
      BY <1>2, <1>3, <2>1 DEF FlattenSeq
    <3> QED
      BY <1>5, <2>1, <3>1
  <2>2. CASE Len(order) # 0
    <3> DEFINE f == CHOOSE g : g = [i \in 1..Len(ss) |-> IF i = 1 THEN ss[i] ELSE g[i - 1] \o ss[i]]
    <3>1. Listed = f[Len(ss)]
      BY <1>2, <1>3, <2>2 DEF FlattenSeq
    <3>2. f = [i \in 1..Len(ss) |-> IF i = 1 THEN ss[i] ELSE f[i - 1] \o ss[i]]
      <4>1. \E g : g = [i \in 1..Len(ss) |-> IF i = 1 THEN ss[i] ELSE g[i - 1] \o ss[i]]
        <5>1. Len(ss) \in Nat
          BY <1>1, <1>3
        <5> QED
          BY <5>1, FlattenRecursion
      <4> QED
        BY <4>1, Zenon
    <3> HIDE DEF f, Right
    <3> DEFINE Good == {n \in Nat : n \in 1..Len(order) => Right(f[n], n)}
    <3>3. 0 \in Good
      OBVIOUS
    <3>4. ASSUME NEW n \in Nat, n \in Good
          PROVE  n + 1 \in Good
      <4>1. CASE n + 1 \notin 1..Len(order)
        BY <4>1
      <4>2. CASE n = 0 /\ 1 \in 1..Len(order)
        <5>1. f[1] = ss[1]
          BY <1>3, <3>2, <4>2
        <5>2. Right(<<>> \o ss[0 + 1], 0 + 1)
          <6>1. 0 \in Nat /\ 0 + 1 \in 1..Len(order)
            BY <4>2
          <6> QED
            BY <1>4, <1>5, <6>1, Zenon
        <5>3. <<>> \o ss[1] = ss[1]
          <6>1. ss[1] = <<>> \/ ss[1] = <<EntryAt(order, state, 1)>>
            BY <1>3, <4>2 DEF Of
          <6> QED
            BY <6>1
        <5>4. 0 + 1 = 1
          OBVIOUS
        <5> QED
          BY <4>2, <5>1, <5>2, <5>3, <5>4
      <4>3. CASE n \in 1..Len(order) /\ n + 1 \in 1..Len(order)
        <5>1. (n + 1) - 1 = n /\ n + 1 # 1
          BY <4>3
        <5>2. f[n + 1] = f[n] \o ss[n + 1]
          BY <1>3, <3>2, <4>3, <5>1
        <5>3. Right(f[n], n)
          BY <3>4, <4>3
        <5>4. Right(f[n] \o ss[n + 1], n + 1)
          BY <1>4, <4>3, <5>3, Zenon
        <5>5. Right(f[n + 1], n + 1)
          BY <5>2, <5>4, Zenon
        <5>6. n + 1 \in Nat
          OBVIOUS
        <5> QED
          BY <5>5, <5>6, Zenon
      <4> QED
        BY <4>1, <4>2, <4>3
    <3> HIDE DEF Good
    <3>5. Nat \subseteq Good
      BY <3>3, <3>4, InductiveSet
    <3> QED
      BY <1>1, <1>3, <2>2, <3>1, <3>5 DEF Good
  <2> QED
    BY <2>1, <2>2
<1>7. ActiveAt(order, state) \subseteq PresentAt(order, state, Len(order))
  BY <1>1 DEF ActiveAt, PresentAt
<1>8. PICK p : Lists(Listed, p, order, state, Len(order), PresentAt(order, state, Len(order)))
  BY <1>6
<1>9. Lists(Listed, p, order, state, Len(order), ActiveAt(order, state))
  BY <1>7, <1>8 DEF Lists
<1> QED
  BY <1>6, <1>9 DEF Covers

\* When the head of such a list is not active, the rest still covers the active
\* sessions; when it is, it is the first of them.
LEMMA HeadOfList ==
  ASSUME NEW ord \in Seq(Sessions), NEW st \in [Sessions -> States],
         NEW t \in Seq(Entries), t # <<>>, Covers(t, ord, st)
  PROVE  /\ ~(Head(t).id \notin Special /\ Head(t).state = "active") => Covers(Tail(t), ord, st)
         /\ Head(t).id \notin Special /\ Head(t).state = "active" => IsFirst(Head(t).id, ord, st)
<1>1. PICK pos : Lists(t, pos, ord, st, Len(ord), ActiveAt(ord, st))
  BY DEF Covers
<1>2. /\ Len(t) \in Nat /\ Len(t) > 0 /\ Head(t) = t[1] /\ Len(Tail(t)) = Len(t) - 1
      /\ \A k \in 1..(Len(t) - 1) : Tail(t)[k] = t[k + 1]
      /\ Len(ord) \in Nat /\ DOMAIN ord = 1..Len(ord)
  BY HeadTailProperties, LenProperties, EmptySeq
<1>3. /\ 1 \in 1..Len(t) /\ pos[1] \in 1..Len(ord) /\ \A k \in 1..Len(t) : pos[k] \in 1..Len(ord)
      /\ Head(t) = EntryAt(ord, st, pos[1])
  <2>1. 1 \in 1..Len(t)
    BY <1>2
  <2>2. \A k \in 1..Len(t) : pos[k] \in 1..Len(ord)
    BY <1>1 DEF Lists
  <2>3. t[1] = EntryAt(ord, st, pos[1])
    BY <1>1, <2>1 DEF Lists
  <2> QED
    BY <1>2, <2>1, <2>2, <2>3
<1>4. Head(t).id = ord[pos[1]] /\ Head(t).state = st[ord[pos[1]]]
  BY <1>3 DEF EntryAt
<1>5. ASSUME ~(Head(t).id \notin Special /\ Head(t).state = "active")
      PROVE  Covers(Tail(t), ord, st)
  <2> DEFINE p == [k \in 1..(Len(t) - 1) |-> pos[k + 1]]
  <2>1. \A k \in 1..(Len(t) - 1) : k + 1 \in 1..Len(t) /\ p[k] = pos[k + 1]
    BY <1>2
  <2>2. p \in [1..Len(Tail(t)) -> 1..Len(ord)]
    BY <1>2, <1>3, <2>1
  <2> HIDE DEF p
  <2>3. \A j, k \in 1..Len(Tail(t)) : j < k => p[j] < p[k]
    BY <1>1, <1>2, <2>1 DEF Lists
  <2>4. \A k \in 1..Len(Tail(t)) : Tail(t)[k] = EntryAt(ord, st, p[k])
    BY <1>1, <1>2, <2>1 DEF Lists
  <2>5. ASSUME NEW i \in ActiveAt(ord, st)
        PROVE  \E k \in 1..Len(Tail(t)) : p[k] = i
    <3>1. PICK k \in 1..Len(t) : pos[k] = i
      BY <1>1 DEF Lists
    <3>2. k # 1
      BY <1>4, <1>5, <3>1 DEF ActiveAt
    <3>3. k - 1 \in 1..(Len(t) - 1) /\ (k - 1) + 1 = k
      BY <1>2, <3>2
    <3>4. p[k - 1] = i
      BY <2>1, <3>1, <3>3
    <3> QED
      BY <1>2, <3>3, <3>4
  <2> QED
    BY <2>2, <2>3, <2>4, <2>5 DEF Lists, Covers
<1>6. ASSUME Head(t).id \notin Special, Head(t).state = "active"
      PROVE  IsFirst(Head(t).id, ord, st)
  <2>1. pos[1] \in ActiveAt(ord, st)
    BY <1>2, <1>3, <1>4, <1>6 DEF ActiveAt
  <2>2. ASSUME NEW j \in ActiveAt(ord, st)
        PROVE  pos[1] <= j
    <3>1. PICK k \in 1..Len(t) : pos[k] = j
      BY <1>1 DEF Lists
    <3>2. k = 1 \/ (1 < k /\ pos[1] < pos[k])
      BY <1>1, <1>2, <1>3, <3>1 DEF Lists
    <3> QED
      BY <1>3, <3>1, <3>2
  <2> QED
    BY <1>4, <2>1, <2>2 DEF IsFirst
<1> QED
  BY <1>5, <1>6

\* Only one session is the first.
LEMMA FirstIsOne ==
  ASSUME NEW ord \in Seq(Sessions), NEW st, NEW s, NEW r, IsFirst(s, ord, st), IsFirst(r, ord, st)
  PROVE  s = r
<1>1. PICK i \in ActiveAt(ord, st) : ord[i] = s /\ \A j \in ActiveAt(ord, st) : i <= j
  BY DEF IsFirst
<1>2. PICK k \in ActiveAt(ord, st) : ord[k] = r /\ \A j \in ActiveAt(ord, st) : k <= j
  BY DEF IsFirst
<1>3. i <= k /\ k <= i /\ i \in Nat /\ k \in Nat
  BY <1>1, <1>2 DEF ActiveAt
<1> QED
  BY <1>1, <1>2, <1>3

-----------------------------------------------------------------------------
(* The invariant. *)

\* At first nobody has asked.
LEMMA LogonInvInit == Init => LogonInv
<1> SUFFICES ASSUME Init PROVE LogonInv
  OBVIOUS
<1> USE DEF Init
<1>1. order \in Seq(Sessions)
  <2>1. Cardinality(Sessions) \in Nat
    BY SessionAssumption, FS_CardinalityType
  <2>2. order \in [1..Cardinality(Sessions) -> Sessions]
    BY DEF SetToSeqs
  <2> QED
    BY <2>1, <2>2
<1>2. TypeOK
  <2>1. <<>> \in Seq([id : Sessions, state : States \ {"gone"}])
    OBVIOUS
  <2>2. changes \in 0..MaxChanges
    BY SessionAssumption
  <2> QED
    BY <2>1, <2>2 DEF TypeOK, Asking
<1>3. Types
  BY <1>1, <1>2 DEF Types
<1> QED
  BY <1>3 DEF LogonInv, Asked, Choosing, Undisturbed, Asking

\* A caller's step says nothing of the sessions or the other caller.
LEMMA CallerStep ==
  ASSUME LogonInv, NEW c \in Callers,
         UNCHANGED <<system, disturbed>>, alive' \in BOOLEAN,
         outdated' = outdated \/ outdated' = outdated \ {c},
         /\ at' \in [Callers -> {"idle"} \cup Asking] /\ asked' \in [Callers -> Nat]
         /\ todo' = [todo EXCEPT ![c] = todo'[c]] /\ selected' = [selected EXCEPT ![c] = selected'[c]]
         /\ served' = [served EXCEPT ![c] = served'[c]],
         \A d \in Callers \ {c} : at'[d] = at[d] /\ asked'[d] = asked[d],
         todo'[c] \in Seq(Entries), selected'[c] \in (Sessions \ Special) \cup {None},
         at'[c] = "idle" => selected'[c] = None,
         at'[c] = "chosen" => selected'[c] # None,
         served'[c] \subseteq Sessions \ Special,
         at'[c] # "idle" \/ served'[c] # {} => asked'[c] > 0,
         at'[c] = "loop" /\ selected'[c] # None => todo'[c] = <<>>,
         c \notin outdated' =>
            /\ at'[c] \in Asking /\ selected'[c] # None => IsFirst(selected'[c], order, state)
            /\ at'[c] = "loop" /\ selected'[c] = None => Covers(todo'[c], order, state),
         ~disturbed => \A s \in served'[c] : IsFirst(s, order, state)
  PROVE  LogonInv'
<1> USE DEF LogonInv
<1>1. order' = order /\ state' = state /\ changes' = changes /\ disturbed' = disturbed
  BY DEF system
<1>2. \A d \in Callers \ {c} :
        todo'[d] = todo[d] /\ selected'[d] = selected[d] /\ served'[d] = served[d] /\ (d \in outdated' <=> d \in outdated)
  BY DEF Types
<1>3. Types'
  <2>1. TypeOK'
    <3>1. ASSUME NEW d \in Callers
          PROVE
            /\ todo'[d] \in Seq([id : Sessions, state : States \ {"gone"}])
            /\ selected'[d] \in (Sessions \ Special) \cup {None}
            /\ at'[d] = "idle" => selected'[d] = None
            /\ at'[d] = "chosen" => selected'[d] # None
            /\ served'[d] \subseteq Sessions \ Special
      <4>1. TypeOK
        BY DEF Types
      <4>2. CASE d = c
        BY <4>2 DEF Entries
      <4>3. CASE d # c
        <5>1. /\ todo'[d] = todo[d] /\ selected'[d] = selected[d] /\ served'[d] = served[d] /\ at'[d] = at[d]
          BY <1>2, <4>3
        <5> QED
          BY <4>1, <5>1 DEF TypeOK
      <4> QED
        BY <4>2, <4>3
    <3>2. /\ state' \in [Sessions -> States] /\ changes' \in 0..MaxChanges
          /\ alive' \in BOOLEAN /\ outdated' \subseteq Callers /\ disturbed' \in BOOLEAN
      BY <1>1 DEF Types, TypeOK
    <3> QED
      BY <3>1, <3>2 DEF TypeOK
  <2> QED
    BY <1>1, <2>1 DEF Types
<1>4. Asked'
  BY <1>2 DEF Asked
<1>5. Choosing'
  BY <1>1, <1>2 DEF Choosing
<1>6. Undisturbed'
  BY <1>1, <1>2 DEF Undisturbed
<1> QED
  BY <1>3, <1>4, <1>5, <1>6

\* What each of them does with its list.
LEMMA CallerInv ==
  ASSUME LogonInv, alive, NEW c \in Callers, CallerNext(c)
  PROVE  LogonInv'
<1>1. /\ TypeOK /\ Types /\ Asked /\ Choosing /\ Undisturbed
      /\ order \in Seq(Sessions) /\ state \in [Sessions -> States]
      /\ todo = [d \in Callers |-> todo[d]] /\ selected = [d \in Callers |-> selected[d]]
      /\ served = [d \in Callers |-> served[d]]
      /\ at \in [Callers -> {"idle"} \cup Asking] /\ asked \in [Callers -> Nat]
      /\ alive \in BOOLEAN /\ outdated \subseteq Callers
  BY DEF LogonInv, Types, TypeOK, Asked
<1>2. /\ todo[c] \in Seq(Entries) /\ selected[c] \in (Sessions \ Special) \cup {None}
      /\ at[c] = "idle" => selected[c] = None
      /\ at[c] = "chosen" => selected[c] # None
      /\ served[c] \subseteq Sessions \ Special
      /\ at[c] # "idle" \/ served[c] # {} => asked[c] > 0
      /\ at[c] = "loop" /\ selected[c] # None => todo[c] = <<>>
      /\ ~disturbed => outdated = {} /\ \A s \in served[c] : IsFirst(s, order, state)
      /\ c \notin outdated =>
           /\ at[c] \in Asking /\ selected[c] # None => IsFirst(selected[c], order, state)
           /\ at[c] = "loop" /\ selected[c] = None => Covers(todo[c], order, state)
  BY <1>1 DEF TypeOK, Entries, Asked, Choosing, Undisturbed
<1>3. CASE Enumerate(c)
  <2>1. Listed \in Seq(Entries) /\ Covers(Listed, order, state)
    BY <1>1, ListedInOrder
  <2>2. /\ at' = [at EXCEPT ![c] = "loop"] /\ asked' = [asked EXCEPT ![c] = @ + 1] /\ at[c] = "idle"
        /\ todo' = [todo EXCEPT ![c] = Listed] /\ outdated' = outdated \ {c}
        /\ UNCHANGED <<system, selected, served, alive, disturbed>>
    BY <1>3 DEF Enumerate, Moves
  <2>3. todo'[c] = Listed /\ at'[c] = "loop" /\ asked'[c] = asked[c] + 1 /\ selected'[c] = None
    BY <1>1, <1>2, <2>2
  <2>4. asked'[c] > 0
    BY <1>1, <2>3
  <2>5. /\ at' \in [Callers -> {"idle"} \cup Asking] /\ asked' \in [Callers -> Nat]
        /\ todo' = [todo EXCEPT ![c] = todo'[c]] /\ selected' = [selected EXCEPT ![c] = selected'[c]]
        /\ served' = [served EXCEPT ![c] = served'[c]]
        /\ \A d \in Callers \ {c} : at'[d] = at[d] /\ asked'[d] = asked[d]
    <3>1. at' \in [Callers -> {"idle"} \cup Asking]
      BY <1>1, <2>2 DEF Asking
    <3>2. asked' \in [Callers -> Nat]
      <4>1. asked[c] + 1 \in Nat
        BY <1>1
      <4> QED
        BY <1>1, <2>2, <4>1
    <3>3. /\ todo' = [todo EXCEPT ![c] = todo'[c]] /\ selected' = [selected EXCEPT ![c] = selected'[c]]
          /\ served' = [served EXCEPT ![c] = served'[c]]
      BY <1>1, <2>2, <2>3
    <3>4. \A d \in Callers \ {c} : at'[d] = at[d] /\ asked'[d] = asked[d]
      BY <1>1, <2>2
    <3> QED
      BY <3>1, <3>2, <3>3, <3>4
  <2> QED
    BY <1>1, <1>2, <2>1, <2>2, <2>3, <2>4, <2>5, CallerStep
<1>4. CASE AskFails(c)
  <2>2. /\ asked' = [asked EXCEPT ![c] = @ + 1] /\ at[c] = "idle"
        /\ UNCHANGED <<system, at, todo, selected, served, alive, outdated, disturbed>>
    BY <1>4 DEF AskFails
  <2>4. asked'[c] = asked[c] + 1 /\ asked'[c] > 0
    BY <1>1, <2>2
  <2>5. /\ asked' \in [Callers -> Nat]
        /\ todo' = [todo EXCEPT ![c] = todo'[c]] /\ selected' = [selected EXCEPT ![c] = selected'[c]]
        /\ served' = [served EXCEPT ![c] = served'[c]]
        /\ \A d \in Callers \ {c} : at'[d] = at[d] /\ asked'[d] = asked[d]
    <3>1. asked' \in [Callers -> Nat]
      <4>1. asked[c] + 1 \in Nat
        BY <1>1
      <4> QED
        BY <1>1, <2>2, <4>1
    <3>2. /\ todo' = [todo EXCEPT ![c] = todo'[c]] /\ selected' = [selected EXCEPT ![c] = selected'[c]]
          /\ served' = [served EXCEPT ![c] = served'[c]]
      BY <1>1, <2>2
    <3>3. \A d \in Callers \ {c} : at'[d] = at[d] /\ asked'[d] = asked[d]
      BY <1>1, <2>2
    <3> QED
      BY <3>1, <3>2, <3>3
  <2> QED
    BY <1>1, <1>2, <2>2, <2>4, <2>5, CallerStep
\* The three ways to look at the head of the list, and what they have in common.
<1>5. ASSUME at[c] = "loop", todo[c] # <<>>,
             UNCHANGED <<system, at, asked, served, outdated, disturbed>>, alive' \in BOOLEAN,
             \/ UNCHANGED <<todo, selected>>
             \/ Pass(c) /\ ~(Head(todo[c]).id \notin Special /\ Head(todo[c]).state = "active")
             \/ Select(c, Head(todo[c]).id) /\ Head(todo[c]).id \notin Special /\ Head(todo[c]).state = "active"
      PROVE  LogonInv'
  <2>1. /\ Head(todo[c]) \in Entries /\ Tail(todo[c]) \in Seq(Entries)
        /\ Head(todo[c]).id \in Sessions
    <3>1. Head(todo[c]) \in Entries /\ Tail(todo[c]) \in Seq(Entries)
      BY <1>2, <1>5, HeadTailProperties
    <3> QED
      BY <3>1 DEF Entries
  <2>2. /\ todo' = [todo EXCEPT ![c] = todo'[c]] /\ selected' = [selected EXCEPT ![c] = selected'[c]]
        /\ served' = [served EXCEPT ![c] = served'[c]]
        /\ \A d \in Callers \ {c} : at'[d] = at[d] /\ asked'[d] = asked[d]
        /\ served'[c] = served[c] /\ at'[c] = "loop" /\ asked'[c] = asked[c]
    BY <1>1, <1>5 DEF Pass, Select
  <2>3. CASE UNCHANGED <<todo, selected>>
    BY <1>1, <1>2, <1>5, <2>2, <2>3, CallerStep
  <2>4. CASE Pass(c) /\ ~(Head(todo[c]).id \notin Special /\ Head(todo[c]).state = "active")
    <3>1. todo'[c] = Tail(todo[c]) /\ selected'[c] = selected[c]
      BY <1>1, <2>4 DEF Pass
    <3>2. c \notin outdated /\ selected[c] = None => Covers(Tail(todo[c]), order, state)
      BY <1>1, <1>2, <1>5, <2>4, HeadOfList
    <3> QED
      BY <1>1, <1>2, <1>5, <2>1, <2>2, <3>1, <3>2, CallerStep
  <2>5. CASE Select(c, Head(todo[c]).id) /\ Head(todo[c]).id \notin Special /\ Head(todo[c]).state = "active"
    <3>1. todo'[c] = <<>> /\ <<>> \in Seq(Entries) /\ selected'[c] = Head(todo[c]).id
      BY <1>1, <2>5 DEF Select
    <3>2. selected'[c] # None /\ selected'[c] \in Sessions \ Special
      BY <2>1, <2>5, <3>1, SessionAssumption
    <3>3. c \notin outdated /\ selected[c] = None => IsFirst(Head(todo[c]).id, order, state)
      BY <1>1, <1>2, <1>5, <2>5, HeadOfList
    <3> QED
      BY <1>1, <1>2, <1>5, <2>1, <2>2, <3>1, <3>2, <3>3, CallerStep
  <2> QED
    BY <1>5, <2>3, <2>4, <2>5
<1>6. CASE InspectActive(c)
  BY <1>1, <1>5, <1>6 DEF InspectActive, Skips
<1>7. CASE InspectOther(c)
  BY <1>1, <1>5, <1>7 DEF InspectOther, Skips
<1>8. CASE InspectDisconnected(c)
  <2>1. /\ at[c] = "loop" /\ todo[c] # <<>> /\ Head(todo[c]).state # "active"
        /\ UNCHANGED <<system, at, asked, served, outdated, disturbed>> /\ alive' \in BOOLEAN
        /\ UNCHANGED <<todo, selected>> \/ Pass(c)
    BY <1>1, <1>8 DEF InspectDisconnected, HasName, Disconnected
  <2> QED
    BY <1>5, <2>1
<1>9. CASE LoopEnds(c)
  <2>1. /\ at[c] = "loop" /\ at' = [at EXCEPT ![c] = IF SessionFound(c) THEN "chosen" ELSE "idle"]
        /\ UNCHANGED <<system, todo, selected, asked, served, alive, outdated, disturbed>>
    BY <1>9 DEF LoopEnds, Moves
  <2>2. /\ at'[c] = IF selected[c] # None THEN "chosen" ELSE "idle"
        /\ at' \in [Callers -> {"idle"} \cup Asking]
        /\ todo' = [todo EXCEPT ![c] = todo'[c]] /\ selected' = [selected EXCEPT ![c] = selected'[c]]
        /\ served' = [served EXCEPT ![c] = served'[c]]
        /\ \A d \in Callers \ {c} : at'[d] = at[d] /\ asked'[d] = asked[d]
    BY <1>1, <2>1 DEF Asking, SessionFound
  <2> QED
    BY <1>1, <1>2, <2>1, <2>2, CallerStep DEF Asking
<1>10. CASE Token(c)
  <2>1. /\ at[c] = "chosen" /\ at' = [at EXCEPT ![c] = "idle"]
        /\ selected' = [selected EXCEPT ![c] = None]
        /\ served' \in {served, [served EXCEPT ![c] = @ \cup {selected[c]}]}
        /\ UNCHANGED <<system, todo, asked, alive, outdated, disturbed>>
    BY <1>10 DEF Token, Moves
  <2>2. /\ at'[c] = "idle" /\ selected'[c] = None /\ selected[c] \in Sessions \ Special
        /\ served'[c] \subseteq served[c] \cup {selected[c]}
        /\ at' \in [Callers -> {"idle"} \cup Asking]
        /\ todo' = [todo EXCEPT ![c] = todo'[c]] /\ selected' = [selected EXCEPT ![c] = selected'[c]]
        /\ served' = [served EXCEPT ![c] = served'[c]]
        /\ \A d \in Callers \ {c} : at'[d] = at[d] /\ asked'[d] = asked[d]
        /\ asked'[c] > 0
    BY <1>1, <1>2, <2>1
  <2>3. ~disturbed => IsFirst(selected[c], order, state)
    BY <1>2, <2>1 DEF Asking
  <2> QED
    BY <1>1, <1>2, <2>1, <2>2, <2>3, CallerStep DEF Asking
<1> QED
  BY <1>3, <1>4, <1>6, <1>7, <1>8, <1>9, <1>10 DEF CallerNext

\* A session that changes makes every list that is being read outdated, and once
\* somebody has asked nothing is said of the users any more.
LEMMA ChangeInv ==
  ASSUME LogonInv, alive, Change
  PROVE  LogonInv'
<1> USE DEF LogonInv
<1>1. /\ UNCHANGED <<order, at, todo, selected, asked, served, alive>>
      /\ outdated' = outdated \cup {c \in Callers : at[c] \in Asking}
      /\ disturbed' = (disturbed \/ \E c \in Callers : asked[c] > 0)
  BY DEF Change, callVars
<1>2. PICK s \in Sessions \ Special : \E st \in Becomes(state[s]) : state' = [state EXCEPT ![s] = st]
  BY DEF Change
<1>3. state' \in [Sessions -> States]
  BY <1>2 DEF Becomes, Types, TypeOK, States
<1>4. changes' \in 0..MaxChanges
  BY SessionAssumption DEF Change, Types, TypeOK
<1>5. TypeOK'
  <2>1. TypeOK
    BY DEF Types
  <2>2. outdated' \subseteq Callers /\ disturbed' \in BOOLEAN
    BY <1>1, <2>1 DEF TypeOK
  <2> QED
    BY <1>1, <1>3, <1>4, <2>1, <2>2 DEF TypeOK
<1>6. Types' /\ Asked'
  BY <1>1, <1>5 DEF Types, Asked
<1>7. Choosing'
  BY <1>1 DEF Choosing, Asking
<1>8. Undisturbed'
  <2>1. ASSUME ~disturbed'
        PROVE  outdated' = {} /\ \A c \in Callers : served'[c] = {}
    <3>1. ~disturbed /\ \A c \in Callers : ~(asked[c] > 0)
      BY <1>1, <2>1
    <3>2. \A c \in Callers : at[c] = "idle" /\ served[c] = {}
      BY <3>1 DEF Asked
    <3> QED
      BY <1>1, <3>1, <3>2 DEF Undisturbed, Asking
  <2> QED
    BY <2>1 DEF Undisturbed
<1> QED
  BY <1>6, <1>7, <1>8

-----------------------------------------------------------------------------
(* The theorems. *)

\* The inductive invariant: what is chosen, or still to be looked at, is right for
\* those whose list is how things are (token_dgd_windows.go:77-133).
THEOREM LogonInvariant == Spec => []LogonInv
<1>1. LogonInv /\ [Next]_vars => LogonInv'
  <2>1. CASE Next
    BY <2>1, CallerInv, ChangeInv DEF Next
  <2>2. CASE UNCHANGED vars
    BY <2>2 DEF vars, system, callVars, LogonInv, Types, TypeOK, Asked, Choosing, Undisturbed
  <2> QED
    BY <2>1, <2>2
<1> QED
  BY <1>1, LogonInvInit, PTL DEF Spec

\* Every variable has its type: among others, nobody of the sessions that are
\* skipped is ever selected or served (token_dgd_windows.go:92-96).
THEOREM LogonTypes == Spec => []TypeOK
<1>1. LogonInv => TypeOK
  BY DEF LogonInv, Types
<1> QED
  BY <1>1, LogonInvariant, PTL

\* The first active session is chosen, for any number of sessions in any order
\* (token_dgd_windows.go:91-133).
THEOREM FirstIsChosen == Spec => []FirstActiveIsChosen
<1>1. LogonInv => FirstActiveIsChosen
  <2> SUFFICES ASSUME LogonInv, NEW c \in Callers, at[c] = "chosen", c \notin outdated
               PROVE  \E i \in ActiveAt(order, state) :
                        order[i] = selected[c] /\ \A j \in ActiveAt(order, state) : i <= j
    BY DEF FirstActiveIsChosen, ActiveAt
  <2>1. IsFirst(selected[c], order, state)
    BY DEF LogonInv, Types, TypeOK, Choosing, Asking
  <2> QED
    BY <2>1 DEF IsFirst
<1> QED
  BY <1>1, LogonInvariant, PTL

\* The helper and every measure serve one user unless a session changes after the
\* first of them asked (entrypoint_windows.go:46-71, tinyActions.go:86-112).
THEOREM OneUser == Spec => []OneUserUnlessDisturbed
<1>1. LogonInv => OneUserUnlessDisturbed
  <2> SUFFICES ASSUME LogonInv, ~disturbed
               PROVE  Cardinality(UNION {served[c] : c \in Callers}) <= 1
    BY DEF OneUserUnlessDisturbed
  <2> DEFINE users == UNION {served[c] : c \in Callers}
  <2>1. \A s \in users : IsFirst(s, order, state)
    BY DEF LogonInv, Undisturbed
  <2>2. order \in Seq(Sessions)
    BY DEF LogonInv, Types
  <2> HIDE DEF users
  <2>3. \A s, r \in users : s = r
    BY <2>1, <2>2, FirstIsOne
  <2>4. CASE users = {}
    BY <2>4, FS_EmptySet DEF users
  <2>5. CASE users # {}
    <3>1. PICK s \in users : TRUE
      BY <2>5
    <3>2. users = {s}
      BY <2>3, <3>1
    <3>3. Cardinality(users) = 1
      BY <3>2, FS_Singleton
    <3> QED
      BY <3>3 DEF users
  <2> QED
    BY <2>4, <2>5
<1> QED
  BY <1>1, LogonInvariant, PTL
==============================================================================
