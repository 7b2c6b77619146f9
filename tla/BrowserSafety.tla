--------------------------- MODULE BrowserSafety ---------------------------
(* What a tab shows after access has ended, what it shows of the newest    *)
(* messages whatever raced with the snapshot, and what it keeps, for any   *)
(* messages, pages, changes, accounts and requests.                        *)
EXTENDS Browser, FiniteSets, FiniteSetTheorems, WellFoundedInduction, TLAPS

-----------------------------------------------------------------------------
(* The inductive invariant of the conversation *)

\* Requests of older() say whether the window has changed since.
Marked == \A r \in older : "outdated" \in DOMAIN r

\* Once access is refused the tab has nothing and waits for nothing that it would show: its
\* socket is closed for good, no task holds a frame for it, requests are dropped or outdated.
Shut ==
  denied =>
    /\ view = {} /\ next = None
    /\ sock = "closed" /\ wire = <<>>
    /\ snapshot = None /\ jump = None
    /\ \A r \in older : r.outdated
    /\ \A t \in task : t.sees = None

Inv == Marked /\ Shut

-----------------------------------------------------------------------------
(* Requests for older messages *)

LEMMA AllOutdated ==
  ASSUME Marked
  PROVE  \A r \in Outdated : "outdated" \in DOMAIN r /\ r.outdated
<1> SUFFICES ASSUME NEW q \in older
             PROVE  LET r == [q EXCEPT !.outdated = TRUE]
                    IN "outdated" \in DOMAIN r /\ r.outdated
  BY DEF Outdated
<1>1. "outdated" \in DOMAIN q
  BY DEF Marked
<1>2. QED BY <1>1

LEMMA AnsweredMarks ==
  ASSUME NEW r, "outdated" \in DOMAIN r, NEW p
  PROVE  "outdated" \in DOMAIN Answered(r, p) /\ Answered(r, p).outdated = r.outdated
BY DEF Answered

-----------------------------------------------------------------------------
(* The steps *)

LEMMA InitInv == Init => Inv
BY DEF Init, Inv, Marked, Shut

LEMMA RevokeKeeps == Inv /\ Revoke => Inv'
<1> SUFFICES ASSUME Inv, Revoke PROVE Inv'
  OBVIOUS
<1>1. Marked' /\ \A r \in older' : r.outdated
  BY AllOutdated DEF Inv, Marked, Revoke
<1>2. Shut'
  BY <1>1 DEF Shut, Revoke
<1>3. QED BY <1>1, <1>2 DEF Inv

\* What the server does reaches the tab through its socket only.
LEMMA ServerKeeps ==
  ASSUME Inv,
         \/ \E m \in Message, deleted \in BOOLEAN :
              ChangeElsewhere(m, deleted) \/ ChangeHere(m, deleted)
         \/ Remove \/ Sweep \/ Subscribe
         \/ \E t \in task : TaskRead(t) \/ TaskPush(t)
  PROVE  Inv'
<1>1. UNCHANGED <<view, next, denied, snapshot, jump, older>>
  BY DEF ChangeElsewhere, ChangeHere, Commit, Remove, Sweep, Subscribe, TaskRead, TaskPush,
         page, requests
<1>2. ASSUME denied
      PROVE  UNCHANGED <<sock, wire>> /\ \A t \in task' : t.sees = None
  <2>1. sock = "closed" /\ \A t \in task : t.sees = None
    BY <1>2 DEF Inv, Shut
  <2>2. CASE \E m \in Message, deleted \in BOOLEAN :
               ChangeElsewhere(m, deleted) \/ ChangeHere(m, deleted)
    <3>1. PICK m \in Message, deleted \in BOOLEAN : Commit(m, deleted)
      BY <2>2 DEF ChangeElsewhere, ChangeHere
    <3>2. UNCHANGED <<sock, wire>>
      BY <3>1 DEF Commit
    <3>3. task' = task \cup {[id |-> m, of |-> rev'[m], sees |-> None]}
      BY <3>1 DEF Commit
    <3>4. QED BY <2>1, <3>2, <3>3
  <2>3. CASE Remove \/ Sweep \/ Subscribe
    BY <2>1, <2>3 DEF Remove, Sweep, Subscribe
  <2>4. CASE \E t \in task : TaskRead(t) \/ TaskPush(t)
    BY <2>1, <2>4 DEF TaskRead, TaskPush
  <2>5. QED BY <2>2, <2>3, <2>4
<1>3. QED BY <1>1, <1>2 DEF Inv, Marked, Shut

\* Frames, and answers to changes made in the tab.
LEMMA FramesKeep ==
  ASSUME Inv, Receive \/ \E v \in answer : ReceiveAnswer(v)
  PROVE  Inv'
<1>1. CASE Receive
  <2>1. ~denied
    BY <1>1 DEF Inv, Shut, Receive
  <2>2. Revoke \/ UNCHANGED <<denied, older>>
    BY <1>1 DEF Receive, Take, page, requests
  <2>3. QED BY <2>1, <2>2, RevokeKeeps DEF Inv, Marked, Shut
<1>2. CASE \E v \in answer : ReceiveAnswer(v)
  <2>1. UNCHANGED <<next, denied, task, sock, wire, snapshot, jump, older>>
    BY <1>2 DEF ReceiveAnswer, requests
  <2>2. denied => UNCHANGED view
    BY <1>2 DEF ReceiveAnswer, Take
  <2>3. QED BY <2>1, <2>2 DEF Inv, Marked, Shut
<1>3. QED BY <1>1, <1>2

LEMMA ConnectionsKeep ==
  ASSUME Inv, Disconnect \/ Connect \/ SessionOver
  PROVE  Inv'
<1>1. CASE Disconnect \/ Connect
  <2>1. ~denied /\ UNCHANGED <<denied, older>>
    BY <1>1 DEF Inv, Shut, Disconnect, Closed, Connect, requests
  <2>2. QED BY <2>1 DEF Inv, Marked, Shut
<1>2. CASE SessionOver
  BY <1>2, RevokeKeeps DEF SessionOver
<1>3. QED BY <1>1, <1>2

LEMMA SnapshotsKeep ==
  ASSUME Inv, SnapshotRead \/ SnapshotApply \/ SnapshotRefused \/ SnapshotFail
  PROVE  Inv'
<1>1. ~denied
  BY DEF Inv, Shut, SnapshotRead, SnapshotApply, SnapshotRefused, SnapshotFail
<1>2. CASE SnapshotRefused
  BY <1>2, RevokeKeeps DEF SnapshotRefused
<1>3. CASE SnapshotRead \/ SnapshotApply \/ SnapshotFail
  <2>1. UNCHANGED denied /\ (older' = older \/ older' = Outdated)
    BY <1>3 DEF SnapshotRead, SnapshotApply, SnapshotFail, Closed, page, requests
  <2>2. Marked'
    BY <2>1, AllOutdated DEF Inv, Marked
  <2>3. QED BY <1>1, <2>1, <2>2 DEF Inv, Shut
<1>4. QED BY <1>2, <1>3

LEMMA OlderKeeps ==
  ASSUME Inv, Older \/ \E r \in older : OlderRead(r) \/ \E lost \in BOOLEAN : OlderEnd(r, lost)
  PROVE  Inv'
<1>1. CASE Older
  <2>1. ~denied /\ ~denied'
    BY <1>1 DEF Older, page
  <2>2. Marked'
    BY <1>1 DEF Older, Inv, Marked
  <2>3. QED BY <2>1, <2>2 DEF Inv, Shut
<1>2. ASSUME NEW r \in older, OlderRead(r) PROVE Inv'
  <2>1. PICK p : /\ older' = (older \ {r}) \cup {Answered(r, p)}
                 /\ UNCHANGED <<task, sock, wire, view, next, denied, snapshot, jump>>
    BY <1>2 DEF OlderRead, page
  <2>2. "outdated" \in DOMAIN Answered(r, p) /\ Answered(r, p).outdated = r.outdated
    BY AnsweredMarks DEF Inv, Marked
  <2>3. QED BY <2>1, <2>2 DEF Inv, Marked, Shut
<1>3. ASSUME NEW r \in older, NEW lost \in BOOLEAN, OlderEnd(r, lost) PROVE Inv'
  <2>1. /\ older' = older \ {r}
        /\ r.outdated => UNCHANGED <<view, next>>
        /\ UNCHANGED <<task, sock, wire, denied, snapshot, jump>>
    BY <1>3 DEF OlderEnd
  <2>2. QED BY <2>1 DEF Inv, Marked, Shut
<1>4. QED BY <1>1, <1>2, <1>3

LEMMA NavigationKeeps ==
  ASSUME Inv,
         \/ \E a \in Existing \cup {None} : Navigate(a)
         \/ JumpRead \/ \E lost \in BOOLEAN : JumpEnd(lost)
  PROVE  Inv'
<1>1. ~denied /\ UNCHANGED denied /\ (older' = older \/ older' = Outdated)
  BY DEF Inv, Shut, Navigate, JumpRead, JumpEnd, page
<1>2. Marked'
  BY <1>1, AllOutdated DEF Inv, Marked
<1>3. QED BY <1>1, <1>2 DEF Inv, Shut

LEMMA StepInv == Inv /\ [Next]_vars => Inv'
<1> SUFFICES ASSUME Inv, [Next]_vars PROVE Inv'
  OBVIOUS
<1>1. CASE UNCHANGED vars
  BY <1>1 DEF Inv, Marked, Shut, vars, page, requests
<1>2. CASE Next
  BY <1>2, ServerKeeps, FramesKeep, ConnectionsKeep, SnapshotsKeep, OlderKeeps,
     NavigationKeeps DEF Next
<1>3. QED BY <1>1, <1>2

-----------------------------------------------------------------------------
(* The theorems of the conversation *)

\* The invariant is inductive.
THEOREM Inductive == Spec => []Inv
BY InitInv, StepInv, PTL DEF Spec

\* After access was refused or revoked the tab shows nothing of the conversation again,
\* whatever pages, frames and answers are still on their way.
THEOREM StaysHidden == Spec => []NothingAfterRevocation
<1>1. Inv => NothingAfterRevocation
  BY DEF Inv, Shut, NothingAfterRevocation
<1>2. QED BY Inductive, <1>1, PTL

-----------------------------------------------------------------------------
(* Numbers *)

LEMMA Least ==
  ASSUME NEW S, S \subseteq Nat, S # {}
  PROVE  \E x \in S : \A y \in S : x <= y
<1> DEFINE R == StrictSubsetOrdering(Nat)
           T == {0..x : x \in S}
<1>1. IsWellFoundedOn(R, FiniteSubsetsOf(Nat))
  BY FS_StrictSubsetOrderingWellFounded
<1>2. T \subseteq FiniteSubsetsOf(Nat)
  <2>1. \A x \in S : IsFiniteSet(0..x) /\ 0..x \in SUBSET Nat
    BY FS_Interval
  <2>2. QED BY <2>1 DEF FiniteSubsetsOf
<1>3. T # {}
  OBVIOUS
<1>4. \E U \in T : \A V \in T : <<V, U>> \notin R
  <2> HIDE DEF R, T
  <2> QED BY <1>1, <1>2, <1>3, WFMin
<1>5. PICK x \in S : \A y \in S : <<0..y, 0..x>> \notin R
  BY <1>4
<1>6. ASSUME NEW y \in S, y < x PROVE FALSE
  <2>1. 0..y \subseteq 0..x /\ x \in 0..x /\ x \notin 0..y
    BY <1>6
  <2>2. <<0..y, 0..x>> \in R
    BY <2>1 DEF StrictSubsetOrdering
  <2>3. QED BY <2>2, <1>5
<1>7. QED BY <1>6

LEMMA Greatest ==
  ASSUME NEW S, NEW b \in Nat, S \subseteq 0..b, S # {}
  PROVE  \E x \in S : \A y \in S : x >= y
<1> DEFINE D == {b - x : x \in S}
<1>1. D \subseteq Nat /\ D # {}
  <2>1. \A x \in S : x \in 0..b /\ b - x \in Nat
    OBVIOUS
  <2>2. QED BY <2>1
<1>2. PICK d \in D : \A e \in D : d <= e
  <2> HIDE DEF D
  <2> QED BY <1>1, Least
<1>3. PICK x \in S : d = b - x
  OBVIOUS
<1>4. ASSUME NEW y \in S PROVE x >= y
  <2>1. b - x <= b - y
    BY <1>2, <1>3
  <2>2. QED BY <2>1
<1>5. QED BY <1>4

LEMMA MinIs ==
  ASSUME NEW S, S \subseteq Nat, S # {}
  PROVE  Min(S) \in S /\ \A y \in S : Min(S) <= y
BY Least DEF Min

LEMMA MaxIs ==
  ASSUME NEW S, NEW b \in Nat, S \subseteq 0..b, S # {}
  PROVE  Max(S) \in S /\ \A y \in S : Max(S) >= y
BY Greatest DEF Max

-----------------------------------------------------------------------------
(* Pages *)

LEMMA MessageIs == Message \subseteq Nat /\ Message \subseteq 0..LastMessage /\ LastMessage \in Nat
BY BoundsAssumption DEF Message

LEMMA Few ==
  ASSUME NEW S \in SUBSET Message
  PROVE  IsFiniteSet(S) /\ Cardinality(S) \in Nat
<1>1. IsFiniteSet(Message)
  BY FS_Interval, BoundsAssumption DEF Message
<1>2. QED BY <1>1, FS_Subset, FS_CardinalityType

\* Who is among the last is so among fewer.
LEMMA LastOfFewer ==
  ASSUME NEW T \in SUBSET Message, NEW S \in SUBSET T, NEW n \in Nat, NEW m \in S, m \in Last(T, n)
  PROVE  m \in Last(S, n)
<1> DEFINE above(U) == {k \in U : k > m}
<1>1. above(S) \subseteq above(T) /\ above(T) \in SUBSET Message /\ above(S) \in SUBSET Message
  OBVIOUS
<1>2. Cardinality(above(T)) < n
  BY DEF Last
<1>3. /\ Cardinality(above(S)) <= Cardinality(above(T))
      /\ Cardinality(above(S)) \in Nat /\ Cardinality(above(T)) \in Nat
  <2> HIDE DEF above
  <2> QED BY <1>1, Few, FS_Subset
<1>4. Cardinality(above(S)) < n
  BY <1>2, <1>3
<1>5. QED BY <1>4 DEF Last

\* Who comes after one of the last is one of them.
LEMMA LastUpwards ==
  ASSUME NEW S \in SUBSET Message, NEW n \in Nat, NEW m \in Last(S, n), NEW k \in S, k > m
  PROVE  k \in Last(S, n)
<1> DEFINE above(x) == {j \in S : j > x}
<1>1. above(k) \subseteq above(m) /\ above(k) \in SUBSET Message /\ above(m) \in SUBSET Message
  <2>1. S \subseteq Nat /\ m \in Nat
    BY MessageIs DEF Last
  <2>2. \A a, b, c \in Nat : a > b /\ b > c => a > c
    OBVIOUS
  <2>3. \A j \in S : j > k => j > m
    BY <2>1, <2>2
  <2>4. QED BY <2>3
<1>2. Cardinality(above(m)) < n
  BY DEF Last
<1>3. /\ Cardinality(above(k)) <= Cardinality(above(m))
      /\ Cardinality(above(k)) \in Nat /\ Cardinality(above(m)) \in Nat
  <2> HIDE DEF above
  <2> QED BY <1>1, Few, FS_Subset
<1>4. Cardinality(above(k)) < n
  BY <1>2, <1>3
<1>5. QED BY <1>4 DEF Last

\* The greatest of a set is among its last.
LEMMA LastSome ==
  ASSUME NEW S \in SUBSET Message, S # {}, NEW n \in Nat, n > 0
  PROVE  Last(S, n) # {}
<1>1. PICK m \in S : \A k \in S : m >= k
  BY MessageIs, Greatest
<1>2. {k \in S : k > m} = {}
  <2>1. S \subseteq Nat
    BY MessageIs
  <2>2. \A a, b \in Nat : a >= b => ~(b > a)
    OBVIOUS
  <2>3. QED BY <1>1, <2>1, <2>2
<1>3. Cardinality({k \in S : k > m}) = 0
  BY <1>2, FS_EmptySet
<1>4. QED BY <1>3 DEF Last

\* What is not on the page comes before its cursor, which comes before the rest of the page.
LEMMA PageIs ==
  ASSUME NEW S \in SUBSET Message
  PROVE  LET p == Page(S) IN
         /\ p.rows = {Current(m) : m \in Last(S, PageSize)}
         /\ p.next # None => p.next \in S /\ \A m \in Last(S, PageSize) : p.next <= m
         /\ \A m \in S : m \in Last(S, PageSize) \/ (p.next # None /\ m < p.next)
<1> DEFINE rows == Last(S, PageSize)
<1>1. Page(S).rows = Rows(rows) /\ Page(S).next = IF rows = S THEN None ELSE Min(rows)
  BY DEF Page
<1>2. CASE rows = S
  BY <1>1, <1>2 DEF Rows
<1>3. CASE rows # S
  <2>1. rows \subseteq S /\ S # {} /\ PageSize \in Nat /\ PageSize > 0
    BY <1>3, BoundsAssumption DEF Last
  <2>2. rows # {} /\ rows \subseteq Nat
    BY <2>1, LastSome, MessageIs
  <2> HIDE DEF rows
  <2>3. Min(rows) \in rows /\ \A m \in rows : Min(rows) <= m
    BY <2>2, MinIs
  <2>4. Min(rows) # None
    <3>1. \A n \in Nat : n \in Int
      OBVIOUS
    <3>2. QED BY <2>2, <2>3, <3>1, NoneAssumption
  <2>5. ASSUME NEW m \in S, m \notin rows PROVE m < Min(rows)
    <3>1. ~(m > Min(rows))
      BY <2>1, <2>3, <2>5, LastUpwards DEF rows
    <3>2. m # Min(rows) /\ m \in Nat /\ Min(rows) \in Nat
      BY <2>1, <2>2, <2>3, <2>5, MessageIs
    <3>3. QED BY <3>1, <3>2
  <2>6. QED BY <1>1, <1>3, <2>1, <2>3, <2>4, <2>5 DEF Rows, rows
<1>4. QED BY <1>2, <1>3

-----------------------------------------------------------------------------
(* What is known of messages *)

\* Messages are sent one after the other, and nothing is deleted before.
Numbered ==
  /\ rev \in [Message -> Nat]
  /\ \A m \in Existing, k \in Message : k < m => k \in Existing
  /\ gone \subseteq Existing

\* What is said of a message is not ahead of it, and right if it is of its revision.  Only a
\* deleted row that the tab made up may have been wrong at an earlier one.
Known(f, m) ==
  /\ f \in [rev : Nat, gone : BOOLEAN]
  /\ f.rev <= rev[m] /\ (f.rev = rev[m] => f = Fact(m))

Own(v) == [rev |-> v.rev, gone |-> v.gone]

Sound(v) ==
  /\ v = [id |-> v.id, rev |-> v.rev, gone |-> v.gone, quote |-> v.quote]
  /\ v.id \in Existing /\ Known(Own(v), v.id)
  /\ v.quote # None => ReplyTo[v.id] # None /\ Known(v.quote, ReplyTo[v.id])
  /\ ~v.gone /\ ReplyTo[v.id] # None => v.quote # None

LEMMA ReplyIs ==
  ASSUME NEW m \in Existing, ReplyTo[m] # None
  PROVE  m \in Message /\ ReplyTo[m] \in Message /\ ReplyTo[m] < m
BY ReplyAssumption DEF Existing

LEMMA FactsKnown ==
  ASSUME NEW V, \A v \in V : Sound(v), NEW m
  PROVE  /\ \A f \in Facts(V, m) : Known(f, m)
         /\ \A v \in V : v.id = m => Own(v) \in Facts(V, m)
         /\ \A v \in V : ReplyTo[v.id] = m /\ v.quote # None => v.quote \in Facts(V, m)
BY DEF Facts, Only, Sound, Own

\* The highest revision is taken.
LEMMA ToldIs ==
  ASSUME Numbered, NEW cur, NEW inc, \A v \in cur \cup inc : Sound(v), NEW m \in Message,
         Facts(cur, m) \cup Facts(inc, m) # {}
  PROVE  /\ Told(cur, inc, m) \in Facts(cur, m) \cup Facts(inc, m)
         /\ \A f \in Facts(cur, m) \cup Facts(inc, m) : f.rev <= Told(cur, inc, m).rev
<1> DEFINE K == Facts(cur, m)
           I == Facts(inc, m)
           top == Max({f.rev : f \in K \cup I})
           best(F) == {f \in F : f.rev = top}
<1>1. \A f \in K \cup I : Known(f, m)
  BY FactsKnown
<1>2. rev[m] \in Nat /\ \A f \in K \cup I : f.rev \in 0..rev[m]
  BY <1>1 DEF Known, Numbered
<1>3. top \in {f.rev : f \in K \cup I} /\ \A f \in K \cup I : top >= f.rev
  <2> DEFINE R == {f.rev : f \in K \cup I}
  <2>1. R \subseteq 0..rev[m] /\ R # {}
    BY <1>2
  <2> HIDE DEF K, I
  <2>2. Max(R) \in R /\ \A y \in R : Max(R) >= y
    <3> HIDE DEF R
    <3> QED BY <1>2, <2>1, MaxIs
  <2>3. QED BY <2>2
<1>4. Told(cur, inc, m) = CHOOSE f \in K \cup I : f.rev = top /\ (best(K) # {} => f \in K)
  BY DEF Told
<1> HIDE DEF K, I, top
<1>5. \E f \in K \cup I : f.rev = top /\ (best(K) # {} => f \in K)
  BY <1>3
<1>6. Told(cur, inc, m) \in K \cup I /\ Told(cur, inc, m).rev = top
  BY <1>4, <1>5
<1>7. QED BY <1>2, <1>3, <1>6 DEF K, I

\* mergeMessages(): each row is one of the given, none of which is newer, and quotes what is
\* newest of all that is said.
LEMMA MergeIs ==
  ASSUME Numbered, NEW cur, NEW inc, \A v \in cur \cup inc : Sound(v)
  PROVE  /\ \A w \in Merge(cur, inc) :
              /\ Sound(w)
              /\ w.gone \/ ReplyTo[w.id] = None => w.quote = None
              /\ \E v \in cur \cup inc :
                   /\ v.id = w.id /\ v.rev = w.rev /\ v.gone = w.gone
                   /\ v \in cur \/ \A u \in cur : u.id = v.id => v.rev > u.rev
              /\ ~w.gone /\ ReplyTo[w.id] # None =>
                   \A f \in Facts(cur, ReplyTo[w.id]) \cup Facts(inc, ReplyTo[w.id]) :
                     f.rev <= w.quote.rev
         /\ \A v \in cur \cup inc : \E w \in Merge(cur, inc) : w.id = v.id /\ w.rev >= v.rev
<1> DEFINE newer == {v \in inc : \A w \in Only(cur, {v.id}) : v.rev > w.rev}
           first(m) == CHOOSE v \in Only(newer, {m}) : \A w \in Only(newer, {m}) : v.rev >= w.rev
           newest == {first(m) : m \in Ids(newer)}
           kept == {v \in cur : v.id \notin Ids(newer)}
<1>1. Merge(cur, inc) = {Requoted(v, cur, inc) : v \in kept \cup newest}
  BY DEF Merge
<1>2. ASSUME NEW m \in Ids(newer)
      PROVE  /\ first(m) \in newer /\ first(m).id = m
             /\ \A w \in newer : w.id = m => first(m).rev >= w.rev
  <2> DEFINE N == Only(newer, {m})
             R == {v.rev : v \in N}
  <2>1. N # {} /\ N \subseteq newer /\ \A v \in N : v.id = m
    BY <1>2 DEF Only, Ids
  <2>2. m \in Message /\ rev[m] \in Nat
    BY <2>1 DEF Sound, Numbered, Existing
  <2>3. R # {} /\ R \subseteq 0..rev[m]
    <3>1. \A v \in N : v.rev \in Nat /\ v.rev <= rev[m]
      BY <2>1 DEF Sound, Known, Own
    <3>2. QED
      <4> HIDE DEF N
      <4> QED BY <2>1, <2>2, <3>1
  <2>4. \E v \in N : \A w \in N : v.rev >= w.rev
    <3> HIDE DEF N
    <3>1. \E x \in R : \A y \in R : x >= y
      <4> HIDE DEF R
      <4> QED BY <2>2, <2>3, Greatest
    <3>2. QED BY <3>1
  <2>5. first(m) \in N /\ \A w \in N : first(m).rev >= w.rev
    BY <2>4
  <2>6. QED BY <2>1, <2>5 DEF Only
<1> HIDE DEF first
<1>3. kept \cup newest \subseteq cur \cup inc
  BY <1>2
<1>4. \A v \in kept \cup newest : v \in cur \/ \A u \in cur : u.id = v.id => v.rev > u.rev
  BY <1>2 DEF Only
<1>5. \A v \in cur : v.id \notin Ids(newer) => v \in kept
  OBVIOUS
<1>6. \A m \in Ids(newer) : first(m) \in newest
  OBVIOUS
<1>7. \A v \in newer : v \in inc /\ \A w \in cur : w.id = v.id => v.rev > w.rev
  BY DEF Only
<1>8. \A v \in inc : v \in newer \/ \E w \in cur : w.id = v.id /\ ~(v.rev > w.rev)
  BY DEF Only
<1> HIDE DEF kept, newest, newer
<1>9. \A v \in cur \cup inc : \E w \in kept \cup newest : w.id = v.id /\ w.rev >= v.rev
  <2>1. \A v \in cur \cup inc : v.rev \in Nat
    BY DEF Sound, Known, Own
  <2>2. ASSUME NEW v \in cur PROVE \E w \in kept \cup newest : w.id = v.id /\ w.rev >= v.rev
    <3>1. CASE v.id \notin Ids(newer)
      <4>1. v \in kept /\ v.rev >= v.rev
        BY <1>5, <2>1, <3>1
      <4>2. QED BY <4>1
    <3>2. CASE v.id \in Ids(newer)
      <4>1. first(v.id) \in newest /\ first(v.id).id = v.id /\ first(v.id) \in newer
        BY <1>2, <1>6, <3>2
      <4>2. first(v.id).rev > v.rev
        BY <1>7, <4>1
      <4>3. first(v.id).rev \in Nat /\ v.rev \in Nat
        BY <1>7, <2>1, <4>1
      <4>4. first(v.id).rev >= v.rev
        BY <4>2, <4>3
      <4>5. QED BY <4>1, <4>4
    <3>3. QED BY <3>1, <3>2
  <2>3. ASSUME NEW v \in inc PROVE \E w \in kept \cup newest : w.id = v.id /\ w.rev >= v.rev
    <3>1. CASE v \in newer
      <4>1. v.id \in Ids(newer)
        BY <3>1 DEF Ids
      <4>2. QED BY <1>2, <1>6, <3>1, <4>1
    <3>2. CASE v \notin newer
      <4>1. PICK u \in cur : u.id = v.id /\ ~(v.rev > u.rev)
        BY <1>8, <3>2
      <4>2. PICK w \in kept \cup newest : w.id = u.id /\ w.rev >= u.rev
        BY <2>2
      <4>3. w.rev \in Nat /\ u.rev \in Nat /\ v.rev \in Nat
        BY <1>3, <2>1
      <4>4. w.rev >= v.rev
        BY <4>1, <4>2, <4>3
      <4>5. QED BY <4>1, <4>2, <4>4
    <3>3. QED BY <3>1, <3>2
  <2>4. QED BY <2>2, <2>3
<1>10. ASSUME NEW v \in cur \cup inc
      PROVE  LET w == Requoted(v, cur, inc)
                 q == ReplyTo[v.id] IN
             /\ w.id = v.id /\ w.rev = v.rev /\ w.gone = v.gone
             /\ Sound(w)
             /\ w.gone \/ q = None => w.quote = None
             /\ ~w.gone /\ q # None =>
                  \A f \in Facts(cur, q) \cup Facts(inc, q) : f.rev <= w.quote.rev
  <2> DEFINE q == ReplyTo[v.id]
             quote == IF v.gone \/ q = None THEN None ELSE Told(cur, inc, q)
             w == [v EXCEPT !.quote = quote]
  <2>1. Requoted(v, cur, inc) = w
    BY DEF Requoted
  <2>2. Sound(v)
    OBVIOUS
  <2> HIDE DEF quote
  <2>3. /\ w.id = v.id /\ w.rev = v.rev /\ w.gone = v.gone /\ w.quote = quote
        /\ w = [id |-> v.id, rev |-> v.rev, gone |-> v.gone, quote |-> quote]
    BY <2>2 DEF Sound
  <2>4. CASE v.gone \/ q = None
    <3>1. quote = None
      BY <2>4 DEF quote
    <3>2. QED BY <2>1, <2>2, <2>3, <2>4, <3>1 DEF Sound, Own
  <2>5. CASE ~(v.gone \/ q = None)
    <3>1. quote = Told(cur, inc, q)
      BY <2>5 DEF quote
    <3>2. v.quote # None /\ q \in Message
      BY <2>2, <2>5, ReplyIs DEF Sound
    <3>3. v.quote \in Facts(cur, q) \cup Facts(inc, q)
      BY <3>2, FactsKnown
    <3>4. /\ quote \in Facts(cur, q) \cup Facts(inc, q)
          /\ \A f \in Facts(cur, q) \cup Facts(inc, q) : f.rev <= quote.rev
      BY <3>1, <3>2, <3>3, ToldIs
    <3>5. Known(quote, q)
      BY <3>4, FactsKnown
    <3>6. quote # None
      BY <3>5, NoneAssumption DEF Known
    <3>7. QED BY <2>1, <2>2, <2>3, <2>5, <3>4, <3>5, <3>6 DEF Sound, Own
  <2>6. QED BY <2>4, <2>5
<1>11. ASSUME NEW w \in Merge(cur, inc)
      PROVE  /\ Sound(w)
             /\ w.gone \/ ReplyTo[w.id] = None => w.quote = None
             /\ \E v \in cur \cup inc :
                  /\ v.id = w.id /\ v.rev = w.rev /\ v.gone = w.gone
                  /\ v \in cur \/ \A u \in cur : u.id = v.id => v.rev > u.rev
             /\ ~w.gone /\ ReplyTo[w.id] # None =>
                  \A f \in Facts(cur, ReplyTo[w.id]) \cup Facts(inc, ReplyTo[w.id]) :
                    f.rev <= w.quote.rev
  <2>1. PICK v \in kept \cup newest : w = Requoted(v, cur, inc)
    BY <1>1
  <2>2. v \in cur \cup inc
    BY <1>3
  <2>3. QED BY <1>4, <1>10, <2>1, <2>2
<1>12. ASSUME NEW v \in cur \cup inc PROVE \E w \in Merge(cur, inc) : w.id = v.id /\ w.rev >= v.rev
  <2>1. PICK u \in kept \cup newest : u.id = v.id /\ u.rev >= v.rev
    BY <1>9
  <2>2. u \in cur \cup inc /\ Requoted(u, cur, inc) \in Merge(cur, inc)
    BY <1>1, <1>3
  <2>3. QED BY <1>10, <2>1, <2>2
<1>13. QED BY <1>11, <1>12

-----------------------------------------------------------------------------
(* The invariant of what is shown: rows are sound, and what the snapshot   *)
(* under way, or the view, does not cover is announced                     *)

\* The changes in the frames, and all that the tab may still hear of.
Frames == {wire[i].row : i \in {i \in 1..Len(wire) : wire[i].kind = "changed"}}
Coming == answer \cup {t.sees : t \in {t \in task : t.sees # None}} \cup Frames

Brought(r) == IF r.state = "answered" THEN r.page.rows ELSE {}
PageOf(r) == IF r = None THEN {} ELSE Brought(r)

AllSound ==
  \A v \in view \cup buffer \cup Coming \cup PageOf(snapshot) \cup PageOf(jump)
             \cup UNION {Brought(r) : r \in older} : Sound(v)

Plain == \A v \in view : v.gone \/ ReplyTo[v.id] = None => v.quote = None

IsRequest(r) ==
  /\ r = [anchor |-> r.anchor, live |-> r.live, state |-> r.state, page |-> r.page]
  /\ r.anchor \in Existing \cup {None}

Requests ==
  /\ anchor \in Existing \cup {None}
  /\ snapshot # None => IsRequest(snapshot)
  /\ jump # None => IsRequest(jump)
  /\ \A r \in older :
       r = [before |-> r.before, state |-> r.state, page |-> r.page, outdated |-> r.outdated]

RowSet == [id : Message, rev : Nat, gone : BOOLEAN, quote : [rev : Nat, gone : BOOLEAN] \cup {None}]
FrameSet == [kind : {"subscribed", "changed", "revoked"}, row : RowSet \cup {None}]

Deliveries ==
  /\ wire \in Seq(FrameSet)
  /\ \A t \in task :
       /\ t = [id |-> t.id, of |-> t.of, sees |-> t.sees]
       /\ t.id \in Existing /\ (t.sees # None => t.sees.id = t.id)

\* The answer to a subscription is the first frame of its connection, and the tab then asks
\* for the snapshot of that connection; until it has that it collects the changes.
Live == snapshot # None /\ snapshot.live

Sync ==
  /\ sock \in {"opening", "waiting"} =>
       wire = <<>> /\ origin = "lost" /\ ~Live /\ \A t \in task : t.sees = None
  /\ sock = "opening" => syncing
  /\ \A i \in 1..Len(wire) : wire[i].kind = "subscribed" => i = 1 /\ syncing /\ ~Live
  /\ Live => syncing

Base == Inv /\ Numbered /\ AllSound /\ Plain /\ Requests /\ Deliveries /\ Sync

Newest == Last(Existing, PageSize)

Below(m, n) == n # None /\ m < n
Has(V, m) == \E v \in V : v.id = m /\ v.rev = rev[m]

\* A frame will tell the tab of message m as it is.
Pending(m) ==
  \/ \E t \in task : t.id = m /\ (t.sees = None \/ t.sees.rev = rev[m])
  \/ \E v \in Frames : v.id = m /\ v.rev = rev[m]

\* Row v, when it arrives, will not spoil the newest messages by quoting what was: the tab has
\* or will have what it quotes in V, or has a row as new in P, or the message is an older one.
Late(v, V, P) ==
  ~v.gone /\ ReplyTo[v.id] # None /\ v.id \in Newest =>
    \/ v.quote.rev = rev[ReplyTo[v.id]]
    \/ Pending(ReplyTo[v.id]) \/ Has(V, ReplyTo[v.id])
    \/ \E u \in P : u.id = v.id /\ u.rev >= v.rev

\* The newest page of this connection is here but not shown yet: what it lacks has been
\* collected since or is announced.
SnapshotHere ==
  /\ sock = "subscribed" /\ snapshot # None
  /\ snapshot.live /\ snapshot.state = "answered" /\ snapshot.anchor = None

OnPage(p, m) ==
  /\ m \in Ids(p.rows) \/ Below(m, p.next)
  /\ \A f \in Facts(p.rows, m) : f.rev = rev[m]

CursorFits(n) == n # None => n \in Existing /\ \A m \in Newest : n <= m

SnapshotCovers ==
  SnapshotHere =>
    /\ CursorFits(snapshot.page.next)
    /\ \A m \in Existing : Pending(m) \/ Has(buffer, m) \/ OnPage(snapshot.page, m)
    /\ \A v \in Coming \cup buffer : Late(v, buffer, snapshot.page.rows)

\* It is shown: what the view lacks is announced or comes before the cursors.
Shown == sock = "subscribed" /\ origin = "snapshot" /\ anchor = None

Waiting == {r \in older : ~r.outdated}

Continues(r) ==
  /\ \A v \in r.page.rows : v.id < r.before
  /\ r.page.next # None => r.page.next \in Existing /\ r.page.next < r.before
  /\ \A m \in Existing : m < r.before => m \in Ids(r.page.rows) \/ Below(m, r.page.next)

Reached(m, n) == Pending(m) \/ m \in Ids(view) \/ Below(m, n)

Quoting(w) ==
  w.id \in Newest /\ ~w.gone /\ ReplyTo[w.id] # None =>
    Pending(ReplyTo[w.id]) \/ w.quote.rev = rev[ReplyTo[w.id]]

ViewCovers ==
  Shown =>
    /\ CursorFits(next) /\ \A m \in Existing : Reached(m, next)
    /\ \A r \in Waiting :
         /\ r.before # None /\ CursorFits(r.before) /\ \A m \in Existing : Reached(m, r.before)
         /\ r.state = "answered" => Continues(r)
    /\ \A m \in Newest : Pending(m) \/ Has(view, m)
    /\ \A w \in view : Quoting(w)
    /\ \A v \in Coming : Late(v, view, view)

-----------------------------------------------------------------------------
(* Frames *)

LEMMA SoundRow ==
  ASSUME NEW v, Sound(v)
  PROVE  v \in RowSet /\ v.rev \in Nat
<1>1. Own(v).rev = v.rev /\ Own(v).gone = v.gone
  BY DEF Own
<1>2. v.rev \in Nat /\ v.gone \in BOOLEAN
  BY <1>1 DEF Sound, Known
<1>3. v.quote \in [rev : Nat, gone : BOOLEAN] \cup {None}
  BY DEF Sound, Known
<1>4. v.id \in Message
  BY DEF Sound, Existing
<1>5. v = [id |-> v.id, rev |-> v.rev, gone |-> v.gone, quote |-> v.quote]
  BY DEF Sound
<1>6. QED BY <1>2, <1>3, <1>4, <1>5 DEF RowSet

LEMMA FrameAdded ==
  ASSUME Deliveries, NEW f \in FrameSet, wire' = Append(wire, f)
  PROVE  /\ wire' \in Seq(FrameSet)
         /\ Frames' = Frames \cup (IF f.kind = "changed" THEN {f.row} ELSE {})
         /\ \A i \in 1..Len(wire') :
              \/ i \in 1..Len(wire) /\ wire'[i] = wire[i]
              \/ i = Len(wire) + 1 /\ wire'[i] = f
<1>1. wire \in Seq(FrameSet) /\ Len(wire) \in Nat
  BY DEF Deliveries
<1>2. /\ wire' \in Seq(FrameSet) /\ Len(wire') = Len(wire) + 1
      /\ \A i \in 1..Len(wire) : wire'[i] = wire[i]
      /\ wire'[Len(wire) + 1] = f
  BY <1>1
<1>3. \A i \in 1..Len(wire') : i \in 1..Len(wire) \/ i = Len(wire) + 1
  BY <1>1, <1>2
<1>4. \A i \in 1..Len(wire) : i \in 1..Len(wire')
  BY <1>1, <1>2
<1>5. Len(wire) + 1 \in 1..Len(wire')
  BY <1>1, <1>2
<1>6. QED BY <1>2, <1>3, <1>4, <1>5 DEF Frames

LEMMA FrameTaken ==
  ASSUME Deliveries, wire # <<>>, wire' = Tail(wire)
  PROVE  /\ wire' \in Seq(FrameSet) /\ Head(wire) = wire[1] /\ 1 \in 1..Len(wire)
         /\ Frames' \subseteq Frames
         /\ Frames \subseteq Frames' \cup (IF wire[1].kind = "changed" THEN {wire[1].row} ELSE {})
         /\ wire[1].kind = "changed" => wire[1].row \in Frames
         /\ \A i \in 1..Len(wire') : i + 1 \in 1..Len(wire) /\ wire'[i] = wire[i + 1]
<1>1. wire \in Seq(FrameSet) /\ Len(wire) \in Nat /\ Len(wire) > 0
  BY DEF Deliveries
<1>2. /\ wire' \in Seq(FrameSet) /\ Len(wire') = Len(wire) - 1 /\ Head(wire) = wire[1]
      /\ \A i \in 1..Len(wire) - 1 : wire'[i] = wire[i + 1]
  BY <1>1
<1>3. \A i \in 1..Len(wire') : i + 1 \in 1..Len(wire) /\ wire'[i] = wire[i + 1]
  BY <1>1, <1>2
<1>4. ASSUME NEW i \in 1..Len(wire), i # 1
      PROVE  i - 1 \in 1..Len(wire') /\ wire'[i - 1] = wire[i]
  <2>1. i - 1 \in 1..Len(wire') /\ (i - 1) + 1 = i
    BY <1>1, <1>2, <1>4
  <2>2. QED BY <1>3, <2>1
<1>5. 1 \in 1..Len(wire)
  BY <1>1
<1>6. Frames' \subseteq Frames
  BY <1>3 DEF Frames
<1>7. Frames \subseteq Frames' \cup (IF wire[1].kind = "changed" THEN {wire[1].row} ELSE {})
  BY <1>4 DEF Frames
<1>8. wire[1].kind = "changed" => wire[1].row \in Frames
  BY <1>5 DEF Frames
<1>9. QED BY <1>2, <1>3, <1>5, <1>6, <1>7, <1>8

-----------------------------------------------------------------------------
(* What the server does *)

LEMMA CurrentIs ==
  ASSUME Numbered, NEW m \in Existing
  PROVE  /\ Sound(Current(m)) /\ Current(m).id = m /\ Current(m).rev = rev[m]
         /\ Current(m).gone \/ ReplyTo[m] = None => Current(m).quote = None
         /\ ~Current(m).gone /\ ReplyTo[m] # None => Current(m).quote = Fact(ReplyTo[m])
         /\ Own(Current(m)) = Fact(m)
<1> DEFINE q == IF m \in gone \/ ReplyTo[m] = None THEN None ELSE Fact(ReplyTo[m])
<1>1. Current(m) = [id |-> m, rev |-> rev[m], gone |-> m \in gone, quote |-> q]
  BY DEF Current
<1>2. m \in Message /\ rev[m] \in Nat
  BY DEF Existing, Numbered
<1>3. \A k \in Message : Known(Fact(k), k) /\ Fact(k) # None /\ Fact(k).rev = rev[k]
  <2> SUFFICES ASSUME NEW k \in Message
               PROVE  Known(Fact(k), k) /\ Fact(k) # None /\ Fact(k).rev = rev[k]
    OBVIOUS
  <2>1. rev[k] \in Nat /\ (k \in gone) \in BOOLEAN
    BY DEF Numbered
  <2>2. Fact(k) \in [rev : Nat, gone : BOOLEAN] /\ Fact(k).rev = rev[k]
    BY <2>1 DEF Fact
  <2>3. QED BY <2>1, <2>2, NoneAssumption DEF Known
<1>4. ReplyTo[m] # None => ReplyTo[m] \in Message
  BY ReplyIs
<1>5. q # None => ReplyTo[m] # None /\ m \notin gone /\ q = Fact(ReplyTo[m])
  OBVIOUS
<1>6. m \notin gone /\ ReplyTo[m] # None => q = Fact(ReplyTo[m]) /\ q # None
  BY <1>3, <1>4
<1>7. m \in gone \/ ReplyTo[m] = None => q = None
  OBVIOUS
<1> HIDE DEF q
<1>8. /\ Current(m).id = m /\ Current(m).rev = rev[m] /\ Current(m).quote = q
      /\ Current(m).gone = (m \in gone)
  BY <1>1
<1>9. Own(Current(m)) = Fact(m)
  BY <1>8 DEF Own, Fact
<1>10. Current(m) = [id |-> Current(m).id, rev |-> Current(m).rev, gone |-> Current(m).gone,
                     quote |-> Current(m).quote]
  BY <1>1
<1>11. Known(Own(Current(m)), Current(m).id)
  BY <1>2, <1>3, <1>8, <1>9
<1>12. Current(m).gone <=> m \in gone
  BY <1>8
<1>13. Sound(Current(m))
  BY <1>3, <1>4, <1>5, <1>6, <1>8, <1>10, <1>11, <1>12 DEF Sound
<1>14. QED BY <1>6, <1>7, <1>8, <1>9, <1>12, <1>13

\* Messages only become more, the new ones after the old, and change with their revision.
Grown ==
  /\ Numbered'
  /\ Existing \subseteq Existing'
  /\ \A k \in Existing' \ Existing, j \in Existing : j < k
  /\ \A k \in Message : rev[k] <= rev'[k] /\ (rev'[k] = rev[k] => Fact(k)' = Fact(k))

LEMMA CommitGrows ==
  ASSUME Numbered, NEW m \in Message, NEW deleted \in BOOLEAN, Commit(m, deleted)
  PROVE  /\ Grown /\ m \in Existing' /\ rev'[m] = rev[m] + 1
         /\ \A k \in Message : k # m => rev'[k] = rev[k]
         /\ deleted => m \in gone'
<1>1. /\ rev' = [rev EXCEPT ![m] = rev[m] + 1]
      /\ gone' = IF deleted THEN gone \cup {m} ELSE gone
      /\ m \in Existing \/ (m - 1 \in Existing /\ ~deleted)
  BY DEF Commit
<1>2. /\ rev' \in [Message -> Nat] /\ rev'[m] = rev[m] + 1 /\ rev[m] \in Nat
      /\ \A k \in Message : k # m => rev'[k] = rev[k]
  BY <1>1 DEF Numbered
<1>3. \A k \in Message : rev[k] \in Nat /\ rev[k] <= rev'[k] /\ (rev'[k] = rev[k] => k # m)
  BY <1>2 DEF Numbered
<1>4. Existing' = Existing \cup {m}
  BY <1>2, <1>3 DEF Existing
<1>5. gone' \subseteq Existing'
  BY <1>1, <1>4 DEF Numbered
<1>6. m \in Nat /\ \A k \in Message : k \in Nat
  BY MessageIs
<1>7. \A k \in Message : k < m => k \in Existing
  <2> SUFFICES ASSUME NEW k \in Message, k < m PROVE k \in Existing
    OBVIOUS
  <2>1. CASE m \in Existing
    BY <2>1 DEF Numbered
  <2>2. CASE m - 1 \in Existing
    <3>1. k = m - 1 \/ k < m - 1
      BY <1>6
    <3>2. QED BY <2>2, <3>1 DEF Numbered
  <2>3. QED BY <1>1, <2>1, <2>2
<1>8. Numbered'
  BY <1>2, <1>4, <1>5, <1>7 DEF Numbered
<1>9. \A k \in Existing' \ Existing, j \in Existing : j < k
  <2> SUFFICES ASSUME m \notin Existing, NEW j \in Existing PROVE j < m
    BY <1>4
  <2>1. j \in Message /\ j \in Nat /\ j # m
    BY <1>6 DEF Existing
  <2>2. ~(m < j)
    BY DEF Numbered
  <2>3. QED BY <1>6, <2>1, <2>2
<1>10. \A k \in Message : rev'[k] = rev[k] => Fact(k)' = Fact(k)
  <2> SUFFICES ASSUME NEW k \in Message, rev'[k] = rev[k] PROVE Fact(k)' = Fact(k)
    OBVIOUS
  <2>1. k # m
    BY <1>3
  <2>2. (k \in gone') = (k \in gone)
    BY <1>1, <2>1
  <2>3. QED BY <2>2 DEF Fact
<1>11. QED BY <1>1, <1>2, <1>3, <1>4, <1>8, <1>9, <1>10 DEF Grown

LEMMA SameGrows == Numbered /\ UNCHANGED <<rev, gone>> => Grown /\ Existing' = Existing
BY MessageIs DEF Numbered, Grown, Existing, Fact

LEMMA KnownStays ==
  ASSUME Numbered, Grown, NEW m \in Message, NEW f, Known(f, m)
  PROVE  Known(f, m)'
<1>1. f \in [rev : Nat, gone : BOOLEAN] /\ f.rev \in Nat /\ rev[m] \in Nat /\ rev'[m] \in Nat
  BY DEF Known, Numbered, Grown
<1>2. f.rev <= rev[m] /\ rev[m] <= rev'[m]
  BY DEF Known, Grown
<1>3. f.rev <= rev'[m] /\ (f.rev = rev'[m] => f.rev = rev[m] /\ rev'[m] = rev[m])
  BY <1>1, <1>2
<1>4. QED BY <1>1, <1>3 DEF Known, Grown

LEMMA SoundStays ==
  ASSUME Numbered, Grown, NEW v, Sound(v)
  PROVE  Sound(v)'
<1>1. v.id \in Existing' /\ v.id \in Message
  BY DEF Sound, Grown, Existing
<1>2. Known(Own(v), v.id)'
  BY <1>1, KnownStays DEF Sound, Own
<1>3. v.quote # None => Known(v.quote, ReplyTo[v.id])'
  BY KnownStays, ReplyIs DEF Sound
<1>4. Own(v)' = Own(v)
  BY DEF Own
<1>5. QED BY <1>1, <1>2, <1>3, <1>4 DEF Sound

\* A message is among the newest only if it was or is new.
LEMMA NewestStays ==
  ASSUME Numbered, Grown
  PROVE  /\ \A m \in Existing : m \in Newest' => m \in Newest
         /\ Newest \subseteq Existing /\ Newest' \subseteq Existing'
         /\ \A n : CursorFits(n) => CursorFits(n)'
<1>1. Existing' \subseteq Message /\ Existing \subseteq Existing' /\ PageSize \in Nat
  BY BoundsAssumption DEF Grown, Existing
<1>2. \A m \in Existing : m \in Last(Existing', PageSize) => m \in Last(Existing, PageSize)
  BY <1>1, LastOfFewer
<1>3. /\ Newest' = Last(Existing', PageSize)
      /\ Newest \subseteq Existing /\ Newest' \subseteq Existing'
  BY DEF Newest, Last
<1>4. ASSUME NEW n \in Existing, \A m \in Newest : n <= m, NEW m \in Newest' PROVE n <= m
  <2>1. n \in Nat /\ m \in Nat
    BY <1>1, <1>3, MessageIs
  <2>2. CASE m \in Existing
    BY <1>2, <1>3, <1>4, <2>2 DEF Newest
  <2>3. CASE m \notin Existing
    BY <1>3, <2>1, <2>3 DEF Grown
  <2>4. QED BY <2>2, <2>3
<1>5. QED BY <1>1, <1>2, <1>3, <1>4 DEF Newest, CursorFits

\* What is read of a message after a step is right then.
LEMMA CurrentThen ==
  (Numbered => \A m \in Existing :
     /\ Sound(Current(m)) /\ Current(m).id = m
     /\ ~Current(m).gone /\ ReplyTo[m] # None => Current(m).quote = Fact(ReplyTo[m]))'
<1>1. Numbered => \A m \in Existing :
        /\ Sound(Current(m)) /\ Current(m).id = m
        /\ ~Current(m).gone /\ ReplyTo[m] # None => Current(m).quote = Fact(ReplyTo[m])
  BY CurrentIs
<1>2. QED BY <1>1, PTL

\* A row that quotes what is so.
Recent(v) ==
  Sound(v) /\ (~v.gone /\ ReplyTo[v.id] # None => v.quote.rev = rev[ReplyTo[v.id]])

\* A change is announced, an announcement reaches a subscribed tab, and whatever is new among
\* the rows that do is recent.
Served ==
  /\ UNCHANGED <<page, requests>>
  /\ Grown
  /\ \A k \in Message : rev'[k] = rev[k] \/ Pending(k)'
  /\ sock' = "subscribed" =>
       /\ sock \in {"opening", "subscribed"}
       /\ \A k \in Message : Pending(k) /\ rev'[k] = rev[k] => Pending(k)'
  /\ \A v \in Coming' : v \in Coming \/ Recent(v)'
  /\ Deliveries' /\ Sync'

LEMMA CommitServed ==
  ASSUME Base, NEW m \in Message, NEW deleted \in BOOLEAN, Commit(m, deleted),
         \A v \in answer' : v \in answer \/ Recent(v)'
  PROVE  Served
<1>1. /\ UNCHANGED <<page, requests, sock, wire>>
      /\ task' = task \cup {[id |-> m, of |-> rev'[m], sees |-> None]}
  BY DEF Commit
<1>2. /\ Grown /\ m \in Existing' /\ Existing \subseteq Existing'
      /\ \A k \in Message : k # m => rev'[k] = rev[k]
  BY CommitGrows DEF Base, Grown
<1>3. Frames' = Frames
  BY <1>1 DEF Frames
<1>4. Pending(m)'
  <2> DEFINE t == [id |-> m, of |-> rev'[m], sees |-> None]
  <2>1. t \in task' /\ t.id = m /\ t.sees = None
    BY <1>1
  <2>2. QED
    <3> HIDE DEF t
    <3> QED BY <2>1 DEF Pending
<1>5. \A k \in Message : Pending(k) /\ rev'[k] = rev[k] => Pending(k)'
  BY <1>1, <1>3 DEF Pending
<1>6. \A v \in Coming' : v \in Coming \/ Recent(v)'
  BY <1>1, <1>3 DEF Coming
<1>7. Deliveries'
  <2>1. wire' \in Seq(FrameSet)
    BY <1>1 DEF Base, Deliveries
  <2>2. ASSUME NEW t \in task'
        PROVE  /\ t = [id |-> t.id, of |-> t.of, sees |-> t.sees]
               /\ t.id \in Existing' /\ (t.sees # None => t.sees.id = t.id)
    BY <1>1, <1>2, <2>2 DEF Base, Deliveries
  <2>3. QED BY <2>1, <2>2 DEF Deliveries
<1>8. Sync'
  BY <1>1 DEF Base, Sync, Live, page, requests
<1>9. QED BY <1>1, <1>2, <1>4, <1>5, <1>6, <1>7, <1>8 DEF Served

LEMMA ChangesServed ==
  ASSUME Base, NEW m \in Message, NEW deleted \in BOOLEAN,
         ChangeElsewhere(m, deleted) \/ ChangeHere(m, deleted)
  PROVE  Served
<1>1. CASE ChangeElsewhere(m, deleted)
  BY <1>1, CommitServed DEF ChangeElsewhere
<1>2. CASE ChangeHere(m, deleted)
  <2>1. Commit(m, deleted)
    BY <1>2 DEF ChangeHere
  <2>2. Grown /\ m \in Existing' /\ rev'[m] = rev[m] + 1 /\ (deleted => m \in gone')
    BY <2>1, CommitGrows DEF Base
  <2>3. CASE ~deleted
    <3>1. answer' = answer \cup {Current(m)'}
      BY <1>2, <2>3 DEF ChangeHere
    <3>2. /\ Sound(Current(m))' /\ Current(m)'.id = m
          /\ ~Current(m)'.gone /\ ReplyTo[m] # None => Current(m)'.quote = Fact(ReplyTo[m])'
      BY <2>2, CurrentThen DEF Grown
    <3>3. Fact(ReplyTo[m])'.rev = rev'[ReplyTo[m]]
      BY DEF Fact
    <3>4. Recent(Current(m))'
      BY <3>2, <3>3 DEF Recent
    <3>5. QED BY <2>1, <3>1, <3>4, CommitServed
  <2>4. CASE deleted
    <3>1. PICK v \in Only(view, {m}) :
            answer' = answer \cup {[v EXCEPT !.rev = @ + 1, !.gone = TRUE]}
      BY <1>2, <2>4 DEF ChangeHere
    <3> DEFINE a == [v EXCEPT !.rev = v.rev + 1, !.gone = TRUE]
    <3>2. v.id = m /\ Sound(v)
      BY DEF Only, Base, AllSound
    <3>3. v = [id |-> v.id, rev |-> v.rev, gone |-> v.gone, quote |-> v.quote]
      BY <3>2 DEF Sound
    <3>4. a = [id |-> m, rev |-> v.rev + 1, gone |-> TRUE, quote |-> v.quote]
      <4> DEFINE b == [v EXCEPT !.rev = v.rev + 1]
      <4>1. b = [id |-> m, rev |-> v.rev + 1, gone |-> v.gone, quote |-> v.quote]
        BY <3>2, <3>3
      <4>2. a = [b EXCEPT !.gone = TRUE]
        OBVIOUS
      <4>3. QED
        <5> HIDE DEF a, b
        <5> QED BY <4>1, <4>2
    <3>5. v.rev \in Nat /\ rev[m] \in Nat /\ v.rev <= rev[m]
      <4>1. v.rev \in Nat
        BY <3>2, SoundRow
      <4>2. Own(v).rev <= rev[m]
        BY <3>2 DEF Sound, Known
      <4>3. QED BY <4>1, <4>2 DEF Own, Base, Numbered
    <3>6. Known([rev |-> v.rev + 1, gone |-> TRUE], m)'
      <4>1. v.rev + 1 \in Nat /\ v.rev + 1 <= rev'[m]
        BY <2>2, <3>5
      <4>2. (m \in gone') = TRUE
        BY <2>2, <2>4
      <4>3. Fact(m)' = [rev |-> rev'[m], gone |-> TRUE]
        BY <4>2 DEF Fact
      <4>4. QED BY <4>1, <4>3 DEF Known
    <3>7. Sound(v)'
      BY <2>2, <3>2, SoundStays DEF Base
    <3>8. Sound(a)'
      BY <2>2, <3>2, <3>4, <3>6, <3>7 DEF Sound, Own
    <3>9. Recent(a)'
      BY <3>4, <3>8 DEF Recent
    <3>10. answer' = answer \cup {a}
      BY <3>1
    <3>11. QED BY <2>1, <3>9, <3>10, CommitServed
  <2>5. QED BY <2>3, <2>4
<1>3. QED BY <1>1, <1>2

\* Steps that add a frame or none.
LEMMA FrameServed ==
  ASSUME Base, UNCHANGED <<rev, gone, answer, page, requests>>, NEW f \in FrameSet,
         wire' = Append(wire, f), \A t \in task' : t \in task,
         f.kind = "changed" => f.row \in Coming,
         sock' \notin {"opening", "waiting"},
         f.kind = "subscribed" => sock = "opening",
         sock' = "subscribed" =>
           /\ sock \in {"opening", "subscribed"}
           /\ \A t \in task :
                \/ t \in task'
                \/ f.kind = "changed" /\ f.row = t.sees /\ t.sees # None
  PROVE  Served
<1>1. /\ wire' \in Seq(FrameSet)
      /\ Frames' = Frames \cup (IF f.kind = "changed" THEN {f.row} ELSE {})
      /\ \A i \in 1..Len(wire') :
           \/ i \in 1..Len(wire) /\ wire'[i] = wire[i]
           \/ i = Len(wire) + 1 /\ wire'[i] = f
  BY FrameAdded DEF Base
<1>2. Grown /\ Existing' = Existing
  BY SameGrows DEF Base
<1>3. ASSUME sock' = "subscribed", NEW k \in Message, Pending(k)
      PROVE  Pending(k)'
  <2>1. CASE \E v \in Frames : v.id = k /\ v.rev = rev[k]
    BY <1>1, <2>1 DEF Pending
  <2>2. ASSUME NEW t \in task, t.id = k, t.sees = None \/ t.sees.rev = rev[k] PROVE Pending(k)'
    <3>1. CASE t \in task'
      BY <2>2, <3>1 DEF Pending
    <3>2. CASE t \notin task'
      <4>1. f.kind = "changed" /\ f.row = t.sees /\ t.sees # None
        BY <1>3, <3>2
      <4>2. t.sees.id = k /\ t.sees.rev = rev[k] /\ t.sees \in Frames'
        BY <1>1, <2>2, <4>1 DEF Base, Deliveries
      <4>3. QED BY <4>2 DEF Pending
    <3>3. QED BY <3>1, <3>2
  <2>3. QED BY <1>3, <2>1, <2>2 DEF Pending
<1>4. \A v \in Coming' : v \in Coming
  BY <1>1 DEF Coming
<1>5. Deliveries'
  BY <1>1, <1>2 DEF Base, Deliveries
<1>6. Sync'
  <2>1. UNCHANGED <<snapshot, syncing, origin>> /\ Live' = Live
    BY DEF page, requests, Live
  <2>2. sock' \notin {"opening", "waiting"}
    OBVIOUS
  <2>3. ASSUME NEW i \in 1..Len(wire'), wire'[i].kind = "subscribed"
        PROVE  i = 1 /\ syncing /\ ~Live
    <3>1. CASE i \in 1..Len(wire) /\ wire'[i] = wire[i]
      BY <2>3, <3>1 DEF Base, Sync
    <3>2. CASE i = Len(wire) + 1 /\ wire'[i] = f
      <4>1. sock = "opening"
        BY <2>3, <3>2
      <4>2. wire = <<>> /\ syncing /\ ~Live
        BY <4>1 DEF Base, Sync
      <4>3. QED BY <3>2, <4>2
    <3>3. QED BY <1>1, <3>1, <3>2
  <2>4. QED BY <2>1, <2>2, <2>3 DEF Base, Sync
<1>7. QED BY <1>2, <1>3, <1>4, <1>5, <1>6 DEF Served

LEMMA ServerServed ==
  ASSUME Base,
         \/ \E m \in Message, deleted \in BOOLEAN :
              ChangeElsewhere(m, deleted) \/ ChangeHere(m, deleted)
         \/ Remove \/ Sweep \/ Subscribe
         \/ \E t \in task : TaskRead(t) \/ TaskPush(t)
  PROVE  Served
<1>1. /\ Frame("revoked", None) \in FrameSet /\ Frame("subscribed", None) \in FrameSet
      /\ \A v \in RowSet : Frame("changed", v) \in FrameSet
      /\ \A kind, v : Frame(kind, v).kind = kind /\ Frame(kind, v).row = v
  BY DEF Frame, FrameSet
<1>2. CASE Remove
  <2>1. UNCHANGED <<rev, gone, task, sock, wire, answer, page, requests>>
    BY <1>2 DEF Remove
  <2>2. Grown /\ Existing' = Existing /\ Frames' = Frames /\ Coming' = Coming
    BY <2>1, SameGrows DEF Base, Frames, Coming
  <2>3. \A k : Pending(k)' <=> Pending(k)
    BY <2>1, <2>2 DEF Pending
  <2>4. Deliveries' /\ Sync'
    BY <2>1, <2>2 DEF Base, Deliveries, Sync, Live, page, requests
  <2>5. QED BY <2>1, <2>2, <2>3, <2>4 DEF Served
<1>3. CASE Sweep
  BY <1>1, <1>3, FrameServed DEF Sweep, Revoked, server
<1>4. CASE Subscribe
  BY <1>1, <1>4, FrameServed DEF Subscribe, Revoked, server
<1>5. ASSUME NEW t \in task, TaskPush(t) PROVE Served
  <2>1. /\ t.sees # None /\ t.sees \in Coming /\ task' = task \ {t}
        /\ UNCHANGED <<rev, gone, answer, page, requests>>
    BY <1>5 DEF TaskPush, Coming, server
  <2>2. t.sees \in RowSet
    BY <2>1, SoundRow DEF Base, AllSound
  <2>3. CASE member
    <3>1. wire' = Append(wire, Frame("changed", t.sees)) /\ UNCHANGED sock
      BY <1>5, <2>3 DEF TaskPush
    <3>2. sock \notin {"opening", "waiting"}
      BY <2>1 DEF Base, Sync
    <3>3. QED BY <1>1, <2>1, <2>2, <3>1, <3>2, FrameServed
  <2>4. CASE ~member
    BY <1>1, <1>5, <2>1, <2>4, FrameServed DEF TaskPush, Revoked
  <2>5. QED BY <2>3, <2>4
<1>6. ASSUME NEW t \in task, TaskRead(t) PROVE Served
  <2>1. /\ UNCHANGED <<rev, gone, sock, wire, answer, page, requests>>
        /\ task' = (task \ {t}) \cup
             (IF sock = "subscribed" THEN {[t EXCEPT !.sees = Current(t.id)]} ELSE {})
    BY <1>6 DEF TaskRead, server
  <2> DEFINE u == [t EXCEPT !.sees = Current(t.id)]
  <2>2. Grown /\ Existing' = Existing /\ Frames' = Frames /\ UNCHANGED Current(t.id)
    BY <2>1, SameGrows DEF Base, Frames, Current, Fact
  <2>3. t.id \in Existing /\ u = [id |-> t.id, of |-> t.of, sees |-> Current(t.id)]
    BY DEF Base, Deliveries
  <2>4. /\ Sound(Current(t.id)) /\ Current(t.id).id = t.id /\ Current(t.id).rev = rev[t.id]
        /\ ~Current(t.id).gone /\ ReplyTo[t.id] # None =>
             Current(t.id).quote.rev = rev[ReplyTo[t.id]]
    <3>1. Fact(ReplyTo[t.id]).rev = rev[ReplyTo[t.id]]
      BY DEF Fact
    <3>2. QED BY <2>3, <3>1, CurrentIs DEF Base
  <2>5. Recent(Current(t.id))'
    BY <2>1, <2>2, <2>4, SoundStays DEF Recent, Base
  <2> HIDE DEF u
  <2>6. \A v \in Coming' : v \in Coming \/ v = Current(t.id)
    BY <2>1, <2>2, <2>3 DEF Coming, u
  <2>7. sock = "subscribed" => \A k \in Message : Pending(k) => Pending(k)'
    BY <2>1, <2>2, <2>3, <2>4 DEF Pending, u
  <2>8. Deliveries'
    BY <2>1, <2>2, <2>3, <2>4 DEF Base, Deliveries, u
  <2>9. Sync'
    BY <2>1 DEF Base, Sync, Live, page, requests
  <2>10. QED BY <2>1, <2>2, <2>5, <2>6, <2>7, <2>8, <2>9 DEF Served
<1>7. QED BY <1>2, <1>3, <1>4, <1>5, <1>6, ChangesServed

\* While the subscription stands, what is known of a message stays so or a frame will tell.
LEMMA LateStays ==
  ASSUME Base, Served, sock = "subscribed", sock' = "subscribed",
         NEW v, Sound(v), NEW V, NEW P, Late(v, V, P)
  PROVE  Late(v, V, P)'
<1> DEFINE q == ReplyTo[v.id]
<1> SUFFICES ASSUME ~v.gone, q # None, v.id \in Newest'
             PROVE  \/ v.quote.rev = rev'[q] \/ Pending(q)' \/ Has(V, q)'
                    \/ \E u \in P : u.id = v.id /\ u.rev >= v.rev
  BY DEF Late
<1>1. v.id \in Existing /\ q \in Message
  BY ReplyIs DEF Sound
<1>2. v.id \in Newest
  BY <1>1, NewestStays DEF Base, Served
<1>3. CASE rev'[q] # rev[q]
  BY <1>1, <1>3 DEF Served
<1>4. CASE rev'[q] = rev[q]
  <2>1. Pending(q) => Pending(q)'
    BY <1>1, <1>4 DEF Served
  <2>2. Has(V, q) => Has(V, q)'
    BY <1>4 DEF Has
  <2>3. QED BY <1>2, <1>4, <2>1, <2>2 DEF Late
<1>5. QED BY <1>3, <1>4

LEMMA ServerBase ==
  ASSUME Base, Served, Inv'
  PROVE  Base'
<1>1. /\ UNCHANGED <<view, anchor, buffer, snapshot, jump, older>>
      /\ Existing \subseteq Existing' /\ Numbered' /\ Deliveries' /\ Sync'
  BY DEF Served, page, requests, Grown
<1>2. PageOf(snapshot)' = PageOf(snapshot) /\ PageOf(jump)' = PageOf(jump)
  BY <1>1 DEF PageOf
<1>3. (UNION {Brought(r) : r \in older})' = UNION {Brought(r) : r \in older}
  BY <1>1 DEF Brought
<1>4. \A v : Sound(v) => Sound(v)'
  BY SoundStays DEF Base, Served
<1>5. \A v \in Coming' : v \in Coming \/ Sound(v)'
  BY DEF Served, Recent
<1>6. AllSound'
  BY <1>1, <1>2, <1>3, <1>4, <1>5 DEF Base, AllSound
<1>7. Plain'
  BY <1>1 DEF Base, Plain
<1>8. Requests'
  BY <1>1 DEF Base, Requests, IsRequest
<1>9. QED BY <1>1, <1>6, <1>7, <1>8 DEF Base

LEMMA ServerSnapshot ==
  ASSUME Base, Served, SnapshotCovers
  PROVE  SnapshotCovers'
<1> SUFFICES ASSUME SnapshotHere'
             PROVE  /\ CursorFits(snapshot.page.next)'
                    /\ \A m \in Existing' :
                         Pending(m)' \/ Has(buffer, m)' \/ OnPage(snapshot.page, m)'
                    /\ \A v \in Coming' \cup buffer' : Late(v, buffer, snapshot.page.rows)'
  BY DEF SnapshotCovers
<1>1. UNCHANGED <<buffer, snapshot>> /\ Numbered /\ Grown
  BY DEF Served, page, requests, Base
<1>2. sock' = "subscribed" /\ sock = "subscribed" /\ SnapshotHere
  <2>1. sock' = "subscribed" /\ Live
    BY <1>1 DEF SnapshotHere, Live
  <2>2. sock \in {"opening", "subscribed"} /\ sock # "opening"
    BY <2>1 DEF Served, Base, Sync
  <2>3. QED BY <1>1, <2>1, <2>2 DEF SnapshotHere
<1>3. CursorFits(snapshot.page.next)'
  <2>1. CursorFits(snapshot.page.next)
    BY <1>2 DEF SnapshotCovers
  <2>2. \A n : CursorFits(n) => CursorFits(n)'
    BY <1>1, NewestStays
  <2>3. QED BY <1>1, <2>1, <2>2 DEF CursorFits
<1>4. ASSUME NEW m \in Existing'
      PROVE  Pending(m)' \/ Has(buffer, m)' \/ OnPage(snapshot.page, m)'
  <2>1. m \in Message /\ (rev'[m] = rev[m] => m \in Existing)
    BY DEF Existing
  <2>2. CASE rev'[m] # rev[m]
    BY <2>1, <2>2 DEF Served
  <2>3. CASE rev'[m] = rev[m]
    <3>1. Pending(m) \/ Has(buffer, m) \/ OnPage(snapshot.page, m)
      BY <1>2, <2>1, <2>3 DEF SnapshotCovers
    <3>2. Pending(m) => Pending(m)'
      BY <1>2, <2>1, <2>3 DEF Served
    <3>3. Has(buffer, m) => Has(buffer, m)'
      BY <1>1, <2>3 DEF Has
    <3>4. OnPage(snapshot.page, m) => OnPage(snapshot.page, m)'
      BY <1>1, <2>3 DEF OnPage, Ids, Facts, Only, Below
    <3>5. QED BY <3>1, <3>2, <3>3, <3>4
  <2>4. QED BY <2>2, <2>3
<1>5. ASSUME NEW v \in Coming' \cup buffer'
      PROVE  Late(v, buffer, snapshot.page.rows)'
  <2>1. CASE v \in Coming \cup buffer
    <3>1. Late(v, buffer, snapshot.page.rows) /\ Sound(v)
      BY <1>2, <2>1 DEF SnapshotCovers, Base, AllSound
    <3>2. \A V, P : Late(v, V, P) => Late(v, V, P)'
      BY <1>2, <3>1, LateStays
    <3>3. QED BY <1>1, <3>1, <3>2 DEF Late, Has
  <2>2. CASE Recent(v)'
    BY <2>2 DEF Recent, Late, Has
  <2>3. QED BY <1>1, <2>1, <2>2 DEF Served
<1>6. QED BY <1>3, <1>4, <1>5

LEMMA ServerView ==
  ASSUME Base, Served, ViewCovers
  PROVE  ViewCovers'
<1> SUFFICES ASSUME Shown'
             PROVE  /\ CursorFits(next)' /\ \A m \in Existing' : Reached(m, next)'
                    /\ \A r \in Waiting' :
                         /\ r.before # None /\ CursorFits(r.before)'
                         /\ \A m \in Existing' : Reached(m, r.before)'
                         /\ r.state = "answered" => Continues(r)'
                    /\ \A m \in Newest' : Pending(m)' \/ Has(view, m)'
                    /\ \A w \in view' : Quoting(w)'
                    /\ \A v \in Coming' : Late(v, view, view)'
  BY DEF ViewCovers
<1>1. UNCHANGED <<view, next, anchor, origin, older>> /\ Numbered /\ Grown
  BY DEF Served, page, requests, Base
<1>2. sock' = "subscribed" /\ sock = "subscribed" /\ Shown
  <2>1. sock' = "subscribed" /\ origin = "snapshot"
    BY <1>1 DEF Shown
  <2>2. sock \in {"opening", "subscribed"} /\ sock # "opening"
    BY <2>1 DEF Served, Base, Sync
  <2>3. QED BY <1>1, <2>1, <2>2 DEF Shown
<1>3. \A n : CursorFits(n) => CursorFits(n)'
  BY <1>1, NewestStays
<1>4. \A m \in Message : rev'[m] = rev[m] \/ Pending(m)'
  BY DEF Served
<1>5. \A m \in Message : rev'[m] = rev[m] /\ Pending(m) => Pending(m)'
  BY <1>2 DEF Served
<1>6. \A m \in Existing' : m \in Message /\ (rev'[m] = rev[m] => m \in Existing)
  BY DEF Existing
<1>7. \A n : (\A m \in Existing : Reached(m, n)) => (\A m \in Existing' : Reached(m, n)')
  <2> SUFFICES ASSUME NEW n, \A m \in Existing : Reached(m, n), NEW m \in Existing'
               PROVE  Reached(m, n)'
    OBVIOUS
  <2>1. CASE Pending(m)'
    BY <2>1 DEF Reached
  <2>2. CASE ~Pending(m)'
    <3>1. Reached(m, n) /\ ~Pending(m)
      BY <1>4, <1>5, <1>6, <2>2
    <3>2. QED BY <1>1, <3>1 DEF Reached, Below, Ids
  <2>3. QED BY <2>1, <2>2
<1>8. CursorFits(next)' /\ \A m \in Existing' : Reached(m, next)'
  <2>1. CursorFits(next) /\ \A m \in Existing : Reached(m, next)
    BY <1>2 DEF ViewCovers
  <2>2. QED BY <1>1, <1>3, <1>7, <2>1 DEF CursorFits, Reached
<1>9. ASSUME NEW r \in Waiting'
      PROVE  /\ r.before # None /\ CursorFits(r.before)'
             /\ \A m \in Existing' : Reached(m, r.before)'
             /\ r.state = "answered" => Continues(r)'
  <2>1. r \in Waiting
    BY <1>1 DEF Waiting
  <2>2. /\ r.before # None /\ CursorFits(r.before) /\ \A m \in Existing : Reached(m, r.before)
        /\ r.state = "answered" => Continues(r)
    BY <1>2, <2>1 DEF ViewCovers
  <2>3. ASSUME r.state = "answered" PROVE Continues(r)'
    <3>1. Continues(r)
      BY <2>2, <2>3
    <3>2. Existing \subseteq Existing'
      BY <1>1 DEF Grown
    <3>3. ASSUME NEW m \in Existing', m < r.before
          PROVE  m \in Ids(r.page.rows) \/ Below(m, r.page.next)
      <4>1. r.before \in Existing
        BY <2>2 DEF CursorFits
      <4>2. m \in Existing
        BY <3>3, <4>1, <1>1, <1>6 DEF Numbered
      <4>3. QED BY <3>1, <3>3, <4>2 DEF Continues
    <3>4. QED BY <3>1, <3>2, <3>3 DEF Continues
  <2>4. QED BY <1>3, <1>7, <2>2, <2>3
<1>10. ASSUME NEW m \in Newest' PROVE Pending(m)' \/ Has(view, m)'
  <2>1. m \in Existing'
    BY <1>1, NewestStays
  <2>2. CASE rev'[m] = rev[m]
    <3>1. m \in Newest
      BY <1>1, <1>6, <2>1, <2>2, NewestStays
    <3>2. Pending(m) \/ Has(view, m)
      BY <1>2, <3>1 DEF ViewCovers
    <3>3. Has(view, m) => Has(view, m)'
      BY <1>1, <2>2 DEF Has
    <3>4. QED BY <1>5, <1>6, <2>1, <2>2, <3>2, <3>3
  <2>3. QED BY <1>4, <1>6, <2>1, <2>2
<1>11. ASSUME NEW w \in view' PROVE Quoting(w)'
  <2> DEFINE q == ReplyTo[w.id]
  <2> SUFFICES ASSUME w.id \in Newest', ~w.gone, q # None
               PROVE  Pending(q)' \/ w.quote.rev = rev'[q]
    BY DEF Quoting
  <2>1. w \in view /\ Quoting(w) /\ Sound(w)
    BY <1>1, <1>2 DEF ViewCovers, Base, AllSound
  <2>2. w.id \in Newest /\ q \in Message
    BY <1>1, <2>1, NewestStays, ReplyIs DEF Sound
  <2>3. Pending(q) \/ w.quote.rev = rev[q]
    BY <2>1, <2>2 DEF Quoting
  <2>4. QED BY <1>4, <1>5, <2>2, <2>3
<1>12. ASSUME NEW v \in Coming' PROVE Late(v, view, view)'
  <2>1. CASE v \in Coming
    <3>1. Late(v, view, view) /\ Sound(v)
      BY <1>2, <2>1 DEF ViewCovers, Base, AllSound
    <3>2. \A V, P : Late(v, V, P) => Late(v, V, P)'
      BY <1>2, <3>1, LateStays
    <3>3. QED BY <1>1, <3>1, <3>2 DEF Late, Has
  <2>2. CASE Recent(v)'
    BY <2>2 DEF Recent, Late, Has
  <2>3. QED BY <2>1, <2>2 DEF Served
<1>13. QED BY <1>8, <1>9, <1>10, <1>11, <1>12

-----------------------------------------------------------------------------
(* What the tab does *)

\* What the server has does not change.
Idle == UNCHANGED <<rev, gone>>

LEMMA IdleSame ==
  ASSUME Idle
  PROVE  /\ UNCHANGED <<Existing, Newest>>
         /\ \A v : Sound(v)' <=> Sound(v)
         /\ \A V, m : Has(V, m)' <=> Has(V, m)
         /\ \A n : CursorFits(n)' <=> CursorFits(n)
         /\ \A r : Continues(r)' <=> Continues(r)
         /\ Numbered => Numbered'
<1>1. UNCHANGED <<Existing, Newest>> /\ \A m : Fact(m)' = Fact(m)
  BY DEF Idle, Existing, Newest, Last, Fact
<1>2. QED BY <1>1 DEF Idle, Sound, Known, Own, Has, CursorFits, Continues, Numbered, Below, Ids

\* A row stays late if what is announced stays so or has arrived.
LEMMA LateKept ==
  ASSUME Idle, NEW v, NEW V, NEW P, NEW W, NEW Q, Late(v, V, P),
         \A m : Pending(m) \/ Has(V, m) => Pending(m)' \/ Has(W, m),
         \A u \in P : \E w \in Q : w.id = u.id /\ w.rev >= u.rev,
         \A u \in P \cup Q \cup {v} : u.rev \in Nat
  PROVE  Late(v, W, Q)'
<1> DEFINE q == ReplyTo[v.id]
<1> SUFFICES ASSUME ~v.gone, q # None, v.id \in Newest'
             PROVE  \/ v.quote.rev = rev'[q] \/ Pending(q)' \/ Has(W, q)'
                    \/ \E u \in Q : u.id = v.id /\ u.rev >= v.rev
  BY DEF Late
<1>1. v.id \in Newest /\ UNCHANGED rev /\ (Has(W, q)' <=> Has(W, q))
  BY IdleSame DEF Idle
<1>2. CASE v.quote.rev = rev[q] \/ Pending(q) \/ Has(V, q)
  BY <1>1, <1>2
<1>3. CASE \E u \in P : u.id = v.id /\ u.rev >= v.rev
  <2>1. PICK u \in P : u.id = v.id /\ u.rev >= v.rev
    BY <1>3
  <2>2. PICK w \in Q : w.id = u.id /\ w.rev >= u.rev
    OBVIOUS
  <2>3. w.rev >= v.rev
    <3>1. \A a, b, c \in Nat : a >= b /\ b >= c => a >= c
      OBVIOUS
    <3>2. QED BY <2>1, <2>2, <3>1
  <2>4. QED BY <2>1, <2>2, <2>3
<1>4. QED BY <1>1, <1>2, <1>3 DEF Late

\* A snapshot that is here remains right while no frame for it is lost.
LEMMA SnapshotKept ==
  ASSUME Idle, SnapshotCovers, UNCHANGED <<snapshot, buffer>>, Coming' \subseteq Coming,
         sock' = "subscribed" => sock = "subscribed" /\ \A m : Pending(m) => Pending(m)'
  PROVE  SnapshotCovers'
<1> SUFFICES ASSUME SnapshotHere'
             PROVE  /\ CursorFits(snapshot.page.next)'
                    /\ \A m \in Existing' :
                         Pending(m)' \/ Has(buffer, m)' \/ OnPage(snapshot.page, m)'
                    /\ \A v \in Coming' \cup buffer' : Late(v, buffer, snapshot.page.rows)'
  BY DEF SnapshotCovers
<1>1. SnapshotHere /\ \A m : Pending(m) => Pending(m)'
  BY DEF SnapshotHere
<1>2. UNCHANGED <<Existing, Newest, rev>>
  BY IdleSame DEF Idle
<1>3. CursorFits(snapshot.page.next)'
  BY <1>1, <1>2 DEF SnapshotCovers, CursorFits
<1>4. ASSUME NEW m \in Existing'
      PROVE  Pending(m)' \/ Has(buffer, m)' \/ OnPage(snapshot.page, m)'
  <2>1. Pending(m) \/ Has(buffer, m) \/ OnPage(snapshot.page, m)
    BY <1>1, <1>2 DEF SnapshotCovers
  <2>2. QED BY <1>1, <1>2, <2>1 DEF Has, OnPage, Ids, Facts, Only, Below
<1>5. ASSUME NEW v \in Coming' \cup buffer'
      PROVE  Late(v, buffer, snapshot.page.rows)'
  <2>1. Late(v, buffer, snapshot.page.rows)
    BY <1>1 DEF SnapshotCovers
  <2>2. QED BY <1>1, <1>2, <2>1 DEF Late, Has
<1>6. QED BY <1>3, <1>4, <1>5

\* The same of the view, whatever requests for older messages start at its cursor or go on.
LEMMA ViewKept ==
  ASSUME Idle, ViewCovers, UNCHANGED <<view, next>>, Shown' => Shown,
         \A r \in Waiting' :
           /\ \/ next # None /\ r.before = next
              \/ \E q \in Waiting : r.before = q.before
           /\ r.state = "answered" => r \in Waiting \/ Continues(r),
         Coming' \subseteq Coming, sock' = "subscribed" => \A m : Pending(m) => Pending(m)'
  PROVE  ViewCovers'
<1> SUFFICES ASSUME Shown'
             PROVE  /\ CursorFits(next)' /\ \A m \in Existing' : Reached(m, next)'
                    /\ \A r \in Waiting' :
                         /\ r.before # None /\ CursorFits(r.before)'
                         /\ \A m \in Existing' : Reached(m, r.before)'
                         /\ r.state = "answered" => Continues(r)'
                    /\ \A m \in Newest' : Pending(m)' \/ Has(view, m)'
                    /\ \A w \in view' : Quoting(w)'
                    /\ \A v \in Coming' : Late(v, view, view)'
  BY DEF ViewCovers
<1>1. Shown /\ \A m : Pending(m) => Pending(m)'
  BY DEF Shown
<1>2. UNCHANGED <<Existing, Newest, rev>>
  BY IdleSame DEF Idle
<1>3. \A m, n : Reached(m, n) => Reached(m, n)'
  BY <1>1 DEF Reached, Below
<1>4. CursorFits(next)' /\ \A m \in Existing' : Reached(m, next)'
  <2>1. CursorFits(next) /\ \A m \in Existing : Reached(m, next)
    BY <1>1 DEF ViewCovers
  <2>2. QED BY <1>2, <1>3, <2>1 DEF CursorFits, Reached
<1>5. ASSUME NEW r \in Waiting'
      PROVE  /\ r.before # None /\ CursorFits(r.before)'
             /\ \A m \in Existing' : Reached(m, r.before)'
             /\ r.state = "answered" => Continues(r)'
  <2>1. /\ r.before # None /\ CursorFits(r.before)
        /\ \A m \in Existing : Reached(m, r.before)
        /\ r.state = "answered" => Continues(r)
    BY <1>1 DEF ViewCovers
  <2>2. QED BY <1>2, <1>3, <2>1, IdleSame
<1>6. \A m \in Newest' : Pending(m)' \/ Has(view, m)'
  BY <1>1, <1>2 DEF ViewCovers, Has
<1>7. \A w \in view' : Quoting(w)'
  BY <1>1, <1>2 DEF ViewCovers, Quoting
<1>8. \A v \in Coming' : Late(v, view, view)'
  BY <1>1, <1>2 DEF ViewCovers, Late, Has
<1>9. QED BY <1>4, <1>5, <1>6, <1>7, <1>8

-----------------------------------------------------------------------------
(* Changes merged into what is shown *)

Right(F, m) == \E f \in F : f.rev = rev[m]

LEMMA MergedHas ==
  ASSUME Numbered, NEW cur, NEW inc, \A v \in cur \cup inc : Sound(v),
         NEW m, Has(cur, m) \/ Has(inc, m)
  PROVE  Has(Merge(cur, inc), m)
<1>1. PICK v \in cur \cup inc : v.id = m /\ v.rev = rev[m]
  BY DEF Has
<1>2. PICK w \in Merge(cur, inc) : w.id = v.id /\ w.rev >= v.rev
  BY MergeIs
<1>3. Sound(w) /\ Sound(v)
  BY <1>1, MergeIs
<1>4. w.rev \in Nat /\ v.rev \in Nat
  BY <1>3, SoundRow
<1>5. w.rev <= rev[m]
  BY <1>1, <1>2, <1>3 DEF Sound, Known, Own
<1>6. w.rev = rev[m]
  BY <1>1, <1>2, <1>4, <1>5
<1>7. QED BY <1>1, <1>2, <1>6 DEF Has

\* A merged row among the newest quotes what is so unless a change of it is announced.
LEMMA MergedQuoting ==
  ASSUME Numbered, Idle, NEW cur, NEW inc, \A v \in cur \cup inc : Sound(v),
         \A m : Pending(m) => Pending(m)' \/ Has(inc, m),
         \A v \in cur \cup inc :
           ~v.gone /\ ReplyTo[v.id] # None /\ v.id \in Newest =>
             \/ Pending(ReplyTo[v.id])
             \/ Right(Facts(cur, ReplyTo[v.id]) \cup Facts(inc, ReplyTo[v.id]), ReplyTo[v.id])
             \/ v \notin cur /\ \E u \in cur : u.id = v.id /\ u.rev >= v.rev,
         NEW w \in Merge(cur, inc)
  PROVE  Quoting(w)'
<1> DEFINE q == ReplyTo[w.id]
           F == Facts(cur, q) \cup Facts(inc, q)
<1> SUFFICES ASSUME w.id \in Newest', ~w.gone, q # None
             PROVE  Pending(q)' \/ w.quote.rev = rev'[q]
  BY DEF Quoting
<1>1. UNCHANGED rev /\ w.id \in Newest
  BY IdleSame DEF Idle
<1>2. Sound(w) /\ \A f \in F : f.rev <= w.quote.rev
  BY MergeIs
<1>3. PICK v \in cur \cup inc :
        /\ v.id = w.id /\ v.rev = w.rev /\ v.gone = w.gone
        /\ v \in cur \/ \A u \in cur : u.id = v.id => v.rev > u.rev
  BY MergeIs
<1>4. \A u \in cur \cup inc : u.rev \in Nat
  BY SoundRow
<1>5. v \in cur \/ ~ \E u \in cur : u.id = v.id /\ u.rev >= v.rev
  <2>1. \A a, b \in Nat : a > b => ~(b >= a)
    OBVIOUS
  <2>2. QED BY <1>3, <1>4, <2>1
<1>6. Pending(q) \/ Right(F, q)
  BY <1>1, <1>3, <1>5
<1>7. Has(inc, q) => Right(F, q)
  <2>1. \A u \in inc : u.id = q => Own(u) \in F /\ Own(u).rev = u.rev
    BY FactsKnown DEF Own
  <2>2. QED BY <2>1 DEF Has, Right
<1>8. Right(F, q) => w.quote.rev = rev[q]
  <2>1. w.quote # None /\ Known(w.quote, q)
    BY <1>2 DEF Sound
  <2>2. q \in Message /\ rev[q] \in Nat /\ w.quote.rev \in Nat /\ w.quote.rev <= rev[q]
    BY <1>2, <2>1, ReplyIs DEF Sound, Known, Numbered
  <2>3. QED BY <1>2, <2>2 DEF Right
<1>9. QED BY <1>1, <1>6, <1>7, <1>8

LEMMA MergedView ==
  ASSUME Base, Idle, ViewCovers, Shown, NEW inc,
         \A v \in inc : Sound(v) /\ Late(v, view, view),
         view' = Merge(view, inc), Coming' \subseteq Coming,
         \A m : Pending(m) => Pending(m)' \/ Has(inc, m)
  PROVE  /\ \A m \in Newest' : Pending(m)' \/ Has(view, m)'
         /\ \A w \in view' : Quoting(w)'
         /\ \A v \in Coming' : Late(v, view, view)'
         /\ \A m : Pending(m) \/ m \in Ids(view) => Pending(m)' \/ m \in Ids(view')
         /\ \A v \in inc : v.id \in Ids(view')
<1>1. Numbered /\ \A v \in view \cup Coming \cup inc : Sound(v) /\ v.rev \in Nat
  BY SoundRow DEF Base, AllSound
<1>2. \A m : Has(view, m) \/ Has(inc, m) => Has(view', m)
  BY <1>1, MergedHas
<1>3. \A m : Pending(m) \/ Has(view, m) => Pending(m)' \/ Has(view', m)
  BY <1>2
<1>4. UNCHANGED <<rev, Newest>>
  BY IdleSame DEF Idle
<1>5. \A m \in Newest' : Pending(m)' \/ Has(view, m)'
  BY <1>3, <1>4 DEF ViewCovers, Has
<1>6. ASSUME NEW w \in view' PROVE Quoting(w)'
  <2>1. ASSUME NEW v \in view \cup inc, ~v.gone, ReplyTo[v.id] # None, v.id \in Newest
        PROVE  \/ Pending(ReplyTo[v.id])
               \/ Right(Facts(view, ReplyTo[v.id]) \cup Facts(inc, ReplyTo[v.id]), ReplyTo[v.id])
               \/ v \notin view /\ \E u \in view : u.id = v.id /\ u.rev >= v.rev
    <3> DEFINE q == ReplyTo[v.id]
               F == Facts(view, q) \cup Facts(inc, q)
    <3>1. v.quote # None /\ Sound(v)
      BY <1>1, <2>1 DEF Sound
    <3>2. v.quote \in F
      BY <1>1, <3>1, FactsKnown
    <3>3. v.quote.rev = rev[q] => Right(F, q)
      BY <3>2 DEF Right
    <3>4. Has(view, q) => Right(F, q)
      <4>1. \A u \in view : u.id = q => Own(u) \in F /\ Own(u).rev = u.rev
        BY <1>1, FactsKnown DEF Own
      <4>2. QED BY <4>1 DEF Has, Right
    <3>5. CASE v \in view
      BY <2>1, <3>3, <3>5 DEF ViewCovers, Quoting
    <3>6. CASE v \notin view
      <4>1. Late(v, view, view)
        BY <3>6
      <4>2. \/ v.quote.rev = rev[q] \/ Pending(q) \/ Has(view, q)
            \/ \E u \in view : u.id = v.id /\ u.rev >= v.rev
        BY <2>1, <4>1 DEF Late
      <4>3. QED BY <3>3, <3>4, <3>6, <4>2
    <3>7. QED BY <3>5, <3>6
  <2>2. QED BY <1>1, <1>6, <2>1, MergedQuoting
<1>7. \A u \in view : \E w \in view' : w.id = u.id /\ w.rev >= u.rev
  BY <1>1, MergeIs
<1>8. \A u \in view' : u.rev \in Nat
  BY <1>1, MergeIs, SoundRow
<1>9. ASSUME NEW v \in Coming' PROVE Late(v, view, view)'
  <2>1. Late(v, view, view) /\ v.rev \in Nat
    BY <1>1 DEF ViewCovers
  <2>2. \A W, Q : /\ \A m : Pending(m) \/ Has(view, m) => Pending(m)' \/ Has(W, m)
                  /\ \A u \in view : \E w \in Q : w.id = u.id /\ w.rev >= u.rev
                  /\ \A u \in Q : u.rev \in Nat
                  => Late(v, W, Q)'
    BY <1>1, <2>1, LateKept
  <2>3. QED BY <1>3, <1>7, <1>8, <2>2 DEF Late, Has
<1>10. \A v \in view \cup inc : \E w \in view' : w.id = v.id
  BY <1>1, MergeIs
<1>11. \A m : Pending(m) \/ m \in Ids(view) => Pending(m)' \/ m \in Ids(view')
  <2>1. \A m : Has(view', m) => m \in Ids(view')
    BY DEF Has, Ids
  <2>2. \A m : m \in Ids(view) => m \in Ids(view')
    BY <1>10 DEF Ids
  <2>3. QED BY <1>3, <2>1, <2>2
<1>12. \A v \in inc : v.id \in Ids(view')
  BY <1>10 DEF Ids
<1>13. QED BY <1>5, <1>6, <1>9, <1>11, <1>12

\* merge() of a change that arrives.
LEMMA TakeKeeps ==
  ASSUME Base, SnapshotCovers, ViewCovers, Idle, NEW v \in Coming, ~denied, Take(v),
         UNCHANGED <<sock, next, anchor, syncing, origin, snapshot, jump, older>>,
         Coming' \subseteq Coming, \A m : Pending(m) => Pending(m)' \/ Has({v}, m)
  PROVE  AllSound' /\ Plain' /\ SnapshotCovers' /\ ViewCovers'
<1> DEFINE merged == Merge(view, {v})
<1>1. /\ view' = IF anchor = None THEN merged ELSE Only(merged, Ids(view))
      /\ buffer' = IF syncing THEN buffer \cup {v} ELSE buffer
  BY DEF Take, Filtered
<1>2. Numbered /\ \A u \in view \cup buffer \cup Coming : Sound(u) /\ u.rev \in Nat
  BY SoundRow DEF Base, AllSound
<1>3. UNCHANGED <<rev, Existing, Newest>> /\ \A u : Sound(u) => Sound(u)'
  BY IdleSame DEF Idle
<1>4. /\ \A u \in merged : Sound(u)
      /\ \A u \in merged : u.gone \/ ReplyTo[u.id] = None => u.quote = None
  BY <1>2, MergeIs
<1>5. view' \subseteq merged
  BY <1>1 DEF Only
<1>6. AllSound'
  <2>1. /\ PageOf(snapshot)' = PageOf(snapshot) /\ PageOf(jump)' = PageOf(jump)
        /\ (UNION {Brought(r) : r \in older})' = UNION {Brought(r) : r \in older}
    BY DEF PageOf
  <2>2. \A u \in view' \cup buffer' \cup Coming' : Sound(u)
    BY <1>1, <1>2, <1>4, <1>5
  <2>3. QED BY <1>3, <2>1, <2>2 DEF Base, AllSound
<1>7. Plain'
  BY <1>4, <1>5 DEF Plain
<1>8. SnapshotCovers'
  <2> SUFFICES ASSUME SnapshotHere'
               PROVE  /\ CursorFits(snapshot.page.next)'
                      /\ \A m \in Existing' :
                           Pending(m)' \/ Has(buffer, m)' \/ OnPage(snapshot.page, m)'
                      /\ \A u \in Coming' \cup buffer' :
                           Late(u, buffer, snapshot.page.rows)'
    BY DEF SnapshotCovers
  <2>1. SnapshotHere /\ buffer' = buffer \cup {v}
    BY <1>1 DEF SnapshotHere, Live, Base, Sync
  <2>2. CursorFits(snapshot.page.next)'
    BY <1>3, <2>1 DEF SnapshotCovers, CursorFits
  <2>3. \A m : Pending(m) \/ Has(buffer, m) => Pending(m)' \/ Has(buffer', m)
    BY <2>1 DEF Has
  <2>4. ASSUME NEW m \in Existing'
        PROVE  Pending(m)' \/ Has(buffer, m)' \/ OnPage(snapshot.page, m)'
    <3>1. Pending(m) \/ Has(buffer, m) \/ OnPage(snapshot.page, m)
      BY <1>3, <2>1 DEF SnapshotCovers
    <3>2. OnPage(snapshot.page, m) => OnPage(snapshot.page, m)'
      BY <1>3 DEF OnPage, Ids, Facts, Only, Below
    <3>3. Has(buffer', m) => Has(buffer, m)'
      BY <1>3 DEF Has
    <3>4. QED BY <2>3, <3>1, <3>2, <3>3
  <2>5. ASSUME NEW u \in Coming' \cup buffer' PROVE Late(u, buffer, snapshot.page.rows)'
    <3> DEFINE P == snapshot.page.rows
    <3>1. Late(u, buffer, P) /\ u.rev \in Nat
      BY <1>2, <2>1 DEF SnapshotCovers
    <3>2. \A w \in P : w.rev \in Nat /\ w.rev >= w.rev
      <4>1. \A w \in P : Sound(w)
        BY <2>1 DEF SnapshotHere, Base, AllSound, PageOf, Brought
      <4>2. \A n \in Nat : n >= n
        OBVIOUS
      <4>3. QED BY <4>1, <4>2, SoundRow
    <3>3. \A W, Q : /\ \A m : Pending(m) \/ Has(buffer, m) => Pending(m)' \/ Has(W, m)
                    /\ Q = P
                    => Late(u, W, Q)'
      <4> HIDE DEF P
      <4> QED BY <3>1, <3>2, LateKept
    <3>4. QED BY <2>3, <3>3 DEF Late, Has
  <2>6. QED BY <2>2, <2>4, <2>5
<1>9. ViewCovers'
  <2> SUFFICES ASSUME Shown'
               PROVE  /\ CursorFits(next)' /\ \A m \in Existing' : Reached(m, next)'
                      /\ \A r \in Waiting' :
                           /\ r.before # None /\ CursorFits(r.before)'
                           /\ \A m \in Existing' : Reached(m, r.before)'
                           /\ r.state = "answered" => Continues(r)'
                      /\ \A m \in Newest' : Pending(m)' \/ Has(view, m)'
                      /\ \A w \in view' : Quoting(w)'
                      /\ \A u \in Coming' : Late(u, view, view)'
    BY DEF ViewCovers
  <2>1. Shown /\ view' = merged
    BY <1>1 DEF Shown
  <2>2. Sound(v) /\ Late(v, view, view)
    BY <1>2, <2>1 DEF ViewCovers
  <2>3. /\ \A m \in Newest' : Pending(m)' \/ Has(view, m)'
        /\ \A w \in view' : Quoting(w)'
        /\ \A u \in Coming' : Late(u, view, view)'
        /\ \A m : Pending(m) \/ m \in Ids(view) => Pending(m)' \/ m \in Ids(view')
    BY <2>1, <2>2, MergedView
  <2>4. \A m, n : Reached(m, n) => Reached(m, n)'
    BY <2>3 DEF Reached, Below, Ids
  <2>5. CursorFits(next)' /\ \A m \in Existing' : Reached(m, next)'
    <3>1. CursorFits(next) /\ \A m \in Existing : Reached(m, next)
      BY <2>1 DEF ViewCovers
    <3>2. QED BY <1>3, <2>4, <3>1 DEF CursorFits, Reached
  <2>6. ASSUME NEW r \in Waiting'
        PROVE  /\ r.before # None /\ CursorFits(r.before)'
               /\ \A m \in Existing' : Reached(m, r.before)'
               /\ r.state = "answered" => Continues(r)'
    <3>1. r \in Waiting
      BY DEF Waiting
    <3>2. QED BY <1>3, <2>1, <2>4, <3>1, IdleSame DEF ViewCovers
  <2>7. QED BY <2>3, <2>5, <2>6
<1>10. QED BY <1>6, <1>7, <1>8, <1>9

-----------------------------------------------------------------------------
(* The steps keep what the snapshot and the view cover *)

Showing == Base /\ SnapshotCovers /\ ViewCovers

LEMMA ServerShows ==
  ASSUME Showing, Inv',
         \/ \E m \in Message, deleted \in BOOLEAN :
              ChangeElsewhere(m, deleted) \/ ChangeHere(m, deleted)
         \/ Remove \/ Sweep \/ Subscribe
         \/ \E t \in task : TaskRead(t) \/ TaskPush(t)
  PROVE  Showing'
<1>1. Served
  BY ServerServed DEF Showing
<1>2. QED BY <1>1, ServerBase, ServerSnapshot, ServerView DEF Showing

LEMMA OutdatedIs ==
  ASSUME Requests
  PROVE  \A r \in Outdated :
           /\ r = [before |-> r.before, state |-> r.state, page |-> r.page, outdated |-> r.outdated]
           /\ r.outdated
           /\ \E q \in older : Brought(r) = Brought(q)
<1> SUFFICES ASSUME NEW q \in older, NEW r, r = [q EXCEPT !.outdated = TRUE]
             PROVE  /\ r = [before |-> r.before, state |-> r.state, page |-> r.page,
                            outdated |-> r.outdated]
                    /\ r.outdated /\ Brought(r) = Brought(q)
  BY DEF Outdated
<1>1. q = [before |-> q.before, state |-> q.state, page |-> q.page, outdated |-> q.outdated]
  BY DEF Requests
<1>2. r = [before |-> q.before, state |-> q.state, page |-> q.page, outdated |-> TRUE]
  BY <1>1
<1>3. QED BY <1>2 DEF Brought

LEMMA RevokeShows ==
  ASSUME Showing, Inv', Revoke
  PROVE  Showing'
<1>1. /\ Idle /\ UNCHANGED <<answer, buffer>>
      /\ view' = {} /\ anchor' = None /\ older' = Outdated /\ jump' = None /\ snapshot' = None
      /\ sock' = "closed" /\ wire' = <<>> /\ task' = {t \in task : t.sees = None}
  BY DEF Revoke, Idle, server
<1>2. Frames' = {} /\ Coming' \subseteq Coming
  BY <1>1 DEF Frames, Coming
<1>3. AllSound'
  <2>1. PageOf(snapshot)' = {} /\ PageOf(jump)' = {}
    BY <1>1 DEF PageOf
  <2>2. (UNION {Brought(r) : r \in older})' \subseteq UNION {Brought(r) : r \in older}
    BY <1>1, OutdatedIs DEF Showing, Base, Brought
  <2>3. QED BY <1>1, <1>2, <2>1, <2>2, IdleSame DEF Showing, Base, AllSound
<1>4. Plain'
  BY <1>1 DEF Plain
<1>5. Requests'
  BY <1>1, OutdatedIs DEF Showing, Base, Requests
<1>6. Deliveries'
  BY <1>1, IdleSame DEF Showing, Base, Deliveries
<1>7. Sync'
  BY <1>1 DEF Sync, Live
<1>8. Numbered'
  BY <1>1, IdleSame DEF Showing, Base
<1>9. SnapshotCovers' /\ ViewCovers'
  BY <1>1 DEF SnapshotCovers, SnapshotHere, ViewCovers, Shown
<1>10. QED BY <1>3, <1>4, <1>5, <1>6, <1>7, <1>8, <1>9 DEF Showing, Base

LEMMA ReceiveShows ==
  ASSUME Showing, Inv', Receive
  PROVE  Showing'
<1>1. CASE wire[1].kind = "revoked" /\ Revoke
  BY <1>1, RevokeShows
<1>2. ASSUME wire # <<>>, wire' = Tail(wire), UNCHANGED <<server, task, sock, answer>>
      PROVE  /\ Idle /\ Coming' \subseteq Coming /\ Deliveries' /\ Numbered'
             /\ 1 \in 1..Len(wire) /\ Head(wire) = wire[1]
             /\ \A i \in 1..Len(wire') : wire'[i].kind # "subscribed"
             /\ sock \notin {"opening", "waiting"}
             /\ \A m : Pending(m) =>
                  Pending(m)' \/ (wire[1].kind = "changed" /\ Has({wire[1].row}, m))
             /\ wire[1].kind = "changed" => wire[1].row \in Coming
  <2>1. Deliveries /\ Sync /\ Idle
    BY <1>2 DEF Showing, Base, Idle, server
  <2>2. /\ wire' \in Seq(FrameSet) /\ Head(wire) = wire[1] /\ 1 \in 1..Len(wire)
        /\ Frames' \subseteq Frames
        /\ Frames \subseteq Frames' \cup (IF wire[1].kind = "changed" THEN {wire[1].row} ELSE {})
        /\ wire[1].kind = "changed" => wire[1].row \in Frames
        /\ \A i \in 1..Len(wire') : i + 1 \in 1..Len(wire) /\ wire'[i] = wire[i + 1]
    BY <1>2, <2>1, FrameTaken
  <2>3. Coming' \subseteq Coming /\ (wire[1].kind = "changed" => wire[1].row \in Coming)
    BY <1>2, <2>2 DEF Coming
  <2>4. Deliveries' /\ Numbered'
    BY <1>2, <2>1, <2>2, IdleSame DEF Showing, Base, Deliveries
  <2>5. ASSUME NEW i \in 1..Len(wire') PROVE wire'[i].kind # "subscribed"
    <3>1. i + 1 # 1 /\ i + 1 \in 1..Len(wire) /\ wire'[i] = wire[i + 1]
      BY <2>2
    <3>2. QED BY <2>1, <3>1 DEF Sync
  <2>6. ASSUME NEW m, Pending(m)
        PROVE  Pending(m)' \/ (wire[1].kind = "changed" /\ Has({wire[1].row}, m))
    BY <1>2, <2>1, <2>2, <2>6 DEF Pending, Has, Idle
  <2>7. QED BY <1>2, <2>1, <2>2, <2>3, <2>4, <2>5, <2>6 DEF Sync
<1>3. ASSUME wire # <<>>, wire[1].kind = "subscribed", snapshot' = Request(anchor, TRUE),
             wire' = Tail(wire), UNCHANGED <<server, task, sock, answer, page, jump, older>>
      PROVE  Showing'
  <2>1. /\ Idle /\ Coming' \subseteq Coming /\ Deliveries' /\ Numbered'
        /\ 1 \in 1..Len(wire) /\ \A i \in 1..Len(wire') : wire'[i].kind # "subscribed"
        /\ sock \notin {"opening", "waiting"}
        /\ \A m : Pending(m) => Pending(m)'
    BY <1>2, <1>3
  <2>2. /\ UNCHANGED <<view, next, anchor, buffer, syncing, origin>>
        /\ snapshot' = [anchor |-> anchor, live |-> TRUE, state |-> "asked", page |-> None]
    BY <1>3 DEF page, Request
  <2>3. /\ PageOf(snapshot)' = {} /\ PageOf(jump)' = PageOf(jump)
        /\ (UNION {Brought(r) : r \in older})' = UNION {Brought(r) : r \in older}
    <3>1. snapshot'.state = "asked"
      BY <2>2
    <3>2. QED BY <1>3, <3>1 DEF PageOf, Brought
  <2>4. AllSound'
    BY <1>3, <2>1, <2>2, <2>3, IdleSame DEF Showing, Base, AllSound
  <2>5. Plain'
    BY <2>2 DEF Showing, Base, Plain
  <2>6. Requests'
    <3>1. UNCHANGED Existing /\ anchor \in Existing \cup {None}
      BY <2>1, IdleSame DEF Showing, Base, Requests
    <3>2. IsRequest(snapshot)'
      BY <2>2, <3>1 DEF IsRequest
    <3>3. jump # None => IsRequest(jump)'
      BY <1>3, <3>1 DEF Showing, Base, Requests, IsRequest
    <3>4. QED BY <1>3, <2>2, <3>1, <3>2, <3>3 DEF Showing, Base, Requests
  <2>7. Sync'
    <3>1. syncing
      BY <1>3, <2>1 DEF Showing, Base, Sync
    <3>2. QED BY <1>3, <2>1, <2>2, <3>1 DEF Sync
  <2>8. SnapshotCovers'
    BY <2>2 DEF SnapshotCovers, SnapshotHere
  <2>9. ViewCovers'
    BY <1>3, <2>1, <2>2, ViewKept DEF Showing, Waiting, Shown
  <2>10. QED BY <2>1, <2>4, <2>5, <2>6, <2>7, <2>8, <2>9 DEF Showing, Base
<1>4. ASSUME wire # <<>>, wire[1].kind = "changed", Take(wire[1].row), wire' = Tail(wire),
             UNCHANGED <<server, task, sock, answer, next, anchor, syncing, origin, requests>>
      PROVE  Showing'
  <2>1. /\ Idle /\ Coming' \subseteq Coming /\ Deliveries' /\ Numbered'
        /\ \A i \in 1..Len(wire') : wire'[i].kind # "subscribed"
        /\ sock \notin {"opening", "waiting"}
        /\ wire[1].row \in Coming
        /\ \A m : Pending(m) => Pending(m)' \/ Has({wire[1].row}, m)
    BY <1>2, <1>4
  <2>2. ~denied
    BY <1>4 DEF Showing, Base, Inv, Shut
  <2>3. UNCHANGED <<snapshot, jump, older>>
    BY <1>4 DEF requests
  <2>4. AllSound' /\ Plain' /\ SnapshotCovers' /\ ViewCovers'
    BY <1>4, <2>1, <2>2, <2>3, TakeKeeps DEF Showing
  <2>5. Requests'
    BY <1>4, <2>1, <2>3, IdleSame DEF Showing, Base, Requests, IsRequest
  <2>6. Sync'
    BY <1>4, <2>1, <2>3 DEF Showing, Base, Sync, Live
  <2>7. QED BY <2>1, <2>4, <2>5, <2>6 DEF Showing, Base
<1>5. wire # <<>> => Head(wire) = wire[1]
  BY DEF Showing, Base, Deliveries
<1>6. QED BY <1>1, <1>3, <1>4, <1>5 DEF Receive

LEMMA AnswerShows ==
  ASSUME Showing, Inv', NEW v \in answer, ReceiveAnswer(v)
  PROVE  Showing'
<1>1. /\ Idle
      /\ UNCHANGED <<task, sock, wire, next, anchor, syncing, origin, snapshot, jump, older>>
      /\ answer' = answer \ {v} /\ Take(v) /\ v \in Coming
  BY DEF ReceiveAnswer, Idle, server, requests, Coming
<1>2. Frames' = Frames /\ Coming' \subseteq Coming
  BY <1>1 DEF Frames, Coming
<1>3. \A m : Pending(m) => Pending(m)'
  BY <1>1, <1>2 DEF Pending, Idle
<1>4. AllSound' /\ Plain' /\ SnapshotCovers' /\ ViewCovers'
  <2>1. CASE ~denied
    BY <1>1, <1>2, <1>3, <2>1, TakeKeeps DEF Showing
  <2>2. CASE denied
    <3>1. UNCHANGED <<view, buffer>>
      BY <1>1, <2>2 DEF Take
    <3>2. PageOf(snapshot)' = PageOf(snapshot) /\ PageOf(jump)' = PageOf(jump)
          /\ (UNION {Brought(r) : r \in older})' = UNION {Brought(r) : r \in older}
      BY <1>1 DEF PageOf, Brought
    <3>3. AllSound' /\ Plain'
      BY <1>1, <1>2, <3>1, <3>2, IdleSame DEF Showing, Base, AllSound, Plain
    <3>4. SnapshotCovers'
      BY <1>1, <1>2, <1>3, <3>1, SnapshotKept DEF Showing
    <3>5. ViewCovers'
      BY <1>1, <1>2, <1>3, <3>1, ViewKept DEF Showing, Waiting, Shown
    <3>6. QED BY <3>3, <3>4, <3>5
  <2>3. QED BY <2>1, <2>2
<1>5. Requests' /\ Deliveries' /\ Numbered'
  BY <1>1, IdleSame DEF Showing, Base, Requests, IsRequest, Deliveries
<1>6. Sync'
  BY <1>1 DEF Showing, Base, Sync, Live
<1>7. QED BY <1>4, <1>5, <1>6 DEF Showing, Base

LEMMA ClosedShows ==
  ASSUME Showing, Inv', Closed
  PROVE  Showing'
<1>1. /\ Idle /\ UNCHANGED <<answer, view, anchor, buffer, jump, older>>
      /\ sock' = "waiting" /\ wire' = <<>> /\ task' = {t \in task : t.sees = None}
      /\ snapshot' = IF snapshot # None /\ snapshot.live THEN None ELSE snapshot
      /\ origin' = "lost"
  BY DEF Closed, Idle, server
<1>2. Frames' = {} /\ Coming' \subseteq Coming
  BY <1>1 DEF Frames, Coming
<1>3. /\ PageOf(snapshot)' \subseteq PageOf(snapshot) /\ PageOf(jump)' = PageOf(jump)
      /\ (UNION {Brought(r) : r \in older})' = UNION {Brought(r) : r \in older}
  BY <1>1 DEF PageOf, Brought
<1>4. AllSound' /\ Plain' /\ Numbered'
  BY <1>1, <1>2, <1>3, IdleSame DEF Showing, Base, AllSound, Plain
<1>5. Requests' /\ Deliveries'
  BY <1>1, IdleSame DEF Showing, Base, Requests, IsRequest, Deliveries
<1>6. Sync'
  BY <1>1 DEF Sync, Live
<1>7. SnapshotCovers' /\ ViewCovers'
  BY <1>1 DEF SnapshotCovers, SnapshotHere, ViewCovers, Shown
<1>8. QED BY <1>4, <1>5, <1>6, <1>7 DEF Showing, Base

LEMMA ConnectionsShow ==
  ASSUME Showing, Inv', Disconnect \/ Connect \/ SessionOver
  PROVE  Showing'
<1>1. CASE Connect
  <2>1. /\ Idle /\ UNCHANGED <<task, wire, answer, view, anchor, origin, snapshot, jump, older>>
        /\ sock = "waiting" /\ sock' = "opening" /\ syncing' = TRUE /\ buffer' = {}
    BY <1>1 DEF Connect, Idle, server, requests
  <2>2. Frames' = Frames /\ Coming' = Coming
    BY <2>1 DEF Frames, Coming
  <2>3. /\ PageOf(snapshot)' = PageOf(snapshot) /\ PageOf(jump)' = PageOf(jump)
        /\ (UNION {Brought(r) : r \in older})' = UNION {Brought(r) : r \in older}
    BY <2>1 DEF PageOf, Brought
  <2>4. AllSound' /\ Plain' /\ Numbered'
    BY <2>1, <2>2, <2>3, IdleSame DEF Showing, Base, AllSound, Plain
  <2>5. Requests' /\ Deliveries'
    BY <2>1, IdleSame DEF Showing, Base, Requests, IsRequest, Deliveries
  <2>6. Sync'
    BY <2>1 DEF Showing, Base, Sync, Live
  <2>7. SnapshotCovers' /\ ViewCovers'
    BY <2>1 DEF SnapshotCovers, SnapshotHere, ViewCovers, Shown
  <2>8. QED BY <2>4, <2>5, <2>6, <2>7 DEF Showing, Base
<1>2. QED BY <1>1, ClosedShows, RevokeShows DEF Disconnect, SessionOver

-----------------------------------------------------------------------------
(* Pages that are read *)

LEMMA RowsAre ==
  ASSUME Numbered, NEW S \in SUBSET Existing
  PROVE  \A v \in Rows(S) : Sound(v) /\ v.id \in S /\ v = Current(v.id)
BY CurrentIs DEF Rows

\* Whatever is asked for, what is answered is sound.
LEMMA HistorySound ==
  ASSUME Numbered, NEW a \in Existing \cup {None}
  PROVE  \A v \in History(a).rows : Sound(v)
<1>1. CASE a = None
  <2>1. Existing \in SUBSET Message /\ Last(Existing, PageSize) \subseteq Existing
    BY DEF Existing, Last
  <2>2. History(a).rows = Rows(Last(Existing, PageSize))
    BY <1>1 DEF History, Page
  <2>3. QED BY <2>1, <2>2, RowsAre
<1>2. CASE a # None
  <2> DEFINE half == Max({1, PageSize \div 2})
             ids == {a} \cup Last({k \in Existing : k < a}, half)
                        \cup First({k \in Existing : k > a}, half)
  <2>1. ids \subseteq Existing
    BY <1>2 DEF Last, First
  <2>2. History(a).rows = Rows(ids)
    BY <1>2 DEF History, Around
  <2> HIDE DEF ids
  <2>3. QED BY <2>1, <2>2, RowsAre
<1>3. QED BY <1>1, <1>2

\* The newest page shows the newest messages as they are.
LEMMA NewestPage ==
  ASSUME Numbered
  PROVE  LET p == Page(Existing) IN
         /\ CursorFits(p.next)
         /\ \A m \in Existing : OnPage(p, m)
         /\ \A m \in Newest : \E u \in p.rows : u.id = m /\ u.rev = rev[m]
<1> DEFINE p == Page(Existing)
<1>1. Existing \in SUBSET Message /\ Newest \subseteq Existing
  BY DEF Existing, Newest, Last
<1>2. /\ p.rows = {Current(m) : m \in Newest}
      /\ p.next # None => p.next \in Existing /\ \A m \in Newest : p.next <= m
      /\ \A m \in Existing : m \in Newest \/ (p.next # None /\ m < p.next)
  BY <1>1, PageIs DEF Newest
<1> HIDE DEF p
<1>3. ASSUME NEW m, NEW f \in Facts(p.rows, m) PROVE f.rev = rev[m]
  <2>1. CASE \E v \in p.rows : v.id = m /\ f.rev = v.rev
    BY <1>1, <1>2, <2>1, CurrentIs
  <2>2. CASE \E v \in p.rows : ReplyTo[v.id] = m /\ f = v.quote /\ f # None
    <3>1. PICK k \in Existing : ReplyTo[k] = m /\ f = Current(k).quote /\ f # None
      BY <1>1, <1>2, <2>2, CurrentIs
    <3>2. Current(k).gone \/ ReplyTo[k] = None => Current(k).quote = None
      BY CurrentIs
    <3>3. f = Fact(m)
      BY <3>1, <3>2, CurrentIs
    <3>4. QED BY <3>3 DEF Fact
  <2>3. QED BY <1>3, <2>1, <2>2 DEF Facts, Only
<1>4. \A m \in Newest : \E u \in p.rows : u.id = m /\ u.rev = rev[m]
  BY <1>1, <1>2, CurrentIs
<1>5. QED BY <1>2, <1>3, <1>4 DEF CursorFits, OnPage, Ids, Below, p

LEMMA AnsweredIs ==
  ASSUME NEW r, IsRequest(r), NEW p
  PROVE  /\ IsRequest(Answered(r, p))
         /\ Answered(r, p).anchor = r.anchor /\ Answered(r, p).live = r.live
         /\ Answered(r, p).state = "answered" => Answered(r, p).page = p
         /\ Brought(Answered(r, p)) \subseteq p.rows
<1> DEFINE a == Answered(r, p)
<1>1. r = [anchor |-> r.anchor, live |-> r.live, state |-> r.state, page |-> r.page]
  BY DEF IsRequest
<1>2. \/ a = [anchor |-> r.anchor, live |-> r.live, state |-> "answered", page |-> p]
      \/ a = [anchor |-> r.anchor, live |-> r.live, state |-> "refused", page |-> r.page]
  <2> DEFINE b == [r EXCEPT !.state = "answered"]
  <2>1. b = [anchor |-> r.anchor, live |-> r.live, state |-> "answered", page |-> r.page]
    BY <1>1
  <2>2. [r EXCEPT !.state = "answered", !.page = p] = [b EXCEPT !.page = p]
    OBVIOUS
  <2>3. [b EXCEPT !.page = p]
          = [anchor |-> r.anchor, live |-> r.live, state |-> "answered", page |-> p]
    <3> HIDE DEF b
    <3> QED BY <2>1
  <2>4. [r EXCEPT !.state = "refused"]
          = [anchor |-> r.anchor, live |-> r.live, state |-> "refused", page |-> r.page]
    BY <1>1
  <2>5. QED BY <2>2, <2>3, <2>4 DEF Answered
<1>3. QED BY <1>2 DEF IsRequest, Brought

LEMMA SnapshotReadShows ==
  ASSUME Showing, Inv', SnapshotRead
  PROVE  Showing'
<1> DEFINE p == History(snapshot.anchor)
<1>1. /\ Idle /\ UNCHANGED <<task, sock, wire, answer, view, next, anchor, buffer, syncing, origin,
                             jump, older>>
      /\ snapshot # None /\ snapshot' = Answered(snapshot, p)
  BY DEF SnapshotRead, Idle, server, page
<1>2. Frames' = Frames /\ Coming' = Coming /\ \A m : Pending(m)' <=> Pending(m)
  BY <1>1 DEF Frames, Coming, Pending, Idle
<1>3. Numbered /\ IsRequest(snapshot) /\ UNCHANGED <<Existing, Newest, rev>>
  BY <1>1, IdleSame DEF Showing, Base, Requests, Idle
<1> HIDE DEF p
<1>4. /\ IsRequest(snapshot') /\ snapshot'.anchor = snapshot.anchor
      /\ snapshot'.live = snapshot.live
      /\ snapshot'.state = "answered" => snapshot'.page = p
      /\ Brought(snapshot') \subseteq p.rows
  BY <1>1, <1>3, AnsweredIs
<1>5. AllSound'
  <2>1. \A v \in p.rows : Sound(v)
    BY <1>3, HistorySound DEF IsRequest, p
  <2>2. /\ PageOf(jump)' = PageOf(jump)
        /\ (UNION {Brought(r) : r \in older})' = UNION {Brought(r) : r \in older}
    BY <1>1 DEF PageOf, Brought
  <2>3. PageOf(snapshot)' \subseteq p.rows
    BY <1>4 DEF PageOf, Brought
  <2>4. QED BY <1>1, <1>2, <2>1, <2>2, <2>3, IdleSame DEF Showing, Base, AllSound
<1>6. Plain' /\ Deliveries' /\ Numbered'
  BY <1>1, IdleSame DEF Showing, Base, Plain, Deliveries
<1>7. Requests'
  BY <1>1, <1>3, <1>4 DEF Showing, Base, Requests, IsRequest
<1>8. Sync'
  BY <1>1, <1>4 DEF Showing, Base, Sync, Live
<1>9. SnapshotCovers'
  <2> SUFFICES ASSUME SnapshotHere'
               PROVE  /\ CursorFits(snapshot.page.next)'
                      /\ \A m \in Existing' : OnPage(snapshot.page, m)'
                      /\ \A v \in Coming' \cup buffer' : Late(v, buffer, snapshot.page.rows)'
    BY DEF SnapshotCovers
  <2>1. snapshot'.page = p /\ p = Page(Existing)
    BY <1>4 DEF SnapshotHere, p, History
  <2>2. /\ CursorFits(p.next) /\ \A m \in Existing : OnPage(p, m)
        /\ \A m \in Newest : \E u \in p.rows : u.id = m /\ u.rev = rev[m]
    BY <1>3, <2>1, NewestPage
  <2>3. CursorFits(snapshot.page.next)'
    BY <1>3, <2>1, <2>2 DEF CursorFits
  <2>4. \A m \in Existing' : OnPage(snapshot.page, m)'
    BY <1>3, <2>1, <2>2 DEF OnPage, Ids, Facts, Only, Below
  <2>5. ASSUME NEW v \in Coming' \cup buffer' PROVE Late(v, buffer, snapshot.page.rows)'
    <3>1. Sound(v) /\ v.rev \in Nat
      BY <1>1, <1>2, SoundRow DEF Showing, Base, AllSound
    <3>2. v.rev <= rev[v.id] /\ rev[v.id] \in Nat
      BY <1>3, <3>1 DEF Sound, Known, Own, Numbered, Existing
    <3>3. ASSUME v.id \in Newest PROVE \E u \in p.rows : u.id = v.id /\ u.rev >= v.rev
      <4>1. PICK u \in p.rows : u.id = v.id /\ u.rev = rev[v.id]
        BY <2>2, <3>3
      <4>2. rev[v.id] >= v.rev
        BY <3>1, <3>2
      <4>3. QED BY <4>1, <4>2
    <3>4. QED BY <1>3, <2>1, <3>3 DEF Late
  <2>6. QED BY <2>3, <2>4, <2>5
<1>10. ViewCovers'
  BY <1>1, <1>2, ViewKept DEF Showing, Waiting, Shown
<1>11. QED BY <1>5, <1>6, <1>7, <1>8, <1>9, <1>10 DEF Showing, Base

\* A snapshot that is shown brings what it covered into the view.
LEMMA AppliedView ==
  ASSUME Base, SnapshotCovers, SnapshotHere, Idle, UNCHANGED <<task, wire>>,
         Coming' = Coming, next' = snapshot.page.next, older' = Outdated,
         view' = Merge(snapshot.page.rows, buffer)
  PROVE  ViewCovers'
<1> DEFINE rows == snapshot.page.rows
           end == snapshot.page.next
<1>1. /\ CursorFits(end)
      /\ \A m \in Existing : Pending(m) \/ Has(buffer, m) \/ OnPage(snapshot.page, m)
      /\ \A v \in Coming \cup buffer : Late(v, buffer, rows)
  BY DEF SnapshotCovers
<1>2. Numbered /\ \A v \in rows \cup buffer \cup Coming : Sound(v) /\ v.rev \in Nat
  BY SoundRow DEF Base, AllSound, SnapshotHere, PageOf, Brought
<1>3. UNCHANGED <<rev, Existing, Newest>> /\ \A m : Pending(m) => Pending(m)'
  BY IdleSame DEF Idle, Pending, Frames
<1>4. view' = Merge(rows, buffer) /\ next' = end
  OBVIOUS
<1>5. \A m : OnPage(snapshot.page, m) <=>
        (m \in Ids(rows) \/ Below(m, end)) /\ \A f \in Facts(rows, m) : f.rev = rev[m]
  BY DEF OnPage
<1> HIDE DEF rows, end
<1>6. \A m : Has(rows, m) \/ Has(buffer, m) => Has(view', m)
  BY <1>2, <1>4, MergedHas
<1>7. \A v \in rows \cup buffer : \E w \in view' : w.id = v.id /\ w.rev >= v.rev
  BY <1>2, <1>4, MergeIs
<1>8. \A w \in view' : w.rev \in Nat
  BY <1>2, <1>4, MergeIs, SoundRow
<1>9. \A v \in rows \cup buffer : v.id \in Ids(view')
  BY <1>7 DEF Ids
<1>10. CursorFits(next)'
  BY <1>1, <1>3, <1>4 DEF CursorFits
<1>11. ASSUME NEW m \in Existing' PROVE Reached(m, next)'
  <2>1. Pending(m) \/ Has(buffer, m) \/ m \in Ids(rows) \/ Below(m, end)
    BY <1>1, <1>3, <1>5
  <2>2. m \in Ids(rows) \/ Has(buffer, m) => m \in Ids(view')
    BY <1>9 DEF Ids, Has
  <2>3. QED BY <1>3, <1>4, <2>1, <2>2 DEF Reached, Below, Ids
<1>12. Waiting' = {}
  BY OutdatedIs DEF Base, Waiting
<1>13. ASSUME NEW m \in Newest' PROVE Pending(m)' \/ Has(view, m)'
  <2>1. m \in Newest /\ m \in Existing /\ m \in Nat
    BY <1>3, MessageIs DEF Newest, Last, Existing
  <2>2. ~Below(m, end)
    <3>1. end # None => end \in Nat /\ end <= m
      BY <1>1, <2>1, MessageIs DEF CursorFits, Existing
    <3>2. QED BY <2>1, <3>1 DEF Below
  <2>3. m \in Ids(rows) /\ (\A f \in Facts(rows, m) : f.rev = rev[m]) => Has(rows, m)
    <3>1. \A v \in rows : v.id = m => Own(v) \in Facts(rows, m) /\ Own(v).rev = v.rev
      BY <1>2, FactsKnown DEF Own
    <3>2. QED BY <3>1 DEF Ids, Has
  <2>4. Pending(m) \/ Has(view', m)
    BY <1>1, <1>5, <1>6, <2>1, <2>2, <2>3
  <2>5. QED BY <1>3, <2>4 DEF Has
<1>14. ASSUME NEW w \in view' PROVE Quoting(w)'
  <2>1. ASSUME NEW v \in rows \cup buffer, ~v.gone, ReplyTo[v.id] # None, v.id \in Newest
        PROVE  \/ Pending(ReplyTo[v.id])
               \/ Right(Facts(rows, ReplyTo[v.id]) \cup Facts(buffer, ReplyTo[v.id]),
                        ReplyTo[v.id])
               \/ v \notin rows /\ \E u \in rows : u.id = v.id /\ u.rev >= v.rev
    <3> DEFINE q == ReplyTo[v.id]
               F == Facts(rows, q) \cup Facts(buffer, q)
    <3>1. v.quote # None /\ Sound(v)
      BY <1>2, <2>1 DEF Sound
    <3>2. v.quote \in F /\ (v \in rows => v.quote \in Facts(rows, q))
      BY <1>2, <3>1, FactsKnown
    <3>3. v.quote.rev = rev[q] => Right(F, q)
      BY <3>2 DEF Right
    <3>4. Has(buffer, q) => Right(F, q)
      <4>1. \A u \in buffer : u.id = q => Own(u) \in F /\ Own(u).rev = u.rev
        BY <1>2, FactsKnown DEF Own
      <4>2. QED BY <4>1 DEF Has, Right
    <3>5. CASE v \in rows
      <4>1. q \in Existing
        BY <1>2, <3>1, <2>1, ReplyIs DEF Sound, Numbered
      <4>2. Pending(q) \/ Has(buffer, q) \/ v.quote.rev = rev[q]
        BY <1>1, <1>5, <3>2, <3>5, <4>1
      <4>3. QED BY <3>3, <3>4, <4>2
    <3>6. CASE v \notin rows
      <4>1. Late(v, buffer, rows)
        BY <1>1, <3>6
      <4>2. \/ v.quote.rev = rev[q] \/ Pending(q) \/ Has(buffer, q)
            \/ \E u \in rows : u.id = v.id /\ u.rev >= v.rev
        BY <2>1, <4>1 DEF Late
      <4>3. QED BY <3>3, <3>4, <3>6, <4>2
    <3>7. QED BY <3>5, <3>6
  <2>2. QED BY <1>2, <1>3, <1>4, <1>14, <2>1, MergedQuoting
<1>15. ASSUME NEW v \in Coming' PROVE Late(v, view, view)'
  <2>1. Late(v, buffer, rows) /\ v.rev \in Nat
    BY <1>1, <1>2
  <2>2. \A W, Q : /\ \A m : Pending(m) \/ Has(buffer, m) => Pending(m)' \/ Has(W, m)
                  /\ \A u \in rows : \E w \in Q : w.id = u.id /\ w.rev >= u.rev
                  /\ \A u \in Q : u.rev \in Nat
                  => Late(v, W, Q)'
    BY <1>2, <2>1, LateKept
  <2>3. \A m : Pending(m) \/ Has(buffer, m) => Pending(m)' \/ Has(view', m)
    BY <1>3, <1>6
  <2>4. PICK W : W = view'
    OBVIOUS
  <2>5. Late(v, W, W)'
    BY <1>7, <1>8, <2>2, <2>3, <2>4
  <2>6. QED BY <2>4, <2>5 DEF Late, Has
<1>16. QED BY <1>10, <1>11, <1>12, <1>13, <1>14, <1>15 DEF ViewCovers

LEMMA SnapshotApplyShows ==
  ASSUME Showing, Inv', SnapshotApply
  PROVE  Showing'
<1>1. /\ Idle /\ UNCHANGED <<task, sock, wire, answer, anchor, jump>>
      /\ snapshot # None /\ snapshot.state = "answered"
      /\ snapshot' = None /\ buffer' = {} /\ syncing' = ~snapshot.live
      /\ \/ /\ snapshot.anchor = anchor
            /\ view' = Reconciled /\ next' = snapshot.page.next /\ older' = Outdated
            /\ origin' = IF snapshot.live THEN "snapshot" ELSE "lost"
         \/ origin' = "lost" /\ UNCHANGED <<view, older>>
  BY DEF SnapshotApply, Idle, server
<1>2. Frames' = Frames /\ Coming' = Coming
  BY <1>1 DEF Frames, Coming
<1>3. Numbered /\ \A v \in snapshot.page.rows \cup buffer : Sound(v)
  BY <1>1 DEF Showing, Base, AllSound, PageOf, Brought
<1>4. \A v \in Merge(snapshot.page.rows, buffer) :
        Sound(v) /\ (v.gone \/ ReplyTo[v.id] = None => v.quote = None)
  BY <1>3, MergeIs
<1>5. view' = view \/ view' \subseteq Merge(snapshot.page.rows, buffer)
  BY <1>1 DEF Reconciled, Only
<1>6. AllSound'
  <2>1. PageOf(jump)' = PageOf(jump) /\ PageOf(snapshot)' = {}
    BY <1>1 DEF PageOf, Brought
  <2>2. (UNION {Brought(r) : r \in older})' \subseteq UNION {Brought(r) : r \in older}
    BY <1>1, OutdatedIs DEF Showing, Base, Brought
  <2>3. QED BY <1>1, <1>2, <1>4, <1>5, <2>1, <2>2, IdleSame DEF Showing, Base, AllSound
<1>7. Plain'
  BY <1>4, <1>5 DEF Showing, Base, Plain
<1>8. Requests'
  BY <1>1, IdleSame, OutdatedIs DEF Showing, Base, Requests, IsRequest
<1>9. Deliveries' /\ Numbered'
  BY <1>1, IdleSame DEF Showing, Base, Deliveries
<1>10. Sync'
  <2>1. sock \in {"opening", "waiting"} => ~snapshot.live
    BY <1>1 DEF Showing, Base, Sync, Live
  <2>2. \A i \in 1..Len(wire) : wire[i].kind = "subscribed" => ~snapshot.live
    BY <1>1 DEF Showing, Base, Sync, Live
  <2>3. QED BY <1>1, <2>1, <2>2 DEF Showing, Base, Sync, Live
<1>11. SnapshotCovers'
  BY <1>1 DEF SnapshotCovers, SnapshotHere
<1>12. ViewCovers'
  <2> SUFFICES ASSUME Shown' PROVE ViewCovers'
    BY DEF ViewCovers
  <2>1. /\ SnapshotHere /\ older' = Outdated /\ next' = snapshot.page.next
        /\ view' = Merge(snapshot.page.rows, buffer)
    BY <1>1 DEF Shown, SnapshotHere, Reconciled
  <2>2. QED BY <1>1, <1>2, <2>1, AppliedView DEF Showing
<1>13. QED BY <1>6, <1>7, <1>8, <1>9, <1>10, <1>11, <1>12 DEF Showing, Base

LEMMA SnapshotsShow ==
  ASSUME Showing, Inv', SnapshotRead \/ SnapshotApply \/ SnapshotRefused \/ SnapshotFail
  PROVE  Showing'
<1>1. CASE SnapshotFail /\ ~snapshot.live
  <2>1. /\ Idle
        /\ UNCHANGED <<task, sock, wire, answer, view, next, anchor, buffer, syncing, origin,
                       jump, older>>
        /\ snapshot' = None
    BY <1>1 DEF SnapshotFail, Idle, server
  <2>2. Frames' = Frames /\ Coming' = Coming /\ \A m : Pending(m)' <=> Pending(m)
    BY <2>1 DEF Frames, Coming, Pending, Idle
  <2>3. /\ PageOf(snapshot)' = {} /\ PageOf(jump)' = PageOf(jump)
        /\ (UNION {Brought(r) : r \in older})' = UNION {Brought(r) : r \in older}
    BY <2>1 DEF PageOf, Brought
  <2>4. AllSound' /\ Plain' /\ Numbered'
    BY <2>1, <2>2, <2>3, IdleSame DEF Showing, Base, AllSound, Plain
  <2>5. Requests' /\ Deliveries'
    BY <2>1, IdleSame DEF Showing, Base, Requests, IsRequest, Deliveries
  <2>6. Sync'
    BY <2>1 DEF Showing, Base, Sync, Live
  <2>7. SnapshotCovers'
    BY <2>1 DEF SnapshotCovers, SnapshotHere
  <2>8. ViewCovers'
    BY <2>1, <2>2, ViewKept DEF Showing, Waiting, Shown
  <2>9. QED BY <2>4, <2>5, <2>6, <2>7, <2>8 DEF Showing, Base
<1>2. SnapshotFail => Closed \/ ~snapshot.live
  BY DEF SnapshotFail
<1>3. QED BY <1>1, <1>2, SnapshotReadShows, SnapshotApplyShows, RevokeShows, ClosedShows
       DEF SnapshotRefused

-----------------------------------------------------------------------------
(* Older messages and earlier windows *)

\* A request for older messages is sent, answered or over, and the view stays.
LEMMA WindowKept ==
  ASSUME Showing, Idle,
         UNCHANGED <<task, sock, wire, answer, view, anchor, buffer, syncing, origin, snapshot>>
  PROVE  /\ Coming' = Coming /\ \A m : Pending(m)' <=> Pending(m)
         /\ PageOf(snapshot)' = PageOf(snapshot)
         /\ Plain' /\ Deliveries' /\ Numbered' /\ Sync' /\ SnapshotCovers'
         /\ anchor' \in Existing' \cup {None} /\ (snapshot' # None => IsRequest(snapshot)')
<1>1. Frames' = Frames
  BY DEF Frames
<1>2. Coming' = Coming /\ \A m : Pending(m)' <=> Pending(m)
  BY <1>1 DEF Coming, Pending, Idle
<1>3. PageOf(snapshot)' = PageOf(snapshot)
  BY DEF PageOf, Brought
<1>4. Plain' /\ Deliveries' /\ Numbered' /\ Sync'
  BY IdleSame DEF Showing, Base, Plain, Deliveries, Sync, Live
<1>5. anchor' \in Existing' \cup {None} /\ (snapshot' # None => IsRequest(snapshot)')
  BY IdleSame DEF Showing, Base, Requests, IsRequest
<1>6. SnapshotCovers'
  BY <1>2, SnapshotKept DEF Showing
<1>7. QED BY <1>2, <1>3, <1>4, <1>5, <1>6

LEMMA OlderAsked ==
  ASSUME Showing, Inv', Older
  PROVE  Showing'
<1> DEFINE r == [before |-> next, state |-> "asked", page |-> None, outdated |-> FALSE]
<1>1. /\ Idle /\ next # None /\ older' = older \cup {r}
      /\ UNCHANGED <<task, sock, wire, answer, view, next, anchor, buffer, syncing, origin,
                     snapshot, jump>>
  BY DEF Older, Idle, server, page
<1>2. /\ Coming' = Coming /\ \A m : Pending(m)' <=> Pending(m)
      /\ PageOf(snapshot)' = PageOf(snapshot)
      /\ Plain' /\ Deliveries' /\ Numbered' /\ Sync' /\ SnapshotCovers'
      /\ anchor' \in Existing' \cup {None} /\ (snapshot' # None => IsRequest(snapshot)')
  BY <1>1, WindowKept
<1>3. /\ r.before = next /\ r.state = "asked"
      /\ r = [before |-> r.before, state |-> r.state, page |-> r.page, outdated |-> r.outdated]
  OBVIOUS
<1> HIDE DEF r
<1>4. AllSound'
  <2>1. PageOf(jump)' = PageOf(jump)
    BY <1>1 DEF PageOf, Brought
  <2>2. Brought(r) = {}
    BY <1>3 DEF Brought
  <2>3. (UNION {Brought(q) : q \in older})' = UNION {Brought(q) : q \in older}
    BY <1>1, <2>2 DEF Brought
  <2>4. QED BY <1>1, <1>2, <2>1, <2>3, IdleSame DEF Showing, Base, AllSound
<1>5. Requests'
  BY <1>1, <1>2, <1>3, IdleSame DEF Showing, Base, Requests, IsRequest
<1>6. ViewCovers'
  <2>1. \A q \in Waiting' : q = r \/ q \in Waiting
    BY <1>1 DEF Waiting
  <2>2. QED BY <1>1, <1>2, <1>3, <2>1, ViewKept DEF Showing, Shown
<1>7. QED BY <1>2, <1>4, <1>5, <1>6 DEF Showing, Base

LEMMA OlderAnswered ==
  ASSUME Showing, Inv', NEW r \in older, OlderRead(r)
  PROVE  Showing'
<1> DEFINE S == {k \in Existing : k < r.before}
           p == Page(S)
           a == Answered(r, p)
<1>1. /\ Idle /\ older' = (older \ {r}) \cup {a}
      /\ UNCHANGED <<task, sock, wire, answer, view, next, anchor, buffer, syncing, origin,
                     snapshot, jump>>
  BY DEF OlderRead, Idle, server, page
<1>2. /\ Coming' = Coming /\ \A m : Pending(m)' <=> Pending(m)
      /\ PageOf(snapshot)' = PageOf(snapshot)
      /\ Plain' /\ Deliveries' /\ Numbered' /\ Sync' /\ SnapshotCovers'
      /\ anchor' \in Existing' \cup {None} /\ (snapshot' # None => IsRequest(snapshot)')
  BY <1>1, WindowKept
<1>3. \/ a = [before |-> r.before, state |-> "answered", page |-> p, outdated |-> r.outdated]
      \/ a = [before |-> r.before, state |-> "refused", page |-> r.page, outdated |-> r.outdated]
  <2> DEFINE b == [r EXCEPT !.state = "answered"]
  <2>1. r = [before |-> r.before, state |-> r.state, page |-> r.page, outdated |-> r.outdated]
    BY DEF Showing, Base, Requests
  <2> HIDE DEF p
  <2>2. b = [before |-> r.before, state |-> "answered", page |-> r.page, outdated |-> r.outdated]
    BY <2>1
  <2>3. [r EXCEPT !.state = "answered", !.page = p] = [b EXCEPT !.page = p]
    OBVIOUS
  <2>4. [b EXCEPT !.page = p]
          = [before |-> r.before, state |-> "answered", page |-> p, outdated |-> r.outdated]
    <3> HIDE DEF b
    <3> QED BY <2>2
  <2>5. [r EXCEPT !.state = "refused"]
          = [before |-> r.before, state |-> "refused", page |-> r.page, outdated |-> r.outdated]
    BY <2>1
  <2>6. QED BY <2>3, <2>4, <2>5 DEF Answered
<1>4. Numbered /\ S \in SUBSET Existing /\ S \in SUBSET Message
  BY DEF Showing, Base, Existing
<1>5. /\ p.rows = Rows(Last(S, PageSize)) /\ Last(S, PageSize) \subseteq S
      /\ p.next # None => p.next \in S
      /\ \A m \in S : m \in Last(S, PageSize) \/ Below(m, p.next)
  BY <1>4, PageIs DEF Rows, Last, Below
<1> HIDE DEF p
<1>6. \A v \in p.rows : Sound(v) /\ v.id < r.before
  <2>1. Last(S, PageSize) \in SUBSET Existing
    BY <1>4, <1>5
  <2>2. QED BY <1>4, <1>5, <2>1, RowsAre
<1>7. \A m \in Existing : m < r.before => m \in Ids(p.rows) \/ Below(m, p.next)
  <2>1. ASSUME NEW m \in Last(S, PageSize) PROVE m \in Ids(p.rows)
    <3>1. m \in Existing /\ Current(m) \in p.rows
      BY <1>5 DEF Rows
    <3>2. Current(m).id = m
      BY <1>4, <3>1, CurrentIs
    <3>3. QED BY <3>1, <3>2 DEF Ids
  <2>2. QED BY <1>5, <2>1
<1>8. /\ a.before = r.before /\ a.outdated = r.outdated
      /\ a = [before |-> a.before, state |-> a.state, page |-> a.page, outdated |-> a.outdated]
      /\ a.state = "answered" => a.page = p
  BY <1>3
<1>9. p.next # None => p.next \in Existing /\ p.next < r.before
  BY <1>5
<1> HIDE DEF a, S
<1>10. AllSound'
  <2>1. PageOf(jump)' = PageOf(jump)
    BY <1>1 DEF PageOf, Brought
  <2>2. \A v \in Brought(a) : Sound(v)
    BY <1>6, <1>8 DEF Brought
  <2>3. (UNION {Brought(q) : q \in older})'
          \subseteq (UNION {Brought(q) : q \in older}) \cup Brought(a)
    <3>1. \A q \in older' : q \in older \/ q = a
      BY <1>1
    <3>2. QED BY <3>1
  <2>4. QED BY <1>1, <1>2, <2>1, <2>2, <2>3, IdleSame DEF Showing, Base, AllSound
<1>11. Requests'
  BY <1>1, <1>2, <1>8, IdleSame DEF Showing, Base, Requests, IsRequest
<1>12. ViewCovers'
  <2>1. \A q \in Waiting' : q \in Waiting \/ (q = a /\ r \in Waiting)
    BY <1>1, <1>8 DEF Waiting
  <2>2. a.state = "answered" => Continues(a)
    BY <1>6, <1>7, <1>8, <1>9 DEF Continues
  <2>3. QED BY <1>1, <1>2, <1>8, <2>1, <2>2, ViewKept DEF Showing, Shown
<1>13. QED BY <1>2, <1>10, <1>11, <1>12 DEF Showing, Base

LEMMA OlderEnded ==
  ASSUME Showing, Inv', NEW r \in older, NEW lost \in BOOLEAN, OlderEnd(r, lost)
  PROVE  Showing'
<1>1. /\ Idle /\ older' = older \ {r}
      /\ UNCHANGED <<task, sock, wire, answer, anchor, buffer, syncing, origin, snapshot, jump>>
      /\ \/ UNCHANGED <<view, next>>
         \/ /\ r.state = "answered" /\ ~r.outdated
            /\ view' = Merge(view, r.page.rows) /\ next' = r.page.next
  BY DEF OlderEnd, Idle, server
<1>2. (UNION {Brought(q) : q \in older})' \subseteq UNION {Brought(q) : q \in older}
  BY <1>1
<1>3. PageOf(jump)' = PageOf(jump)
  BY <1>1 DEF PageOf, Brought
<1>4. CASE UNCHANGED <<view, next>>
  <2>1. /\ Coming' = Coming /\ \A m : Pending(m)' <=> Pending(m)
        /\ PageOf(snapshot)' = PageOf(snapshot)
        /\ Plain' /\ Deliveries' /\ Numbered' /\ Sync' /\ SnapshotCovers'
        /\ anchor' \in Existing' \cup {None} /\ (snapshot' # None => IsRequest(snapshot)')
    BY <1>1, <1>4, WindowKept
  <2>2. AllSound'
    BY <1>1, <1>2, <1>3, <1>4, <2>1, IdleSame DEF Showing, Base, AllSound
  <2>3. Requests'
    BY <1>1, <2>1, IdleSame DEF Showing, Base, Requests, IsRequest
  <2>4. ViewCovers'
    BY <1>1, <1>4, <2>1, ViewKept DEF Showing, Shown, Waiting
  <2>5. QED BY <2>1, <2>2, <2>3, <2>4 DEF Showing, Base
<1>5. ASSUME r.state = "answered", ~r.outdated,
             view' = Merge(view, r.page.rows), next' = r.page.next
      PROVE  Showing'
  <2> DEFINE rows == r.page.rows
  <2>1. Frames' = Frames
    BY <1>1 DEF Frames
  <2>2. Coming' = Coming /\ \A m : Pending(m)' <=> Pending(m)
    BY <1>1, <2>1 DEF Coming, Pending, Idle
  <2>3. Numbered /\ \A v \in view \cup rows : Sound(v)
    BY <1>5 DEF Showing, Base, AllSound, Brought
  <2> HIDE DEF rows
  <2>4. \A v \in view' : Sound(v) /\ (v.gone \/ ReplyTo[v.id] = None => v.quote = None)
    BY <1>5, <2>3, MergeIs DEF rows
  <2>5. Plain'
    BY <2>4 DEF Plain
  <2>6. PageOf(snapshot)' = PageOf(snapshot)
    BY <1>1 DEF PageOf, Brought
  <2>7. AllSound'
    BY <1>1, <1>2, <1>3, <2>2, <2>4, <2>6, IdleSame DEF Showing, Base, AllSound
  <2>8. Requests' /\ Deliveries' /\ Numbered' /\ Sync'
    BY <1>1, IdleSame DEF Showing, Base, Requests, IsRequest, Deliveries, Sync, Live
  <2>9. SnapshotCovers'
    BY <1>1, <2>2, SnapshotKept DEF Showing
  <2>10. ViewCovers'
    <3> SUFFICES ASSUME Shown'
                 PROVE  /\ CursorFits(next)' /\ \A m \in Existing' : Reached(m, next)'
                        /\ \A q \in Waiting' :
                             /\ q.before # None /\ CursorFits(q.before)'
                             /\ \A m \in Existing' : Reached(m, q.before)'
                             /\ q.state = "answered" => Continues(q)'
                        /\ \A m \in Newest' : Pending(m)' \/ Has(view, m)'
                        /\ \A w \in view' : Quoting(w)'
                        /\ \A v \in Coming' : Late(v, view, view)'
      BY DEF ViewCovers
    <3>1. Shown /\ r \in Waiting /\ UNCHANGED <<rev, Existing, Newest>>
      BY <1>1, <1>5, IdleSame DEF Shown, Waiting, Idle
    <3>2. /\ r.before # None /\ CursorFits(r.before)
          /\ \A m \in Existing : Reached(m, r.before)
          /\ Continues(r)
      BY <1>5, <3>1 DEF Showing, ViewCovers
    <3>3. \A v \in rows : v.id \notin Newest
      <4>1. ASSUME NEW v \in rows, v.id \in Newest PROVE FALSE
        <5>1. v.id < r.before /\ r.before <= v.id
          BY <3>2, <4>1 DEF Continues, CursorFits, rows
        <5>2. v.id \in Nat /\ r.before \in Nat
          BY <2>3, <3>2, MessageIs DEF Sound, CursorFits, Existing
        <5>3. QED BY <5>1, <5>2
      <4>2. QED BY <4>1
    <3>4. \A v \in rows : Sound(v) /\ Late(v, view, view)
      BY <2>3, <3>3 DEF Late
    <3>5. /\ \A m \in Newest' : Pending(m)' \/ Has(view, m)'
          /\ \A w \in view' : Quoting(w)'
          /\ \A v \in Coming' : Late(v, view, view)'
          /\ \A m : Pending(m) \/ m \in Ids(view) => Pending(m)' \/ m \in Ids(view')
          /\ \A v \in rows : v.id \in Ids(view')
      BY <1>1, <1>5, <2>2, <3>1, <3>4, MergedView DEF Showing, rows
    <3>6. CursorFits(next)'
      <4>1. ASSUME r.page.next # None, NEW m \in Newest PROVE r.page.next <= m
        <5>1. r.page.next \in Existing /\ r.page.next < r.before /\ r.before \in Existing
              /\ r.before <= m /\ m \in Existing
          BY <3>2, <4>1 DEF Continues, CursorFits, Newest, Last
        <5>2. r.page.next \in Nat /\ r.before \in Nat /\ m \in Nat
          BY <5>1, MessageIs DEF Existing
        <5>3. QED BY <5>1, <5>2
      <4>2. QED BY <1>5, <3>1, <3>2, <4>1 DEF CursorFits, Continues
    <3>7. ASSUME NEW m \in Existing' PROVE Reached(m, next)'
      <4>1. Pending(m) \/ m \in Ids(view) \/ Below(m, r.before)
        BY <3>1, <3>2 DEF Reached
      <4>2. Below(m, r.before) => m \in Ids(rows) \/ Below(m, r.page.next)
        BY <3>1, <3>2 DEF Below, Continues, rows
      <4>3. m \in Ids(rows) => m \in Ids(view')
        BY <3>5 DEF Ids
      <4>4. QED BY <1>5, <3>5, <4>1, <4>2, <4>3 DEF Reached, Below, Ids
    <3>8. \A m, n : Reached(m, n) => Reached(m, n)'
      BY <3>5 DEF Reached, Below, Ids
    <3>9. ASSUME NEW q \in Waiting'
          PROVE  /\ q.before # None /\ CursorFits(q.before)'
                 /\ \A m \in Existing' : Reached(m, q.before)'
                 /\ q.state = "answered" => Continues(q)'
      <4>1. q \in Waiting
        BY <1>1 DEF Waiting
      <4>2. /\ q.before # None /\ CursorFits(q.before)
            /\ \A m \in Existing : Reached(m, q.before)
            /\ q.state = "answered" => Continues(q)
        BY <3>1, <4>1 DEF Showing, ViewCovers
      <4>3. QED BY <1>1, <3>1, <3>8, <4>2, IdleSame
    <3>10. QED BY <3>5, <3>6, <3>7, <3>9
  <2>11. QED BY <2>5, <2>7, <2>8, <2>9, <2>10 DEF Showing, Base
<1>6. QED BY <1>1, <1>4, <1>5

LEMMA OlderShows ==
  ASSUME Showing, Inv',
         Older \/ \E r \in older : OlderRead(r) \/ \E lost \in BOOLEAN : OlderEnd(r, lost)
  PROVE  Showing'
BY OlderAsked, OlderAnswered, OlderEnded

LEMMA NavigationAsked ==
  ASSUME Showing, Inv', NEW a \in Existing \cup {None}, Navigate(a)
  PROVE  Showing'
<1>1. /\ Idle /\ older' = Outdated
      /\ jump' = [anchor |-> a, live |-> FALSE, state |-> "asked", page |-> None]
      /\ UNCHANGED <<task, sock, wire, answer, view, next, anchor, buffer, syncing, origin,
                     snapshot>>
  BY DEF Navigate, Idle, server, page, Request
<1>2. /\ Coming' = Coming /\ \A m : Pending(m)' <=> Pending(m)
      /\ PageOf(snapshot)' = PageOf(snapshot)
      /\ Plain' /\ Deliveries' /\ Numbered' /\ Sync' /\ SnapshotCovers'
      /\ anchor' \in Existing' \cup {None} /\ (snapshot' # None => IsRequest(snapshot)')
  BY <1>1, WindowKept
<1>3. AllSound'
  <2>1. jump'.state = "asked"
    BY <1>1
  <2>2. PageOf(jump)' = {}
    BY <2>1 DEF PageOf, Brought
  <2>3. (UNION {Brought(r) : r \in older})' \subseteq UNION {Brought(r) : r \in older}
    BY <1>1, OutdatedIs DEF Showing, Base, Brought
  <2>4. QED BY <1>1, <1>2, <2>2, <2>3, IdleSame DEF Showing, Base, AllSound
<1>4. Requests'
  <2>1. IsRequest(jump)'
    BY <1>1, IdleSame DEF IsRequest
  <2>2. QED BY <1>1, <1>2, <2>1, OutdatedIs DEF Showing, Base, Requests
<1>5. ViewCovers'
  <2>1. Waiting' = {}
    BY <1>1, OutdatedIs DEF Showing, Base, Waiting
  <2>2. QED BY <1>1, <1>2, <2>1, ViewKept DEF Showing, Shown
<1>6. QED BY <1>2, <1>3, <1>4, <1>5 DEF Showing, Base

LEMMA JumpAnswered ==
  ASSUME Showing, Inv', JumpRead
  PROVE  Showing'
<1> DEFINE p == History(jump.anchor)
<1>1. /\ Idle /\ jump # None /\ jump' = Answered(jump, p)
      /\ UNCHANGED <<task, sock, wire, answer, view, next, anchor, buffer, syncing, origin,
                     snapshot, older>>
  BY DEF JumpRead, Idle, server, page
<1>2. /\ Coming' = Coming /\ \A m : Pending(m)' <=> Pending(m)
      /\ PageOf(snapshot)' = PageOf(snapshot)
      /\ Plain' /\ Deliveries' /\ Numbered' /\ Sync' /\ SnapshotCovers'
      /\ anchor' \in Existing' \cup {None} /\ (snapshot' # None => IsRequest(snapshot)')
  BY <1>1, WindowKept
<1>3. IsRequest(jump) /\ Numbered
  BY <1>1 DEF Showing, Base, Requests
<1>4. \A v \in p.rows : Sound(v)
  BY <1>3, HistorySound DEF IsRequest
<1> HIDE DEF p
<1>5. IsRequest(jump') /\ Brought(jump') \subseteq p.rows
  BY <1>1, <1>3, AnsweredIs
<1>6. AllSound'
  <2>1. PageOf(jump)' \subseteq p.rows
    BY <1>5 DEF PageOf, Brought
  <2>2. (UNION {Brought(r) : r \in older})' = UNION {Brought(r) : r \in older}
    BY <1>1 DEF Brought
  <2>3. QED BY <1>1, <1>2, <1>4, <2>1, <2>2, IdleSame DEF Showing, Base, AllSound
<1>7. Requests'
  BY <1>1, <1>2, <1>5, IdleSame DEF Showing, Base, Requests, IsRequest
<1>8. ViewCovers'
  BY <1>1, <1>2, ViewKept DEF Showing, Shown, Waiting
<1>9. QED BY <1>2, <1>6, <1>7, <1>8 DEF Showing, Base

LEMMA JumpEnded ==
  ASSUME Showing, Inv', NEW lost \in BOOLEAN, JumpEnd(lost)
  PROVE  Showing'
<1>1. /\ Idle /\ jump # None /\ jump' = None
      /\ UNCHANGED <<task, sock, wire, answer, buffer, syncing, snapshot, older>>
      /\ \/ UNCHANGED <<view, next, anchor, origin>>
         \/ /\ jump.state = "answered" /\ anchor' = jump.anchor
            /\ view' = Only(Merge(view, jump.page.rows), Ids(jump.page.rows))
            /\ origin' = IF origin = "lost" THEN "lost" ELSE "navigation"
  BY DEF JumpEnd, Idle, server
<1>2. PageOf(jump)' = {} /\ (UNION {Brought(r) : r \in older})' = UNION {Brought(r) : r \in older}
  BY <1>1 DEF PageOf, Brought
<1>3. CASE UNCHANGED <<view, next, anchor, origin>>
  <2>1. /\ Coming' = Coming /\ \A m : Pending(m)' <=> Pending(m)
        /\ PageOf(snapshot)' = PageOf(snapshot)
        /\ Plain' /\ Deliveries' /\ Numbered' /\ Sync' /\ SnapshotCovers'
        /\ anchor' \in Existing' \cup {None} /\ (snapshot' # None => IsRequest(snapshot)')
    BY <1>1, <1>3, WindowKept
  <2>2. AllSound'
    BY <1>1, <1>2, <1>3, <2>1, IdleSame DEF Showing, Base, AllSound
  <2>3. Requests'
    BY <1>1, <2>1, IdleSame DEF Showing, Base, Requests
  <2>4. ViewCovers'
    BY <1>1, <1>3, <2>1, ViewKept DEF Showing, Shown, Waiting
  <2>5. QED BY <2>1, <2>2, <2>3, <2>4 DEF Showing, Base
<1>4. ASSUME jump.state = "answered", anchor' = jump.anchor,
             view' = Only(Merge(view, jump.page.rows), Ids(jump.page.rows)),
             origin' = IF origin = "lost" THEN "lost" ELSE "navigation"
      PROVE  Showing'
  <2>1. Frames' = Frames
    BY <1>1 DEF Frames
  <2>2. Coming' = Coming /\ \A m : Pending(m)' <=> Pending(m)
    BY <1>1, <2>1 DEF Coming, Pending, Idle
  <2>3. Numbered /\ \A v \in view \cup jump.page.rows : Sound(v)
    BY <1>1, <1>4 DEF Showing, Base, AllSound, PageOf, Brought
  <2>4. \A v \in view' : Sound(v) /\ (v.gone \/ ReplyTo[v.id] = None => v.quote = None)
    BY <1>4, <2>3, MergeIs DEF Only
  <2>5. Plain'
    BY <2>4 DEF Plain
  <2>6. PageOf(snapshot)' = PageOf(snapshot)
    BY <1>1 DEF PageOf, Brought
  <2>7. AllSound'
    BY <1>1, <1>2, <2>2, <2>4, <2>6, IdleSame DEF Showing, Base, AllSound
  <2>8. Requests'
    BY <1>1, <1>4, IdleSame DEF Showing, Base, Requests, IsRequest
  <2>9. Deliveries' /\ Numbered' /\ Sync'
    BY <1>1, <1>4, IdleSame DEF Showing, Base, Deliveries, Sync, Live
  <2>10. SnapshotCovers'
    BY <1>1, <2>2, SnapshotKept DEF Showing
  <2>11. ViewCovers'
    BY <1>4 DEF ViewCovers, Shown
  <2>12. QED BY <2>5, <2>7, <2>8, <2>9, <2>10, <2>11 DEF Showing, Base
<1>5. QED BY <1>1, <1>3, <1>4

LEMMA NavigationShows ==
  ASSUME Showing, Inv',
         \/ \E a \in Existing \cup {None} : Navigate(a)
         \/ JumpRead \/ \E lost \in BOOLEAN : JumpEnd(lost)
  PROVE  Showing'
BY NavigationAsked, JumpAnswered, JumpEnded

-----------------------------------------------------------------------------
(* The theorems of what is shown *)

LEMMA InitShows == Init => Showing
<1> SUFFICES ASSUME Init PROVE Showing
  OBVIOUS
<1>1. Numbered
  <2>1. \A m \in Message : rev[m] = IF m <= Initial THEN 1 ELSE 0
    BY DEF Init
  <2>2. Existing = {m \in Message : m <= Initial}
    BY <2>1 DEF Existing
  <2>3. \A m \in Existing, k \in Message : k < m => k \in Existing
    <3>1. \A a, b, c \in Nat : a < b /\ b <= c => a <= c
      OBVIOUS
    <3>2. QED BY <2>2, <3>1, MessageIs, BoundsAssumption
  <2>4. QED BY <2>3 DEF Numbered, Init
<1>2. /\ Frames = {} /\ Coming = {} /\ view = {} /\ buffer = {} /\ jump = None /\ older = {}
      /\ task = {} /\ wire = <<>> /\ anchor = None
      /\ snapshot = [anchor |-> None, live |-> FALSE, state |-> "asked", page |-> None]
  BY DEF Init, Frames, Coming, Request
<1>3. snapshot.state = "asked" /\ snapshot.live = FALSE
  BY <1>2
<1>4. AllSound
  BY <1>2, <1>3 DEF AllSound, PageOf, Brought
<1>5. Plain /\ Requests /\ Deliveries
  <2>1. IsRequest(snapshot)
    BY <1>2 DEF IsRequest
  <2>2. <<>> \in Seq(FrameSet)
    OBVIOUS
  <2>3. Plain /\ Deliveries
    BY <1>2, <2>2 DEF Plain, Deliveries
  <2>4. jump = None /\ older = {} /\ anchor = None
    BY <1>2
  <2>5. QED BY <2>1, <2>3, <2>4 DEF Requests
<1>6. Sync
  <2>1. ~Live
    BY <1>3 DEF Live
  <2>2. 1..Len(wire) = {} /\ wire = <<>> /\ task = {}
    BY <1>2
  <2>3. origin = "lost" /\ syncing
    BY DEF Init
  <2>4. QED BY <2>1, <2>2, <2>3 DEF Sync
<1>7. SnapshotCovers /\ ViewCovers
  BY DEF Init, SnapshotCovers, SnapshotHere, ViewCovers, Shown
<1>8. QED BY <1>1, <1>4, <1>5, <1>6, <1>7, InitInv DEF Showing, Base

LEMMA StepShows == Showing /\ [Next]_vars => Showing'
<1> SUFFICES ASSUME Showing, [Next]_vars PROVE Showing'
  OBVIOUS
<1>1. Inv'
  BY StepInv DEF Showing, Base
<1>2. CASE UNCHANGED vars
  <2>1. /\ Idle
        /\ UNCHANGED <<task, sock, wire, answer, view, next, anchor, buffer, syncing, origin,
                       snapshot, jump, older>>
    BY <1>2 DEF vars, server, page, requests, Idle
  <2>2. /\ Coming' = Coming /\ \A m : Pending(m)' <=> Pending(m)
        /\ PageOf(snapshot)' = PageOf(snapshot)
        /\ Plain' /\ Deliveries' /\ Numbered' /\ Sync' /\ SnapshotCovers'
        /\ anchor' \in Existing' \cup {None} /\ (snapshot' # None => IsRequest(snapshot)')
    BY <2>1, WindowKept
  <2>3. /\ PageOf(jump)' = PageOf(jump)
        /\ (UNION {Brought(r) : r \in older})' = UNION {Brought(r) : r \in older}
    BY <2>1 DEF PageOf, Brought
  <2>4. AllSound'
    BY <2>1, <2>2, <2>3, IdleSame DEF Showing, Base, AllSound
  <2>5. Requests'
    BY <2>1, <2>2, IdleSame DEF Showing, Base, Requests, IsRequest
  <2>6. ViewCovers'
    BY <2>1, <2>2, ViewKept DEF Showing, Shown, Waiting
  <2>7. QED BY <1>1, <2>2, <2>4, <2>5, <2>6 DEF Showing, Base
<1>3. CASE Next
  BY <1>1, <1>3, ServerShows, ReceiveShows, AnswerShows, ConnectionsShow, SnapshotsShow,
     OlderShows, NavigationShows DEF Next
<1>4. QED BY <1>2, <1>3

\* What the server knows, what the snapshot under way covers and what the view covers is
\* inductive.
THEOREM Covering == Spec => []Showing
BY InitShows, StepShows, PTL DEF Spec

LEMMA QuietHears == Quiet => \A m : ~Pending(m)
BY DEF Quiet, Pending, Frames

\* Whatever raced with the snapshot of a connection, a tab at the end of the conversation that
\* has heard everything shows the newest messages as they are, quotes included.
THEOREM NewestShown == Spec => []NewestIsCurrent
<1>1. Showing => NewestIsCurrent
  <2> SUFFICES ASSUME Showing, Quiet, origin = "snapshot", anchor = None,
                      NEW m \in Last(Existing, PageSize)
               PROVE  Current(m) \in view
    BY DEF NewestIsCurrent
  <2>1. /\ Shown /\ ViewCovers /\ Numbered /\ m \in Newest /\ m \in Existing
        /\ \A k : ~Pending(k)
    BY QuietHears DEF Quiet, Shown, Showing, Base, Newest, Last
  <2>2. PICK u \in view : u.id = m /\ u.rev = rev[m]
    BY <2>1 DEF ViewCovers, Has
  <2>3. Sound(u) /\ Quoting(u) /\ (u.gone \/ ReplyTo[u.id] = None => u.quote = None)
    BY <2>1 DEF Showing, Base, AllSound, Plain, ViewCovers
  <2> DEFINE c == Current(m)
  <2>4. /\ Sound(c) /\ c.id = m /\ Own(c) = Fact(m)
        /\ c.gone \/ ReplyTo[m] = None => c.quote = None
        /\ ~c.gone /\ ReplyTo[m] # None => c.quote = Fact(ReplyTo[m])
    BY <2>1, CurrentIs
  <2> HIDE DEF c
  <2>5. Own(u) = Own(c)
    BY <2>2, <2>3, <2>4 DEF Sound, Known, Own
  <2>6. u.rev = c.rev /\ u.gone = c.gone
    BY <2>5 DEF Own
  <2>7. u.quote = c.quote
    <3>1. CASE u.gone \/ ReplyTo[m] = None
      BY <2>2, <2>3, <2>4, <2>6, <3>1
    <3>2. CASE ~u.gone /\ ReplyTo[m] # None
      <4>1. u.quote.rev = rev[ReplyTo[m]]
        BY <2>1, <2>2, <2>3, <3>2 DEF Quoting
      <4>2. Known(u.quote, ReplyTo[m])
        BY <2>2, <2>3, <3>2 DEF Sound
      <4>3. QED BY <2>4, <2>6, <3>2, <4>1, <4>2 DEF Known
    <3>3. QED BY <3>1, <3>2
  <2>8. u = c
    <3>1. /\ u = [id |-> u.id, rev |-> u.rev, gone |-> u.gone, quote |-> u.quote]
          /\ c = [id |-> c.id, rev |-> c.rev, gone |-> c.gone, quote |-> c.quote]
      BY <2>3, <2>4 DEF Sound
    <3>2. QED BY <2>2, <2>4, <2>6, <2>7, <3>1
  <2>9. QED BY <2>8 DEF c
<1>2. QED BY Covering, <1>1, PTL

\* What such a tab does not show comes before its cursor: no answer to "older", whatever it
\* raced with, leaves a gap.
THEOREM NoneSkipped == Spec => []NothingSkipped
<1>1. Showing => NothingSkipped
  <2> SUFFICES ASSUME Showing, Quiet, origin = "snapshot", anchor = None,
                      NEW m \in Existing, m \notin Ids(view)
               PROVE  next # None /\ m < next
    BY DEF NothingSkipped
  <2>1. Reached(m, next) /\ ~Pending(m)
    BY QuietHears DEF Quiet, Shown, Showing, ViewCovers
  <2>2. QED BY <2>1 DEF Reached, Below
<1>2. QED BY Covering, <1>1, PTL

-----------------------------------------------------------------------------
(* The inductive invariant of the cache *)

Account == Nat \cup {None}

CacheTypes ==
  /\ truth \in [Path -> Nat] /\ known \in [Path -> Nat]
  /\ cookie \in Account /\ user \in Account
  /\ entry \in [C!Key -> [version : Nat, of : Account, fresh : BOOLEAN] \cup {None}]
  /\ pending \in [Path -> Load \cup {None}]
  /\ generation \in Nat /\ session \in Nat
  /\ load \in [Load -> C!Request \cup {None}]
  /\ reader \in [Reader -> [load : Load, known : Nat] \cup {None}]
  /\ change \in [Path -> Nat \cup {None}]
  /\ mounted \in [View -> [session : Nat, of : Account] \cup {None}]
  /\ got \in [Reader -> [version : Nat, known : Nat] \cup {None}]

\* While somebody is shown, the cookies are theirs or gone.
Cookies == user # None => cookie \in {user, None}

\* The answer of a load is of whoever asked, and a load that is not outdated was asked for by
\* the account that is shown, after the latest change it knows of.
Asked(l) ==
  /\ load[l].generation <= generation
  /\ load[l].version # None => load[l].as # None
  /\ load[l].generation = generation =>
       /\ user # None => load[l].as \in {user, None}
       /\ load[l].version # None => load[l].version >= known[load[l].path]

Loads == \A l \in Load : load[l] # None => Asked(l)

\* What can be joined is under way, for that path, and not outdated.
Listed ==
  \A p \in Path : pending[p] # None =>
    /\ load[pending[p]] # None
    /\ load[pending[p]].path = p /\ load[pending[p]].generation = generation

\* A caller waits for a load that will not disappoint it.
Waited ==
  \A r \in Reader : reader[r] # None =>
    LET l == reader[r].load IN
    /\ load[l] # None
    /\ reader[r].known <= truth[load[l].path]
    /\ load[l].version # None => load[l].version >= reader[r].known

\* Changes are heard of after they are made, and what is kept has those that were heard of.
Heard ==
  \A p \in Path :
    /\ known[p] <= truth[p]
    /\ change[p] # None => change[p] <= truth[p]
    /\ entry[p] # None => entry[p].version >= known[p]

\* A view that may still write belongs to the account that is shown.
Views ==
  \A v \in View : mounted[v] # None =>
    /\ mounted[v].session <= session
    /\ mounted[v].session = session /\ user # None => mounted[v].of = user

CacheInv ==
  /\ CacheTypes /\ Cookies /\ Loads /\ Listed /\ Waited /\ Heard /\ Views
  /\ NothingOfOthers /\ ReadYourWrites

LEMMA CacheInitInv == C!NamesApart /\ C!Init => CacheInv
BY DEF C!NamesApart, C!Init, CacheInv, CacheTypes, Cookies, Loads, Listed, Waited, Heard,
       Views, NothingOfOthers, C!NothingOfOthers, ReadYourWrites, C!ReadYourWrites, Account,
       C!Key

-----------------------------------------------------------------------------
(* The steps of the cache *)

LEMMA ExpireKeeps ==
  ASSUME C!NamesApart, CacheInv, NEW k \in C!Key, C!Expire(k)
  PROVE  CacheInv'
<1> USE DEF CacheInv, CacheTypes, Account
<1>1. CacheTypes'
  <2>1. entry[k] \in [version : Nat, of : Account, fresh : BOOLEAN]
    BY DEF C!Expire
  <2>2. [entry[k] EXCEPT !.fresh = FALSE] \in [version : Nat, of : Account, fresh : BOOLEAN]
    BY <2>1
  <2>3. entry' = [entry EXCEPT ![k] = [entry[k] EXCEPT !.fresh = FALSE]]
    BY DEF C!Expire
  <2>4. QED BY <2>2, <2>3 DEF C!Expire, C!people, C!history
<1>2. Heard'
  BY DEF Heard, C!Expire, C!people, C!history
<1>3. NothingOfOthers'
  BY DEF NothingOfOthers, C!NothingOfOthers, C!Expire, C!people, C!history
<1>4. (Cookies /\ Loads /\ Listed /\ Waited /\ Views /\ ReadYourWrites)'
  BY DEF Cookies, Loads, Asked, Listed, Waited, Views, ReadYourWrites, C!ReadYourWrites,
         C!Expire, C!people, C!history
<1> QED BY <1>1, <1>2, <1>3, <1>4

LEMMA ReadCachedKeeps ==
  ASSUME C!NamesApart, CacheInv, NEW r \in Reader, NEW p \in Path, C!ReadCached(r, p)
  PROVE  CacheInv'
<1> USE DEF CacheInv, CacheTypes, Account
<1>1. CacheTypes'
  BY DEF C!ReadCached, C!Start, C!Result, C!store, C!people, C!Key, C!Request
<1>2. ReadYourWrites'
  BY DEF ReadYourWrites, C!ReadYourWrites, Waited, Heard, C!ReadCached, C!Start, C!Result
<1>3. (Cookies /\ Loads /\ Listed /\ Waited /\ Heard /\ Views /\ NothingOfOthers)'
  BY DEF Cookies, Loads, Asked, Listed, Waited, Heard, Views, NothingOfOthers,
         C!NothingOfOthers, C!ReadCached, C!Start, C!Result, C!store, C!people
<1> QED BY <1>1, <1>2, <1>3

LEMMA ReadJoinKeeps ==
  ASSUME C!NamesApart, CacheInv, NEW r \in Reader, NEW p \in Path, C!ReadJoin(r, p)
  PROVE  CacheInv'
<1> USE DEF CacheInv, CacheTypes, Account
<1>1. CacheTypes'
  BY DEF C!ReadJoin, C!Start, C!Wait, C!store, C!people, C!history
<1>2. Waited'
  BY DEF Loads, Asked, Listed, Waited, Heard, C!ReadJoin, C!Start, C!Wait
<1>3. (Cookies /\ Loads /\ Listed /\ Heard /\ Views /\ NothingOfOthers /\ ReadYourWrites)'
  BY DEF Cookies, Loads, Asked, Listed, Heard, Views, NothingOfOthers, C!NothingOfOthers,
         ReadYourWrites, C!ReadYourWrites, C!ReadJoin, C!Start, C!Wait, C!store, C!people,
         C!history
<1> QED BY <1>1, <1>2, <1>3

LEMMA ReadLoadKeeps ==
  ASSUME C!NamesApart, CacheInv, NEW r \in Reader, NEW p \in Path, NEW l \in Load,
         C!ReadLoad(r, p, l)
  PROVE  CacheInv'
<1> USE DEF CacheInv, CacheTypes, Account
<1>1. CacheTypes'
  BY DEF C!ReadLoad, C!Start, C!Wait, C!people, C!history, C!Request
<1>2. Loads'
  BY DEF Cookies, Loads, Asked, C!ReadLoad, C!Start, C!Wait, C!people, C!history
<1>3. Listed'
  BY DEF Listed, C!ReadLoad, C!Start, C!Wait, C!NamesApart, C!Request
<1>4. Waited'
  BY DEF Listed, Waited, Heard, C!ReadLoad, C!Start, C!Wait, C!NamesApart, C!Request
<1>5. (Cookies /\ Heard /\ Views /\ NothingOfOthers /\ ReadYourWrites)'
  BY DEF Cookies, Heard, Views, NothingOfOthers, C!NothingOfOthers, ReadYourWrites,
         C!ReadYourWrites, C!ReadLoad, C!Start, C!Wait, C!people, C!history
<1> QED BY <1>1, <1>2, <1>3, <1>4, <1>5

LEMMA LoadServedKeeps ==
  ASSUME C!NamesApart, CacheInv, NEW l \in Load, C!LoadServed(l)
  PROVE  CacheInv'
<1> USE DEF CacheInv, CacheTypes, Account
<1>1. CacheTypes'
  BY DEF C!LoadServed, C!store, C!people, C!history, C!Request
<1>2. Loads'
  BY DEF Loads, Asked, Heard, C!LoadServed, C!store, C!people, C!history, C!Request
<1>3. Listed'
  BY DEF Listed, C!LoadServed, C!store, C!people, C!history, C!NamesApart, C!Request
<1>4. Waited'
  BY DEF Waited, C!LoadServed, C!NamesApart, C!Request
<1>5. (Cookies /\ Heard /\ Views /\ NothingOfOthers /\ ReadYourWrites)'
  BY DEF Cookies, Heard, Views, NothingOfOthers, C!NothingOfOthers, ReadYourWrites,
         C!ReadYourWrites, C!LoadServed, C!store, C!people, C!history
<1> QED BY <1>1, <1>2, <1>3, <1>4, <1>5

LEMMA LoadEndKeeps ==
  ASSUME C!NamesApart, CacheInv, NEW l \in Load, C!LoadEnd(l)
  PROVE  CacheInv'
<1> USE DEF CacheInv, CacheTypes, Account
<1>1. CacheTypes'
  <2>1. load[l] \in C!Request /\ load[l].version \in Nat
    BY DEF C!LoadEnd, C!Request
  <2>2. load[l].path \in Path /\ load[l].path \in C!Key /\ load[l].as \in Account
    BY <2>1 DEF C!Request, C!Key
  <2>3. entry' \in [C!Key -> [version : Nat, of : Account, fresh : BOOLEAN] \cup {None}]
    BY <2>1, <2>2 DEF C!LoadEnd, C!Value
  <2>4. pending' \in [Path -> Load \cup {None}]
    BY <2>2 DEF C!LoadEnd, C!Unlisted
  <2>5. reader' \in [Reader -> [load : Load, known : Nat] \cup {None}]
    BY DEF C!LoadEnd, C!Woken
  <2>6. got' \in [Reader -> [version : Nat, known : Nat] \cup {None}]
    BY <2>1 DEF C!LoadEnd
  <2>7. QED BY <2>3, <2>4, <2>5, <2>6 DEF C!LoadEnd, C!people
<1>2. Loads'
  BY DEF Loads, Asked, C!LoadEnd, C!Current, C!Value, C!Unlisted, C!Woken, C!people
<1>3. Listed'
  <2>1. load[l].path \in Path /\ load' = [load EXCEPT ![l] = None] /\ UNCHANGED generation
    BY DEF C!LoadEnd, C!Request
  <2>2. pending' = [pending EXCEPT ![load[l].path] = IF @ = l THEN None ELSE @]
    BY DEF C!LoadEnd, C!Unlisted
  <2>3. ASSUME NEW p \in Path, pending'[p] # None
        PROVE  pending[p] = pending'[p] /\ pending[p] # l
    BY <2>1, <2>2, <2>3 DEF Listed
  <2>4. QED BY <2>1, <2>3 DEF Listed
<1>4. Waited'
  BY DEF Waited, C!LoadEnd, C!Current, C!Value, C!Unlisted, C!Woken
<1>5. Heard'
  BY DEF Loads, Asked, Heard, C!LoadEnd, C!Current, C!Value, C!Unlisted, C!Woken
<1>6. NothingOfOthers'
  BY DEF NothingOfOthers, C!NothingOfOthers, Loads, Asked, C!LoadEnd, C!Current, C!Value,
         C!Unlisted, C!Woken, C!people
<1>7. ReadYourWrites'
  BY DEF ReadYourWrites, C!ReadYourWrites, Waited, C!LoadEnd, C!Current, C!Value,
         C!Unlisted, C!Woken
<1>8. (Cookies /\ Views)'
  BY DEF Cookies, Views, C!LoadEnd, C!Current, C!Value, C!Unlisted, C!Woken, C!people
<1> QED BY <1>1, <1>2, <1>3, <1>4, <1>5, <1>6, <1>7, <1>8

LEMMA LoadFailKeeps ==
  ASSUME C!NamesApart, CacheInv, NEW l \in Load, C!LoadFail(l)
  PROVE  CacheInv'
<1> USE DEF CacheInv, CacheTypes, Account
<1>1. CacheTypes'
  <2>1. load[l].path \in Path
    BY DEF C!LoadFail, C!Request
  <2>2. pending' \in [Path -> Load \cup {None}]
    BY <2>1 DEF C!LoadFail, C!Unlisted
  <2>3. reader' \in [Reader -> [load : Load, known : Nat] \cup {None}]
    BY DEF C!LoadFail, C!Woken
  <2>4. QED BY <2>1, <2>2, <2>3 DEF C!LoadFail, C!people, C!history
<1>2. Loads'
  BY DEF Loads, Asked, C!LoadFail, C!Unlisted, C!Woken, C!people, C!history
<1>3. Listed'
  <2>1. load[l].path \in Path /\ load' = [load EXCEPT ![l] = None] /\ UNCHANGED generation
    BY DEF C!LoadFail, C!Request
  <2>2. pending' = [pending EXCEPT ![load[l].path] = IF @ = l THEN None ELSE @]
    BY DEF C!LoadFail, C!Unlisted
  <2>3. ASSUME NEW p \in Path, pending'[p] # None
        PROVE  pending[p] = pending'[p] /\ pending[p] # l
    BY <2>1, <2>2, <2>3 DEF Listed
  <2>4. QED BY <2>1, <2>3 DEF Listed
<1>4. Waited'
  BY DEF Waited, C!LoadFail, C!Unlisted, C!Woken
<1>5. (Cookies /\ Heard /\ Views /\ NothingOfOthers /\ ReadYourWrites)'
  BY DEF Cookies, Heard, Views, NothingOfOthers, C!NothingOfOthers, ReadYourWrites,
         C!ReadYourWrites, C!LoadFail, C!Unlisted, C!Woken, C!people, C!history
<1> QED BY <1>1, <1>2, <1>3, <1>4, <1>5

LEMMA LoadRefusedKeeps ==
  ASSUME C!NamesApart, CacheInv, NEW l \in Load, C!LoadRefused(l)
  PROVE  CacheInv'
<1> USE DEF CacheInv, CacheTypes, Account
<1>1. CacheTypes'
  BY DEF C!LoadRefused, C!Clear, C!Forgotten, C!Woken, C!history
<1>2. Cookies'
  BY DEF Cookies, C!LoadRefused, C!Clear, C!Forgotten, C!Woken
<1>3. Loads'
  BY DEF Loads, Asked, C!LoadRefused, C!Clear, C!Forgotten, C!Woken, C!Request
<1>4. Listed'
  BY DEF Listed, C!LoadRefused, C!Clear, C!Forgotten, C!Woken
<1>5. Waited'
  BY DEF Waited, C!LoadRefused, C!Clear, C!Forgotten, C!Woken
<1>6. Heard'
  BY DEF Heard, C!LoadRefused, C!Clear, C!Forgotten, C!Woken, C!history, C!Key, C!Request
<1>7. Views'
  BY DEF Views, C!LoadRefused, C!Clear, C!Forgotten, C!Woken
<1>8. NothingOfOthers'
  BY DEF NothingOfOthers, C!NothingOfOthers, C!LoadRefused, C!Clear, C!Forgotten, C!Woken
<1>9. ReadYourWrites'
  BY DEF ReadYourWrites, C!ReadYourWrites, C!LoadRefused, C!Clear, C!Forgotten, C!Woken,
         C!history
<1> QED BY <1>1, <1>2, <1>3, <1>4, <1>5, <1>6, <1>7, <1>8, <1>9

LEMMA ChangeElsewhereKeeps ==
  ASSUME C!NamesApart, CacheInv, NEW p \in Path, C!ChangeElsewhere(p)
  PROVE  CacheInv'
<1> USE DEF CacheInv, CacheTypes, Account
<1>1. CacheTypes'
  BY DEF C!ChangeElsewhere, C!Committed, C!store, C!people, C!history
<1>2. Waited'
  BY DEF Waited, C!ChangeElsewhere, C!Committed
<1>3. Heard'
  BY DEF Heard, C!ChangeElsewhere, C!Committed, C!store, C!people, C!history
<1>4. (Cookies /\ Loads /\ Listed /\ Views /\ NothingOfOthers /\ ReadYourWrites)'
  BY DEF Cookies, Loads, Asked, Listed, Views, NothingOfOthers, C!NothingOfOthers,
         ReadYourWrites, C!ReadYourWrites, C!ChangeElsewhere, C!Committed, C!store,
         C!people, C!history
<1> QED BY <1>1, <1>2, <1>3, <1>4

LEMMA ChangeKeeps ==
  ASSUME C!NamesApart, CacheInv, NEW p \in Path, C!Change(p)
  PROVE  CacheInv'
<1> USE DEF CacheInv, CacheTypes, Account
<1>1. CacheTypes'
  BY DEF C!Change, C!Committed, C!store, C!people, C!history
<1>2. Waited'
  BY DEF Waited, C!Change, C!Committed
<1>3. Heard'
  BY DEF Heard, C!Change, C!Committed, C!store, C!people, C!history
<1>4. (Cookies /\ Loads /\ Listed /\ Views /\ NothingOfOthers /\ ReadYourWrites)'
  BY DEF Cookies, Loads, Asked, Listed, Views, NothingOfOthers, C!NothingOfOthers,
         ReadYourWrites, C!ReadYourWrites, C!Change, C!Committed, C!store, C!people,
         C!history
<1> QED BY <1>1, <1>2, <1>3, <1>4

LEMMA ChangeEndKeeps ==
  ASSUME C!NamesApart, CacheInv, NEW p \in Path, NEW lost \in BOOLEAN, C!ChangeEnd(p, lost)
  PROVE  CacheInv'
<1> USE DEF CacheInv, CacheTypes, Account
<1>1. CacheTypes'
  BY DEF C!ChangeEnd, C!InvalidateMetadata, C!Forgotten, C!store, C!people
<1>2. Loads'
  BY DEF Loads, Asked, C!ChangeEnd, C!InvalidateMetadata, C!Forgotten, C!store, C!people,
         C!Request
<1>3. Listed'
  BY DEF Listed, C!ChangeEnd, C!InvalidateMetadata, C!Forgotten, C!store, C!people
<1>4. Heard'
  BY DEF Heard, C!ChangeEnd, C!InvalidateMetadata, C!Forgotten, C!store, C!people,
         C!NamesApart, C!Key, C!Request
<1>5. Views'
  BY DEF Views, C!ChangeEnd, C!InvalidateMetadata, C!Forgotten, C!store, C!people
<1>6. NothingOfOthers'
  BY DEF NothingOfOthers, C!NothingOfOthers, C!ChangeEnd, C!InvalidateMetadata, C!Forgotten,
         C!store, C!people
<1>7. (Cookies /\ Waited /\ ReadYourWrites)'
  BY DEF Cookies, Waited, ReadYourWrites, C!ReadYourWrites, C!ChangeEnd,
         C!InvalidateMetadata, C!Forgotten, C!store, C!people
<1> QED BY <1>1, <1>2, <1>3, <1>4, <1>5, <1>6, <1>7

LEMMA SignOutKeeps ==
  ASSUME C!NamesApart, CacheInv, C!SignOut
  PROVE  CacheInv'
<1> USE DEF CacheInv, CacheTypes, Account
<1>1. CacheTypes'
  BY DEF C!SignOut, C!store, C!history
<1>2. Cookies'
  BY DEF Cookies, C!SignOut
<1>3. (Loads /\ Listed /\ Waited /\ Heard /\ Views /\ NothingOfOthers /\ ReadYourWrites)'
  BY DEF Loads, Asked, Listed, Waited, Heard, Views, NothingOfOthers, C!NothingOfOthers,
         ReadYourWrites, C!ReadYourWrites, C!SignOut, C!store, C!history
<1> QED BY <1>1, <1>2, <1>3

LEMMA SignedOutKeeps ==
  ASSUME C!NamesApart, CacheInv, C!SignedOut
  PROVE  CacheInv'
<1> USE DEF CacheInv, CacheTypes, Account
<1>1. CacheTypes'
  BY DEF C!SignedOut, C!Clear, C!Forgotten, C!history
<1>2. Cookies'
  BY DEF Cookies, C!SignedOut, C!Clear, C!Forgotten
<1>3. Loads'
  BY DEF Loads, Asked, C!SignedOut, C!Clear, C!Forgotten, C!Request
<1>4. Listed'
  BY DEF Listed, C!SignedOut, C!Clear, C!Forgotten
<1>5. Heard'
  BY DEF Heard, C!SignedOut, C!Clear, C!Forgotten, C!history, C!Key, C!Request
<1>6. Views'
  BY DEF Views, C!SignedOut, C!Clear, C!Forgotten
<1>7. NothingOfOthers'
  BY DEF NothingOfOthers, C!NothingOfOthers, C!SignedOut, C!Clear, C!Forgotten
<1>8. (Waited /\ ReadYourWrites)'
  BY DEF Waited, ReadYourWrites, C!ReadYourWrites, C!SignedOut, C!Clear, C!Forgotten,
         C!history
<1> QED BY <1>1, <1>2, <1>3, <1>4, <1>5, <1>6, <1>7, <1>8

LEMMA SignInKeeps ==
  ASSUME C!NamesApart, CacheInv, NEW a \in 1..MaxAccount, C!SignIn(a)
  PROVE  CacheInv'
<1> USE DEF CacheInv, CacheTypes, Account
<1>1. CacheTypes'
  BY DEF C!SignIn, C!store, C!history
<1>2. Cookies'
  BY DEF Cookies, C!SignIn
<1>3. (Loads /\ Listed /\ Waited /\ Heard /\ Views /\ NothingOfOthers /\ ReadYourWrites)'
  BY DEF Loads, Asked, Listed, Waited, Heard, Views, NothingOfOthers, C!NothingOfOthers,
         ReadYourWrites, C!ReadYourWrites, C!SignIn, C!store, C!history
<1> QED BY <1>1, <1>2, <1>3

LEMMA SignedInKeeps ==
  ASSUME C!NamesApart, CacheInv, C!SignedIn
  PROVE  CacheInv'
<1> USE DEF CacheInv, CacheTypes, Account
<1>1. CacheTypes'
  BY DEF C!SignedIn, C!Clear, C!Forgotten, C!history
<1>2. Cookies'
  BY DEF Cookies, C!SignedIn, C!Clear, C!Forgotten
<1>3. Loads'
  BY DEF Loads, Asked, C!SignedIn, C!Clear, C!Forgotten, C!Request
<1>4. Listed'
  BY DEF Listed, C!SignedIn, C!Clear, C!Forgotten
<1>5. Heard'
  BY DEF Heard, C!SignedIn, C!Clear, C!Forgotten, C!history, C!Key, C!Request
<1>6. Views'
  BY DEF Views, C!SignedIn, C!Clear, C!Forgotten
<1>7. NothingOfOthers'
  BY DEF NothingOfOthers, C!NothingOfOthers, C!SignedIn, C!Clear, C!Forgotten
<1>8. (Waited /\ ReadYourWrites)'
  BY DEF Waited, ReadYourWrites, C!ReadYourWrites, C!SignedIn, C!Clear, C!Forgotten,
         C!history
<1> QED BY <1>1, <1>2, <1>3, <1>4, <1>5, <1>6, <1>7, <1>8

LEMMA ClearedElseKeeps ==
  ASSUME C!NamesApart, CacheInv, C!ClearedElse
  PROVE  CacheInv'
<1> USE DEF CacheInv, CacheTypes, Account
<1>1. CacheTypes'
  BY DEF C!ClearedElse, C!Clear, C!Forgotten, C!history
<1>2. Cookies'
  BY DEF Cookies, C!ClearedElse, C!Clear, C!Forgotten
<1>3. Loads'
  BY DEF Loads, Asked, C!ClearedElse, C!Clear, C!Forgotten, C!Request
<1>4. Listed'
  BY DEF Listed, C!ClearedElse, C!Clear, C!Forgotten
<1>5. Heard'
  BY DEF Heard, C!ClearedElse, C!Clear, C!Forgotten, C!history, C!Key, C!Request
<1>6. Views'
  BY DEF Views, C!ClearedElse, C!Clear, C!Forgotten
<1>7. NothingOfOthers'
  BY DEF NothingOfOthers, C!NothingOfOthers, C!ClearedElse, C!Clear, C!Forgotten
<1>8. (Waited /\ ReadYourWrites)'
  BY DEF Waited, ReadYourWrites, C!ReadYourWrites, C!ClearedElse, C!Clear, C!Forgotten,
         C!history
<1> QED BY <1>1, <1>2, <1>3, <1>4, <1>5, <1>6, <1>7, <1>8

LEMMA MountKeeps ==
  ASSUME C!NamesApart, CacheInv, NEW v \in View, C!Mount(v)
  PROVE  CacheInv'
<1> USE DEF CacheInv, CacheTypes, Account
<1>1. CacheTypes'
  BY DEF C!Mount, C!store, C!people, C!history
<1>2. Views'
  BY DEF Views, C!Mount, C!store, C!people, C!history
<1>3. (Cookies /\ Loads /\ Listed /\ Waited /\ Heard /\ NothingOfOthers /\ ReadYourWrites)'
  BY DEF Cookies, Loads, Asked, Listed, Waited, Heard, NothingOfOthers, C!NothingOfOthers,
         ReadYourWrites, C!ReadYourWrites, C!Mount, C!store, C!people, C!history
<1> QED BY <1>1, <1>2, <1>3

LEMMA UnmountKeeps ==
  ASSUME C!NamesApart, CacheInv, NEW v \in View, C!Unmount(v)
  PROVE  CacheInv'
<1> USE DEF CacheInv, CacheTypes, Account
<1>1. CacheTypes'
  BY DEF C!Unmount, C!store, C!people, C!history
<1>2. Views'
  BY DEF Views, C!Unmount, C!store, C!people, C!history
<1>3. (Cookies /\ Loads /\ Listed /\ Waited /\ Heard /\ NothingOfOthers /\ ReadYourWrites)'
  BY DEF Cookies, Loads, Asked, Listed, Waited, Heard, NothingOfOthers, C!NothingOfOthers,
         ReadYourWrites, C!ReadYourWrites, C!Unmount, C!store, C!people, C!history
<1> QED BY <1>1, <1>2, <1>3

LEMMA WriteKeeps ==
  ASSUME C!NamesApart, CacheInv, NEW v \in View, C!Write(v)
  PROVE  CacheInv'
<1> USE DEF CacheInv, CacheTypes, Account
<1>1. CacheTypes'
  BY DEF C!Write, C!Mine, C!Value, C!people, C!history
<1>2. Heard'
  BY DEF Heard, C!Write, C!Mine, C!Value, C!people, C!history, C!NamesApart, C!Request
<1>3. NothingOfOthers'
  BY DEF NothingOfOthers, C!NothingOfOthers, Cookies, Views, C!Write, C!Mine, C!Value,
         C!people, C!history
<1>4. (Cookies /\ Loads /\ Listed /\ Waited /\ Views /\ ReadYourWrites)'
  BY DEF Cookies, Loads, Asked, Listed, Waited, Views, ReadYourWrites, C!ReadYourWrites,
         C!Write, C!Mine, C!Value, C!people, C!history
<1> QED BY <1>1, <1>2, <1>3, <1>4

LEMMA DropKeeps ==
  ASSUME C!NamesApart, CacheInv, NEW v \in View, C!Drop(v)
  PROVE  CacheInv'
<1> USE DEF CacheInv, CacheTypes, Account
<1>1. CacheTypes'
  BY DEF C!Drop, C!people, C!history
<1>2. Heard'
  BY DEF Heard, C!Drop, C!people, C!history
<1>3. NothingOfOthers'
  BY DEF NothingOfOthers, C!NothingOfOthers, C!Drop, C!people, C!history
<1>4. (Cookies /\ Loads /\ Listed /\ Waited /\ Views /\ ReadYourWrites)'
  BY DEF Cookies, Loads, Asked, Listed, Waited, Views, ReadYourWrites, C!ReadYourWrites,
         C!Drop, C!people, C!history
<1> QED BY <1>1, <1>2, <1>3, <1>4

LEMMA CacheStutters ==
  ASSUME CacheInv, UNCHANGED C!vars
  PROVE  CacheInv'
BY DEF CacheInv, CacheTypes, Cookies, Loads, Asked, Listed, Waited, Heard, Views,
       NothingOfOthers, C!NothingOfOthers, ReadYourWrites, C!ReadYourWrites, C!vars, C!store,
       C!people, C!history

LEMMA CacheStepInv ==
  ASSUME C!NamesApart, CacheInv, [C!Next]_(C!vars)
  PROVE  CacheInv'
<1>1. CASE \E k \in C!Key : C!Expire(k)
  BY <1>1, ExpireKeeps
<1>2. ASSUME NEW r \in Reader, NEW p \in Path,
             C!ReadCached(r, p) \/ C!ReadJoin(r, p) \/ \E l \in Load : C!ReadLoad(r, p, l)
      PROVE  CacheInv'
  BY <1>2, ReadCachedKeeps, ReadJoinKeeps, ReadLoadKeeps
<1>3. ASSUME NEW l \in Load,
             C!LoadServed(l) \/ C!LoadEnd(l) \/ C!LoadFail(l) \/ C!LoadRefused(l)
      PROVE  CacheInv'
  BY <1>3, LoadServedKeeps, LoadEndKeeps, LoadFailKeeps, LoadRefusedKeeps
<1>4. ASSUME NEW p \in Path,
             \/ C!ChangeElsewhere(p) \/ C!Change(p)
             \/ \E lost \in BOOLEAN : C!ChangeEnd(p, lost)
      PROVE  CacheInv'
  BY <1>4, ChangeElsewhereKeeps, ChangeKeeps, ChangeEndKeeps
<1>5. CASE C!SignOut \/ C!SignedOut \/ \E a \in 1..MaxAccount : C!SignIn(a)
  BY <1>5, SignOutKeeps, SignedOutKeeps, SignInKeeps
<1>6. CASE C!SignedIn \/ C!ClearedElse
  BY <1>6, SignedInKeeps, ClearedElseKeeps
<1>7. ASSUME NEW v \in View, C!Mount(v) \/ C!Unmount(v) \/ C!Write(v) \/ C!Drop(v)
      PROVE  CacheInv'
  BY <1>7, MountKeeps, UnmountKeeps, WriteKeeps, DropKeeps
<1>8. CASE UNCHANGED C!vars
  BY <1>8, CacheStutters
<1>9. QED BY <1>1, <1>2, <1>3, <1>4, <1>5, <1>6, <1>7, <1>8 DEF C!Next

-----------------------------------------------------------------------------
(* The theorems of the cache *)

\* The invariant of the cache is inductive.
THEOREM CacheInductive ==
  ASSUME C!NamesApart
  PROVE  C!Spec => []CacheInv
<1>1. C!Init => CacheInv
  BY CacheInitInv
<1>2. CacheInv /\ [C!Next]_(C!vars) => CacheInv'
  BY CacheStepInv
<1>3. QED BY <1>1, <1>2, PTL DEF C!Spec

\* The cache never keeps anything of another account than the one that is shown, however
\* sign-ins, loads and previews of conversations overtake one another.
THEOREM OthersForgotten ==
  ASSUME C!NamesApart
  PROVE  C!Spec => []NothingOfOthers
<1>1. CacheInv => NothingOfOthers
  BY DEF CacheInv
<1>2. QED BY <1>1, CacheInductive, PTL

\* A caller of api() is never given what was so before a change of this tab that was answered
\* when it asked, whether it reads the cache, joins a load or starts one.
THEOREM WritesRead ==
  ASSUME C!NamesApart
  PROVE  C!Spec => []ReadYourWrites
<1>1. CacheInv => ReadYourWrites
  BY DEF CacheInv
<1>2. QED BY <1>1, CacheInductive, PTL
=============================================================================
