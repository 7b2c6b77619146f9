--------------------------- MODULE MessagesSafety ---------------------------
(* Safety of Messages, for every number of people, bodies, messages, drafts *)
(* and requests: retries and revisions whatever the clocks of the processes *)
(* show, and reading where they have one clock.                             *)
EXTENDS Messages, FiniteSetTheorems, TLAPS

-----------------------------------------------------------------------------
(* The inductive invariant *)

Answer == {"ok", "denied", "conflict", None}
Draft == [work : Nat \ {0}, id : Nat, body : Body \cup {None}, reply : Message \cup {None},
          attempted : BOOLEAN, busy : BOOLEAN]
Sent == [id : Nat, work : Nat, body : Body, reply : Message \cup {None}, number : Nat,
         heard : BOOLEAN]

\* The rows, what the composer keeps, and what is on its way have their kinds.
TypeOK ==
  /\ message \in [Message -> Row \cup {None}]
  /\ draft \in Draft /\ wire \in SUBSET Sent /\ answer \in Answer /\ sends \in Nat
  /\ event \in SUBSET (Message \X Nat)

\* A composition, its identifier and the message it became have one name.
Named ==
  /\ draft.id = draft.work
  /\ \A r \in wire : r.id = r.work /\ r.work > 0
  /\ \A m \in Existing :
       IF message[m].client = None THEN message[m].work = 0
       ELSE /\ message[m].work = message[m].client /\ message[m].work > 0
            /\ message[m].author = Author

\* No two messages come from one composition.
Once ==
  \A m, k \in Existing :
    message[m].work > 0 /\ message[m].work = message[k].work => m = k

\* The composer waits for one answer at a time, to its present draft.
Waiting ==
  /\ answer # None => draft.busy
  /\ \A r \in wire : r.heard => draft.busy /\ answer = None /\ r.work = draft.work
  /\ \A r, s \in wire : r.heard /\ s.heard => r = s

Became(n) == \E m \in Existing : message[m].work = n

\* A success is answered, and a draft left, only when there is a message.
MovedOn ==
  /\ answer = "ok" => Became(draft.work)
  /\ \A n \in Nat : 0 < n /\ n < draft.work => Became(n)

\* No event is ahead of its message.
Announced ==
  \A m \in Message, n \in Nat :
    <<m, n>> \in event => m \in Existing /\ n <= message[m].revision

Inv == TypeOK /\ Named /\ Once /\ Waiting /\ MovedOn /\ Announced

\* Nothing is there at first.
LEMMA InitInv == Init => Inv
<1> SUFFICES ASSUME Init PROVE Inv
  OBVIOUS
<1> USE DEF Init
<1>1. TypeOK
  BY DEF TypeOK, Fresh, Draft, Answer
<1>2. Existing = {}
  BY DEF Existing
<1>3. Named /\ Once /\ Waiting /\ MovedOn /\ Announced
  BY <1>2, MessagesAssumption DEF Named, Once, Waiting, MovedOn, Announced, Fresh
<1>4. QED BY <1>1, <1>3 DEF Inv

-----------------------------------------------------------------------------
(* The composer *)

\* What the composer does before it hears anything.
LEMMA ComposeInv ==
  ASSUME Inv, \/ \E b \in Body, r \in Quotable : Compose(b, r)
              \/ Submit \/ GiveUp
  PROVE  Inv'
<1> USE MessagesAssumption DEF Inv
<1>2. UNCHANGED <<message, event>> /\ Existing' = Existing
  BY DEF Compose, Submit, GiveUp, server, Existing
<1>3. \A n \in Nat : Became(n)' <=> Became(n)
  BY <1>2 DEF Became
<1>4. CASE \E b \in Body, r \in Quotable : Compose(b, r)
  <2>1. /\ UNCHANGED <<wire, answer, sends>>
        /\ draft' \in Draft /\ draft'.id = draft.id /\ draft'.work = draft.work
        /\ draft'.busy = draft.busy
    BY <1>4 DEF Compose, TypeOK, Draft, Quotable, Existing
  <2>2. TypeOK'
    BY <1>2, <2>1 DEF TypeOK
  <2>3. Named' /\ Waiting'
    BY <1>2, <2>1 DEF Named, Waiting
  <2>4. Once' /\ MovedOn' /\ Announced'
    BY <1>2, <1>3, <2>1 DEF Once, MovedOn, Announced, TypeOK, Draft
  <2>5. QED BY <2>2, <2>3, <2>4
<1>5. CASE Submit
  <2> DEFINE new == [id |-> draft.id, work |-> draft.work, body |-> draft.body,
                     reply |-> draft.reply, number |-> sends', heard |-> TRUE]
  <2>0. /\ ~draft.busy /\ UNCHANGED answer /\ sends' = sends + 1
        /\ draft' = [draft EXCEPT !.attempted = TRUE, !.busy = TRUE]
        /\ wire' = wire \cup {new} /\ draft \in Draft /\ sends \in Nat
    BY <1>5 DEF Submit, TypeOK
  <2> HIDE DEF new
  <2>1. /\ ~draft.busy /\ answer' = answer /\ wire' = wire \cup {new} /\ sends' \in Nat
        /\ draft' \in Draft /\ draft'.id = draft.id /\ draft'.work = draft.work
        /\ draft'.busy
    <3> DEFINE tried == [draft EXCEPT !.attempted = TRUE]
    <3>1. tried \in Draft /\ tried.id = draft.id /\ tried.work = draft.work
      BY <2>0 DEF Draft
    <3>2. draft' = [tried EXCEPT !.busy = TRUE]
      BY <2>0
    <3> HIDE DEF tried
    <3>3. draft' \in Draft /\ draft'.id = draft.id /\ draft'.work = draft.work /\ draft'.busy
      BY <3>1, <3>2 DEF Draft
    <3>4. ~draft.busy /\ answer' = answer /\ wire' = wire \cup {new}
      BY <2>0
    <3>5. sends' \in Nat
      BY <2>0
    <3>6. QED BY <3>3, <3>4, <3>5
  <2>2. new \in Sent /\ new.heard /\ new.id = new.work /\ new.work = draft.work
    <3>1. draft.id \in Nat /\ draft.work \in Nat /\ draft.body \in Body
          /\ draft.reply \in Message \cup {None}
      BY <1>5 DEF Submit, TypeOK, Draft
    <3>2. new \in Sent
      BY <2>1, <3>1 DEF Sent, new
    <3>3. QED BY <3>2 DEF Named, new
  <2>3. answer = None /\ \A r \in wire : ~r.heard
    BY <2>1 DEF Waiting
  <2>4. TypeOK'
    BY <1>2, <2>1, <2>2 DEF TypeOK
  <2>5. Waiting'
    BY <2>1, <2>2, <2>3 DEF Waiting
  <2>6. Named'
    BY <1>2, <2>1, <2>2 DEF Named, TypeOK, Draft
  <2>7. Once' /\ MovedOn' /\ Announced'
    BY <1>2, <1>3, <2>1, <2>3 DEF TypeOK, Draft, Once, MovedOn, Announced
  <2>8. QED BY <2>4, <2>5, <2>6, <2>7
<1>6. CASE GiveUp
  <2>1. /\ answer' = None /\ UNCHANGED sends
        /\ draft' \in Draft /\ draft'.id = draft.id /\ draft'.work = draft.work
    BY <1>6 DEF GiveUp, TypeOK, Draft, server
  <2>2. /\ wire' \in SUBSET Sent
        /\ \A r \in wire' : ~r.heard /\ \E s \in wire : r.id = s.id /\ r.work = s.work
    <3>1. \A s \in wire : LET r == [s EXCEPT !.heard = FALSE]
                          IN  r \in Sent /\ ~r.heard /\ r.id = s.id /\ r.work = s.work
      BY DEF TypeOK, Sent
    <3>2. QED BY <1>6, <3>1 DEF GiveUp
  <2>3. TypeOK'
    BY <1>2, <2>1, <2>2 DEF TypeOK, Answer
  <2>4. Named'
    BY <1>2, <2>1, <2>2 DEF Named
  <2>5. QED
    BY <1>2, <1>3, <2>1, <2>2, <2>3, <2>4 DEF Once, Waiting, MovedOn, Announced
<1>7. QED BY <1>4, <1>5, <1>6

\* What it does with an answer.
LEMMA AnswerInv ==
  ASSUME Inv, AnswerSent \/ AnswerRejected \/ AnswerConflict
  PROVE  Inv'
<1> USE MessagesAssumption DEF Inv
<1>1. /\ UNCHANGED <<message, event, wire, sends>> /\ Existing' = Existing
      /\ answer # None /\ answer' = None
  BY DEF AnswerSent, AnswerRejected, AnswerConflict, server, Existing
<1>2. \A n \in Nat : Became(n)' <=> Became(n)
  BY <1>1 DEF Became
<1>3. \A r \in wire : ~r.heard
  BY <1>1 DEF Waiting
<1>4. /\ draft' \in Draft /\ draft'.id = draft'.work
      /\ \/ draft'.work = draft.work
         \/ draft'.work = draft.work + 1 /\ Became(draft.work)
  <2>1. CASE AnswerSent
    BY <2>1 DEF AnswerSent, Fresh, TypeOK, Draft, MovedOn
  <2>2. CASE AnswerRejected
    BY <2>2 DEF AnswerRejected, Corrected, TypeOK, Draft, Named
  <2>3. CASE AnswerConflict
    BY <2>3 DEF AnswerConflict, TypeOK, Draft, Named
  <2>4. QED BY <2>1, <2>2, <2>3
<1>5. TypeOK'
  BY <1>1, <1>4 DEF TypeOK, Answer
<1>6. MovedOn'
  BY <1>1, <1>2, <1>4 DEF MovedOn, TypeOK, Draft
<1>7. QED BY <1>1, <1>3, <1>4, <1>5, <1>6 DEF Named, Once, Waiting, Announced

-----------------------------------------------------------------------------
(* The handlers *)

\* The clock shows numbers.
LEMMA Clock == Now \subseteq Nat
<1>1. IsFiniteSet(Message)
  BY FS_Interval, MessagesAssumption DEF Message
<1>2. Existing \subseteq Message
  BY DEF Existing
<1>3. Cardinality(Existing) \in Nat
  BY <1>1, <1>2, FS_Subset, FS_CardinalityType
<1>4. QED BY <1>3 DEF Now

\* A new row adds one message and changes no other.
LEMMA Inserted ==
  ASSUME Inv, NEW m \in Message, NEW row \in Row, row.revision = 1, Insert(m, row)
  PROVE  /\ m \notin Existing /\ Existing' = Existing \cup {m}
         /\ message'[m] = row /\ \A k \in Existing : message'[k] = message[k]
         /\ message' \in [Message -> Row \cup {None}]
         /\ event' \in SUBSET (Message \X Nat)
         /\ Announced'
         /\ \A n \in Nat : Became(n) => Became(n)'
<1> USE RowAssumption DEF Inv, TypeOK
<1>1. /\ message' = [message EXCEPT ![m] = row] /\ event' = event \cup {<<m, 1>>}
      /\ m \notin Existing
  BY DEF Insert, Existing
<1>2. /\ message'[m] = row /\ \A k \in Message \ {m} : message'[k] = message[k]
      /\ message' \in [Message -> Row \cup {None}]
  BY <1>1
<1>3. Existing' = Existing \cup {m}
  BY <1>2 DEF Existing
<1>4. event' \in SUBSET (Message \X Nat)
  BY <1>1
<1>5. ASSUME NEW k \in Message, NEW n \in Nat, <<k, n>> \in event'
      PROVE  k \in Existing' /\ n <= message'[k].revision
  <2>1. CASE <<k, n>> \in event
    BY <1>1, <1>2, <1>3, <2>1 DEF Announced
  <2>2. CASE <<k, n>> = <<m, 1>>
    BY <1>2, <1>3, <2>2
  <2>3. QED BY <1>1, <1>5, <2>1, <2>2
<1>6. \A k \in Existing : message'[k] = message[k]
  BY <1>1, <1>2 DEF Existing
<1>7. \A n \in Nat : Became(n) => Became(n)'
  BY <1>3, <1>6 DEF Became
<1>8. QED BY <1>1, <1>2, <1>3, <1>4, <1>5, <1>6, <1>7 DEF Announced

\* What readers are told of a step: ChangesAnnounced, without the box.
Told ==
  \A m \in Existing' :
    \/ m \in Existing /\ Shown(m)' = Shown(m)
    \/ LET r == message'[m].revision
       IN  /\ <<m, r>> \in event'
           /\ \A e \in event : e[1] = m => e[2] < r

\* A step that writes no message has nothing to tell.
LEMMA NothingToTell == UNCHANGED message => Told
BY DEF Told, Existing, Shown

\* A new message has an event, and none before.
LEMMA InsertTold ==
  ASSUME Inv, NEW m \in Message, NEW row \in Row, row.revision = 1, Insert(m, row)
  PROVE  Told
<1>1. /\ m \notin Existing /\ Existing' = Existing \cup {m}
      /\ message'[m] = row /\ \A k \in Existing : message'[k] = message[k]
  BY Inserted
<1>2. <<m, 1>> \in event'
  BY DEF Insert
<1>3. \A e \in event : e[1] # m
  <2>1. ASSUME NEW e \in event, e[1] = m
        PROVE  FALSE
    <3>1. e = <<m, e[2]>> /\ e[2] \in Nat
      BY <2>1 DEF Inv, TypeOK
    <3>2. QED BY <1>1, <2>1, <3>1 DEF Inv, Announced
  <2>2. QED BY <2>1
<1>4. \A k \in Existing : Shown(k)' = Shown(k)
  BY <1>1 DEF Shown
<1>5. QED BY <1>1, <1>2, <1>3, <1>4 DEF Told

\* A request leaves the wire and its answer, if it is waited for, is on its way.
LEMMA Replied ==
  ASSUME Inv, NEW r \in wire, NEW a \in Answer \ {None}, wire' = wire \ {r}, Reply(r, a),
         UNCHANGED draft, UNCHANGED sends
  PROVE  /\ wire' \in SUBSET Sent /\ answer' \in Answer
         /\ Waiting'
         /\ answer' = "ok" => answer = "ok" \/ (a = "ok" /\ r.work = draft.work)
<1> USE DEF Inv, TypeOK
<1>1. answer' = IF r.heard THEN a ELSE answer
  BY DEF Reply
<1>2. CASE r.heard
  <2>1. answer' = a /\ draft.busy /\ r.work = draft.work /\ \A s \in wire' : ~s.heard
    BY <1>1, <1>2 DEF Waiting
  <2>2. QED BY <2>1 DEF Waiting
<1>3. CASE ~r.heard
  <2>1. answer' = answer
    BY <1>1, <1>3
  <2>2. QED BY <2>1 DEF Waiting
<1>4. QED BY <1>2, <1>3

\* A request that writes nothing.
LEMMA RefusalInv ==
  ASSUME Inv, NEW r \in wire, NEW a \in Answer \ {None}, wire' = wire \ {r}, Refusal(r, a),
         a = "ok" => Became(r.work), UNCHANGED draft, UNCHANGED sends
  PROVE  Inv'
<1>1. UNCHANGED <<message, event>> /\ Existing' = Existing /\ Reply(r, a)
  BY DEF Refusal, Existing
<1>2. \A n \in Nat : Became(n)' <=> Became(n)
  BY <1>1 DEF Became
<1>3. /\ wire' \in SUBSET Sent /\ answer' \in Answer /\ Waiting'
      /\ answer' = "ok" => answer = "ok" \/ (a = "ok" /\ r.work = draft.work)
  BY <1>1, Replied
<1>4. draft.work \in Nat
  BY DEF Inv, TypeOK, Draft
<1>5. MovedOn'
  BY <1>2, <1>3, <1>4 DEF MovedOn, Inv
<1>6. Named' /\ Once' /\ Announced'
  BY <1>1 DEF Inv, Named, Once, Announced
<1>7. QED BY <1>1, <1>3, <1>5, <1>6 DEF Inv, TypeOK

\* The handler of a request of the composer.
LEMMA CreateInv ==
  ASSUME Inv, NEW r \in wire, Create(r)
  PROVE  Inv' /\ Told
<1>1. wire' = wire \ {r} /\ UNCHANGED draft /\ UNCHANGED sends
  BY DEF Create
<1>2. r \in Sent /\ r.id = r.work /\ r.work > 0 /\ {"ok", "denied", "conflict"} \subseteq Answer \ {None}
  BY MessagesAssumption DEF Inv, TypeOK, Named, Answer
<1>3. CASE Refusal(r, "denied") \/ Refusal(r, "conflict")
  BY <1>1, <1>2, <1>3, RefusalInv, NothingToTell DEF Refusal
<1>4. ASSUME NEW m \in SentAs(Author, r.id), Refusal(r, "ok")
      PROVE  Inv' /\ Told
  <2>1. m \in Existing /\ message[m].client = r.id /\ r.id # None
    BY <1>2, MessagesAssumption DEF SentAs, Sent
  <2>2. Became(r.work)
    BY <1>2, <2>1 DEF Became, Inv, Named
  <2>3. QED BY <1>1, <1>2, <1>4, <2>2, RefusalInv, NothingToTell DEF Refusal
<1>5. ASSUME NEW m \in Message, NEW t \in Now, SentAs(Author, r.id) = {}, Reply(r, "ok"),
             Insert(m, NewMessage(Author, r.id, r.work, r.body, r.reply, t))
      PROVE  Inv' /\ Told
  <2> DEFINE row == NewMessage(Author, r.id, r.work, r.body, r.reply, t)
  <2>1. /\ row \in Row /\ row.author = Author /\ row.client = r.id /\ row.work = r.work
        /\ row.revision = 1
    <3>1. /\ r.id \in Nat \cup {None} /\ r.work \in Nat /\ r.body \in Body
          /\ r.reply \in Message \cup {None} /\ Author \in User
      BY <1>2, MessagesAssumption DEF Sent
    <3>2. t \in Nat /\ Mentioned[r.body] \subseteq User
      BY <3>1, Clock, MessagesAssumption
    <3>3. QED BY <3>1, <3>2 DEF NewMessage, Row
  <2>2. Insert(m, row)
    BY <1>5
  <2> HIDE DEF row
  <2>3. /\ m \notin Existing /\ Existing' = Existing \cup {m}
        /\ message'[m] = row /\ \A k \in Existing : message'[k] = message[k]
        /\ message' \in [Message -> Row \cup {None}]
        /\ event' \in SUBSET (Message \X Nat)
        /\ Announced'
        /\ \A n \in Nat : Became(n) => Became(n)'
    BY <2>1, <2>2, Inserted
  <2>4. /\ wire' \in SUBSET Sent /\ answer' \in Answer
        /\ Waiting'
        /\ answer' = "ok" => answer = "ok" \/ r.work = draft.work
    BY <1>1, <1>2, <1>5, Replied
  <2>5. r.id # None
    BY <1>2, MessagesAssumption DEF Sent
  <2>6. Named'
    BY <1>1, <1>2, <2>1, <2>3, <2>5 DEF Named, Inv
  <2>7. \A k \in Existing : message[k].work # r.work
    BY <1>2, <1>5 DEF SentAs, Named, Inv
  <2>8. Once'
    BY <2>1, <2>3, <2>7 DEF Once, Inv
  <2>9. Became(r.work)'
    BY <2>1, <2>3 DEF Became
  <2>10. draft.work \in Nat
    BY DEF Inv, TypeOK, Draft
  <2>11. MovedOn'
    BY <1>1, <2>3, <2>4, <2>9, <2>10 DEF MovedOn, Inv
  <2>12. Told
    BY <2>1, <2>2, InsertTold
  <2>13. QED BY <1>1, <2>3, <2>4, <2>6, <2>8, <2>11, <2>12 DEF Inv, TypeOK
<1>6. QED BY <1>3, <1>4, <1>5 DEF Create

\* A message of a client that sends no identifier.
LEMMA PostInv ==
  ASSUME Inv, NEW u \in User, NEW b \in Body, NEW r \in Quotable, Post(u, b, r)
  PROVE  Inv' /\ Told
<1>1. UNCHANGED <<draft, wire, answer, sends>>
  BY DEF Post, composer
<1>2. PICK m \in Message, t \in Now : Insert(m, NewMessage(u, None, 0, b, r, t))
  BY DEF Post
<1> DEFINE row == NewMessage(u, None, 0, b, r, t)
<1>3. row \in Row /\ row.client = None /\ row.work = 0 /\ row.revision = 1
  <2>1. r \in Message \cup {None}
    BY DEF Quotable, Existing
  <2>2. t \in Nat /\ Mentioned[b] \subseteq User
    BY <1>2, Clock, MessagesAssumption
  <2>3. QED BY <2>1, <2>2 DEF NewMessage, Row
<1>4. Insert(m, row)
  BY <1>2
<1> HIDE DEF row
<1>5. /\ m \notin Existing /\ Existing' = Existing \cup {m}
      /\ message'[m] = row /\ \A k \in Existing : message'[k] = message[k]
      /\ message' \in [Message -> Row \cup {None}]
      /\ event' \in SUBSET (Message \X Nat)
      /\ Announced'
      /\ \A n \in Nat : Became(n) => Became(n)'
  BY <1>3, <1>4, Inserted
<1>6. TypeOK'
  BY <1>1, <1>5 DEF Inv, TypeOK
<1>7. Named' /\ Waiting'
  BY <1>1, <1>3, <1>5 DEF Inv, Named, Waiting
<1>8. Once'
  BY <1>3, <1>5 DEF Inv, Once
<1>9. draft.work \in Nat
  BY DEF Inv, TypeOK, Draft
<1>10. MovedOn'
  BY <1>1, <1>5, <1>9 DEF Inv, MovedOn
<1>11. Told
  BY <1>3, <1>4, InsertTold
<1>12. QED BY <1>5, <1>6, <1>7, <1>8, <1>10, <1>11 DEF Inv

\* A row that takes the place of another: it keeps its origin, and its revision does not fall.
Succeeds(row, m) ==
  /\ row \in Row /\ row.author = message[m].author /\ row.client = message[m].client
  /\ row.work = message[m].work /\ row.revision >= message[m].revision

\* A change of one message, announced under the revision it leaves or not at all.
LEMMA ChangeInv ==
  ASSUME Inv, NEW m \in Existing, NEW row, Succeeds(row, m),
         message' = [message EXCEPT ![m] = row],
         event' = event \/ event' = event \cup {<<m, row.revision>>},
         UNCHANGED composer
  PROVE  Inv' /\ Existing' = Existing
<1>1. UNCHANGED <<draft, wire, answer, sends>>
  BY DEF composer
<1>2. /\ m \in Message /\ row \in Row /\ row # None /\ row.revision \in Nat
      /\ \A k \in Existing : message[k].revision \in Nat
  BY RowAssumption DEF Succeeds, Row, Existing, Inv, TypeOK
<1>3. /\ message'[m] = row /\ \A k \in Message \ {m} : message'[k] = message[k]
      /\ message' \in [Message -> Row \cup {None}]
  BY <1>2 DEF Inv, TypeOK
<1>4. Existing' = Existing
  BY <1>2, <1>3 DEF Existing
<1>5. \A k \in Existing : /\ message'[k].author = message[k].author
                          /\ message'[k].client = message[k].client
                          /\ message'[k].work = message[k].work
                          /\ message'[k].revision >= message[k].revision
                          /\ message'[k].revision \in Nat
  <2>1. ASSUME NEW k \in Existing PROVE k \in Message
    BY DEF Existing
  <2>2. QED BY <1>2, <1>3, <2>1 DEF Succeeds
<1>6. TypeOK'
  BY <1>1, <1>2, <1>3 DEF Inv, TypeOK
<1>7. Announced'
  <2>1. ASSUME NEW k \in Message, NEW n \in Nat, <<k, n>> \in event'
        PROVE  k \in Existing' /\ n <= message'[k].revision
    <3>1. CASE <<k, n>> \in event
      BY <1>2, <1>4, <1>5, <3>1 DEF Inv, Announced
    <3>2. CASE <<k, n>> = <<m, row.revision>>
      BY <1>2, <1>3, <1>4, <3>2
    <3>3. QED BY <2>1, <3>1, <3>2
  <2>2. QED BY <2>1 DEF Announced
<1>8. \A n : Became(n)' <=> Became(n)
  BY <1>4, <1>5 DEF Became
<1>9. Named' /\ Once' /\ Waiting' /\ MovedOn'
  BY <1>1, <1>4, <1>5, <1>8 DEF Inv, Named, Once, Waiting, MovedOn
<1>10. QED BY <1>4, <1>6, <1>7, <1>9 DEF Inv

\* A row that differs from the present one in other fields only.
Revises(row, m) ==
  /\ row \in Row /\ row.author = message[m].author /\ row.client = message[m].client
  /\ row.work = message[m].work /\ row.revision = message[m].revision

\* An announced change.
LEMMA UpdateInv ==
  ASSUME Inv, NEW m \in Existing, NEW row, Revises(row, m), Update(m, row)
  PROVE  Inv' /\ Told
<1> DEFINE next == [row EXCEPT !.revision = @ + 1]
<1>1. row \in Row /\ row.revision \in Nat /\ message[m].revision = row.revision
  BY DEF Revises, Row
<1>2. /\ next \in Row /\ next.revision = message[m].revision + 1
      /\ next.author = row.author /\ next.client = row.client /\ next.work = row.work
  BY <1>1 DEF Row
<1>3. /\ message' = [message EXCEPT ![m] = next]
      /\ event' = event \cup {<<m, message[m].revision + 1>>}
      /\ UNCHANGED composer
  BY DEF Update
<1> HIDE DEF next
<1>4. Succeeds(next, m) /\ event' = event \cup {<<m, next.revision>>}
  BY <1>1, <1>2, <1>3 DEF Succeeds, Revises
<1>5. Inv' /\ Existing' = Existing
  BY <1>3, <1>4, ChangeInv
<1>6. message'[m] = next /\ \A k \in Existing \ {m} : message'[k] = message[k]
  BY <1>3 DEF Inv, TypeOK, Existing
<1>7. ASSUME NEW e \in event, e[1] = m
      PROVE  e[2] < next.revision
  <2>1. e = <<m, e[2]>> /\ m \in Message /\ e[2] \in Nat
    BY <1>7 DEF Inv, TypeOK
  <2>2. e[2] <= message[m].revision
    BY <2>1 DEF Inv, Announced
  <2>3. QED BY <1>1, <1>2, <2>1, <2>2
<1>8. Told
  BY <1>4, <1>5, <1>6, <1>7 DEF Told, Shown
<1>9. QED BY <1>5, <1>8

\* A change that is not announced.
LEMMA MarkInv ==
  ASSUME Inv, NEW m \in Existing, NEW row, Revises(row, m), Mark(m, row),
         row.body = message[m].body, row.deleted = message[m].deleted,
         row.reactions = message[m].reactions
  PROVE  Inv' /\ Told
<1>1. /\ message' = [message EXCEPT ![m] = row] /\ event' = event
      /\ UNCHANGED composer
  BY DEF Mark
<1>2. Succeeds(row, m)
  BY DEF Succeeds, Revises, Row
<1>3. Inv' /\ Existing' = Existing
  BY <1>1, <1>2, ChangeInv
<1>4. message'[m] = row /\ \A k \in Existing \ {m} : message'[k] = message[k]
  BY <1>1 DEF Inv, TypeOK, Existing
<1>5. \A k \in Existing : Shown(k)' = Shown(k)
  BY <1>4 DEF Shown
<1>6. QED BY <1>3, <1>5 DEF Told

\* What the members do to the messages.
LEMMA ChangesInv ==
  ASSUME Inv, NEW u \in User, NEW m \in Message,
         \/ \E b \in Body : Edit(u, m, b)
         \/ Delete(u, m)
         \/ \E add \in BOOLEAN : React(u, m, add) \/ Pin(u, m, add) \/ Save(u, m, add)
  PROVE  Inv' /\ Told
<1>1. m \in Existing /\ message[m] \in Row
  BY DEF Edit, Delete, React, Pin, Save, Live, Existing, Inv, TypeOK
<1>2. ASSUME NEW b \in Body, Edit(u, m, b)
      PROVE  Inv' /\ Told
  <2> DEFINE row == [message[m] EXCEPT !.body = b, !.mentions = Mentioned[b]]
  <2>1. Revises(row, m)
    BY <1>1, MessagesAssumption DEF Revises, Row
  <2>2. Update(m, row)
    BY <1>2 DEF Edit
  <2> HIDE DEF row
  <2>3. QED BY <1>1, <2>1, <2>2, UpdateInv
<1>3. CASE Delete(u, m)
  <2> DEFINE row == [message[m] EXCEPT !.body = None, !.deleted = TRUE, !.mentions = {}]
  <2>1. Revises(row, m)
    BY <1>1 DEF Revises, Row
  <2>2. Update(m, row)
    BY <1>3 DEF Delete
  <2> HIDE DEF row
  <2>3. QED BY <1>1, <2>1, <2>2, UpdateInv
<1>4. ASSUME NEW add \in BOOLEAN, React(u, m, add)
      PROVE  Inv' /\ Told
  <2> DEFINE row == [message[m] EXCEPT !.reactions = Toggle(@, u, add)]
  <2>1. Revises(row, m)
    BY <1>1 DEF Revises, Row, Toggle
  <2>2. Update(m, row)
    BY <1>4 DEF React
  <2> HIDE DEF row
  <2>3. QED BY <1>1, <2>1, <2>2, UpdateInv
<1>5. ASSUME NEW add \in BOOLEAN, Pin(u, m, add)
      PROVE  Inv' /\ Told
  <2> DEFINE row == [message[m] EXCEPT !.pinned = add]
  <2>1. /\ Revises(row, m) /\ row.body = message[m].body
        /\ row.deleted = message[m].deleted /\ row.reactions = message[m].reactions
    BY <1>1 DEF Revises, Row
  <2>2. Mark(m, row)
    BY <1>5 DEF Pin
  <2> HIDE DEF row
  <2>3. QED BY <1>1, <2>1, <2>2, MarkInv
<1>6. ASSUME NEW add \in BOOLEAN, Save(u, m, add)
      PROVE  Inv' /\ Told
  <2> DEFINE row == [message[m] EXCEPT !.saved = Toggle(@, u, add)]
  <2>1. /\ Revises(row, m) /\ row.body = message[m].body
        /\ row.deleted = message[m].deleted /\ row.reactions = message[m].reactions
    BY <1>1 DEF Revises, Row, Toggle
  <2>2. Mark(m, row)
    BY <1>6 DEF Save
  <2> HIDE DEF row
  <2>3. QED BY <1>1, <2>1, <2>2, MarkInv
<1>7. QED BY <1>2, <1>3, <1>4, <1>5, <1>6

\* What leaves messages, events and composer alone.
LEMMA RestInv ==
  ASSUME Inv, UNCHANGED <<message, event, draft, wire, answer, sends>>
  PROVE  Inv' /\ Told
<1>1. Existing' = Existing
  BY DEF Existing
<1>2. \A n : Became(n)' <=> Became(n)
  BY <1>1 DEF Became
<1>3. Inv'
  BY <1>1, <1>2 DEF Inv, TypeOK, Named, Once, Waiting, MovedOn, Announced
<1>4. QED BY <1>3, NothingToTell

-----------------------------------------------------------------------------
(* Every step *)

\* The invariant is kept, and readers are told of what changes.
LEMMA StepInv == Inv /\ [Next]_vars => Inv' /\ Told
<1> SUFFICES ASSUME Inv, [Next]_vars PROVE Inv' /\ Told
  OBVIOUS
<1>1. CASE ComposerStep
  <2>1. UNCHANGED message
    BY <1>1 DEF ComposerStep, Compose, Submit, GiveUp, AnswerSent, AnswerRejected,
                AnswerConflict, server
  <2>2. Inv'
    BY <1>1, ComposeInv, AnswerInv DEF ComposerStep
  <2>3. QED BY <2>1, <2>2, NothingToTell
<1>2. CASE \E r \in wire : Create(r)
  BY <1>2, CreateInv
<1>3. ASSUME NEW u \in User, MemberStep(u)
      PROVE  Inv' /\ Told
  <2>1. CASE \E b \in Body, r \in Quotable : Post(u, b, r)
    BY <2>1, PostInv
  <2>2. CASE \E m \in Message :
               \/ \E b \in Body : Edit(u, m, b)
               \/ Delete(u, m)
               \/ \E add \in BOOLEAN : React(u, m, add) \/ Pin(u, m, add) \/ Save(u, m, add)
    BY <2>2, ChangesInv
  <2>3. CASE \E m \in Message : Advance(u, m)
    BY <2>3, RestInv DEF Advance, composer
  <2>4. CASE \E k \in Mode : Prefer(u, k)
    BY <2>4, RestInv DEF Prefer, composer
  <2>5. CASE Pause(u) \/ Leave(u) \/ Enter(u)
    BY <2>5, RestInv DEF Pause, Leave, Enter, composer
  <2>6. QED BY <1>3, <2>1, <2>2, <2>3, <2>4, <2>5 DEF MemberStep
<1>4. CASE Archive
  BY <1>4, RestInv DEF Archive, composer
<1>5. CASE UNCHANGED vars
  BY <1>5, RestInv DEF vars
<1>6. QED BY <1>1, <1>2, <1>3, <1>4, <1>5 DEF Next

\* In every behaviour the rows have their kinds, every composition its one message at most,
\* and no event is ahead of its message.
THEOREM Inductive == Spec => []Inv
<1>1. Init => Inv
  BY InitInv
<1>2. Inv /\ [Next]_vars => Inv'
  BY StepInv
<1>3. QED BY <1>1, <1>2, PTL DEF Spec

-----------------------------------------------------------------------------
(* The theorems *)

\* What is composed once is sent at most once, and is sent before the next is composed.
THEOREM NeverTwice == Spec => []SentOnce
<1>1. Inv => SentOnce
  <2> SUFFICES ASSUME Inv, NEW n \in 1 .. LastDraft
               PROVE  LET copies == {m \in Existing : message[m].work = n}
                      IN  Cardinality(copies) <= 1 /\ (n < draft.work => copies # {})
    BY DEF SentOnce
  <2> DEFINE copies == {m \in Existing : message[m].work = n}
  <2>1. n \in Nat /\ 0 < n
    BY MessagesAssumption
  <2>2. Cardinality(copies) <= 1
    <3>1. CASE copies = {}
      BY <3>1, FS_EmptySet
    <3>2. ASSUME NEW m \in copies
          PROVE  Cardinality(copies) <= 1
      <4>1. copies = {m}
        BY <2>1, <3>2 DEF Inv, Once
      <4> HIDE DEF copies
      <4>2. Cardinality(copies) = 1
        BY <4>1, FS_Singleton
      <4>3. QED BY <4>2
    <3>3. QED BY <3>1, <3>2
  <2>3. n < draft.work => copies # {}
    BY <2>1 DEF Inv, MovedOn, Became
  <2>4. QED BY <2>2, <2>3
<1>2. QED BY <1>1, Inductive, PTL

\* A change that readers could see is announced under a revision above all earlier ones.
THEOREM AlwaysTold == Spec => ChangesAnnounced
<1>1. Inv /\ [Next]_vars => [Told]_vars
  BY StepInv
<1>2. QED BY <1>1, Inductive, PTL DEF Spec, ChangesAnnounced, Told

-----------------------------------------------------------------------------
(* Reading, where the processes have one clock *)

\* What is not deleted mentions whom its present words mention.
Worded(m) ==
  message[m].deleted \/
  (message[m].body \in Body /\ message[m].mentions = Mentioned[message[m].body])

\* Seen is the history up to the position, which is a message.
Position(u) ==
  IF cursor[u] = None THEN seen[u] = {}
  ELSE cursor[u] \in Existing /\ seen[u] = {m \in Existing : ~After(m, cursor[u])}

ReadInv ==
  /\ cursor = [u \in User |-> cursor[u]] /\ seen = [u \in User |-> seen[u]]
  /\ mode \in [User -> Mode] /\ member \subseteq User
  /\ \A m \in Existing : message[m].created \in 1 .. Cardinality(Existing) /\ Worded(m)
  /\ \A u \in User : Position(u)

\* There are finitely many messages, with dates that are numbers.
LEMMA Counted == IsFiniteSet(Existing) /\ Cardinality(Existing) \in Nat
<1>1. IsFiniteSet(Message)
  BY FS_Interval, MessagesAssumption DEF Message
<1>2. Existing \subseteq Message
  BY DEF Existing
<1>3. QED BY <1>1, <1>2, FS_Subset, FS_CardinalityType

\* Steps that change rows but neither their number nor their dates nor what was read.
LEMMA RowsStay ==
  ASSUME ReadInv, Existing' = Existing, UNCHANGED <<cursor, seen>>,
         mode' \in [User -> Mode], member' \subseteq User,
         \A m \in Existing : message'[m].created = message[m].created /\ Worded(m)'
  PROVE  ReadInv'
<1>1. \A m, k \in Existing : After(m, k)' <=> After(m, k)
  BY DEF After
<1>2. ASSUME NEW u \in User
      PROVE  Position(u)'
  <2>1. Position(u)
    BY DEF ReadInv
  <2>2. CASE cursor[u] = None
    BY <2>1, <2>2 DEF Position
  <2>3. CASE cursor[u] # None
    BY <1>1, <2>1, <2>3 DEF Position
  <2>4. QED BY <2>2, <2>3
<1>3. QED BY <1>2 DEF ReadInv

\* A new message comes after all others, hence after every position.
LEMMA NewIsLast ==
  ASSUME Skew = 0, Inv, ReadInv, NEW m \in Message, NEW t \in Now, NEW row \in Row,
         row.revision = 1, row.created = t, Insert(m, row),
         ~row.deleted, row.body \in Body, row.mentions = Mentioned[row.body],
         UNCHANGED <<cursor, seen, mode, member>>
  PROVE  ReadInv'
<1>1. /\ m \notin Existing /\ Existing' = Existing \cup {m}
      /\ message'[m] = row /\ \A k \in Existing : message'[k] = message[k]
  BY Inserted
<1> DEFINE n == Cardinality(Existing)
<1>2. n \in Nat /\ Cardinality(Existing') = n + 1
  <2>1. n \in Nat /\ IsFiniteSet(Existing)
    BY Counted
  <2>2. QED BY <1>1, <2>1, FS_AddElement
<1>3. t = n + 1
  BY <1>2 DEF Now
<1>4. \A k \in Existing : message[k].created \in 1 .. n /\ Worded(k)
  BY DEF ReadInv
<1> HIDE DEF n
<1>5. \A k \in Existing' : message'[k].created \in 1 .. n + 1 /\ Worded(k)'
  BY <1>1, <1>2, <1>3, <1>4 DEF Worded
<1>6. \A k, j \in Existing : /\ After(k, j)' <=> After(k, j)
                             /\ After(m, k)'
  BY <1>1, <1>2, <1>3, <1>4 DEF After
<1>7. ASSUME NEW u \in User
      PROVE  Position(u)'
  <2>1. Position(u)
    BY DEF ReadInv
  <2>2. CASE cursor[u] = None
    BY <2>1, <2>2 DEF Position
  <2>3. CASE cursor[u] # None
    BY <1>1, <1>6, <2>1, <2>3 DEF Position
  <2>4. QED BY <2>2, <2>3
<1>8. QED BY <1>2, <1>5, <1>7 DEF ReadInv

\* A reader who acknowledges a message has seen what is not after it.
LEMMA AdvanceRead ==
  ASSUME Inv, ReadInv, NEW u \in User, NEW m \in Message, Advance(u, m)
  PROVE  ReadInv'
<1>1. /\ m \in Existing /\ UNCHANGED <<message, member, mode>> /\ Existing' = Existing
      /\ cursor' = [cursor EXCEPT ![u] = IF Forward(u, m) THEN m ELSE @]
      /\ seen' = [seen EXCEPT ![u] = @ \cup {m} \cup Older(m)]
  BY DEF Advance, Existing
<1>2. \A k \in Existing : message[k].created \in Nat /\ k \in Nat
  BY Counted DEF ReadInv, Existing, Message
<1>3. /\ cursor'[u] = IF Forward(u, m) THEN m ELSE cursor[u]
      /\ seen'[u] = seen[u] \cup {m} \cup Older(m)
      /\ \A v \in User \ {u} : cursor'[v] = cursor[v] /\ seen'[v] = seen[v]
      /\ cursor' = [v \in User |-> cursor'[v]] /\ seen' = [v \in User |-> seen'[v]]
  BY <1>1 DEF ReadInv
<1>4. \A k, j \in Existing : After(k, j)' <=> After(k, j)
  BY <1>1 DEF After
<1>5. Older(m) = {k \in Existing : After(m, k)}
  BY DEF Older
<1>6. /\ m # None
      /\ \A k \in Existing : After(m, k) <=> k # m /\ ~After(k, m)
  BY <1>1, <1>2, MessagesAssumption DEF After
<1>7. Position(u)'
  <2>1. Position(u)
    BY DEF ReadInv
  <2>2. CASE cursor[u] = None
    <3>1. cursor'[u] = m /\ seen'[u] = {m} \cup Older(m)
      BY <1>3, <2>1, <2>2 DEF Forward, Position
    <3>2. QED BY <1>1, <1>4, <1>5, <1>6, <3>1 DEF Position
  <2>3. CASE cursor[u] # None /\ Forward(u, m)
    <3>1. cursor'[u] = m /\ cursor[u] \in Existing /\ After(m, cursor[u])
      BY <1>3, <2>1, <2>3 DEF Forward, Position
    <3>2. \A k \in Existing : ~After(k, cursor[u]) => ~After(k, m)
      BY <1>1, <1>2, <3>1 DEF After
    <3>3. seen'[u] = {k \in Existing : ~After(k, m)}
      BY <1>1, <1>3, <1>5, <1>6, <2>1, <2>3, <3>2 DEF Position
    <3>4. QED BY <1>1, <1>4, <1>6, <3>1, <3>3 DEF Position
  <2>4. CASE cursor[u] # None /\ ~Forward(u, m)
    <3>1. cursor'[u] = cursor[u] /\ cursor[u] \in Existing /\ ~After(m, cursor[u])
      BY <1>3, <2>1, <2>4 DEF Forward, Position
    <3>2. \A k \in Existing : After(m, k) => ~After(k, cursor[u])
      BY <1>1, <1>2, <3>1 DEF After
    <3>3. seen'[u] = seen[u]
      BY <1>1, <1>3, <1>5, <2>1, <2>4, <3>1, <3>2 DEF Position
    <3>4. QED BY <1>1, <1>4, <2>1, <2>4, <3>1, <3>3 DEF Position
  <2>5. QED BY <2>2, <2>3, <2>4
<1>8. \A v \in User \ {u} : Position(v)'
  BY <1>1, <1>3, <1>4 DEF Position, ReadInv
<1>9. \A k \in Existing : message'[k].created \in 1 .. Cardinality(Existing') /\ Worded(k)'
  BY <1>1 DEF ReadInv, Worded
<1>10. QED BY <1>1, <1>3, <1>7, <1>8, <1>9 DEF ReadInv

\* What the members do to the messages.
LEMMA ChangesRead ==
  ASSUME Inv, ReadInv, NEW u \in User, NEW m \in Message,
         \/ \E b \in Body : Edit(u, m, b)
         \/ Delete(u, m)
         \/ \E add \in BOOLEAN : React(u, m, add) \/ Pin(u, m, add) \/ Save(u, m, add)
  PROVE  ReadInv'
<1>1. m \in Existing /\ message[m] \in Row /\ UNCHANGED <<member, cursor, mode, seen>>
  BY DEF Edit, Delete, React, Pin, Save, Update, Mark, Live, Existing, Inv, TypeOK
<1>2. Worded(m)
  BY <1>1 DEF ReadInv
<1> DEFINE Kept(row) == /\ row \in Row /\ row.created = message[m].created
                        /\ row.deleted \/ (row.body \in Body /\ row.mentions = Mentioned[row.body])
<1>3. \E row : Kept(row) /\ message' = [message EXCEPT ![m] = row]
  <2>1. ASSUME NEW row, Kept(row)
        PROVE  Kept([row EXCEPT !.revision = @ + 1])
    BY <2>1 DEF Row
  <2> DEFINE Changed(row) == message' = [message EXCEPT ![m] = [row EXCEPT !.revision = @ + 1]]
             Marked(row) == message' = [message EXCEPT ![m] = row]
  <2>2. ASSUME NEW b \in Body, Edit(u, m, b)
        PROVE  \E row : Kept(row) /\ Changed(row)
    <3> DEFINE row == [message[m] EXCEPT !.body = b, !.mentions = Mentioned[b]]
    <3>1. Kept(row)
      BY <1>1, MessagesAssumption DEF Row
    <3>2. Changed(row)
      BY <2>2 DEF Edit, Update
    <3>3. QED BY <3>1, <3>2
  <2>3. ASSUME Delete(u, m)
        PROVE  \E row : Kept(row) /\ Changed(row)
    <3> DEFINE row == [message[m] EXCEPT !.body = None, !.deleted = TRUE, !.mentions = {}]
    <3>1. Kept(row)
      BY <1>1 DEF Row
    <3>2. Changed(row)
      BY <2>3 DEF Delete, Update
    <3>3. QED BY <3>1, <3>2
  <2>4. ASSUME NEW add \in BOOLEAN, React(u, m, add)
        PROVE  \E row : Kept(row) /\ Changed(row)
    <3> DEFINE row == [message[m] EXCEPT !.reactions = Toggle(@, u, add)]
    <3>1. Kept(row)
      BY <1>1, <1>2 DEF Row, Toggle, Worded
    <3>2. Changed(row)
      BY <2>4 DEF React, Update
    <3>3. QED BY <3>1, <3>2
  <2>5. ASSUME NEW add \in BOOLEAN, Pin(u, m, add)
        PROVE  \E row : Kept(row) /\ Marked(row)
    <3> DEFINE row == [message[m] EXCEPT !.pinned = add]
    <3>1. Kept(row)
      BY <1>1, <1>2 DEF Row, Worded
    <3>2. Marked(row)
      BY <2>5 DEF Pin, Mark
    <3>3. QED BY <3>1, <3>2
  <2>6. ASSUME NEW add \in BOOLEAN, Save(u, m, add)
        PROVE  \E row : Kept(row) /\ Marked(row)
    <3> DEFINE row == [message[m] EXCEPT !.saved = Toggle(@, u, add)]
    <3>1. Kept(row)
      BY <1>1, <1>2 DEF Row, Toggle, Worded
    <3>2. Marked(row)
      BY <2>6 DEF Save, Mark
    <3>3. QED BY <3>1, <3>2
  <2> HIDE DEF Kept
  <2>7. QED BY <2>1, <2>2, <2>3, <2>4, <2>5, <2>6
<1>4. PICK row : Kept(row) /\ message' = [message EXCEPT ![m] = row]
  BY <1>3
<1>5. /\ message'[m] = row /\ \A k \in Message \ {m} : message'[k] = message[k]
      /\ row # None
  BY <1>4, RowAssumption DEF Inv, TypeOK
<1>6. Existing' = Existing
  BY <1>1, <1>5 DEF Existing
<1>7. \A k \in Existing : message'[k].created = message[k].created /\ Worded(k)'
  BY <1>4, <1>5 DEF Existing, Worded, ReadInv
<1>8. QED BY <1>1, <1>6, <1>7, RowsStay DEF ReadInv

\* A step of the composer or a handler that sends keeps it too.
LEMMA SendRead ==
  ASSUME Skew = 0, Inv, ReadInv,
         \/ \E r \in wire : Create(r)
         \/ \E u \in User, b \in Body, r \in Quotable : Post(u, b, r)
  PROVE  ReadInv'
<1> DEFINE Sends(u, id, work, b, q) ==
      /\ UNCHANGED <<cursor, seen, mode, member>>
      /\ \E m \in Message, t \in Now : Insert(m, NewMessage(u, id, work, b, q, t))
<1>1. ASSUME NEW u \in User, NEW id \in Nat \cup {None}, NEW work \in Nat, NEW b \in Body,
             NEW q \in Message \cup {None}, Sends(u, id, work, b, q)
      PROVE  ReadInv'
  <2>1. PICK m \in Message, t \in Now : Insert(m, NewMessage(u, id, work, b, q, t))
    BY <1>1
  <2> DEFINE row == NewMessage(u, id, work, b, q, t)
  <2>2. t \in Nat /\ Mentioned[b] \subseteq User
    BY Clock, MessagesAssumption
  <2>3. /\ row \in Row /\ row.revision = 1 /\ row.created = t /\ ~row.deleted /\ row.body \in Body
        /\ row.mentions = Mentioned[row.body]
    BY <2>2 DEF NewMessage, Row
  <2>4. Insert(m, row)
    BY <2>1
  <2> HIDE DEF row
  <2>5. QED BY <1>1, <2>3, <2>4, NewIsLast
<1>2. ASSUME NEW r \in wire, Create(r)
      PROVE  ReadInv'
  <2>1. r \in Sent /\ UNCHANGED <<cursor, seen, mode, member>>
    BY <1>2 DEF Create, Inv, TypeOK
  <2>2. CASE UNCHANGED message
    <3>1. Existing' = Existing /\ \A m \in Existing : Worded(m)'
      BY <2>2 DEF Existing, ReadInv, Worded
    <3>2. QED BY <2>1, <2>2, <3>1, RowsStay DEF ReadInv
  <2>3. CASE \E m \in Message, t \in Now :
               Insert(m, NewMessage(Author, r.id, r.work, r.body, r.reply, t))
    BY <1>1, <2>1, <2>3, MessagesAssumption DEF Sent
  <2>4. QED BY <1>2, <2>2, <2>3 DEF Create, Refusal
<1>3. ASSUME NEW u \in User, NEW b \in Body, NEW r \in Quotable, Post(u, b, r)
      PROVE  ReadInv'
  <2>1. r \in Message \cup {None}
    BY DEF Quotable, Existing
  <2>2. Sends(u, None, 0, b, r)
    BY <1>3 DEF Post
  <2>3. QED BY <1>1, <2>1, <2>2
<1>4. QED BY <1>2, <1>3

\* Every step keeps what was read in order.
LEMMA StepRead ==
  ASSUME Skew = 0
  PROVE  Inv /\ ReadInv /\ [Next]_vars => ReadInv'
<1> SUFFICES ASSUME Inv, ReadInv, [Next]_vars PROVE ReadInv'
  OBVIOUS
<1>1. ASSUME UNCHANGED message
      PROVE  Existing' = Existing /\ \A m \in Existing : message'[m] = message[m] /\ Worded(m)'
  BY <1>1 DEF Existing, ReadInv, Worded
<1>2. ASSUME UNCHANGED <<message, cursor, seen>>, mode' \in [User -> Mode], member' \subseteq User
      PROVE  ReadInv'
  BY <1>1, <1>2, RowsStay
<1>3. mode \in [User -> Mode] /\ member \subseteq User
  BY DEF ReadInv
<1>4. CASE ComposerStep
  <2>1. UNCHANGED <<message, cursor, seen, mode, member>>
    BY <1>4 DEF ComposerStep, Compose, Submit, GiveUp, AnswerSent, AnswerRejected,
                AnswerConflict, server
  <2>2. QED BY <1>2, <1>3, <2>1
<1>5. CASE \E r \in wire : Create(r)
  BY <1>5, SendRead
<1>6. ASSUME NEW u \in User, MemberStep(u)
      PROVE  ReadInv'
  <2>1. CASE \E b \in Body, r \in Quotable : Post(u, b, r)
    BY <2>1, SendRead
  <2>2. CASE \E m \in Message :
               \/ \E b \in Body : Edit(u, m, b)
               \/ Delete(u, m)
               \/ \E add \in BOOLEAN : React(u, m, add) \/ Pin(u, m, add) \/ Save(u, m, add)
    BY <2>2, ChangesRead
  <2>3. CASE \E m \in Message : Advance(u, m)
    BY <2>3, AdvanceRead
  <2>4. CASE \E k \in Mode : Prefer(u, k)
    BY <1>2, <1>3, <2>4 DEF Prefer
  <2>5. CASE Pause(u) \/ Enter(u)
    BY <1>2, <1>3, <2>5 DEF Pause, Enter
  <2>6. CASE Leave(u)
    <3>1. /\ UNCHANGED message /\ member' = member \ {u}
          /\ cursor' = [cursor EXCEPT ![u] = None] /\ seen' = [seen EXCEPT ![u] = {}]
          /\ mode' \in [User -> Mode]
      BY <1>3, <2>6 DEF Leave, Mode
    <3>2. /\ cursor'[u] = None /\ seen'[u] = {}
          /\ \A v \in User \ {u} : cursor'[v] = cursor[v] /\ seen'[v] = seen[v]
          /\ cursor' = [v \in User |-> cursor'[v]] /\ seen' = [v \in User |-> seen'[v]]
      BY <3>1 DEF ReadInv
    <3>3. \A v \in User : Position(v)'
      BY <1>1, <3>1, <3>2 DEF Position, ReadInv, After
    <3>4. QED BY <1>1, <1>3, <3>1, <3>2, <3>3 DEF ReadInv
  <2>7. QED BY <1>6, <2>1, <2>2, <2>3, <2>4, <2>5, <2>6 DEF MemberStep
<1>7. CASE Archive
  BY <1>2, <1>3, <1>7 DEF Archive
<1>8. CASE UNCHANGED vars
  BY <1>2, <1>3, <1>8 DEF vars
<1>9. QED BY <1>4, <1>5, <1>6, <1>7, <1>8 DEF Next

\* UnreadIsUnseen: unread are exactly the live messages of others that the member has not seen,
\* for any number of members, messages and tabs, as long as no process has another clock.
THEOREM UnreadAreUnseen ==
  ASSUME Skew = 0
  PROVE  Spec => []UnreadIsUnseen
<1>1. Init => ReadInv
  <2> SUFFICES ASSUME Init PROVE ReadInv
    OBVIOUS
  <2>1. Existing = {}
    BY DEF Init, Existing
  <2>2. QED BY <2>1 DEF Init, ReadInv, Position, Mode
<1>2. Inv /\ ReadInv /\ [Next]_vars => ReadInv'
  BY StepRead
<1>3. Inv /\ ReadInv => UnreadIsUnseen
  <2> SUFFICES ASSUME ReadInv, NEW u \in member
               PROVE  LET unseen == {m \in Live : message[m].author # u /\ m \notin seen[u]}
                      IN  /\ Unread(u) = unseen
                          /\ ~paused[u] /\ mode[u] # "muted" =>
                               {m \in unseen : u \in Mentioned[message[m].body]} \subseteq Alerts(u)
    BY DEF UnreadIsUnseen
  <2> DEFINE unseen == {m \in Live : message[m].author # u /\ m \notin seen[u]}
  <2>1. u \in User /\ Position(u) /\ mode[u] \in Mode
    BY DEF ReadInv
  <2>2. Unread(u) = unseen
    <3>1. CASE cursor[u] = None
      BY <2>1, <3>1 DEF Unread, Position
    <3>2. CASE cursor[u] # None
      BY <2>1, <3>2 DEF Unread, Position, Live
    <3>3. QED BY <3>1, <3>2
  <2>3. \A m \in unseen : message[m].mentions = Mentioned[message[m].body]
    BY DEF Live, ReadInv, Worded
  <2> HIDE DEF unseen
  <2>4. ASSUME ~paused[u], mode[u] # "muted"
        PROVE  {m \in unseen : u \in Mentioned[message[m].body]} \subseteq Alerts(u)
    BY <2>1, <2>2, <2>3, <2>4 DEF Alerts, Mode
  <2>5. QED BY <2>2, <2>4 DEF unseen
<1>4. QED BY <1>1, <1>2, <1>3, Inductive, PTL DEF Spec
=============================================================================
