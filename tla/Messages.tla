------------------------------ MODULE Messages ------------------------------
(***************************************************************************)
(* Sending, changing and reading the messages of one conversation: the     *)
(* composer of one author's tab (frontend/src/components/conversation.tsx) *)
(* against the handlers of modules/messaging.  Every handler that writes   *)
(* first locks the conversation (require_access with for_update), so one   *)
(* committed transaction is one step; the network between the composer and *)
(* the handlers loses, delays and repeats.                                 *)
(***************************************************************************)
EXTENDS Naturals, FiniteSets

CONSTANTS
  User,        \* people
  Author,      \* the one whose composer is modelled
  Body,        \* what a message may say
  Mentioned,   \* whom a body mentions
  LastMessage, \* identifiers are 1..LastMessage, in the order of UUIDs
  LastDraft,   \* bound on the compositions of the tab
  MaxSends,    \* bound on the requests of the composer
  Skew,        \* how far the clocks of two API processes differ, in messages
  None

ASSUME MessagesAssumption ==
  /\ Author \in User
  /\ Mentioned \in [Body -> SUBSET User]
  /\ {LastMessage, LastDraft, MaxSends} \subseteq Nat \ {0} /\ Skew \in Nat
  /\ None \notin Body \cup Nat \cup {"ok", "denied", "conflict"}

Message == 1 .. LastMessage
Mode == {"all", "mentions", "muted"}

Row == [author : User, client : Nat \cup {None}, work : Nat, body : Body \cup {None},
        reply : Message \cup {None}, created : Nat, deleted : BOOLEAN, revision : Nat,
        mentions : SUBSET User, reactions : SUBSET User, pinned : BOOLEAN, saved : SUBSET User]

ASSUME RowAssumption == None \notin Row

VARIABLES
  message,   \* message_messages, with the rows that belong to each message
  member,    \* who may read and write the conversation
  archived,  \* whether the channel is archived
  cursor,    \* message_read_cursors: the message each member has read up to
  mode,      \* message_notification_preferences
  paused,    \* whose alerts are paused
  event,     \* the committed message.changed events: <<message, revision>>
  draft,     \* the composer's draft, as kept in sessionStorage
  wire,      \* requests of the composer that no handler has seen yet
  answer,    \* the answer on its way to the composer that waits for it
  sends,     \* requests sent so far
  seen       \* history: the messages each member has acknowledged

server == <<message, member, archived, cursor, mode, paused, event, seen>>
composer == <<draft, wire, answer, sends>>
vars == <<message, member, archived, cursor, mode, paused, event, draft, wire,
          answer, sends, seen>>

\* require_access, and what the handlers that write add to it.
MayRead(u) == u \in member
MayWrite(u) == MayRead(u) /\ ~archived

Existing == {m \in Message : message[m] # None}
Live == {m \in Existing : ~message[m].deleted}

\* The order of history: creation time, then identifier.
After(m, n) ==
  \/ message[m].created > message[n].created
  \/ message[m].created = message[n].created /\ m > n

\* _unread and read_state: the live messages of others after the read position.
Unread(u) ==
  {m \in Live : /\ message[m].author # u
                /\ cursor[u] # None => After(m, cursor[u])}

\* alerts: of those, the ones the member wants to hear of.
Alerts(u) ==
  {m \in Unread(u) : /\ ~paused[u]
                     /\ \/ mode[u] = "all"
                        \/ mode[u] = "mentions" /\ u \in message[m].mentions}

\* What a response or a snapshot shows of a message itself.
Shown(m) ==
  [body |-> message[m].body, deleted |-> message[m].deleted,
   reactions |-> IF message[m].deleted THEN {} ELSE message[m].reactions]

\* list_messages: the rows of a page before n, in the order of history.
Older(n) == {m \in Existing : After(n, m)}

-----------------------------------------------------------------------------

Fresh(n) == [work |-> n, id |-> n, body |-> None, reply |-> None,
             attempted |-> FALSE, busy |-> FALSE]

Init ==
  /\ message = [m \in Message |-> None]
  /\ member = User
  /\ archived = FALSE
  /\ cursor = [u \in User |-> None]
  /\ mode = [u \in User |-> "all"]
  /\ paused = [u \in User |-> FALSE]
  /\ event = {}
  /\ draft = Fresh(1)
  /\ wire = {}
  /\ answer = None
  /\ sends = 0
  /\ seen = [u \in User |-> {}]

-----------------------------------------------------------------------------
(* The composer.                                                           *)

\* draft.attempted || busy: neither the text nor the quoted message can be changed.
Locked == draft.attempted \/ draft.busy

Compose(b, r) ==
  /\ ~Locked
  /\ draft' = [draft EXCEPT !.body = b, !.reply = r]
  /\ UNCHANGED <<server, wire, answer, sends>>

\* submit, up to its await: the first attempt, or a retry of one that nobody answered.
Submit ==
  /\ draft.body # None /\ ~draft.busy
  /\ sends < MaxSends
  /\ sends' = sends + 1
  /\ draft' = [draft EXCEPT !.attempted = TRUE, !.busy = TRUE]
  /\ wire' = wire \cup {[id |-> draft.id, work |-> draft.work, body |-> draft.body,
                         reply |-> draft.reply, number |-> sends', heard |-> TRUE]}
  /\ UNCHANGED <<server, answer>>

\* A network failure, the time-out of 20 s, a 5xx or a reload of the tab: the composer
\* stops waiting; the request may still arrive.
GiveUp ==
  /\ draft.busy
  /\ draft' = [draft EXCEPT !.busy = FALSE]
  /\ wire' = {[r EXCEPT !.heard = FALSE] : r \in wire}
  /\ answer' = None
  /\ UNCHANGED <<server, sends>>

\* submit after its await: a new draft after a success, the same one, to be corrected,
\* after a definite rejection, and the same one, still locked, after a 409.
AnswerSent ==
  /\ answer = "ok" /\ draft.work < LastDraft
  /\ draft' = Fresh(draft.work + 1)
  /\ answer' = None
  /\ UNCHANGED <<server, wire, sends>>

Corrected_Renewed ==  \* variant: the corrected draft gets an identifier of its own
  [draft EXCEPT !.attempted = FALSE, !.busy = FALSE, !.id = draft.id + LastDraft]

Corrected == [draft EXCEPT !.attempted = FALSE, !.busy = FALSE]

AnswerRejected ==
  /\ answer = "denied"
  /\ draft' = Corrected
  /\ answer' = None
  /\ UNCHANGED <<server, wire, sends>>

AnswerConflict ==
  /\ answer = "conflict"
  /\ draft' = [draft EXCEPT !.busy = FALSE]
  /\ answer' = None
  /\ UNCHANGED <<server, wire, sends>>

-----------------------------------------------------------------------------
(* create_message.                                                         *)

\* The clock of the process that holds the locks: another process may be ahead of it.
Now == {t \in 1 .. Cardinality(Existing) + 1 : t + Skew > Cardinality(Existing)}

NewMessage(u, id, work, b, r, t) ==
  [author |-> u, client |-> id, work |-> work, body |-> b, reply |-> r, created |-> t,
   deleted |-> FALSE, revision |-> 1, mentions |-> Mentioned[b], reactions |-> {},
   pinned |-> FALSE, saved |-> {}]

\* The insertion of the row with its mentions and its event.
Insert(m, row) ==
  /\ message[m] = None
  /\ message' = [message EXCEPT ![m] = row]
  /\ event' = event \cup {<<m, row.revision>>}

\* get_message_by_client_id
SentAs(u, id) == {m \in Existing : message[m].author = u /\ message[m].client = id}

SamePayload(m, r) == message[m].body = r.body /\ message[m].reply = r.reply

Reply(r, a) == answer' = IF r.heard THEN a ELSE answer

Refusal(r, a) ==
  /\ Reply(r, a)
  /\ UNCHANGED <<message, event>>

Create(r) ==
  /\ wire' = wire \ {r}
  /\ \/ ~MayRead(Author) /\ Refusal(r, "denied")
     \/ MayRead(Author) /\ archived /\ Refusal(r, "conflict")
     \/ /\ MayWrite(Author)
        /\ \/ \E m \in SentAs(Author, r.id) :
                Refusal(r, IF SamePayload(m, r) THEN "ok" ELSE "conflict")
           \/ /\ SentAs(Author, r.id) = {}
              /\ ~ (Mentioned[r.body] \subseteq member)
              /\ Refusal(r, "denied")
           \/ /\ SentAs(Author, r.id) = {}
              /\ Mentioned[r.body] \subseteq member
              /\ \E m \in Message, t \in Now :
                   Insert(m, NewMessage(Author, r.id, r.work, r.body, r.reply, t))
              /\ Reply(r, "ok")
  /\ UNCHANGED <<member, archived, cursor, mode, paused, draft, sends, seen>>

\* The same handler for a client that sends no identifier.
Post(u, b, r) ==
  /\ MayWrite(u)
  /\ Mentioned[b] \subseteq member
  /\ \E m \in Message, t \in Now : Insert(m, NewMessage(u, None, 0, b, r, t))
  /\ UNCHANGED <<member, archived, cursor, mode, paused, composer, seen>>

-----------------------------------------------------------------------------
(* The other handlers.                                                     *)

Update_SameRevision(m, row) ==  \* variant: the revision is not increased
  /\ message' = [message EXCEPT ![m] = row]
  /\ event' = event \cup {<<m, message[m].revision>>}
  /\ UNCHANGED <<member, archived, cursor, mode, paused, composer, seen>>

\* update_message with its event; what the update leaves alone is EXCEPT's.
Update(m, row) ==
  /\ message' = [message EXCEPT ![m] = [row EXCEPT !.revision = @ + 1]]
  /\ event' = event \cup {<<m, message[m].revision + 1>>}
  /\ UNCHANGED <<member, archived, cursor, mode, paused, composer, seen>>

Edit(u, m, b) ==
  /\ MayWrite(u)
  /\ m \in Live /\ message[m].author = u
  /\ message[m].body # b
  /\ Mentioned[b] \ message[m].mentions \subseteq member
  /\ Update(m, [message[m] EXCEPT !.body = b, !.mentions = Mentioned[b]])

Delete(u, m) ==
  /\ MayRead(u)
  /\ m \in Live /\ message[m].author = u
  /\ Update(m, [message[m] EXCEPT !.body = None, !.deleted = TRUE, !.mentions = {}])

Toggle(set, u, add) == IF add THEN set \cup {u} ELSE set \ {u}

React(u, m, add) ==
  /\ MayWrite(u)
  /\ m \in Live
  /\ Toggle(message[m].reactions, u, add) # message[m].reactions
  /\ Update(m, [message[m] EXCEPT !.reactions = Toggle(@, u, add)])

\* change_mark: pins are shared, saved messages private; neither is announced.
Mark(m, row) ==
  /\ message' = [message EXCEPT ![m] = row]
  /\ UNCHANGED <<member, archived, cursor, mode, paused, event, composer, seen>>

Pin(u, m, add) ==
  /\ MayWrite(u)
  /\ m \in IF add THEN Live ELSE Existing
  /\ message[m].pinned # add
  /\ Mark(m, [message[m] EXCEPT !.pinned = add])

Save(u, m, add) ==
  /\ MayRead(u)
  /\ m \in IF add THEN Live ELSE Existing
  /\ Toggle(message[m].saved, u, add) # message[m].saved
  /\ Mark(m, [message[m] EXCEPT !.saved = Toggle(@, u, add)])

\* advance: the position moves to a later message only, deleted ones included.
Forward_Always(u, m) == TRUE  \* variant: the last request wins

Forward(u, m) == cursor[u] = None \/ After(m, cursor[u])

Advance(u, m) ==
  /\ MayRead(u) /\ m \in Existing
  /\ cursor' = [cursor EXCEPT ![u] = IF Forward(u, m) THEN m ELSE @]
  /\ seen' = [seen EXCEPT ![u] = @ \cup {m} \cup Older(m)]
  /\ UNCHANGED <<message, member, archived, mode, paused, event, composer>>

Prefer(u, k) ==
  /\ MayRead(u) /\ mode[u] # k
  /\ mode' = [mode EXCEPT ![u] = k]
  /\ UNCHANGED <<message, member, archived, cursor, paused, event, composer, seen>>

\* set_notification_pause, and the end of the pause.
Pause(u) ==
  /\ paused' = [paused EXCEPT ![u] = ~@]
  /\ UNCHANGED <<message, member, archived, cursor, mode, event, composer, seen>>

\* A member leaves or is removed: position and preference go with the membership.
Leave(u) ==
  /\ u \in member
  /\ member' = member \ {u}
  /\ cursor' = [cursor EXCEPT ![u] = None]
  /\ mode' = [mode EXCEPT ![u] = "all"]
  /\ seen' = [seen EXCEPT ![u] = {}]
  /\ UNCHANGED <<message, archived, paused, event, composer>>

Enter(u) ==
  /\ u \notin member
  /\ member' = member \cup {u}
  /\ UNCHANGED <<message, archived, cursor, mode, paused, event, composer, seen>>

Archive ==
  /\ archived' = ~archived
  /\ UNCHANGED <<message, member, cursor, mode, paused, event, composer, seen>>

-----------------------------------------------------------------------------

Quotable == Existing \cup {None}

ComposerStep ==
  \/ \E b \in Body, r \in Quotable : Compose(b, r)
  \/ Submit \/ GiveUp
  \/ AnswerSent \/ AnswerRejected \/ AnswerConflict

MemberStep(u) ==
  \/ \E b \in Body, r \in Quotable : Post(u, b, r)
  \/ \E m \in Message, b \in Body : Edit(u, m, b)
  \/ \E m \in Message : Delete(u, m) \/ Advance(u, m)
  \/ \E m \in Message, add \in BOOLEAN :
       React(u, m, add) \/ Pin(u, m, add) \/ Save(u, m, add)
  \/ \E k \in Mode : Prefer(u, k)
  \/ Pause(u) \/ Leave(u) \/ Enter(u)

Next ==
  \/ ComposerStep
  \/ \E r \in wire : Create(r)
  \/ \E u \in User : MemberStep(u)
  \/ Archive

Spec == Init /\ [][Next]_vars

-----------------------------------------------------------------------------
(* Properties.                                                             *)

\* What is composed once is sent at most once, however often it is retried, corrected and
\* retried again, and a composer that has moved on to its next draft was right to do so.
SentOnce ==
  \A n \in 1 .. LastDraft :
    LET copies == {m \in Existing : message[m].work = n}
    IN  /\ Cardinality(copies) <= 1
        /\ n < draft.work => copies # {}

\* A message in which readers could see a difference has a new event with a revision above
\* all of its earlier ones, so that no client that merges by revision keeps the old one.
ChangesAnnounced ==
  [][\A m \in Existing' :
       \/ m \in Existing /\ Shown(m)' = Shown(m)
       \/ LET r == message'[m].revision
          IN  /\ <<m, r>> \in event'
              /\ \A e \in event : e[1] = m => e[2] < r]_vars

\* Unread are exactly the live messages of others that the member has not acknowledged, neither
\* directly nor with a later one, in whatever order the requests of several tabs arrive and
\* whatever is deleted meanwhile.  Of these, the ones that mention the member in their present
\* words alert, unless alerts are muted or paused.
UnreadIsUnseen ==
  \A u \in member :
    LET unseen == {m \in Live : message[m].author # u /\ m \notin seen[u]}
    IN  /\ Unread(u) = unseen
        /\ ~paused[u] /\ mode[u] # "muted" =>
             {m \in unseen : u \in Mentioned[message[m].body]} \subseteq Alerts(u)
=============================================================================
