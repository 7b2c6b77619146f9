---------------------------- MODULE Conversation ----------------------------
(***************************************************************************)
(* One open conversation in one browser tab: lib/use-conversation.ts and   *)
(* lib/messages.ts.  The tab mixes three sources of messages: frames of    *)
(* its socket, which arrive in order, pages it asks for, and answers to    *)
(* its own changes, both of which arrive when they like.                   *)
(*                                                                         *)
(* The server is abstract here: messages with revisions, a delivery task   *)
(* per committed change, the subscription of the tab.  Typing, receipts,   *)
(* the preview kept between visits and leaving the page are left out.      *)
(***************************************************************************)
EXTENDS Integers, Sequences, FiniteSetsExt

CONSTANTS
  LastMessage,  (* messages are 1..LastMessage, oldest first                 *)
  Initial,      (* how many of them exist when the tab is opened             *)
  ReplyTo,      (* reply_to_message_id: the message each one quotes, or None *)
  PageSize,     (* limit of a page                                           *)
  None,         (* nothing                                                   *)
  MaxChanges,   (* bound: sends, edits and deletions                         *)
  MaxConnects,  (* bound: times the tab connects again                       *)
  MaxReads      (* bound: uses of "older", "jump" and "latest"               *)

Message == 1..LastMessage

ASSUME BoundsAssumption ==
  /\ {LastMessage, Initial, PageSize, MaxChanges, MaxConnects, MaxReads} \subseteq Nat
  /\ Initial \in 1..LastMessage /\ PageSize > 0

ASSUME NoneAssumption == None \notin Int /\ None \notin [rev : Nat, gone : BOOLEAN]

ASSUME ReplyAssumption ==
  /\ ReplyTo \in [Message -> Message \cup {None}]
  /\ \A m \in Message : ReplyTo[m] # None => ReplyTo[m] < m

VARIABLES
  rev,       (* message_messages: the revision of each message, 0 before it is sent *)
  gone,      (* the deleted ones                                              *)
  member,    (* the reader may read the conversation                          *)
  task,      (* _deliver() tasks of the broker                                *)
  sock,      (* the socket of the tab                                         *)
  wire,      (* frames on their way to the tab                                *)
  answer,    (* answers to changes made in this tab                           *)
  view,      (* messages: what the tab shows                                  *)
  next,      (* the cursor for older messages                                 *)
  anchor,    (* historyAnchor: the message an earlier window is around        *)
  buffer,    (* changes received while a snapshot is outstanding              *)
  syncing,   (* a snapshot of this connection is outstanding                  *)
  loading,   (* no answer to a snapshot yet: nothing is shown                 *)
  denied,    (* access was refused or revoked                                 *)
  snapshot,  (* the latest request of snapshot()                              *)
  jump,      (* the latest request of navigate()                              *)
  older,     (* requests of older()                                           *)
  paging,    (* the paging buttons are disabled                               *)
  origin,    (* history: what made the view since the last loss of frames     *)
  used       (* how much of each bound is used                                *)

server == <<rev, gone, member>>
page == <<view, next, anchor, buffer, syncing, loading, denied, origin>>
requests == <<snapshot, jump, older, paging>>
vars == <<server, task, sock, wire, answer, page, requests, used>>

-----------------------------------------------------------------------------
(* Messages as the server answers them *)

\* What is known of a message: a row, or the quote of it in a row.
Fact(m) == [rev |-> rev[m], gone |-> m \in gone]

Current(m) ==
  [id |-> m, rev |-> rev[m], gone |-> m \in gone,
   quote |-> IF m \in gone \/ ReplyTo[m] = None THEN None ELSE Fact(ReplyTo[m])]

Existing == {m \in Message : rev[m] > 0}

Ids(V) == {v.id : v \in V}

Only(V, S) == {v \in V : v.id \in S}

\* The last, or the first, n members of a set of messages.
Last(S, n) == {m \in S : Cardinality({k \in S : k > m}) < n}
First(S, n) == {m \in S : Cardinality({k \in S : k < m}) < n}

Rows(S) == {Current(m) : m \in S}

\* list_messages(): a page, and the cursor when there is more.
Page(S) ==
  LET rows == Last(S, PageSize)
  IN [rows |-> Rows(rows), next |-> IF rows = S THEN None ELSE Min(rows)]

\* The same around a message: half a page on each side, and always a cursor.
Around(m) ==
  LET half == Max({1, PageSize \div 2})
      ids == {m} \cup Last({k \in Existing : k < m}, half)
                 \cup First({k \in Existing : k > m}, half)
  IN [rows |-> Rows(ids), next |-> Min(ids)]

\* What a request for history answers: the newest page or a window around a message.
History(a) == IF a = None THEN Page(Existing) ELSE Around(a)

-----------------------------------------------------------------------------
(* lib/messages.ts *)

\* What a list of messages says of message m, quotes included.
Facts(V, m) ==
  {[rev |-> v.rev, gone |-> v.gone] : v \in Only(V, {m})}
    \cup ({v.quote : v \in {w \in V : ReplyTo[w.id] = m}} \ {None})

\* The highest revision wins, the one already shown between equals.
Told(current, incoming, m) ==
  LET known == Facts(current, m)
      top == Max({f.rev : f \in known \cup Facts(incoming, m)})
      best(F) == {f \in F : f.rev = top}
  IN CHOOSE f \in known \cup Facts(incoming, m) :
       f.rev = top /\ (best(known) # {} => f \in known)

Requoted(v, current, incoming) ==
  [v EXCEPT !.quote = IF v.gone \/ ReplyTo[v.id] = None THEN None
                      ELSE Told(current, incoming, ReplyTo[v.id])]

Merge_Latest(current, incoming) ==  \* variant: whatever comes last replaces what is shown
  incoming \cup {v \in current : v.id \notin Ids(incoming)}

\* mergeMessages()
Merge(current, incoming) ==
  LET newer == {v \in incoming : \A w \in Only(current, {v.id}) : v.rev > w.rev}
      newest == {CHOOSE v \in Only(newer, {m}) : \A w \in Only(newer, {m}) : v.rev >= w.rev :
                   m \in Ids(newer)}
      kept == {v \in current : v.id \notin Ids(newer)}
  IN {Requoted(v, current, incoming) : v \in kept \cup newest}

-----------------------------------------------------------------------------
(* The server *)

\* A message is sent, edited (or reacted to) or deleted, with its event.
Commit(m, deleted) ==
  /\ used.changes < MaxChanges
  /\ m \in Existing \/ (m - 1 \in Existing /\ ~deleted)
  /\ m \notin gone
  /\ rev' = [rev EXCEPT ![m] = @ + 1]
  /\ gone' = IF deleted THEN gone \cup {m} ELSE gone
  /\ used' = [used EXCEPT !.changes = @ + 1]
  /\ task' = task \cup {[id |-> m, of |-> rev'[m], sees |-> None]}
  /\ UNCHANGED <<member, sock, wire, page, requests>>

ChangeElsewhere(m, deleted) == Commit(m, deleted) /\ UNCHANGED answer

\* The reader changes a message in this tab.  The answer to a deletion has no body: the tab
\* makes up the deleted row from the one it shows.
ChangeHere(m, deleted) ==
  /\ member /\ ~denied
  /\ m \notin Existing \/ (m \in Ids(view) /\ ~loading)
  /\ Commit(m, deleted)
  /\ \E v \in IF deleted THEN Only(view, {m}) ELSE {Current(m)'} :
       answer' = answer \cup
         {IF deleted THEN [v EXCEPT !.rev = @ + 1, !.gone = TRUE] ELSE v}

\* The reader leaves or is removed.
Remove ==
  /\ member
  /\ member' = FALSE
  /\ UNCHANGED <<rev, gone, task, sock, wire, answer, page, requests, used>>

\* _deliver() reads the message and, having it, the subscribed connections.
TaskRead(t) ==
  /\ t.sees = None
  /\ task' = (task \ {t}) \cup
       (IF sock = "subscribed" THEN {[t EXCEPT !.sees = Current(t.id)]} ELSE {})
  /\ UNCHANGED <<server, sock, wire, answer, page, requests, used>>

Frame(kind, v) == [kind |-> kind, row |-> v]

Revoked == wire' = Append(wire, Frame("revoked", None)) /\ sock' = "revoked"

\* It then asks for the reader's access, and sends what it read.
TaskPush(t) ==
  /\ t.sees # None
  /\ task' = task \ {t}
  /\ IF member THEN wire' = Append(wire, Frame("changed", t.sees)) /\ UNCHANGED sock
     ELSE Revoked
  /\ UNCHANGED <<server, answer, page, requests, used>>

\* _sweep_authorization()
Sweep ==
  /\ sock = "subscribed" /\ ~member
  /\ Revoked
  /\ UNCHANGED <<server, task, answer, page, requests, used>>

\* The subscribe command of a socket that just opened.
Subscribe ==
  /\ sock = "opening"
  /\ IF member THEN wire' = Append(wire, Frame("subscribed", None)) /\ sock' = "subscribed"
     ELSE Revoked
  /\ UNCHANGED <<server, task, answer, page, requests, used>>

-----------------------------------------------------------------------------
(* The tab: changes *)

\* An earlier window keeps its messages.
Filtered(V) == IF anchor = None THEN V ELSE Only(V, Ids(view))

Take_Always(v) ==  \* variant: a change is taken after access was revoked
  /\ buffer' = IF syncing THEN buffer \cup {v} ELSE buffer
  /\ view' = Filtered(Merge(view, {v}))

\* merge()
Take(v) ==
  IF denied THEN UNCHANGED <<buffer, view>>
  ELSE /\ buffer' = IF syncing THEN buffer \cup {v} ELSE buffer
       /\ view' = Filtered(Merge(view, {v}))

ReceiveAnswer(v) ==
  /\ v \in answer
  /\ answer' = answer \ {v}
  /\ Take(v)
  /\ UNCHANGED <<server, task, sock, wire, next, anchor, syncing, loading, denied,
                 origin, requests, used>>

\* A request for history, and the page it is answered with.
Request(a, live) == [anchor |-> a, live |-> live, state |-> "asked", page |-> None]

\* The access check and the read of a request.
Answered(r, p) ==
  IF member THEN [r EXCEPT !.state = "answered", !.page = p]
  ELSE [r EXCEPT !.state = "refused"]

Outdated_Never == older  \* variant: historyEpoch is not advanced
Outdated == {[r EXCEPT !.outdated = TRUE] : r \in older}

\* revoke()
Revoke ==
  /\ denied' = TRUE /\ loading' = FALSE
  /\ view' = {} /\ next' = None /\ anchor' = None
  /\ older' = Outdated /\ jump' = None /\ snapshot' = None /\ paging' = FALSE
  /\ sock' = "closed" /\ wire' = <<>>
  /\ task' = {t \in task : t.sees = None}
  /\ UNCHANGED <<server, answer, buffer, syncing, origin, used>>

\* onmessage
Receive ==
  /\ wire # <<>>
  /\ LET frame == Head(wire) IN
       \/ /\ frame.kind = "subscribed"
          /\ snapshot' = Request(anchor, TRUE)
          /\ wire' = Tail(wire)
          /\ UNCHANGED <<server, task, sock, answer, page, jump, older, paging, used>>
       \/ /\ frame.kind = "changed"
          /\ Take(frame.row)
          /\ wire' = Tail(wire)
          /\ UNCHANGED <<server, task, sock, answer, next, anchor, syncing, loading,
                         denied, origin, requests, used>>
       \/ frame.kind = "revoked" /\ Revoke

-----------------------------------------------------------------------------
(* The tab: connection *)

\* onclose.  A snapshot of that connection no longer counts.
Closed ==
  /\ sock \in {"opening", "subscribed", "revoked"}
  /\ sock' = "waiting" /\ wire' = <<>>
  /\ task' = {t \in task : t.sees = None}
  /\ snapshot' = IF snapshot # None /\ snapshot.live THEN None ELSE snapshot
  /\ origin' = "lost"
  /\ UNCHANGED <<server, answer, view, next, anchor, buffer, syncing, denied, jump, older,
                 paging, used>>

\* The network or the server, whose queue for the tab is full or that restarts, closes it.
Disconnect == Closed /\ UNCHANGED loading

\* connect(), after the pause.
Connect ==
  /\ sock = "waiting" /\ ~denied
  /\ used.connects < MaxConnects
  /\ sock' = "opening"
  /\ syncing' = TRUE /\ buffer' = {}
  /\ used' = [used EXCEPT !.connects = @ + 1]
  /\ UNCHANGED <<server, task, wire, answer, view, next, anchor, loading, denied, origin,
                 requests>>

-----------------------------------------------------------------------------
(* The tab: snapshots *)

SnapshotRead ==
  /\ snapshot # None /\ snapshot.state = "asked"
  /\ snapshot' = Answered(snapshot, History(snapshot.anchor))
  /\ UNCHANGED <<server, task, sock, wire, answer, page, jump, older, paging, used>>

\* The page and what changed since it was asked for.
Reconciled ==
  LET merged == Merge(snapshot.page.rows, buffer)
  IN IF anchor = None THEN merged ELSE Only(merged, Ids(snapshot.page.rows))

\* An answer is not shown while a navigation is under way or when the window has changed.
SnapshotApply ==
  /\ snapshot # None /\ snapshot.state = "answered"
  /\ IF jump = None /\ snapshot.anchor = anchor
     THEN /\ view' = Reconciled /\ next' = snapshot.page.next
          /\ older' = Outdated
          /\ origin' = IF snapshot.live THEN "snapshot" ELSE "lost"
     ELSE origin' = "lost" /\ UNCHANGED <<view, next, older>>
  /\ buffer' = {} /\ syncing' = ~snapshot.live /\ loading' = FALSE
  /\ snapshot' = None
  /\ UNCHANGED <<server, task, sock, wire, answer, anchor, denied, jump, paging, used>>

\* The answer is 403 or 404.
SnapshotRefused == snapshot # None /\ snapshot.state = "refused" /\ Revoke

\* Before it connects again the tab asks /auth/me, and hears that the session is over.
SessionOver == sock = "waiting" /\ ~denied /\ Revoke

\* The answer is lost; the tab closes the socket a live snapshot belongs to.
SnapshotFail ==
  /\ snapshot # None
  /\ loading' = FALSE
  /\ IF snapshot.live THEN Closed
     ELSE /\ snapshot' = None
          /\ UNCHANGED <<server, task, sock, wire, answer, view, next, anchor, buffer, syncing,
                         denied, origin, jump, older, paging, used>>

-----------------------------------------------------------------------------
(* The tab: older messages and earlier windows *)

Reads == used.reads < MaxReads /\ used' = [used EXCEPT !.reads = @ + 1]

Older ==
  /\ next # None /\ ~paging /\ ~loading /\ ~denied
  /\ Reads
  /\ paging' = TRUE
  /\ older' = older \cup {[before |-> next, state |-> "asked", page |-> None,
                           outdated |-> FALSE]}
  /\ UNCHANGED <<server, task, sock, wire, answer, page, snapshot, jump>>

OlderRead(r) ==
  /\ r.state = "asked"
  /\ older' = (older \ {r}) \cup {Answered(r, Page({k \in Existing : k < r.before}))}
  /\ UNCHANGED <<server, task, sock, wire, answer, page, snapshot, jump, paging, used>>

\* The page is added unless the window changed meanwhile, the answer was lost or refused;
\* the button is enabled in every case.
OlderEnd(r, lost) ==
  /\ r.state # "asked" \/ lost
  /\ IF r.state = "answered" /\ ~lost /\ ~r.outdated
     THEN view' = Merge(view, r.page.rows) /\ next' = r.page.next
     ELSE UNCHANGED <<view, next>>
  /\ older' = older \ {r} /\ paging' = FALSE
  /\ UNCHANGED <<server, task, sock, wire, answer, anchor, buffer, syncing, loading, denied,
                 origin, snapshot, jump, used>>

\* jump() to a quoted message that is not shown, or latest() from an earlier window.
Navigate(a) ==
  /\ ~loading /\ ~denied
  /\ IF a = None THEN anchor # None ELSE a \notin Ids(view) /\ view # {}
  /\ Reads
  /\ jump' = Request(a, FALSE) /\ older' = Outdated /\ paging' = TRUE
  /\ UNCHANGED <<server, task, sock, wire, answer, page, snapshot>>

JumpRead ==
  /\ jump # None /\ jump.state = "asked"
  /\ jump' = Answered(jump, History(jump.anchor))
  /\ UNCHANGED <<server, task, sock, wire, answer, page, snapshot, older, paging, used>>

\* The window is replaced, what was known of its messages is kept.
JumpEnd(lost) ==
  /\ jump # None
  /\ jump.state # "asked" \/ lost
  /\ IF jump.state = "answered" /\ ~lost
     THEN /\ anchor' = jump.anchor /\ next' = jump.page.next
          /\ view' = Only(Merge(view, jump.page.rows), Ids(jump.page.rows))
          /\ origin' = IF origin = "lost" THEN "lost" ELSE "navigation"
     ELSE UNCHANGED <<anchor, next, view, origin>>
  /\ jump' = None /\ paging' = FALSE
  /\ UNCHANGED <<server, task, sock, wire, answer, buffer, syncing, loading, denied,
                 snapshot, older, used>>

-----------------------------------------------------------------------------
(* Specification *)

\* The tab connects and asks for a first page at once.
Init ==
  /\ rev = [m \in Message |-> IF m <= Initial THEN 1 ELSE 0]
  /\ gone = {} /\ member = TRUE
  /\ task = {} /\ sock = "opening" /\ wire = <<>> /\ answer = {}
  /\ view = {} /\ next = None /\ anchor = None
  /\ buffer = {} /\ syncing = TRUE /\ loading = TRUE /\ denied = FALSE /\ origin = "lost"
  /\ snapshot = Request(None, FALSE) /\ jump = None /\ older = {} /\ paging = FALSE
  /\ used = [changes |-> 0, connects |-> 0, reads |-> 0]

Next ==
  \/ \E m \in Message, deleted \in BOOLEAN :
       ChangeElsewhere(m, deleted) \/ ChangeHere(m, deleted)
  \/ Remove \/ Sweep \/ Subscribe
  \/ \E t \in task : TaskRead(t) \/ TaskPush(t)
  \/ Receive \/ Disconnect \/ Connect
  \/ \E v \in answer : ReceiveAnswer(v)
  \/ SnapshotRead \/ SnapshotApply \/ SnapshotRefused \/ SnapshotFail \/ SessionOver
  \/ Older \/ \E r \in older : OlderRead(r) \/ \E lost \in BOOLEAN : OlderEnd(r, lost)
  \/ \E a \in Existing \cup {None} : Navigate(a)
  \/ JumpRead \/ \E lost \in BOOLEAN : JumpEnd(lost)

Spec == Init /\ [][Next]_vars

-----------------------------------------------------------------------------
(* Properties *)

\* Nothing that bears on what the tab shows is under way.
Quiet ==
  /\ sock = "subscribed" /\ ~syncing
  /\ wire = <<>> /\ task = {} /\ answer = {} /\ snapshot = None

\* Once everything sent has arrived, a tab that shows the end of the conversation shows its
\* newest messages as they are, quotes included, whatever raced with the snapshot.
NewestIsCurrent ==
  Quiet /\ origin = "snapshot" /\ anchor = None =>
    \A m \in Last(Existing, PageSize) : Current(m) \in view

\* A message that such a tab does not show is one that "older" still brings.
NothingSkipped ==
  Quiet /\ origin = "snapshot" /\ anchor = None =>
    \A m \in Existing \ Ids(view) : next # None /\ m < next

\* After revocation nothing is shown, and no answer under way brings anything back.
NothingAfterRevocation == denied => view = {} /\ next = None

\* ADR 0010 of a tab that lost no frame: once a message is deleted, no page that was read
\* before shows its text again.
DeletedStaysDeleted ==
  Quiet /\ origin # "lost" => \A v \in view : v.id \in gone => v.gone

\* frontend/README.md of a tab that connected again and has its snapshot: it shows the newest
\* page, unless it shows an earlier window.
NewestAfterReconnect ==
  Quiet /\ used.connects > 0 /\ anchor = None /\ jump = None =>
    Last(Existing, PageSize) \subseteq Ids(view)
=============================================================================
