# Klack, specified

TLA+ specifications of the parts of Klack whose correctness depends on the order
in which things happen, the TLC runs that check them on small instances, and
TLAPS proofs of what matters most for instances of any size. Paths below are
relative to the repository; `modules/` is `backend/src/klack/modules/`.

## The system

Klack is a team chat: a FastAPI backend over PostgreSQL (READ COMMITTED), a
React client, LiveKit for voice, S3 or a disk for files. Several API processes
serve requests; each also runs background loops. A request is one database
session, rolled back on an exception (`api/dependencies.py`); what keeps
requests apart is row locks (`SELECT ... FOR UPDATE`), unique keys and
conditional updates, so that is what the models are about.

| Part | State it keeps | Operations | Hard because |
|---|---|---|---|
| Calling (`modules/calling`) | calls, one seat per engaged person; rooms and join tokens at LiveKit | start, accept, decline, end, heartbeat, token, inbox; maintenance pass every 5 s | calls expire by time, by lost leases and by revoked sessions, noticed by whoever looks first; room deletion has no transaction in common with the database |
| Identity (`modules/identity`) | users, password hashes, sessions, refresh tokens, mailed links, outbox, rate limits | register, login, refresh, logout, revoke, verification, recovery; worker: deliver, clean up | hashing happens outside transactions; refresh tokens are single-use; the worker crashes between sending and recording |
| Workspaces (`modules/workspaces`) | memberships with roles, invitations | create, rename, change role, remove, leave, invite, rotate, revoke, accept | last owner; invitations racing removal |
| Channels (`modules/channels`) | channels, memberships, direct conversations | create, update, archive, join, leave, add, remove, open direct | membership is contained in workspace membership |
| Messaging (`modules/messaging`) | messages, mentions, reactions, pins, saved messages, read positions, preferences | send, edit, delete, react, pin, save, advance, prefer, pause, unread counts | retries and corrections with the same client id; positions arriving out of order |
| Realtime (`modules/realtime`) | event log, NOTIFY, sockets with bounded queues | publish, subscribe, deliver, sweep authorization | authorization changes while deliveries are in progress |
| Files (`modules/files`) | file rows, stored bytes | reserve, upload, cancel, attach, remove, clean up | quota under concurrent reservations; crash between storage and row |
| Browser (`frontend/src/lib`) | cookies shared by tabs, cached lists, the conversation shown | refresh, snapshot, live merge, navigate | answers in any order |

Interaction: every request authenticates through Identity; Calling reads
sessions, users and direct-conversation membership; removing a workspace member
removes channel memberships; Messaging appends to the event log that the
Realtime broker delivers; a message attaches files.

What makes each part correct is stated by the properties below; the hazards they
are for are listed in `PROJECT.json`, each at its line.

## Modules

### Calls, ExclusiveCalls (modules/calling)

`Calls.tla` has one action per committed transaction, per LiveKit operation and
per step of the clock.

* State. `call` are the rows of `calling_calls`, with times as numbers;
  `seat` the rows of `calling_seats`; `start` the open "start" transactions;
  `pass` the maintenance pass of each process; `token` the join tokens LiveKit
  would accept now; `room` who is connected; `auth` whether a session is valid,
  revoked ("gone"), or revoked after a request got past the authentication
  ("draining").
* `StartLock`/`StartCommit`/`StartAbort` are `CallService.start` (service.py
  89-170). It is the one handler in two steps: it reads the seats and the clock
  under the user locks and may then wait for the rows of earlier calls, which
  others change meanwhile. A retry with an id that has a row changes nothing.
  An abort stands for every exception, for the primary key that is taken and for
  the deadlocks PostgreSQL breaks.
* `Accept`, `Decline`, `End`, `Heartbeat`, `IssueToken`, `Inbox` are
  `action`, `token` and `inbox`; each begins with `load`, which locks and
  expires the row (`Loaded`), and some of them commit what expiry did and then
  refuse.
* `PassBegin`, `SweepCall`, `SweepRooms`, `RoomDeleted`, `RoomNotDeleted`,
  `CommitRooms`, `PassCut` are one pass of `worker.sweep` with the single
  clock reading it uses throughout; `PassCut` is an exception or a crash
  anywhere in it.
* `Join`, `Leave`, `Revoke`, `Disable`, `Tick` are LiveKit, the rest of
  Klack, administration and time.

Abstractions. A conversation is its pair of people: nothing in the code takes a
participant out of a direct conversation, so `has_access` is membership of the
pair. The workspace lock is left out, which only adds interleavings. The batch
limits (200 calls, 10 rooms per pass) are left out. `Lag` bounds how long a
transaction goes on using a clock reading: LiveKit requests time out after 3 s
and lock waits end; the assumption is `TokenTime + Lag <= SealTime`, in the code
60 s of token life and 30 s of margin in 90 s.

`ExclusiveCalls.tla` is what the component promises: a call is placed between two
people who are in no other call, may be answered, and is over for good.
`ImplementsContract` is the refinement, with seats, locks, clock and maintenance
gone.

### Sessions (modules/identity)

One account: password hash, sessions, refresh tokens, mailed links. Login and
recovery are open requests: `LoginVerify` reads the hash without a lock;
`LoginVerifyAgain` is the second look when the hash changed; `LoginCommit`
compares hashes under the user lock, enforces the cap, opens the session and
stores an improved hash; `RecoveryHash`/`RecoveryCommit` look at the link twice.
A request authenticated by a session (`Authenticate`) acts later, when the
session may be gone (`RevokeOne`, `LogoutAll`, `RequestVerification`).
`RefreshRotate` and `RefreshReused` are the two outcomes of `refresh` that write;
`LogoutByRefresh` also works with a used token, as `_identity_for_logout` does.
`PurgeSession`/`PurgeLink` are `cleanup_batch` with any retention time. A hash is
the password it fits, whether it has today's parameters, and a serial number
(a salt). `opened` is a history variable: with which password a session was
opened.

Left out: other accounts (every statement is scoped by user id), rate limits,
CSRF and origin checks (a request that fails them writes nothing; replay of a
used token is detected before CSRF, and so it is here), IP addresses, the
`replaced_by` link between tokens, the outbox.

### Memberships (modules/workspaces, modules/channels, opening of direct conversations)

Every handler that changes something first locks the workspace row and reads the
roles; `Begin` is that, and the handler's own action checks and commits. Between
the two others do what the locks let them. What the lock keeps still is not
assumed: the guards look at the roles the transaction read (`tx[p].roles`), and
`ReadsStayTrue` says that they are still the current ones.
`ChangeRole`, `RemoveMember`, `LeaveWorkspace`, the four invitation actions and
the seven channel actions are the handlers of the two services.
`LookForDirect`/`OpenDirect` are `open_direct`, which takes the user locks of
both people under the workspace lock and then creates the conversation, finds
it, or fails on the unique key; a direct conversation has a home workspace but
survives every departure from it. `open_global_direct` picks a shared
workspace without a lock and then is `open_direct` there.

Left out: names, the email verification some handlers ask for (it is never
withdrawn), `require_access` of the message handlers (read-only), users being
disabled, and an invitation that expires between the reading of the clock and
the commit of its acceptance.

### Conversation (frontend/src/lib/use-conversation.ts, messages.ts)

One tab with one conversation open, against an abstract server: messages with
revisions, a `_deliver` task per committed change, and the tab's subscription.

* `view`, `next`, `anchor`, `buffer`, `syncing`, `loading`, `denied`, `paging`
  are the state and the refs of the hook. Its counters are modelled by what they
  do: only the latest snapshot request counts (`snapshotSequence`), one of an
  earlier connection does not (`generation`), and advancing `historyEpoch` marks
  the requests for older pages under way as outdated (`Outdated`) and replaces
  the navigation (`jump`).
* `wire` keeps frames in order; `snapshot`, `older` and `jump` are requests that
  the server reads for at one moment and the tab hears of at another, or never;
  `answer` are answers to the reader's own changes, the made-up row after a
  deletion included.
* `Merge` is `mergeMessages`, quotes included; `Take` is `merge`;
  `SnapshotApply` is `snapshot` after its `await`, `OlderEnd` and `JumpEnd` are
  `older` and `navigate` after theirs. `Closed`/`Connect` are `onclose` and
  `connect`.
* `origin` is a history variable: whether the view was made by a live snapshot,
  by a navigation after one, or may lack frames ("lost").

Left out: typing, read receipts, the preview of an earlier visit (it is replaced
by the first snapshot), leaving the page, deliveries that fail. The closing of a
socket is one step; in the code frames may still come in between and are covered
by the next snapshot.

### Realtime (modules/realtime)

One API process and its sockets. The process is an asyncio event loop, so an
action is the code between two `await`s, and whatever an `await` returned is an
answer that may be old when it is used.

* `listener` is the LISTEN connection of `_listen_forever`: up, "lost" (broken,
  and nobody has noticed), down. Signals on a lost connection are lost with it;
  `Notice` is the `finally` that closes every socket.
* `task` is the `_deliver` task of each event: the sockets it still has to see
  (`todo`) and the answer it holds. `sweep` is the pass of
  `_sweep_authorization`, in the same form. `Deliver` and `Refuse` are what they
  do with an answer.
* Any of their reads may raise. `DeliverFail` is the `except` of `_deliver`: the
  task ends and tells none of the sockets it still owes the change (`Owed`).
  `SweepFail` is the exception that nothing catches in `_sweep_authorization`: the
  task is `Ended` and no step leads on. A read that raises in the handler of a
  socket ends that socket (`Identify`, `GiveUp`).
* `phase`, `command` and `queue` are the handler of a socket (`router.py`) and
  its sender: `Handshake`, `Identify`, `Register`, `Greet` on the way in,
  `SubscribeAsk`/`Subscribe` around the `await` of the authorization, `GiveUp`
  where the handler itself ends the connection. `Stop` is the `None` that
  `request_close` leaves in the emptied queue.
* `sent` and `note` are histories: what was sent to each socket, and what each
  event was to it when it was committed - due, missed because nothing listened,
  or "secret" because it may no longer read the channel - and "dropped" once a
  delivery has failed that was due to it.

Left out: heartbeats, presence, typing and malformed commands (their frames are
control frames like those that are modelled), the limit on subscriptions (there
is one channel), the clean-up of old events (kept much longer than a delivery
takes), and shutdown.

What the failing reads mean for the properties: `NothingAfterAccess` holds without
exception, because a delivery asks for itself and sends nothing without an answer.
`NoSilentGap` does not speak of "dropped" changes, and `RevocationTakesEffect`
allows for a sweeper that has ended: the code gives no more. That ADR 0007 promises
more is shown by two cfgs beside the runs (see there).

### Messages (modules/messaging, the composer of frontend/src/components/conversation.tsx)

One conversation: the composer of one author's tab, the network between it and
the API, and the handlers. Every handler that writes locks the conversation
(`require_access` with `for_update`), so a handler is one action.

* `draft` is the draft in sessionStorage; `Submit` is `submit` up to its
  `await`, `GiveUp` everything that ends the wait without an answer (network,
  time-out, 5xx, reload), `AnswerSent`, `AnswerRejected` and `AnswerConflict` the
  three things `submit` does with an answer. A request that was given up stays in
  `wire` and may still be carried out (`Create`), in any order.
* `Create` is `create_message` with a client id: refusals first, then the
  earlier message with that id, then mentions, then the insertion with its event.
  `Post` is the same without a client id, `Edit`, `Delete`, `React`, `Pin`,
  `Save`, `Advance`, `Prefer` and `Pause` are the other handlers.
* `Unread`, `Alerts`, `Older` and `Shown` are the queries: the unread counts, the
  alerts, a page of history, and what a response shows. `After` is the order of
  history, `(created_at, id)`.
* `seen` and `work` are histories: what each member has acknowledged, and from
  which composition of the tab a message came.

An identifier is a number that any unused one may follow, as UUIDs do. `created`
is a reading of the clock, and `Skew` says how far the clocks of two API
processes may differ; the runs take 0. With 1, `UnreadIsUnseen` fails: a message
that sorts before somebody's read position is never unread.

What the model showed without being wrong: the comment at `conversation.tsx:1018`,
"A definite rejection did not commit a message", is not true of an earlier attempt
whose answer was lost. The draft keeps its identifier, so there is still only one
message (`SentOnce`), but a corrected draft then gets 409 for as long as it is
tried.

Left out: the text itself, documents and their limits, attachments (`Files`),
snapshots and paging (`Conversation`), archived aliases of direct conversations.

### Mail (modules/identity/infrastructure/maintenance.py, identity_worker.py)

The email outbox and its workers. `Request` queues an email with its link;
`Claim` takes the leases of a batch, `SmtpAccepts` and `MarkSent` are the two
halves of a delivery with a crash possible in between (`Stop`), `SmtpFails` is
every error, one that hides an acceptance included. `LeaseEnds` does not ask
whether the holder is done: a batch of 50 emails with a time-out of 10 s each can
outlive the lease of 300 s. `CleanEmail` and `CleanLink` are `cleanup_batch`.
`copies` and `loss` are histories: how often an email was accepted, and whether
an acceptance may have gone unrecorded.

### Files (modules/files)

The files of one uploader in one workspace, over rows, bytes and workers.

* `reserve` is two steps, since other transactions run between its reading of the
  sums and its commit; `Free` is what keeps them apart: the conversations of a
  workspace share its lock, and a direct conversation is a lock of its own.
* `UploadBegin`, `UploadStored` and `UploadReady` are the transaction, the write
  and the transaction of `upload`; `UploadAbandoned` is its `except`, after a
  write that happened or not, and `UploadStops` a process that ends there.
* `Send` and `Delete` are the parts of `create_message` and `delete_message`
  that concern files; `Readable` is what `download` asks before and after it
  reads the store.
* `Claim`, `Erase`, `Mark`, `Skip`, `Stop` and `Purge` are `cleanup`; `due` and
  `old` are its comparisons with the clock.

Left out: other uploaders (only their sizes would count), names, contents,
scanning, the limit on simultaneous transfers. A write that was given up happened
before or never happens; and an upload is over before its hour is (`Grow`,
`Elapse`), which the time limits in the code ensure.

### BrowserTabs (frontend/src/lib/api.ts, with what it meets of modules/identity)

The tabs of one browser and one session at the server.

* `jar` are the cookies, which all tabs share and every answer may change; a
  request carries those of the moment it is sent. `session` is what `Sessions`
  has in detail: the token that is not used yet, the last rotation, the end.
* `call` are the calls of `api()`, `refresh` is `refreshing` in each tab, and
  `queue` the holder and the waiters of the lock `klack-refresh`. `CallRefused`
  joins the refresh of the tab or begins one; `Look`, `LookServed`, `LookEnd`
  ask `/auth/me` under the lock; `RotateServed` and `RotateEnd` are the rotation
  and the arrival of its answer with its cookies; `Settled` is what happens to
  the lock and to the calls that waited.
* `GiveUp` is the time-out of 20 s or a network error, `Close` a tab that is
  closed or loaded again. A rotation left that way stays in `stray` and may still
  be carried out (`Straggle`).
* `past` is a history: whether a used token was presented, a rotation came too
  early, something was lost, the server failed.

`Exchange.tla` puts `Mail` and `BrowserTabs` beside `Messages`, for the run and the
proofs.

Left out: a sign-in, so the answer to a refresh of an earlier session, which
would change the cookies of a later one, does not occur.

### ApiCache, Browser (frontend/src/lib/api-cache.ts, api() in api.ts)

What one tab keeps. `entry`, `pending`, `generation` and `session` are the
variables of `createApiCache`; a value is a version and the account it was read
for. `ReadCached`, `ReadJoin` and `ReadLoad` are the three ways through `read`;
`LoadEnd`, `LoadFail` and `LoadRefused` its ends; `Change` and `ChangeEnd` a
request of this tab that changes a list; `SignOut` to `SignedIn` the accounts, in
the steps in which cookies, app and cache notice; `Mount`, `Write`, `Unmount` and
`Drop` what `useConversation` does with previews. `known` and `got` are
histories: what the answers to own changes said, and what each caller was given.

`Browser.tla` puts `ApiCache` beside `Conversation`, for the run and the proofs of one
tab.

Left out: the limit of 100 entries, and sign-ins of other tabs.

## Runs

| Run | Instance | What it shows |
|---|---|---|
| `seats` | 3 people, 2 calls, 1 tab, 1 worker, clock 0..1 | seats are exactly the participants of live calls, statuses and times agree, over is over, contract |
| `media` | 2 people, one with 2 sessions, 1 call, 2 tabs, clock 0..4 | tokens belong to one tab and session, rooms are closed for good, no token after revocation |
| `live` | 2 people, 1 call, 1 tab, clock 0..3, one token at a time | what must end ends; room deletions are repeated until one is answered, and rooms of ended calls are emptied |
| `races` | 3 sessions, 2 passwords, 3 links, 2 requests | logins, recoveries and revocations that overtake each other |
| `tokens` | 2 sessions, 4 refresh tokens, 2 links, clock 0..6 | rotation and replay over a whole session life |
| `members` | 3 people, 2 workspaces, 2 channels, 2 invitations, 2 transactions | each workspace keeps an owner, channel members are workspace members, nobody enters but by an invitation; one direct conversation per pair, opened from two workspaces at once; nothing read under a lock changes |
| `view` | 3 messages, one per page, the last quotes the first; 3 changes, reconnections and readings together | the newest messages are shown as they are, older ones can be reached, nothing after revocation; 1 path, 1 preview, 2 loads, 2 callers, 3 versions, 2 accounts, 2 clearings: the cache keeps nothing of another account and hands out nothing from before an own change |
| `sockets` | 1 socket, 2 changes, a queue of two frames, reads that fail | a socket that stays open and subscribed misses nothing but what a failed delivery dropped, gets nothing it may not read, and is cut off when it must be while the sweeper lives |
| `messages` | 2 people, 2 bodies of which one mentions the second, 2 messages, 2 drafts, 3 requests; 2 emails, 2 mail workers | one message per composition, later revisions for visible changes, unread is what was not acknowledged; emails repeated only after a loss, and sent in the end; 2 tabs, one with two calls, clock 0..2, access and cooldown of one tick: they refresh in turn, and every call ends |
| `files` | 2 files, 2 conversations of a workspace, a quota of 2, 1 reservation per hour, 2 workers | rows and bytes agree, quota and limit hold, what is abandoned is erased |
| `deleted` | 4 messages, 1 change, 2 readings | finding: a deleted message is shown in an earlier window |
| `quota` | 2 files, a channel and a direct conversation, a quota of 2 | finding: together they exceed the quota |

The two findings. `merge` drops what is outside the earlier window it shows. When
a page asked for before is then added or replaces the window, the dropped change
is missing, and the revisions, which should decide, do not help: the deleted text
is shown (against ADR 0010, "stale snapshots cannot restore deleted text").
Second, `reserve` reads the sum of a workspace under a lock that, for a direct
conversation, is not the workspace's; two reservations then read the same sum and
are both committed (against `docs/files.md`, "including reservations and pending
deletion"). `LimitsKept` is therefore checked of the conversations that share the
lock of the workspace.

Five more cfgs are kept beside the runs and fail as well. `MCConversation_reconnect.cfg`
(module `MCConversation`): a snapshot that arrives during a navigation is dropped,
which is right only if the navigation succeeds; when it fails, the tab calls
itself connected and shows the page from before the reconnection (against
`frontend/README.md`, "Reconnecting reloads the newest page").
`NewestIsCurrent` and `NothingSkipped` therefore speak of views that a live
snapshot made. `Realtime_listener.cfg` (module `Realtime`): the handshake of a
socket tests `broker.ready` and registers the socket two `await`s later without
testing again; if the listener is lost in between, every registered socket is
closed but not this one, and what is committed until the listener is back is never
sent to it (against ADR 0007, "listener failure is visible as a reconnect instead
of an undetected delivery gap"). `NoSilentGap` therefore speaks of the changes
committed while the process was listening. `Realtime_delivery.cfg` (module
`Realtime`): a read that raises in `_deliver` is logged and ends the task; the
sockets it has not come to stay open and subscribed and do not get the change
(`broker.py:293-298`). ADR 0007 says of the other failure, that of the listener,
that sockets are closed "so clients cannot silently miss live events"; here they
do (`DeliveryLossVisible`). `Realtime_recheck.cfg` (module `Realtime`): an exception
ends the sweeper for the rest of the life of the process (`broker.py:345-376` has no
`try`), and a socket whose session is revoked then stays open and subscribed as
long as no message is written (against ADR 0007, "within the configured periodic
recheck interval even when no messages arrive"; `RevocationOnRecheck`).
`MCBrowserTabs_unlocked.cfg` (module
`MCBrowserTabs`): where a browser has no `navigator.locks`, `refreshSession` rotates
without asking anybody; two tabs whose access token has expired send the same
refresh token, the server takes the second for a replay and ends the session of
both (against ADR 0002, "browser clients must single-flight refresh"). The code
accepts that for such browsers, so `RefreshesInTurn` is checked with locks.

Why the bounds are enough. Two calls with three people are the smallest case in
which two starts compete for one person, and in which a stale call of two
people is replaced by one of them; ring time and lease of one tick let calls
expire between the two halves of `start`. One call over four ticks covers
answer, end, all repetitions of the room deletion and the token that is issued
last. In `live` a lease lasts two ticks, so that heartbeats do renew it. In
`races` a cap of two with three sessions makes the cap bite, and three links
allow a registration and two recoveries. In `tokens` a session of five ticks with
two rows rounds the interval up, which is the case where rounding down fails.
In `members` three people are two owners and a bystander, two workspaces tell a
role here from a role there, and two invitations allow a rotation; two
transactions are enough for two people to act on what both read; each of two
people can act from a workspace of their own. In `view` a page of
one message makes every second message an older one; three events are what it
takes for a change, a reconnection and a reading to overtake one another.
In `sockets` one socket is enough because sockets share nothing but the listener
and the lists `task` and `sweep` keep of them; two changes are two deliveries
that overlap, and with the greeting and the answer to the subscription they
overflow a queue of two.
In `messages` three requests are an attempt, a retry and a late first attempt, or
a corrected one, and two drafts show whether the composer moves on too early; two
messages are a read position and what is before or after it. Two emails make a
batch with a rest that a stop leaves leased, two workers a lease that is taken
over. In `files` two files compete for a quota of two, from two conversations
that the lock of the workspace has to keep apart.

For the tabs in `messages` the clock allows two rotations, of which a second or a lost one may be
late; two tabs are a holder and a waiter of the lock, and the second call of a tab
is one that joins. For the cache in `view` two loads of a path are one before and one after a
clearing, two callers one that loads and one that joins or comes later; three
versions are what was kept, what is on its way and what is new; two clearings are
an own change and a change of account, or a sign-out and a sign-in.

State constraints: `seats` leaves out tokens, the deletion of rooms (which within
its clock cannot finish, and which `media` and `live` have) and disabled users and
allows one revocation, `media` allows two usable tokens at once, `live` has
one usable token at a time, and none in behaviours in which a session is lost or a
user disabled (`MediaOrLoss`; tokens are issued by requests, which are not fair, so
no fair action leads out of the constraint), `races` leaves out rotation and purging, which
`tokens` has, `members` has the roles, invitations and channels of three people
without direct conversations, or the direct conversations of two of them without
administrators. `messages` explores `Messages` while `Mail` rests and the other
way round (they share nothing), and in `Messages` either the composer at work
with one change by others, or readers with two changes, marks or settings; a
second mail worker is there while there is one email. `files` leaves what the
second conversation has reserved without an upload, and has a second worker while
there is one file. `messages` explores the tabs
of `BrowserTabs` while the others rest, with one late rotation at a time, lost
rotations or errors of the server but not both, and the second call of a tab only
until the second rotation and while there is neither (a look at `/auth/me` may still be
given up under both calls); `view` explores `Conversation` while `ApiCache`
rests and the other way round. No fair action leads out of these last constraints for good:
they limit who begins something, never how it ends. Deadlock is not checked: these systems stop when the clock reaches
its horizon, when ids are used up or when a socket has gone.

Fairness (`FairSpec` of `Calls`): the clock advances; a "start" ends; the
maintenance loop comes round (it catches every exception and sleeps 5 s); and,
strongly fair, a pass gets through, an overdue call is swept and a room deletion
succeeds if it is tried again and again - that is, neither the database nor
LiveKit fails every time. Requests, heartbeats and people are not fair.

`CleanupNotForgotten` says of each call that a deletion of its room, once due, is
repeated until LiveKit has answered one (`Deleted`), and that whoever is in the room
of an ended call is put out. A failed deletion is due again a retry later; where
that is beyond the horizon (`PutOff`) the clock never gets there and nothing more
is claimed. A pass that forgets the room - the failed deletion recorded as done, or
the cleanup time set to none - violates it.

Fairness of `Realtime`: the sweeper (weakly), a loop with a pause whose reads end,
in an answer or in an exception. `SweepFail` may come at any read and is not fair;
once it has come, no step of the sweeper is enabled and fairness asks nothing.
`RevocationTakesEffect` therefore speaks of a sweeper that lives, and rests on
nothing else: neither on messages being written nor on the browser.

Fairness of `Mail`: time passes (weakly); some worker claims what can be claimed,
SMTP accepts an email and the acceptance is recorded, each strongly: the worker's
loop catches every exception and polls, and neither SMTP nor the database fails
every time. Fairness of `Files` is of the same form: uploads end and time passes
(weakly), and the cleanup, which runs every minute and goes on to the next row
after an error, claims, erases and marks in the end (strongly). People and
requests are not fair in either.

Fairness of `BrowserTabs`: requests end, since `send` gives every one a time-out of
20 s, and the browser hands a lock that was let go to the next in line (both
weakly). Neither the server nor the clock is fair, and `CallsEnd` does not need it.

## Proofs

`CallsSafety` proves the type invariant and the inductive invariant

    Inv == TypeOK /\ PartiesKnown /\ StartForPeers /\ SeatsMatchLiveCalls
           /\ StartKnowsSeats /\ AnsweredOnlyWhenActive /\ DueUncleaned

and from it the seats, rows and finality properties and the refinement of
`ExclusiveCalls`. `SeatsMatchLiveCalls` needs `StartKnowsSeats`: a committing
start may give away a seat only if it looked at the call behind it, and that it
did so rests on nobody else having taken a seat of its peers since, which is
what the user locks ensure. `MediaInv` strengthens `Inv` with the age of clock
readings (`Readings`), the age of tokens (`TokenAges`) and the statement that a
call closed for good was closed after its last token could be used
(`ClosedForGood`), and proves `MediaOnOneDevice`, `RoomSealed` and
`NoTokenAfterRevocation`.

`MembershipsSafety` proves the types and the inductive invariant

    Inv == TypeOK /\ LocksHeld /\ Transactions /\ Rows
           /\ ReadsStayTrue /\ DirectIsPair /\ OwnerRemains /\ ChannelWithinWorkspace

`LocksHeld` says that open transactions are about different workspaces and lock
disjoint pairs of people; with it `ReadsStayTrue` - what a transaction found when
it took its locks is so still - survives the steps of every other transaction,
and `OwnerRemains`, `ChannelWithinWorkspace` and `DirectIsPair` survive its own,
because its guards look at the rows those locks protect. `WorkspaceCases` and
`ChannelCases` first reduce the sixteen handlers to the few effects they have on
roles, channels and members. `EntryByInvitation` follows from the same cases.

`SessionsSafety` proves the types and the inductive invariant

    PasswordInv == TypeOK /\ NothingBefore /\ RequestsKnow
                   /\ SessionsKnowPassword /\ OneOpenLink

`RequestsKnow` is what carries a login over the gap between its steps: the hash
it holds is one its password fits, so comparing that hash with the stored one
under the lock is enough to know that the password is still the account's.
For tokens it adds

    TokenInv == PasswordInv /\ TokenRows /\ FreshTokens /\ RowsTakeTime /\ Capped

`FreshTokens` is `OneFreshToken` without counting. `RowsTakeTime` says that each
token of a session after the first took one `Interval` of its life, which ends
before `SessionLife`; `IntervalsFit`, from the rounding up in `StorageBound`,
turns that into the bound on rows.

`ExchangeSafety` proves, for `Mail`, types and, per email, `Known` and `Recorded`:
what the table and the workers' batches say of it, and that it is recorded as sent
only after SMTP took it; `CopiesAccounted` follows. Its hypothesis `NamesApart`
keeps the names of the modes of a loss apart from `None`.

For `BrowserTabs` it proves `RefreshesInTurn` where the browser has locks, from

    TabsInv == TabTypes /\ Alone /\ (leaving => session.over)
               /\ (session.over \/ "lost" \in past \/ InTurn) /\ RefreshesInTurn

`Alone`: who refreshes is in the queue of the lock, and only its head does more
than wait. `InTurn` follows the holder through its three requests: what it looked
up is the expiry of the cookies, it rotates only when they have expired (or the
server failed), the token it sends is the session's, and the answer brings the
cookies of the session. Once an answer was lost or the session is over that is so
no more, and the property does not ask for it. The hypotheses are `TimesFit`, what
the validator of the settings ensures, and that `None` is no cookie.

`MessagesSafety` proves

    Inv == TypeOK /\ Named /\ Once /\ Waiting /\ MovedOn /\ Announced

`Named` ties a message to the composition it came from: a retry carries the
identifier of its draft, and a corrected draft keeps it, so the handler's look-up
by author and identifier is a look-up by composition, and `Once` is kept.
`Waiting` says that the one answer the composer may hear is to its present
draft; without it a late "ok" could dismiss a draft that was never sent
(`MovedOn`). `Announced` - no event is ahead of its message - makes an increased
revision larger than every earlier one. `SentOnce` and `ChangesAnnounced` follow.

With it `ReadInv` is inductive where the processes have one clock (`Skew = 0`):
`seen` is the history up to the read position, and a message that is not deleted
mentions whom its present words mention. One clock makes a new message the last of
all (`NewIsLast`, from the number of messages), so that no position is ever ahead
of a message to come. `UnreadIsUnseen` follows; without the hypothesis it is false.

`RealtimeSafety` proves

    Inv == TypeOK /\ Ordered /\ Future /\ Asked /\ Noted
           /\ NothingAfterAccess /\ NoSilentGap

`Ordered` says that the end of a socket is first in its queue, because `_remove`
empties the queue before it puts the end there. `Asked` says of the answers that
are waited for that they grant at least what is still so, since neither sessions
nor access come back to a socket, and that they deny the change to a socket it is
a secret for; so acting on an answer that is old by now neither sends too much nor
leaves out what is due. `Noted` and `Future` say what each kind of change means for
a socket now, and that nobody knows of a change before it is committed. `SecretsStay`,
`NothingLost` and `EndIsFirst` follow. `NothingLost` is `NoSilentGap`, with its
condition: a failed delivery is a step of the specification, and what it drops is
noted as "dropped" and not as due.

`FilesSafety` proves

    Inv == TypeOK /\ \A f \in File : Stored(f) /\ Uploading(f) /\ Claimed(f)

`Uploading` carries an upload over the gap between its two transactions: while
its bytes are on their way the row is neither due nor anything but "uploading",
so no worker deletes what is about to be stored. `Claimed` says that a claim is
never a row in use, so that a worker which comes back from the store after its
claim was taken over can only erase what is to be erased. `StoreMatchesRows`
follows.

For `LimitsKept` it adds `Limits`, where no direct conversation takes part
(`Direct = {}`, without which it is false): at most one reservation is between its
two steps, and what it adds fits. `AllLast` says of every step but the end of a
reservation that files keep their size and that what is removed stays removed, so
that the bytes counted, and the files of the last hour, can only become fewer.

`BrowserSafety` proves `NothingAfterRevocation` from the invariant `Shut`:
once access is refused the socket is closed for good, no delivery task holds a
frame for it, snapshots and jumps are dropped and every request for older
messages is marked as outdated, so whatever still arrives is thrown away.

For what a tab shows it proves

    Showing == Base /\ SnapshotCovers /\ ViewCovers

`Base` says of everything that can reach the tab - frames, answers, collected
changes, pages - that it is `Sound`: not ahead of the server, and right if it is of
the server's revision, quotes included. (A deleted row that the tab made up may be
wrong at an earlier revision only, since a deletion is final and adds one.) `Sync`
says that the answer to a subscription is the first frame of its connection, and
that the tab collects changes from before the subscription until the snapshot is
shown. The other two parts follow a change through the race, by one alternative:
what the tab does not have is `Pending`, that is, a task or a frame will tell it.

* `SnapshotCovers`, of a live snapshot that has been answered: each message is
  pending, collected in `buffer`, or on the page, or before its cursor, and what
  the page says of it is so. It is established when the page is read, and a commit
  afterwards is pending. This is why the code subscribes before it asks for the page.
* `ViewCovers`, of a tab at the end of the conversation that shows such a snapshot:
  each of the newest messages is pending or shown; each message is pending, shown, or
  before the cursor and before that of every request for older messages that is not
  outdated; and such a request, once answered, continues where it was to start.
* `Late` is what quotes need. An answer or a frame may quote a message as it was; that
  does no harm where the quoted message is pending, is or will be among the
  messages it is merged with, or a row as new as the late one is there. It speaks of
  the newest messages only: the quote in an older row may remain behind, since a
  snapshot lets go of what it was corrected by.

`SnapshotApply` turns the first into the second (`AppliedView`), by what
`mergeMessages` does to rows and to quotes (`MergeIs`, `MergedHas`, `MergedQuoting`).
When nothing is pending, `NewestIsCurrent` and `NothingSkipped` are what is left of
`ViewCovers`.

For the cache it proves

    CacheInv == CacheTypes /\ Cookies /\ Loads /\ Listed /\ Waited /\ Heard /\ Views
                /\ NothingOfOthers /\ ReadYourWrites

`Loads` says of a request that is not outdated that it was sent for the account
that is shown and read after every change whose answer has come; `Listed`, that
only such requests can be joined; `Waited` carries that to whoever joined before an
own change. `Views` says that a view with the session of the cache belongs to the
account that is shown, so its late previews may be kept. `NothingOfOthers` and
`ReadYourWrites` follow.

Types are not checked by a run: `TypeOK` of every module in this list is part of its
inductive invariant, and `TypeCorrect` of `Calls`, `Sessions` and `Memberships` a
theorem.

The proofs assume the named assumptions of the modules, and the hypotheses the
theorems state: any sets of people, calls, sessions, tokens and processes, any
durations (of calls, with `TokenTime + Lag <= SealTime`). `Memberships.tla`
assumes only that `None` is no channel and no workspace, `Messages.tla` that it is
no body, number, answer or row, `Conversation.tla` that it is neither a number nor what
is known of a message; `Realtime.tla` is alike, and so are the hypotheses
`NamesApart` of the theorems about `Mail` and `ApiCache`. `Files.tla` assumes
besides that sizes and limits are numbers, of any finite or infinite set of files.

Only model-checked: the liveness properties of `Calls`, `Realtime`, `Mail`,
`Files` and `BrowserTabs` (fairness and ENABLED are beyond the prover). Every
invariant and action property of the passing runs is a theorem.

## Plan

1. `Calls` - done: modelled, checked, safety proved.
2. `Sessions` - done: modelled, checked, safety proved. `BrowserTabs` and
   `ApiCache` - modelled, checked, safety proved. To do: a sign-in in `BrowserTabs`.
3. `Memberships` - done: modelled, checked, safety proved.
4. `Realtime` and `Conversation` - done: modelled, checked, safety proved. To do: the
   composition `Delivery`, in which the abstract server of `Conversation` is what a
   socket of `Realtime` does.
   Open question for `Conversation`: `older` enables the buttons again although a
   navigation is under way, so a second `older` can start from the cursor of the
   window that is about to be replaced, and the new window then has a gap.
5. `Messages`, `Mail` and `Files` - done: modelled, checked, safety proved.
6. `RateLimit`, `CallClient` (the retries of calls.tsx), `LockOrder` (which
   transactions can wait for each other).

Theorem worth proving next: a step of `Realtime` is, for one socket and one
conversation, a step or a stutter of the server in `Conversation`.

## Not modelled

`PROJECT.json` lists every component with its status. Out of scope for good:
cryptography, rendering, HTML and rich-text validation, configuration parsing,
and the read-only endpoints (history, search, listings), except for the sets they
are computed from. Not yet: what the plan lists under 4 and 6, and typing, presence
and heartbeats.
