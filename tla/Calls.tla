------------------------------- MODULE Calls -------------------------------
(***************************************************************************)
(* Private voice calls: modules/calling of the backend.                    *)
(*                                                                         *)
(* One action is one committed database transaction, one LiveKit operation *)
(* or one step of the clock.  Every handler but "start" does all its work  *)
(* under the call's row lock, so it is one action; "start" takes the user  *)
(* locks, reads the seats and the time, and only then waits for the rows   *)
(* of earlier calls, so it is two.  The maintenance loop reads the time    *)
(* once per pass and uses it, ageing, for everything the pass does.        *)
(*                                                                         *)
(* A conversation is its pair of participants.  Nothing in the code takes  *)
(* a participant out of a direct conversation, so has_access is just       *)
(* "is a participant" here.                                                *)
(***************************************************************************)
EXTENDS Integers, FiniteSets

CONSTANTS
  User,         (* people                                                    *)
  Call,         (* caller-generated request ids, which are also the call ids *)
  Session,      (* authenticated browser sessions                            *)
  Device,       (* browser tabs: the device ids they send                    *)
  Worker,       (* API processes, each running the maintenance loop          *)
  None,         (* SQL NULL                                                  *)
  SessionUser,  (* the user of each session                                  *)
  RingTime,     (* RING_SECONDS                                              *)
  LeaseTime,    (* LEASE_SECONDS                                             *)
  TokenTime,    (* life of a LiveKit join token                              *)
  SealTime,     (* how long deletion of an ended room is repeated            *)
  RepeatTime,   (* pause before the next repetition                          *)
  RetryTime,    (* pause after a failed deletion                             *)
  Lag,          (* the longest a transaction keeps using a time it has read  *)
  MaxTime       (* horizon of the clock: bounds the model                    *)

ASSUME SessionAssumption == SessionUser \in [Session -> User]

ASSUME NoneAssumption ==
  None \notin (User \cup Call \cup Session \cup Device \cup Int)

\* 60 s of token life and up to 30 s of ageing fit in the 90 s of worker.py.
ASSUME TimeAssumption ==
  /\ {RingTime, LeaseTime, TokenTime, SealTime, RepeatTime, RetryTime, Lag, MaxTime} \subseteq Nat
  /\ TokenTime > 0 /\ RepeatTime > 0 /\ RetryTime > 0
  /\ TokenTime + Lag <= SealTime

VARIABLES
  call,      (* calling_calls: the row of each request id                     *)
  seat,      (* calling_seats: the call that reserves each user, or None      *)
  start,     (* the open "start" transaction of each session, or None         *)
  pass,      (* the maintenance pass each worker is in, or None               *)
  token,     (* join tokens LiveKit would still accept                        *)
  room,      (* users connected to the LiveKit room of each call              *)
  auth,      (* "valid"; "draining": revoked after a request passed the
                authentication and before it ran; "gone": revoked             *)
  disabled,  (* users with disabled_at set                                    *)
  now

vars == <<call, seat, start, pass, token, room, auth, disabled, now>>

-----------------------------------------------------------------------------
(* Rows *)

LiveStatus == {"ringing", "active"}
OverStatus == {"declined", "missed", "cancelled", "ended"}

Time == Nat
Row == [status : {"none"} \cup LiveStatus \cup OverStatus,
        caller : User \cup {None}, callee : User \cup {None},
        callerSession : Session \cup {None}, calleeSession : Session \cup {None},
        callerDevice : Device \cup {None}, calleeDevice : Device \cup {None},
        created : Time, answered : Time \cup {None}, ended : Time \cup {None},
        callerSeen : Time, calleeSeen : Time \cup {None},
        cleanup : Time \cup {None}]

NoRow == [status |-> "none", caller |-> None, callee |-> None,
          callerSession |-> None, calleeSession |-> None,
          callerDevice |-> None, calleeDevice |-> None,
          created |-> 0, answered |-> None, ended |-> None,
          callerSeen |-> 0, calleeSeen |-> None, cleanup |-> None]

NewRow(s, callee, d, t) ==
  [status |-> "ringing", caller |-> SessionUser[s], callee |-> callee,
   callerSession |-> s, calleeSession |-> None,
   callerDevice |-> d, calleeDevice |-> None,
   created |-> t, answered |-> None, ended |-> None,
   callerSeen |-> t, calleeSeen |-> None, cleanup |-> None]

Live(r) == r.status \in LiveStatus

Parties(r) == {r.caller, r.callee}

\* finish(): the row's part; Save and StartCommit delete the seats.
Finish(r, status, t) ==
  [r EXCEPT !.status = status, !.ended = t,
            !.cleanup = IF r.answered = None THEN None ELSE t]

Authorized_Unchecked(r) == TRUE  \* variant: revocation is never looked at

\* The sessions in use are valid and their users enabled.  Before the answer there is no
\* callee session, and then the callee is not looked at.
Authorized(r) ==
  /\ auth[r.callerSession] = "valid" /\ r.caller \notin disabled
  /\ r.calleeSession # None =>
       auth[r.calleeSession] = "valid" /\ r.callee \notin disabled

RangOut_AnyLive(r, t) == Live(r) /\ r.created + RingTime <= t  \* variant: answered calls too
RangOut_Never(r, t) == FALSE  \* variant: no ring timeout

RangOut(r, t) == r.status = "ringing" /\ r.created + RingTime <= t

Lapsed(seen, t) == seen = None \/ seen + LeaseTime <= t

LeaseLost_CallerOnly(r, t) == r.status = "active" /\ Lapsed(r.callerSeen, t)  \* variant

LeaseLost(r, t) == r.status = "active" /\ (Lapsed(r.callerSeen, t) \/ Lapsed(r.calleeSeen, t))

\* expire(): the row after looking at it at time t.
Expire(r, t) ==
  IF RangOut(r, t) THEN Finish(r, "missed", t)
  ELSE IF Live(r) /\ ~Authorized(r)
       THEN Finish(r, IF r.status = "ringing" THEN "cancelled" ELSE "ended", t)
  ELSE IF LeaseLost(r, t) THEN Finish(r, "ended", t)
  ELSE r

Expired(c, t) == Expire(call[c], t)

\* Commit row r of call c; finishing a live call deletes the seats that point to it.
Save(c, r) ==
  /\ call' = [call EXCEPT ![c] = r]
  /\ seat' = IF Live(call[c]) /\ ~Live(r)
             THEN [u \in User |-> IF seat[u] = c THEN None ELSE seat[u]]
             ELSE seat

-----------------------------------------------------------------------------
(* Requests *)

\* Authentication precedes the handler in the request, so a session revoked in between still
\* gets this one request through.
Authenticated(s) ==
  /\ \/ auth[s] = "valid" /\ SessionUser[s] \notin disabled
     \/ auth[s] = "draining"
  /\ auth' = [auth EXCEPT ![s] = IF @ = "draining" THEN "gone" ELSE @]

\* load(): only for a participant of an existing call, which it locks and expires.
Participates(s, c) ==
  /\ call[c].status # "none"
  /\ SessionUser[s] \in Parties(call[c])

Loaded_AsStored(c) == call[c]  \* variant: not expired first

Loaded(c) == Expired(c, now)

Holds_AnyTab(r, s, d) ==  \* variant: the session alone
  IF SessionUser[s] = r.caller THEN r.callerSession = s ELSE r.calleeSession = s

\* require_device(): the browser tab and the session that hold this end of the call.
Holds(r, s, d) ==
  IF SessionUser[s] = r.caller THEN r.callerDevice = d /\ r.callerSession = s
                               ELSE r.calleeDevice = d /\ r.calleeSession = s

Locked(u) == \E s \in Session : start[s] # None /\ u \in start[s].peers

LockFree_Unlocked(peers) == TRUE  \* variant: no user locks

LockFree(peers) == \A u \in peers : ~Locked(u)

\* start(), up to the wait for earlier calls: user row locks, seats and clock read.  A request
\* id that has a row already is answered from that row and changes nothing.
StartLock(s, callee, c, d) ==
  LET peers == {SessionUser[s], callee} IN
  /\ start[s] = None
  /\ callee # SessionUser[s]
  /\ Authenticated(s)
  /\ LockFree(peers)
  /\ peers \cap disabled = {}
  /\ call[c].status = "none"
  /\ start' = [start EXCEPT ![s] =
       [peers |-> peers, callee |-> callee, id |-> c, device |-> d, at |-> now,
        previous |-> {seat[u] : u \in peers} \ {None}]]
  /\ UNCHANGED <<call, seat, pass, token, room, disabled, now>>

MayReplace_Live(p) == TRUE  \* variant: earlier calls are not looked at

\* Every earlier call of a peer is over or expires at the time read before.
MayReplace(p) == \A c \in p.previous : ~Live(Expired(c, p.at))

Freed(p) == {u \in User : seat[u] \in p.previous}

SeatsAfter_PeersOnly(p) ==  \* variant: other people stay reserved by an expired call
  [u \in User |-> IF u \in p.peers THEN p.id ELSE seat[u]]

SeatsAfter(p) ==
  [u \in User |-> IF u \in p.peers THEN p.id ELSE IF u \in Freed(p) THEN None ELSE seat[u]]

\* start(), the rest: earlier calls expire, the call and both seats are inserted, commit.  The
\* primary keys of calls and of seats must be free, or the database refuses the insert.
StartCommit(s) ==
  LET p == start[s] IN
  /\ p # None
  /\ MayReplace(p)
  /\ call[p.id].status = "none"
  /\ \A u \in p.peers : seat[u] = None \/ u \in Freed(p)
  /\ call' = [c \in Call |-> IF c = p.id THEN NewRow(s, p.callee, p.device, p.at)
                             ELSE IF c \in p.previous THEN Expired(c, p.at) ELSE call[c]]
  /\ seat' = SeatsAfter(p)
  /\ start' = [start EXCEPT ![s] = None]
  /\ UNCHANGED <<pass, token, room, auth, disabled, now>>

\* start() rolled back: a peer is in a live call (409), a key is taken, the process stops.
StartAbort(s) ==
  /\ start[s] # None
  /\ start' = [start EXCEPT ![s] = None]
  /\ UNCHANGED <<call, seat, pass, token, room, auth, disabled, now>>

Answerable_Missed(r) == r.status \in {"ringing", "missed"}  \* variant: a late answer counts

Answerable(r) == r.status = "ringing"

\* action "accept", by the recipient.  Not ringing any more: what expire() did is committed.
Accept(s, c, d) ==
  LET r == Loaded(c) IN
  /\ Participates(s, c) /\ SessionUser[s] = call[c].callee
  /\ Authenticated(s)
  /\ Save(c, IF Answerable(r)
             THEN [r EXCEPT !.status = "active", !.answered = now,
                            !.calleeDevice = d, !.calleeSession = s,
                            !.callerSeen = now, !.calleeSeen = now]
             ELSE r)
  /\ UNCHANGED <<start, pass, token, room, disabled, now>>

\* action "decline", by the recipient.
Decline(s, c) ==
  LET r == Loaded(c) IN
  /\ Participates(s, c) /\ SessionUser[s] = call[c].callee
  /\ Authenticated(s)
  /\ Save(c, IF r.status = "ringing" THEN Finish(r, "declined", now) ELSE r)
  /\ UNCHANGED <<start, pass, token, room, disabled, now>>

\* action "end", by either participant from any tab.
End(s, c) ==
  LET r == Loaded(c) IN
  /\ Participates(s, c)
  /\ Authenticated(s)
  /\ Save(c, IF Live(r)
             THEN Finish(r, IF r.status = "ringing" THEN "cancelled" ELSE "ended", now)
             ELSE r)
  /\ UNCHANGED <<start, pass, token, room, disabled, now>>

\* action "heartbeat": from the wrong tab of an active call it is refused.
Heartbeat(s, c, d) ==
  LET r == Loaded(c) IN
  /\ Participates(s, c)
  /\ r.status = "active" => Holds(r, s, d)
  /\ Authenticated(s)
  /\ Save(c, IF r.status # "active" THEN r
             ELSE IF SessionUser[s] = r.caller THEN [r EXCEPT !.callerSeen = now]
             ELSE [r EXCEPT !.calleeSeen = now])
  /\ UNCHANGED <<start, pass, token, room, disabled, now>>

\* token(): a join token for the holding tab of an active call.
IssueToken(s, c, d) ==
  LET r == Loaded(c) IN
  /\ Participates(s, c)
  /\ r.status = "active" => Holds(r, s, d)
  /\ Authenticated(s)
  /\ Save(c, r)
  /\ token' = IF r.status # "active" THEN token
              ELSE token \cup {[call |-> c, user |-> SessionUser[s], session |-> s,
                                device |-> d, issued |-> now]}
  /\ UNCHANGED <<start, pass, room, disabled, now>>

\* inbox(): looks at the call that reserves the user.
Inbox(s) ==
  LET c == seat[SessionUser[s]] IN
  /\ c # None
  /\ Authenticated(s)
  /\ Save(c, Expired(c, now))
  /\ UNCHANGED <<start, pass, token, room, disabled, now>>

-----------------------------------------------------------------------------
(* Maintenance loop *)

\* A call row that an open "start" may have locked: SKIP LOCKED passes over it.
Busy(c) == \E s \in Session : start[s] # None /\ c \in start[s].previous

Overdue(c, t) == Live(call[c]) /\ ~Live(Expired(c, t))

Uncleaned(c, t) == call[c].cleanup # None /\ call[c].cleanup <= t

\* A call row that a pass has locked to close its room.
Closing(c) == \E w \in Worker : pass[w] # None /\ c \in pass[w].due

PassBegin(w) ==
  /\ pass[w] = None
  /\ pass' = [pass EXCEPT ![w] =
       [at |-> now, phase |-> "calls", due |-> {}, closed |-> {}, failed |-> {}]]
  /\ UNCHANGED <<call, seat, start, token, room, auth, disabled, now>>

SweepCall(w, c) ==
  /\ pass[w] # None /\ pass[w].phase = "calls"
  /\ Overdue(c, pass[w].at)
  /\ Save(c, Expired(c, pass[w].at))
  /\ UNCHANGED <<start, pass, token, room, auth, disabled, now>>

\* All calls are looked at; the second transaction locks the calls whose room is due.
SweepRooms(w) ==
  LET t == pass[w].at IN
  /\ pass[w] # None /\ pass[w].phase = "calls"
  /\ \A c \in Call : Overdue(c, t) => Busy(c)
  /\ pass' = [pass EXCEPT ![w] =
       [at |-> t, phase |-> "rooms",
        due |-> {c \in Call : Uncleaned(c, t) /\ ~Closing(c)}, closed |-> {}, failed |-> {}]]
  /\ UNCHANGED <<call, seat, start, token, room, auth, disabled, now>>

Unanswered(p) == p.due \ (p.closed \cup p.failed)

\* LiveKit deleted the room or knew none of that name.
RoomDeleted(w, c) ==
  /\ pass[w] # None /\ c \in Unanswered(pass[w])
  /\ room' = [room EXCEPT ![c] = {}]
  /\ pass' = [pass EXCEPT ![w].closed = @ \cup {c}]
  /\ UNCHANGED <<call, seat, start, token, auth, disabled, now>>

\* An error or a timeout; the room may be gone all the same.
RoomNotDeleted(w, c) ==
  /\ pass[w] # None /\ c \in Unanswered(pass[w])
  /\ room' \in {room, [room EXCEPT ![c] = {}]}
  /\ pass' = [pass EXCEPT ![w].failed = @ \cup {c}]
  /\ UNCHANGED <<call, seat, start, token, auth, disabled, now>>

NextCleanup_Short(r, t) ==  \* variant: as long as a token lives, no margin
  IF r.ended # None /\ t < r.ended + TokenTime THEN t + RepeatTime ELSE None

NextCleanup(r, t) ==
  IF r.ended # None /\ t < r.ended + SealTime THEN t + RepeatTime ELSE None

Rescheduled_AsDeleted(p, c) ==  \* variant: a failure falls through to what follows a deletion
  [call[c] EXCEPT !.cleanup = NextCleanup(call[c], p.at)]

Rescheduled(p, c) ==
  IF c \in p.closed THEN [call[c] EXCEPT !.cleanup = NextCleanup(call[c], p.at)]
  ELSE [call[c] EXCEPT !.cleanup = p.at + RetryTime]

\* All deletions are answered: the new cleanup times are committed and the pass is over.
CommitRooms(w) ==
  LET p == pass[w] IN
  /\ p # None /\ p.phase = "rooms"
  /\ Unanswered(p) = {}
  /\ call' = [c \in Call |-> IF c \in p.due THEN Rescheduled(p, c) ELSE call[c]]
  /\ pass' = [pass EXCEPT ![w] = None]
  /\ UNCHANGED <<seat, start, token, room, auth, disabled, now>>

\* An exception or the end of the process cuts the pass short; its transaction is undone.
PassCut(w) ==
  /\ pass[w] # None
  /\ pass' = [pass EXCEPT ![w] = None]
  /\ UNCHANGED <<call, seat, start, token, room, auth, disabled, now>>

-----------------------------------------------------------------------------
(* Surroundings: LiveKit, session revocation, administration, time *)

Join(k) ==
  /\ k \in token
  /\ room' = [room EXCEPT ![k.call] = @ \cup {k.user}]
  /\ UNCHANGED <<call, seat, start, pass, token, auth, disabled, now>>

Leave(c, u) ==
  /\ u \in room[c]
  /\ room' = [room EXCEPT ![c] = @ \ {u}]
  /\ UNCHANGED <<call, seat, start, pass, token, auth, disabled, now>>

Revoke(s) ==
  /\ auth[s] = "valid"
  /\ \E a \in {"draining", "gone"} : auth' = [auth EXCEPT ![s] = a]
  /\ UNCHANGED <<call, seat, start, pass, token, room, disabled, now>>

Disable(u) ==
  /\ u \notin disabled
  /\ disabled' = disabled \cup {u}
  /\ UNCHANGED <<call, seat, start, pass, token, room, auth, now>>

\* Time passes unless it would leave a transaction with a reading older than Lag.
Tick ==
  /\ now < MaxTime
  /\ \A w \in Worker : pass[w] # None => now < pass[w].at + Lag
  /\ \A s \in Session : start[s] # None => now < start[s].at + Lag
  /\ now' = now + 1
  /\ token' = {k \in token : now + 1 < k.issued + TokenTime}
  /\ UNCHANGED <<call, seat, start, pass, room, auth, disabled>>

-----------------------------------------------------------------------------

Init ==
  /\ call = [c \in Call |-> NoRow]
  /\ seat = [u \in User |-> None]
  /\ start = [s \in Session |-> None]
  /\ pass = [w \in Worker |-> None]
  /\ token = {}
  /\ room = [c \in Call |-> {}]
  /\ auth = [s \in Session |-> "valid"]
  /\ disabled = {}
  /\ now = 0

Request(s) ==
  \/ \E u \in User, c \in Call, d \in Device : StartLock(s, u, c, d)
  \/ StartCommit(s)
  \/ StartAbort(s)
  \/ \E c \in Call, d \in Device : Accept(s, c, d)
  \/ \E c \in Call : Decline(s, c)
  \/ \E c \in Call : End(s, c)
  \/ \E c \in Call, d \in Device : Heartbeat(s, c, d)
  \/ \E c \in Call, d \in Device : IssueToken(s, c, d)
  \/ Inbox(s)

Maintenance(w) ==
  \/ PassBegin(w)
  \/ \E c \in Call : SweepCall(w, c)
  \/ SweepRooms(w)
  \/ \E c \in Call : RoomDeleted(w, c)
  \/ \E c \in Call : RoomNotDeleted(w, c)
  \/ CommitRooms(w)
  \/ PassCut(w)

Surroundings ==
  \/ \E k \in token : Join(k)
  \/ \E c \in Call, u \in User : Leave(c, u)
  \/ \E s \in Session : Revoke(s)
  \/ \E u \in User : Disable(u)
  \/ Tick

Next ==
  \/ \E s \in Session : Request(s)
  \/ \E w \in Worker : Maintenance(w)
  \/ Surroundings

Spec == Init /\ [][Next]_vars

(* A request, a pass and the clock do not stall for ever: transactions end, the loop comes
   round every five seconds, and neither the database nor LiveKit fails every time. *)
Fairness ==
  /\ WF_vars(Tick)
  /\ \A s \in Session : WF_vars(StartCommit(s) \/ StartAbort(s))
  /\ \A w \in Worker :
       /\ WF_vars(PassBegin(w))
       /\ SF_vars(SweepRooms(w)) /\ SF_vars(CommitRooms(w))
       /\ \A c \in Call : SF_vars(SweepCall(w, c)) /\ SF_vars(RoomDeleted(w, c))

FairSpec == Spec /\ Fairness

-----------------------------------------------------------------------------
(* Type invariant *)

StartRow == [peers : SUBSET User, callee : User, id : Call, device : Device, at : Time,
             previous : SUBSET Call]
PassRow == [at : Time, phase : {"calls", "rooms"},
            due : SUBSET Call, closed : SUBSET Call, failed : SUBSET Call]
Token == [call : Call, user : User, session : Session, device : Device, issued : Time]

\* Every variable holds a value of its kind.
TypeOK ==
  /\ call \in [Call -> Row]
  /\ seat \in [User -> Call \cup {None}]
  /\ start \in [Session -> StartRow \cup {None}]
  /\ pass \in [Worker -> PassRow \cup {None}]
  /\ token \in SUBSET Token
  /\ room \in [Call -> SUBSET User]
  /\ auth \in [Session -> {"valid", "draining", "gone"}]
  /\ disabled \in SUBSET User
  /\ now \in Time

-----------------------------------------------------------------------------
(* Safety *)

\* The seats are exactly the participants of the live calls, through expiry, hang-up, sweeps and
\* the replacement of stale calls: so nobody is in two live calls, nobody is kept from calling by
\* a call that is over, and no live call has lost a reservation.
SeatsMatchLiveCalls ==
  \A c \in Call, u \in User : seat[u] = c <=> Live(call[c]) /\ u \in Parties(call[c])

\* What "start" read under the user locks is still complete when it gets to the earlier calls:
\* any seat one of its peers has now is of a call it is going to check, and no other open
\* "start" concerns the same user.  This is what the ordered user locks are for.
StartKnowsSeats ==
  \A s \in Session : start[s] # None =>
    /\ \A u \in start[s].peers : seat[u] = None \/ seat[u] \in start[s].previous
    /\ \A r \in Session \ {s} : start[r] # None => start[r].peers \cap start[s].peers = {}

\* A call that was answered ends as "ended" and one that was not never does, whichever of sweep,
\* inbox, hang-up, decline or replacement finished it; and the room cleanup is scheduled only
\* for answered calls.
AnsweredOnlyWhenActive ==
  \A c \in Call :
    /\ call[c].answered # None <=> call[c].status \in {"active", "ended"}
    /\ call[c].ended # None <=> call[c].status \in OverStatus
    /\ call[c].cleanup # None => call[c].status = "ended"

\* All join tokens LiveKit would accept for one end of a call belong to the one tab and the one
\* session that placed or answered it, although accepts, declines and token requests of many
\* tabs and sessions of both users race.
MediaOnOneDevice ==
  \A k \in token :
    /\ call[k.call].answered # None
    /\ k.user \in Parties(call[k.call])
    /\ <<k.session, k.device>> = LET r == call[k.call] IN
         IF k.user = r.caller THEN <<r.callerSession, r.callerDevice>>
                              ELSE <<r.calleeSession, r.calleeDevice>>

\* Once the maintenance loop stops deleting the room of an ended call, nobody is in it and no
\* token is left that could recreate it, although tokens are issued and rooms joined while
\* passes work with an ageing clock reading.
RoomSealed ==
  \A c \in Call :
    call[c].status = "ended" /\ call[c].cleanup = None =>
      room[c] = {} /\ \A k \in token : k.call # c

-----------------------------------------------------------------------------
(* Action properties *)

\* A call that is over stays as it is, only its cleanup advances, and a finished cleanup is not
\* taken up again: late accepts, heartbeats, sweeps and retries of "start" do not revive it.
OverIsFinal ==
  [][\A c \in Call : call[c].status \in OverStatus =>
       /\ call'[c] = [call[c] EXCEPT !.cleanup = call'[c].cleanup]
       /\ call[c].cleanup = None => call'[c].cleanup = None]_vars

\* A token is issued only while the call is live and the session asking for it is valid, even to
\* a request that was authenticated before the session was revoked.
NoTokenAfterRevocation ==
  [][\A k \in token' \ token : Live(call'[k.call]) /\ auth[k.session] = "valid"]_vars

-----------------------------------------------------------------------------
(* Liveness *)

\* A call does not ring for ever, provided its time runs out before the horizon.
RingingEnds ==
  \A c \in Call :
    (call[c].status = "ringing" /\ call[c].created + RingTime <= MaxTime)
      ~> call[c].status # "ringing"

\* A call placed or answered by a session that is revoked, or by a user who is disabled,
\* afterwards ends.
RevokedCallEnds ==
  \A c \in Call :
    (Live(call[c]) /\ \E s \in {call[c].callerSession, call[c].calleeSession} \ {None} :
                        auth[s] # "valid" \/ SessionUser[s] \in disabled)
      ~> ~Live(call[c])

\* A lease that is not renewed ends the call: no reading of it outlives LeaseTime.
AbandonedCallEnds ==
  \A c \in Call : \A t \in 0..(MaxTime - LeaseTime) :
    (call[c].status = "active" /\ (call[c].callerSeen = t \/ call[c].calleeSeen = t))
      ~> (call[c].status # "active" \/ (call[c].callerSeen # t /\ call[c].calleeSeen # t))

\* LiveKit answered the deletion of the room of c in a pass that is under way.
Deleted(c) == \E w \in Worker : pass[w] # None /\ c \in pass[w].closed

\* The horizon cuts off what would follow.
PutOff(c) == call[c].cleanup # None /\ call[c].cleanup > MaxTime

\* A room deletion that is due is repeated until LiveKit has answered one, and whoever is in the
\* room of a call that is over is put out, although failures postpone a deletion, restarts undo
\* the record of it, and a token that is still accepted lets people in again: no pass forgets a
\* room.  What was put off beyond the horizon is not followed.
CleanupNotForgotten ==
  \A c \in Call :
    /\ Uncleaned(c, MaxTime) ~> (Deleted(c) \/ PutOff(c))
    /\ (call[c].status = "ended" /\ room[c] # {}) ~> (room[c] = {} \/ PutOff(c))

-----------------------------------------------------------------------------
(* What calling promises: one live call per person *)

Contract == INSTANCE ExclusiveCalls WITH
  phase <- [c \in Call |-> IF call[c].status \in OverStatus THEN "over" ELSE call[c].status],
  parties <- [c \in Call |-> Parties(call[c]) \ {None}]

ImplementsContract == Contract!Spec
=============================================================================
