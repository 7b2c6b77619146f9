---------------------------- MODULE CallsSafety ----------------------------
(* Why seats and rows of Calls are right, why Calls keeps its contract, why nobody stays in or *)
(* comes back to the room of an ended call, and on which tab the media of a call is, for every *)
(* number of people, calls, sessions, tabs and processes.                                      *)
EXTENDS Calls, TLAPS

-----------------------------------------------------------------------------
(* What the operators on rows return *)

\* finish() changes the status, the end and the cleanup, and keeps the rest.
LEMMA FinishFacts ==
  ASSUME NEW r \in Row, NEW st \in OverStatus, NEW t \in Time
  PROVE  /\ Finish(r, st, t) \in Row
         /\ Finish(r, st, t).status = st
         /\ Finish(r, st, t).ended = t
         /\ Finish(r, st, t).cleanup = IF r.answered = None THEN None ELSE t
         /\ Finish(r, st, t).answered = r.answered
         /\ Finish(r, st, t).caller = r.caller
         /\ Finish(r, st, t).callee = r.callee
         /\ Finish(r, st, t).callerSession = r.callerSession
         /\ Finish(r, st, t).callerDevice = r.callerDevice
         /\ Finish(r, st, t).calleeSession = r.calleeSession
         /\ Finish(r, st, t).calleeDevice = r.calleeDevice
<1> DEFINE r1 == [r EXCEPT !.status = st]
           r2 == [r1 EXCEPT !.ended = t]
           k == IF r.answered = None THEN None ELSE t
<1>1. Finish(r, st, t) \in Row
  <2>1. r1 \in Row
    BY DEF Row
  <2>2. r2 \in Row
    <3> HIDE DEF r1
    <3> QED BY <2>1 DEF Row
  <2>3. [r2 EXCEPT !.cleanup = k] \in Row
    <3> HIDE DEF r2
    <3> QED BY <2>2 DEF Row
  <2>4. QED BY <2>3 DEF Finish
<1>2. QED BY <1>1 DEF Finish, Row

\* Hanging up at time t: the row of a live call finished, as "ended" if it was answered.
HungUp(old, new, t) ==
  /\ Live(old)
  /\ \E st \in OverStatus :
       /\ st = "ended" <=> old.status = "active"
       /\ new = Finish(old, st, t)

\* expire() keeps the row or hangs up.
LEMMA ExpireCases ==
  ASSUME NEW r \in Row, NEW t \in Time
  PROVE  Expire(r, t) = r \/ HungUp(r, Expire(r, t), t)
BY DEF Expire, HungUp, Live, LiveStatus, OverStatus, RangOut, LeaseLost

\* The answer: what "accept" writes into a ringing row.
Answered(old, new, s, d, t) ==
  /\ old.status = "ringing"
  /\ new = [old EXCEPT !.status = "active", !.answered = t,
                       !.calleeDevice = d, !.calleeSession = s,
                       !.callerSeen = t, !.calleeSeen = t]

\* A renewal writes a time into a lease of an active row.
Renewed(old, new, t) ==
  /\ old.status = "active"
  /\ new \in {[old EXCEPT !.callerSeen = t], [old EXCEPT !.calleeSeen = t]}

\* What the handlers and the sweep may write into a row at the time reading t.
Evolves(old, new, t) ==
  \/ new = old
  \/ HungUp(old, new, t)
  \/ \E s \in Session, d \in Device :
       SessionUser[s] = old.callee /\ Answered(old, new, s, d, t)
  \/ Renewed(old, new, t)

\* The answer changes status, answer time, recipient's tab and session, and the leases.
LEMMA AnsweredFacts ==
  ASSUME NEW old \in Row, NEW new, NEW s \in Session, NEW d \in Device, NEW t \in Time,
         Answered(old, new, s, d, t)
  PROVE  /\ new \in Row
         /\ new.status = "active" /\ new.answered = t
         /\ new.ended = old.ended /\ new.cleanup = old.cleanup
         /\ new.caller = old.caller /\ new.callee = old.callee
         /\ new.callerSession = old.callerSession /\ new.callerDevice = old.callerDevice
         /\ new.calleeSession = s /\ new.calleeDevice = d
BY DEF Answered, Row, LiveStatus

\* A renewal changes a lease only.
LEMMA RenewedFacts ==
  ASSUME NEW old \in Row, NEW new, NEW t \in Time, Renewed(old, new, t)
  PROVE  /\ new \in Row
         /\ new.status = old.status /\ new.answered = old.answered
         /\ new.ended = old.ended /\ new.cleanup = old.cleanup
         /\ new.caller = old.caller /\ new.callee = old.callee
         /\ new.callerSession = old.callerSession /\ new.callerDevice = old.callerDevice
         /\ new.calleeSession = old.calleeSession /\ new.calleeDevice = old.calleeDevice
BY DEF Renewed, Row

\* However a row evolves, it stays a row.
LEMMA EvolvesType ==
  ASSUME NEW old \in Row, NEW new, NEW t \in Time, Evolves(old, new, t)
  PROVE  new \in Row
<1>1. CASE new = old  BY <1>1
<1>2. CASE HungUp(old, new, t)  BY <1>2, FinishFacts DEF HungUp
<1>3. CASE \E s \in Session, d \in Device :
             SessionUser[s] = old.callee /\ Answered(old, new, s, d, t)
  BY <1>3, AnsweredFacts
<1>4. CASE Renewed(old, new, t)  BY <1>4, RenewedFacts
<1> QED BY <1>1, <1>2, <1>3, <1>4 DEF Evolves

-----------------------------------------------------------------------------
(* Every step, seen from the rows and the seats *)

\* A call that exists is between two different people; one that does not is between nobody.
PartiesKnown ==
  \A c \in Call :
    IF call[c].status = "none"
    THEN call[c].caller = None /\ call[c].callee = None
    ELSE call[c].caller \in User /\ call[c].callee \in User /\ call[c].caller # call[c].callee

\* An open "start" locks its own user and the callee.
StartForPeers ==
  \A s \in Session : start[s] # None =>
    /\ start[s].peers = {SessionUser[s], start[s].callee}
    /\ start[s].callee # SessionUser[s]

\* The times that handlers and passes work with.
Reading(t) == t = now \/ \E w \in Worker : pass[w] # None /\ t = pass[w].at

\* A transaction that changes one row.
SaveStep == \E c \in Call, t \in Time, new \in Row :
              Reading(t) /\ Evolves(call[c], new, t) /\ Save(c, new)

\* The end of a pass moves cleanup times, of the calls it found due, and changes nothing else
\* in the rows.
CleanStep ==
  /\ UNCHANGED <<seat, start>>
  /\ call' \in [Call -> Row]
  /\ \E w \in Worker :
       /\ CommitRooms(w)
       /\ \A c \in Call :
            /\ \E t \in Time \cup {None} : call'[c] = [call[c] EXCEPT !.cleanup = t]
            /\ c \notin pass[w].due => call'[c] = call[c]

\* What expire() does is one of the ways a row may evolve.
LEMMA ExpiredEvolves ==
  ASSUME TypeOK, NEW c \in Call, NEW t \in Time
  PROVE  /\ Expired(c, t) \in Row
         /\ Evolves(call[c], Expired(c, t), t)
         /\ Expired(c, t) = call[c] \/ HungUp(call[c], Expired(c, t), t)
<1>1. call[c] \in Row  BY DEF TypeOK
<1>2. Expired(c, t) = call[c] \/ HungUp(call[c], Expired(c, t), t)
  BY <1>1, ExpireCases DEF Expired
<1>3. Evolves(call[c], Expired(c, t), t)  BY <1>2 DEF Evolves
<1> QED BY <1>1, <1>2, <1>3, EvolvesType

\* Hanging up takes a live row and leaves one that is over, between the same people.
LEMMA HungUpIsOver ==
  ASSUME NEW old \in Row, NEW new, NEW t \in Time, HungUp(old, new, t)
  PROVE  /\ Live(old) /\ ~Live(new) /\ new.status \in OverStatus /\ new \in Row
         /\ new.caller = old.caller /\ new.callee = old.callee
<1>1. PICK st \in OverStatus : new = Finish(old, st, t)  BY DEF HungUp
<1>2. st \notin LiveStatus  BY DEF LiveStatus, OverStatus
<1> QED BY <1>1, <1>2, FinishFacts DEF HungUp, Live

\* load() returns a row that evolved; if it is still live, it was not touched.
LEMMA LoadedCases ==
  ASSUME TypeOK, NEW c \in Call
  PROVE  /\ Loaded(c) \in Row
         /\ Evolves(call[c], Loaded(c), now)
         /\ Live(Loaded(c)) => Loaded(c) = call[c]
<1>1. now \in Time  BY DEF TypeOK
<1>2. call[c] \in Row  BY DEF TypeOK
<1>3. HungUp(call[c], Loaded(c), now) => ~Live(Loaded(c))  BY <1>1, <1>2, HungUpIsOver
<1> QED BY <1>1, <1>3, ExpiredEvolves DEF Loaded

\* Hanging up what load() left live.
LEMMA FinishLoaded ==
  ASSUME TypeOK, NEW c \in Call, Live(Loaded(c)), NEW st \in OverStatus,
         st = "ended" <=> Loaded(c).status = "active"
  PROVE  Evolves(call[c], Finish(Loaded(c), st, now), now)
BY LoadedCases DEF Evolves, HungUp

\* The requests that name a tab save one row.
LEMMA TabsSave ==
  ASSUME TypeOK, NEW s \in Session, NEW c \in Call, NEW d \in Device,
         Accept(s, c, d) \/ Heartbeat(s, c, d) \/ IssueToken(s, c, d)
  PROVE  SaveStep /\ UNCHANGED start
<1> USE LoadedCases
<1>a. \A new, t : t \in Time /\ Evolves(call[c], new, t) => new \in Row
  BY EvolvesType DEF TypeOK
<1>0. now \in Time /\ Reading(now)  BY DEF TypeOK, Reading
<1>1. CASE Accept(s, c, d)
  <2> DEFINE r == Loaded(c)
             new == [r EXCEPT !.status = "active", !.answered = now,
                              !.calleeDevice = d, !.calleeSession = s,
                              !.callerSeen = now, !.calleeSeen = now]
  <2>1. Save(c, IF Answerable(r) THEN new ELSE r) /\ SessionUser[s] = call[c].callee
        /\ UNCHANGED start
    BY <1>1 DEF Accept
  <2>2. CASE Answerable(r)
    <3>1. r = call[c] /\ r.status = "ringing"
      BY <2>2 DEF Answerable, Live, LiveStatus
    <3>2. Answered(call[c], new, s, d, now)  BY <3>1 DEF Answered
    <3>3. Evolves(call[c], new, now)  BY <2>1, <3>2 DEF Evolves
    <3> HIDE DEF new, r
    <3> QED BY <1>a, <1>0, <2>1, <2>2, <3>3 DEF SaveStep
  <2>3. CASE ~Answerable(r)
    BY <1>0, <2>1, <2>3 DEF SaveStep
  <2> QED BY <2>2, <2>3
<1>2. CASE Heartbeat(s, c, d)
  <2> DEFINE r == Loaded(c)
             new == IF r.status # "active" THEN r
                    ELSE IF SessionUser[s] = r.caller THEN [r EXCEPT !.callerSeen = now]
                    ELSE [r EXCEPT !.calleeSeen = now]
  <2>1. Save(c, new) /\ UNCHANGED start  BY <1>2 DEF Heartbeat
  <2>2. Evolves(call[c], new, now)
    BY DEF Evolves, Renewed, Live, LiveStatus
  <2> HIDE DEF new
  <2> QED BY <1>a, <1>0, <2>1, <2>2 DEF SaveStep
<1>3. CASE IssueToken(s, c, d)
  BY <1>0, <1>3 DEF IssueToken, SaveStep
<1> QED BY <1>1, <1>2, <1>3

\* So do the requests that hang up.
LEMMA HangUpsSave ==
  ASSUME TypeOK, NEW s \in Session, NEW c \in Call, Decline(s, c) \/ End(s, c)
  PROVE  SaveStep /\ UNCHANGED start
<1> USE LoadedCases
<1>a. \A new, t : t \in Time /\ Evolves(call[c], new, t) => new \in Row
  BY EvolvesType DEF TypeOK
<1>0. now \in Time /\ Reading(now)  BY DEF TypeOK, Reading
<1>1. CASE Decline(s, c)
  <2> DEFINE r == Loaded(c)
             new == IF r.status = "ringing" THEN Finish(r, "declined", now) ELSE r
  <2>1. Save(c, new) /\ UNCHANGED start  BY <1>1 DEF Decline
  <2>2. Evolves(call[c], new, now)
    BY FinishLoaded DEF Live, LiveStatus, OverStatus
  <2> HIDE DEF new
  <2> QED BY <1>a, <1>0, <2>1, <2>2 DEF SaveStep
<1>2. CASE End(s, c)
  <2> DEFINE r == Loaded(c)
             new == IF Live(r)
                    THEN Finish(r, IF r.status = "ringing" THEN "cancelled" ELSE "ended", now)
                    ELSE r
  <2>1. Save(c, new) /\ UNCHANGED start  BY <1>2 DEF End
  <2>2. Evolves(call[c], new, now)
    BY FinishLoaded DEF Live, LiveStatus, OverStatus
  <2> HIDE DEF new
  <2> QED BY <1>a, <1>0, <2>1, <2>2 DEF SaveStep
<1> QED BY <1>1, <1>2

\* What a pass commits at its end is a CleanStep.
LEMMA CommitCleans ==
  ASSUME TypeOK, NEW w \in Worker, CommitRooms(w)
  PROVE  CleanStep
<1> DEFINE p == pass[w]
<1>1. p \in PassRow  BY DEF TypeOK, CommitRooms
<1>2. ASSUME NEW c \in p.due
      PROVE  \E t \in Time \cup {None} : Rescheduled(p, c) = [call[c] EXCEPT !.cleanup = t]
  <2> DEFINE t == IF c \in p.closed THEN NextCleanup(call[c], p.at) ELSE p.at + RetryTime
  <2>1. p.at \in Time  BY <1>1 DEF PassRow
  <2>2. t \in Time \cup {None}  BY <2>1, TimeAssumption DEF NextCleanup, Time
  <2>3. Rescheduled(p, c) = [call[c] EXCEPT !.cleanup = t]  BY DEF Rescheduled
  <2> HIDE DEF t
  <2> QED BY <2>2, <2>3
<1>3. ASSUME NEW c \in Call
      PROVE  \E t \in Time \cup {None} : call[c] = [call[c] EXCEPT !.cleanup = t]
  <2>1. call[c] \in Row
    BY DEF TypeOK
  <2>2. call[c].cleanup \in Time \cup {None}
    BY <2>1 DEF Row
  <2>3. call[c] = [call[c] EXCEPT !.cleanup = call[c].cleanup]
    BY <2>1 DEF Row
  <2>4. QED BY <2>2, <2>3
<1>4. /\ call' = [c \in Call |-> IF c \in p.due THEN Rescheduled(p, c) ELSE call[c]]
      /\ UNCHANGED <<seat, start>>
  BY DEF CommitRooms
<1>5. \A c \in Call :
        /\ \E t \in Time \cup {None} : call'[c] = [call[c] EXCEPT !.cleanup = t]
        /\ c \notin p.due => call'[c] = call[c]
  <2> HIDE DEF p
  <2> QED BY <1>2, <1>3, <1>4
<1>6. \A c \in Call : call'[c] \in Row
  <2> SUFFICES ASSUME NEW c \in Call  PROVE call'[c] \in Row
    OBVIOUS
  <2>1. PICK t \in Time \cup {None} : call'[c] = [call[c] EXCEPT !.cleanup = t]
    BY <1>5
  <2> QED BY <2>1 DEF TypeOK, Row
<1>7. call' \in [Call -> Row]
  <2> HIDE DEF p
  <2> QED BY <1>4, <1>6
<1> QED BY <1>4, <1>5, <1>7 DEF CleanStep

\* A request saves one row, or is one of the two halves of "start".
LEMMA RequestCases ==
  ASSUME TypeOK, NEW s \in Session, Request(s)
  PROVE  \/ SaveStep /\ UNCHANGED start
         \/ \E u \in User, c \in Call, d \in Device : StartLock(s, u, c, d)
         \/ StartCommit(s) \/ StartAbort(s)
<1>1. CASE Inbox(s)
  <2> DEFINE c == seat[SessionUser[s]]
  <2>1. c \in Call  BY <1>1, SessionAssumption DEF Inbox, TypeOK
  <2>2. Save(c, Expired(c, now)) /\ UNCHANGED start  BY <1>1 DEF Inbox
  <2>3. now \in Time /\ Reading(now)  BY DEF TypeOK, Reading
  <2> HIDE DEF c
  <2> QED BY <2>1, <2>2, <2>3, ExpiredEvolves DEF SaveStep
<1>2. CASE \E c \in Call : Decline(s, c) \/ End(s, c)
  <2>1. PICK c \in Call : Decline(s, c) \/ End(s, c)  BY <1>2
  <2> QED BY <2>1, HangUpsSave
<1>3. CASE \E c \in Call, d \in Device :
             Accept(s, c, d) \/ Heartbeat(s, c, d) \/ IssueToken(s, c, d)
  BY <1>3, TabsSave
<1> QED BY <1>1, <1>2, <1>3 DEF Request

\* A sweep saves one row.
LEMMA SweepSaves ==
  ASSUME TypeOK, NEW w \in Worker, NEW c \in Call, SweepCall(w, c)
  PROVE  SaveStep /\ UNCHANGED <<start, pass>>
<1>1. pass[w].at \in Time  BY DEF TypeOK, PassRow, SweepCall
<1>2. Reading(pass[w].at)  BY DEF SweepCall, Reading
<1> QED BY <1>1, <1>2, ExpiredEvolves DEF SweepCall, SaveStep

\* The steps, by what they do to rows, seats and open "start" transactions.
LEMMA NextCases ==
  ASSUME TypeOK, [Next]_vars
  PROVE  \/ SaveStep /\ UNCHANGED start
         \/ CleanStep
         \/ \E s \in Session, u \in User, c \in Call, d \in Device : StartLock(s, u, c, d)
         \/ \E s \in Session : StartCommit(s)
         \/ \E s \in Session : StartAbort(s)
         \/ UNCHANGED <<call, seat, start>>
<1>1. ASSUME NEW w \in Worker, Maintenance(w)
      PROVE  \/ SaveStep /\ UNCHANGED start
             \/ CleanStep
             \/ UNCHANGED <<call, seat, start>>
  <2>1. CASE \E c \in Call : SweepCall(w, c)
    BY <2>1, SweepSaves
  <2>2. CASE CommitRooms(w)
    BY <2>2, CommitCleans
  <2>3. CASE PassBegin(w) \/ SweepRooms(w) \/ PassCut(w)
    BY <2>3 DEF PassBegin, SweepRooms, PassCut
  <2>4. CASE \E c \in Call : RoomDeleted(w, c) \/ RoomNotDeleted(w, c)
    BY <2>4 DEF RoomDeleted, RoomNotDeleted
  <2> QED BY <1>1, <2>1, <2>2, <2>3, <2>4 DEF Maintenance
<1>2. Surroundings => UNCHANGED <<call, seat, start>>
  BY DEF Surroundings, Join, Leave, Revoke, Disable, Tick
<1>3. UNCHANGED vars => UNCHANGED <<call, seat, start>>
  BY DEF vars
<1> QED BY <1>1, <1>2, <1>3, RequestCases DEF Next

-----------------------------------------------------------------------------
(* Type correctness *)

\* The row and the "start" entry that the two halves of "start" write.
LEMMA StartTypes ==
  ASSUME TypeOK, NEW s \in Session,
         NEW u \in User, NEW c \in Call, NEW d \in Device
  PROVE  /\ StartLock(s, u, c, d) => start'[s] \in StartRow
         /\ \A t \in Time : NewRow(s, u, d, t) \in Row
<1>1. SessionUser[s] \in User  BY SessionAssumption
<1>2. now \in Time /\ 0 \in Time  BY DEF TypeOK, Time
<1>3. ASSUME StartLock(s, u, c, d)  PROVE start'[s] \in StartRow
  <2> DEFINE peers == {SessionUser[s], u}
             old == {seat[v] : v \in peers} \ {None}
  <2>1. peers \in SUBSET User  BY <1>1
  <2>2. old \in SUBSET Call  BY <2>1 DEF TypeOK
  <2>3. start'[s] = [peers |-> peers, callee |-> u, id |-> c, device |-> d, at |-> now,
                     previous |-> old]
    BY <1>3 DEF StartLock, TypeOK
  <2> HIDE DEF peers, old
  <2> QED BY <2>1, <2>2, <2>3, <1>2 DEF StartRow
<1>4. ASSUME NEW t \in Time  PROVE NewRow(s, u, d, t) \in Row
  BY <1>1 DEF NewRow, Row, LiveStatus
<1> QED BY <1>3, <1>4

\* The initial state is well typed.
LEMMA TypeInit == Init => TypeOK
<1> SUFFICES ASSUME Init PROVE TypeOK
  OBVIOUS
<1>1. NoRow \in Row  BY DEF NoRow, Row, Time
<1> QED BY <1>1 DEF Init, TypeOK, Time

\* The rows, seats and open "start" transactions keep their types ...
LEMMA TypeOfCalls ==
  ASSUME TypeOK, [Next]_vars
  PROVE  /\ call' \in [Call -> Row]
         /\ seat' \in [User -> Call \cup {None}]
         /\ start' \in [Session -> StartRow \cup {None}]
<1> USE DEF TypeOK
<1>1. CASE SaveStep /\ UNCHANGED start
  BY <1>1 DEF SaveStep, Save
<1>2. CASE CleanStep
  BY <1>2 DEF CleanStep
<1>3. CASE \E s \in Session, u \in User, c \in Call, d \in Device : StartLock(s, u, c, d)
  <2>1. PICK s \in Session, u \in User, c \in Call, d \in Device : StartLock(s, u, c, d)
    BY <1>3
  <2>2. start'[s] \in StartRow  BY <2>1, StartTypes
  <2> QED BY <2>1, <2>2 DEF StartLock
<1>4. CASE \E s \in Session : StartCommit(s)
  <2>1. PICK s \in Session : StartCommit(s)  BY <1>4
  <2> DEFINE p == start[s]
  <2>2. p \in StartRow  BY <2>1 DEF StartCommit
  <2>3. p.at \in Time /\ p.callee \in User /\ p.device \in Device /\ p.id \in Call
    BY <2>2 DEF StartRow
  <2>4. NewRow(s, p.callee, p.device, p.at) \in Row  BY <2>3, StartTypes
  <2>5. \A c \in Call : Expired(c, p.at) \in Row  BY <2>3, ExpiredEvolves
  <2>6. call' \in [Call -> Row]  BY <2>1, <2>4, <2>5 DEF StartCommit
  <2>7. seat' \in [User -> Call \cup {None}]
    BY <2>1, <2>3 DEF StartCommit, SeatsAfter
  <2> QED BY <2>1, <2>6, <2>7 DEF StartCommit
<1>5. CASE \E s \in Session : StartAbort(s)
  BY <1>5 DEF StartAbort
<1>6. CASE UNCHANGED <<call, seat, start>>
  BY <1>6
<1> QED BY <1>1, <1>2, <1>3, <1>4, <1>5, <1>6, NextCases

\* ... and so does the rest.
LEMMA TypeOfRest ==
  ASSUME TypeOK, [Next]_vars
  PROVE  /\ pass' \in [Worker -> PassRow \cup {None}]
         /\ token' \in SUBSET Token
         /\ room' \in [Call -> SUBSET User]
         /\ auth' \in [Session -> {"valid", "draining", "gone"}]
         /\ disabled' \in SUBSET User
         /\ now' \in Time
<1> USE DEF TypeOK
<1>0. SessionUser \in [Session -> User]  BY SessionAssumption
<1>1. ASSUME NEW s \in Session, Authenticated(s)
      PROVE  auth' \in [Session -> {"valid", "draining", "gone"}]
  BY <1>1 DEF Authenticated
<1>2. ASSUME NEW s \in Session, Request(s)
      PROVE  /\ token' \in SUBSET Token
             /\ auth' \in [Session -> {"valid", "draining", "gone"}]
             /\ UNCHANGED <<pass, room, disabled, now>>
  <2>1. CASE \E c \in Call, d \in Device : IssueToken(s, c, d)
    <3>1. PICK c \in Call, d \in Device : IssueToken(s, c, d)  BY <2>1
    <3>2. [call |-> c, user |-> SessionUser[s], session |-> s, device |-> d, issued |-> now]
            \in Token
      BY <1>0 DEF Token
    <3> QED BY <1>1, <3>1, <3>2 DEF IssueToken
  <2>2. CASE \E u \in User, c \in Call, d \in Device : StartLock(s, u, c, d)
    BY <1>1, <2>2 DEF StartLock
  <2>3. CASE StartCommit(s) \/ StartAbort(s)
    BY <2>3 DEF StartCommit, StartAbort
  <2>4. CASE \E c \in Call, d \in Device : Accept(s, c, d) \/ Heartbeat(s, c, d)
    BY <1>1, <2>4 DEF Accept, Heartbeat
  <2>5. CASE \E c \in Call : Decline(s, c) \/ End(s, c)
    BY <1>1, <2>5 DEF Decline, End
  <2>6. CASE Inbox(s)
    BY <1>1, <2>6 DEF Inbox
  <2> QED BY <1>2, <2>1, <2>2, <2>3, <2>4, <2>5, <2>6 DEF Request
<1>3. ASSUME NEW w \in Worker, Maintenance(w)
      PROVE  /\ pass' \in [Worker -> PassRow \cup {None}]
             /\ room' \in [Call -> SUBSET User]
             /\ UNCHANGED <<token, auth, disabled, now>>
  <2>1. CASE PassBegin(w)
    <3>1. [at |-> now, phase |-> "calls", due |-> {}, closed |-> {}, failed |-> {}] \in PassRow
      BY DEF PassRow
    <3> QED BY <2>1, <3>1 DEF PassBegin
  <2>2. CASE SweepRooms(w)
    <3> DEFINE chosen == {c \in Call : Uncleaned(c, pass[w].at) /\ ~Closing(c)}
    <3>1. pass[w].at \in Time  BY <2>2 DEF SweepRooms, PassRow
    <3>2. pass' = [pass EXCEPT ![w] = [at |-> pass[w].at, phase |-> "rooms", due |-> chosen,
                                       closed |-> {}, failed |-> {}]]
      BY <2>2 DEF SweepRooms
    <3>3. chosen \in SUBSET Call  OBVIOUS
    <3> HIDE DEF chosen
    <3>4. [at |-> pass[w].at, phase |-> "rooms", due |-> chosen, closed |-> {}, failed |-> {}]
            \in PassRow
      BY <3>1, <3>3 DEF PassRow
    <3> QED BY <2>2, <3>2, <3>4 DEF SweepRooms
  <2>3. CASE \E c \in Call : RoomDeleted(w, c) \/ RoomNotDeleted(w, c)
    <3>1. PICK c \in Call : RoomDeleted(w, c) \/ RoomNotDeleted(w, c)  BY <2>3
    <3>2. pass[w] \in PassRow  BY <3>1 DEF RoomDeleted, RoomNotDeleted
    <3>3. /\ [pass[w] EXCEPT !.closed = @ \cup {c}] \in PassRow
          /\ [pass[w] EXCEPT !.failed = @ \cup {c}] \in PassRow
      BY <3>2 DEF PassRow
    <3> QED BY <3>1, <3>3 DEF RoomDeleted, RoomNotDeleted
  <2>4. CASE CommitRooms(w) \/ PassCut(w)
    BY <2>4 DEF CommitRooms, PassCut
  <2>5. CASE \E c \in Call : SweepCall(w, c)
    BY <2>5 DEF SweepCall
  <2> QED BY <1>3, <2>1, <2>2, <2>3, <2>4, <2>5 DEF Maintenance
<1>4. CASE Surroundings
  <2>1. CASE \E k \in token : Join(k)
    BY <2>1 DEF Join, Token
  <2>2. CASE \E c \in Call, u \in User : Leave(c, u)
    BY <2>2 DEF Leave
  <2>3. CASE \E s \in Session : Revoke(s)
    BY <2>3 DEF Revoke
  <2>4. CASE \E u \in User : Disable(u)
    BY <2>4 DEF Disable
  <2>5. CASE Tick
    BY <2>5 DEF Tick, Time
  <2> QED BY <1>4, <2>1, <2>2, <2>3, <2>4, <2>5 DEF Surroundings
<1>5. CASE UNCHANGED vars
  BY <1>5 DEF vars
<1> QED BY <1>2, <1>3, <1>4, <1>5 DEF Next

\* Every variable of calling keeps its type, whatever handlers, passes and clock do.
THEOREM TypeCorrect == Spec => []TypeOK
<1>1. TypeOK /\ [Next]_vars => TypeOK'
  BY TypeOfCalls, TypeOfRest DEF TypeOK
<1> QED BY TypeInit, <1>1, PTL DEF Spec

-----------------------------------------------------------------------------
(* The inductive invariant *)

\* What AnsweredOnlyWhenActive says of one row.
RowOK(r) ==
  /\ r.answered # None <=> r.status \in {"active", "ended"}
  /\ r.ended # None <=> r.status \in OverStatus
  /\ r.cleanup # None => r.status = "ended"

\* The rooms a pass has chosen stay due while it works, and no other pass has chosen them.
DueUncleaned ==
  \A w \in Worker : pass[w] # None =>
    /\ \A c \in pass[w].due : call[c].cleanup # None
    /\ \A v \in Worker \ {w} : pass[v] # None => pass[v].due \cap pass[w].due = {}

Inv ==
  /\ TypeOK
  /\ PartiesKnown
  /\ StartForPeers
  /\ SeatsMatchLiveCalls
  /\ StartKnowsSeats
  /\ AnsweredOnlyWhenActive
  /\ DueUncleaned

-----------------------------------------------------------------------------
(* How one row evolves *)

\* A row that evolves keeps its two people and its shape, never comes to life, and changes only
\* while it is live.
LEMMA EvolvesFacts ==
  ASSUME NEW old \in Row, NEW new, NEW t \in Time, Evolves(old, new, t), RowOK(old)
  PROVE  /\ new \in Row /\ RowOK(new)
         /\ new.caller = old.caller /\ new.callee = old.callee
         /\ Live(new) => Live(old)
         /\ ~Live(old) => new = old
         /\ new.status = "none" <=> old.status = "none"
<1>0. t # None /\ t \in Time  BY NoneAssumption DEF Time
<1>1. CASE new = old  BY <1>1
<1>2. CASE HungUp(old, new, t)
  <2>1. PICK st \in OverStatus : (st = "ended" <=> old.status = "active") /\ new = Finish(old, st, t)
    BY <1>2 DEF HungUp
  <2>2. Live(old)  BY <1>2 DEF HungUp
  <2>3. /\ new \in Row /\ new.status = st /\ new.ended = t /\ new.answered = old.answered
        /\ new.cleanup = IF old.answered = None THEN None ELSE t
        /\ new.caller = old.caller /\ new.callee = old.callee
    BY <2>1, FinishFacts
  <2>4. old.answered # None <=> st = "ended"
    BY <2>1, <2>2 DEF RowOK, Live, LiveStatus
  <2>5. RowOK(new)
    BY <1>0, <2>3, <2>4 DEF RowOK, OverStatus
  <2> QED BY <2>2, <2>3, <2>5 DEF Live, LiveStatus, OverStatus
<1>3. CASE \E s \in Session, d \in Device :
             SessionUser[s] = old.callee /\ Answered(old, new, s, d, t)
  <2>1. PICK s \in Session, d \in Device : Answered(old, new, s, d, t)  BY <1>3
  <2>2. old.status = "ringing"  BY <2>1 DEF Answered
  <2>3. /\ new \in Row /\ new.status = "active" /\ new.answered = t
        /\ new.ended = old.ended /\ new.cleanup = old.cleanup
        /\ new.caller = old.caller /\ new.callee = old.callee
    BY <2>1, AnsweredFacts
  <2> QED BY <1>0, <2>2, <2>3 DEF RowOK, Live, LiveStatus, OverStatus
<1>4. CASE Renewed(old, new, t)
  <2>1. old.status = "active"  BY <1>4 DEF Renewed
  <2> QED BY <1>4, <2>1, RenewedFacts DEF RowOK, Live, LiveStatus
<1> QED BY <1>1, <1>2, <1>3, <1>4 DEF Evolves

\* The row of a new call is live, between the caller and the callee.
LEMMA NewRowFacts ==
  ASSUME NEW s \in Session, NEW u, NEW d, NEW t
  PROVE  /\ NewRow(s, u, d, t).status = "ringing"
         /\ Live(NewRow(s, u, d, t)) /\ RowOK(NewRow(s, u, d, t))
         /\ NewRow(s, u, d, t).caller = SessionUser[s] /\ NewRow(s, u, d, t).callee = u
         /\ NewRow(s, u, d, t).answered = None
BY DEF NewRow, Live, LiveStatus, RowOK, OverStatus

\* The invariant on rows, row by row.
LEMMA RowsOK == AnsweredOnlyWhenActive <=> \A c \in Call : RowOK(call[c])
BY DEF AnsweredOnlyWhenActive, RowOK

\* ... and after a step.
LEMMA RowsOKNext == AnsweredOnlyWhenActive' <=> \A c \in Call : RowOK(call'[c])
BY DEF AnsweredOnlyWhenActive, RowOK

-----------------------------------------------------------------------------
(* Rows: people and shape *)

\* What a handler or a sweep saves leaves the two people of the call and the shape of its row.
LEMMA SavedRows ==
  ASSUME Inv, SaveStep
  PROVE  PartiesKnown' /\ AnsweredOnlyWhenActive'
<1>1. PICK c \in Call, t \in Time, new \in Row : Evolves(call[c], new, t) /\ Save(c, new)
  BY DEF SaveStep
<1>2. call[c] \in Row /\ RowOK(call[c])  BY RowsOK DEF Inv, TypeOK
<1>3. call' = [call EXCEPT ![c] = new]  BY <1>1 DEF Save
<1>4. /\ RowOK(new)
      /\ new.caller = call[c].caller /\ new.callee = call[c].callee
      /\ new.status = "none" <=> call[c].status = "none"
  BY <1>1, <1>2, EvolvesFacts
<1>5. PartiesKnown'  BY <1>3, <1>4 DEF Inv, PartiesKnown, TypeOK
<1>6. \A b \in Call : RowOK(call'[b])  BY <1>3, <1>4, RowsOK DEF Inv, TypeOK
<1> QED BY <1>5, <1>6, RowsOKNext

\* So does the end of a pass: the calls whose cleanup it moves have ended.
LEMMA CleanedRows ==
  ASSUME Inv, CleanStep
  PROVE  PartiesKnown' /\ AnsweredOnlyWhenActive'
<1>1. PICK w \in Worker :
        /\ CommitRooms(w)
        /\ \A c \in Call :
             /\ \E t \in Time \cup {None} : call'[c] = [call[c] EXCEPT !.cleanup = t]
             /\ c \notin pass[w].due => call'[c] = call[c]
  BY DEF CleanStep
<1>2. ASSUME NEW c \in Call
      PROVE  /\ RowOK(call'[c])
             /\ call'[c].caller = call[c].caller /\ call'[c].callee = call[c].callee
             /\ call'[c].status = call[c].status
  <2>1. call[c] \in Row /\ RowOK(call[c])  BY RowsOK DEF Inv, TypeOK
  <2>2. CASE c \in pass[w].due
    <3>1. call[c].cleanup # None  BY <1>1, <2>2 DEF Inv, DueUncleaned, CommitRooms
    <3>2. call[c].status = "ended"  BY <2>1, <3>1 DEF RowOK
    <3>3. PICK t \in Time \cup {None} : call'[c] = [call[c] EXCEPT !.cleanup = t]  BY <1>1
    <3>4. /\ call'[c].answered = call[c].answered /\ call'[c].ended = call[c].ended
          /\ call'[c].caller = call[c].caller /\ call'[c].callee = call[c].callee
          /\ call'[c].status = call[c].status
      BY <2>1, <3>3 DEF Row
    <3> QED BY <2>1, <3>2, <3>4 DEF RowOK
  <2>3. CASE c \notin pass[w].due
    BY <1>1, <2>1, <2>3
  <2> QED BY <2>2, <2>3
<1>3. PartiesKnown'  BY <1>2 DEF Inv, PartiesKnown
<1> QED BY <1>2, <1>3, RowsOKNext

\* What the second half of "start" writes: the new call, and the earlier ones, which are over.
LEMMA StartedRows ==
  ASSUME Inv, NEW s \in Session, StartCommit(s)
  PROVE  LET p == start[s] IN
         /\ p.id \in Call /\ call[p.id].status = "none"
         /\ p.peers = {SessionUser[s], p.callee} /\ SessionUser[s] # p.callee
         /\ p.peers \subseteq User
         /\ call'[p.id] = NewRow(s, p.callee, p.device, p.at)
         /\ \A c \in p.previous \ {p.id} :
              /\ c \in Call /\ ~Live(call'[c]) /\ RowOK(call'[c])
              /\ call'[c].caller = call[c].caller /\ call'[c].callee = call[c].callee
              /\ call'[c].status = "none" <=> call[c].status = "none"
              /\ call'[c] = call[c] \/ HungUp(call[c], call'[c], p.at)
         /\ \A c \in Call \ (p.previous \cup {p.id}) : call'[c] = call[c]
<1> DEFINE p == start[s]
<1>1. p \in StartRow  BY DEF Inv, TypeOK, StartCommit
<1>2. /\ p.id \in Call /\ p.at \in Time /\ p.previous \subseteq Call /\ p.peers \subseteq User
  BY <1>1 DEF StartRow
<1>3. /\ MayReplace(p) /\ call[p.id].status = "none"
      /\ call' = [c \in Call |-> IF c = p.id THEN NewRow(s, p.callee, p.device, p.at)
                                 ELSE IF c \in p.previous THEN Expired(c, p.at) ELSE call[c]]
  BY DEF StartCommit
<1>4. p.peers = {SessionUser[s], p.callee} /\ SessionUser[s] # p.callee
  BY DEF Inv, StartForPeers, StartCommit
<1>5. ASSUME NEW c \in p.previous \ {p.id}
      PROVE  /\ c \in Call /\ ~Live(call'[c]) /\ RowOK(call'[c])
             /\ call'[c].caller = call[c].caller /\ call'[c].callee = call[c].callee
             /\ call'[c].status = "none" <=> call[c].status = "none"
             /\ call'[c] = call[c] \/ HungUp(call[c], call'[c], p.at)
  <2>1. c \in Call /\ call'[c] = Expired(c, p.at)  BY <1>2, <1>3, <1>5
  <2>2. ~Live(call'[c])  BY <1>3, <2>1 DEF MayReplace
  <2>3. call[c] \in Row /\ RowOK(call[c])  BY <2>1, RowsOK DEF Inv, TypeOK
  <2>4. /\ Evolves(call[c], call'[c], p.at)
        /\ call'[c] = call[c] \/ HungUp(call[c], call'[c], p.at)
    BY <1>2, <2>1, ExpiredEvolves DEF Inv
  <2> QED BY <1>2, <2>1, <2>2, <2>3, <2>4, EvolvesFacts
<1>6. \A c \in Call \ (p.previous \cup {p.id}) : call'[c] = call[c]  BY <1>3
<1>7. call'[p.id] = NewRow(s, p.callee, p.device, p.at)  BY <1>2, <1>3
<1> HIDE DEF p
<1>8. /\ p.id \in Call /\ call[p.id].status = "none"
      /\ p.peers = {SessionUser[s], p.callee} /\ SessionUser[s] # p.callee
      /\ p.peers \subseteq User
  BY <1>2, <1>3, <1>4
<1>9. QED BY <1>5, <1>6, <1>7, <1>8 DEF p

\* The rows after the second half of "start" are well-formed.
LEMMA StartedRowsOK ==
  ASSUME Inv, NEW s \in Session, StartCommit(s)
  PROVE  PartiesKnown' /\ AnsweredOnlyWhenActive'
<1> DEFINE p == start[s]
<1>1. ASSUME NEW c \in Call
      PROVE  /\ RowOK(call'[c])
             /\ IF call'[c].status = "none"
                THEN call'[c].caller = None /\ call'[c].callee = None
                ELSE /\ call'[c].caller \in User /\ call'[c].callee \in User
                     /\ call'[c].caller # call'[c].callee
  <2>1. CASE c = p.id
    BY <2>1, StartedRows, NewRowFacts
  <2>2. CASE c \in p.previous \ {p.id}
    BY <2>2, StartedRows DEF Inv, PartiesKnown
  <2>3. CASE c \notin p.previous \cup {p.id}
    <3>1. call'[c] = call[c]  BY <2>3, StartedRows
    <3> QED BY <3>1, RowsOK DEF Inv, PartiesKnown
  <2> QED BY <2>1, <2>2, <2>3
<1>2. PartiesKnown'  BY <1>1 DEF PartiesKnown
<1> QED BY <1>1, <1>2, RowsOKNext

-----------------------------------------------------------------------------
(* Seats *)

\* Saving one row keeps the seats exact: they go exactly when the call stops being live.
LEMMA SavedSeats ==
  ASSUME Inv, SaveStep, UNCHANGED start
  PROVE  SeatsMatchLiveCalls' /\ StartKnowsSeats'
<1>1. PICK c \in Call, t \in Time, new \in Row : Evolves(call[c], new, t) /\ Save(c, new)
  BY DEF SaveStep
<1>2. call[c] \in Row /\ RowOK(call[c])  BY RowsOK DEF Inv, TypeOK
<1>3. /\ Parties(new) = Parties(call[c])
      /\ Live(new) => Live(call[c])
  BY <1>1, <1>2, EvolvesFacts DEF Parties
<1>4. /\ call'[c] = new
      /\ \A b \in Call \ {c} : call'[b] = call[b]
  BY <1>1 DEF Save, Inv, TypeOK
<1>5. \A u \in User :
        seat'[u] = IF Live(call[c]) /\ ~Live(new) /\ seat[u] = c THEN None ELSE seat[u]
  BY <1>1 DEF Save, Inv, TypeOK
<1>6. None \notin Call  BY NoneAssumption
<1>7. ASSUME NEW b \in Call, NEW u \in User
      PROVE  seat'[u] = b <=> Live(call'[b]) /\ u \in Parties(call'[b])
  <2>1. seat[u] = b <=> Live(call[b]) /\ u \in Parties(call[b])
    BY DEF Inv, SeatsMatchLiveCalls
  <2>2. CASE b = c
    BY <1>3, <1>4, <1>5, <1>6, <2>1, <2>2
  <2>3. CASE b # c
    BY <1>4, <1>5, <1>6, <2>1, <2>3
  <2> QED BY <2>2, <2>3
<1>8. SeatsMatchLiveCalls'  BY <1>7 DEF SeatsMatchLiveCalls
<1>9. StartKnowsSeats'
  <2>1. \A s \in Session : start[s] # None => start[s].peers \subseteq User
    BY DEF Inv, TypeOK, StartRow
  <2> QED BY <1>5, <2>1 DEF Inv, StartKnowsSeats
<1> QED BY <1>8, <1>9

\* Moving cleanup times touches neither seats nor who is live.
LEMMA CleanedSeats ==
  ASSUME Inv, CleanStep
  PROVE  SeatsMatchLiveCalls' /\ StartKnowsSeats'
<1>1. ASSUME NEW c \in Call
      PROVE  Live(call'[c]) = Live(call[c]) /\ Parties(call'[c]) = Parties(call[c])
  <2>1. PICK t \in Time \cup {None} : call'[c] = [call[c] EXCEPT !.cleanup = t]
    BY DEF CleanStep
  <2> QED BY <2>1 DEF Inv, TypeOK, Row, Live, Parties
<1>2. UNCHANGED <<seat, start>>  BY DEF CleanStep
<1> QED BY <1>1, <1>2 DEF Inv, SeatsMatchLiveCalls, StartKnowsSeats

\* The first half of "start" notes all seats of the people it locks, and locks nobody twice.
LEMMA LockedSeats ==
  ASSUME Inv, NEW s \in Session, NEW u \in User, NEW c \in Call, NEW d \in Device,
         StartLock(s, u, c, d)
  PROVE  StartForPeers' /\ SeatsMatchLiveCalls' /\ StartKnowsSeats'
<1> DEFINE peers == {SessionUser[s], u}
<1>1. /\ UNCHANGED <<call, seat>>
      /\ \A r \in Session \ {s} : start'[r] = start[r]
      /\ start'[s].peers = peers /\ start'[s].callee = u
      /\ start'[s].previous = {seat[v] : v \in peers} \ {None}
  <2>1. start'[s] = [peers |-> peers, callee |-> u, id |-> c, device |-> d, at |-> now,
                     previous |-> {seat[v] : v \in peers} \ {None}]
    BY DEF StartLock, Inv, TypeOK
  <2> QED BY <2>1 DEF StartLock, Inv, TypeOK
<1>2. StartForPeers'
  BY <1>1 DEF StartForPeers, Inv, StartLock
<1>3. SeatsMatchLiveCalls'  BY <1>1 DEF SeatsMatchLiveCalls, Inv
<1>4. \A r \in Session : start[r] # None => start[r].peers \cap peers = {}
  BY DEF StartLock, LockFree, Locked
<1>5. StartKnowsSeats'
  BY <1>1, <1>4 DEF StartKnowsSeats, Inv
<1> QED BY <1>2, <1>3, <1>5

\* The second half of "start": who is in the new call was in none, or in one given up now.
LEMMA StartedSeats ==
  ASSUME Inv, NEW s \in Session, StartCommit(s)
  PROVE  StartForPeers' /\ SeatsMatchLiveCalls' /\ StartKnowsSeats'
<1> DEFINE p == start[s]
<1>1. /\ p # None
      /\ start' = [start EXCEPT ![s] = None]
      /\ \A u \in p.peers : seat[u] = None \/ u \in Freed(p)
      /\ seat' = SeatsAfter(p)
  BY DEF StartCommit
<1>2. \A u \in User : seat'[u] = IF u \in p.peers THEN p.id
                                 ELSE IF seat[u] \in p.previous THEN None ELSE seat[u]
  BY <1>1 DEF SeatsAfter, Freed
<1>3. \A u \in p.peers : u \in User /\ (seat[u] = None \/ seat[u] \in p.previous)
  BY <1>1, StartedRows DEF Freed
<1>4. None \notin Call  BY NoneAssumption
<1>5. ASSUME NEW b \in Call, NEW u \in User
      PROVE  seat'[u] = b <=> Live(call'[b]) /\ u \in Parties(call'[b])
  <2>1. seat[u] = b <=> Live(call[b]) /\ u \in Parties(call[b])
    BY DEF Inv, SeatsMatchLiveCalls
  <2>2. CASE b = p.id
    <3>1. seat[u] # b  BY <2>1, <2>2, StartedRows DEF Live, LiveStatus
    <3>2. Live(call'[b]) /\ Parties(call'[b]) = p.peers
      BY <2>2, StartedRows, NewRowFacts DEF Parties
    <3> QED BY <1>2, <1>4, <2>2, <3>1, <3>2
  <2>3. CASE b \in p.previous \ {p.id}
    <3>1. ~Live(call'[b])  BY <2>3, StartedRows
    <3> QED BY <1>2, <1>4, <2>3, <3>1
  <2>4. CASE b \notin p.previous \cup {p.id}
    <3>1. call'[b] = call[b]  BY <2>4, StartedRows
    <3> QED BY <1>2, <1>3, <1>4, <2>1, <2>4, <3>1
  <2> QED BY <2>2, <2>3, <2>4
<1>6. SeatsMatchLiveCalls'  BY <1>5 DEF SeatsMatchLiveCalls
<1>7. StartForPeers'  BY <1>1 DEF Inv, StartForPeers, TypeOK
<1>8. StartKnowsSeats'
  <2>1. \A r \in Session : start'[r] # None => r # s /\ start'[r] = start[r]
    BY <1>1 DEF Inv, TypeOK
  <2>2. ASSUME NEW r \in Session, start'[r] # None
        PROVE  /\ \A u \in start[r].peers : seat'[u] = None \/ seat'[u] \in start[r].previous
               /\ \A q \in Session \ {r} :
                    start'[q] # None => start[q].peers \cap start[r].peers = {}
    <3>1. /\ start[r] # None /\ r # s
          /\ start[r].peers \cap p.peers = {}
          /\ start[r].peers \subseteq User
          /\ \A u \in start[r].peers : seat[u] = None \/ seat[u] \in start[r].previous
      BY <1>1, <2>1, <2>2 DEF Inv, StartKnowsSeats, TypeOK, StartRow
    <3>2. \A q \in Session \ {r} : start'[q] # None => start[q].peers \cap start[r].peers = {}
      BY <2>1, <2>2 DEF Inv, StartKnowsSeats
    <3> HIDE DEF p
    <3> QED BY <1>2, <3>1, <3>2
  <2> QED BY <2>1, <2>2 DEF StartKnowsSeats
<1> QED BY <1>6, <1>7, <1>8

-----------------------------------------------------------------------------
(* Room cleanup *)

\* The calls a pass has chosen are over, so nobody else moves their cleanup.
LEMMA DueStays ==
  ASSUME Inv, [Next]_vars
  PROVE  DueUncleaned'
<1> DEFINE Kept == \A c \in Call : call[c].cleanup # None => call'[c] = call[c]
           Fewer == \A w \in Worker : pass'[w] # None =>
                      pass[w] # None /\ pass'[w].due = pass[w].due
<1>1. Kept /\ Fewer => DueUncleaned'
  <2>1. \A w \in Worker : pass[w] # None => pass[w].due \subseteq Call
    BY DEF Inv, TypeOK, PassRow
  <2> QED BY <2>1 DEF Inv, DueUncleaned
<1>2. SaveStep => Kept
  <2> SUFFICES ASSUME SaveStep PROVE Kept
    OBVIOUS
  <2>1. PICK c \in Call, t \in Time, new \in Row : Evolves(call[c], new, t) /\ Save(c, new)
    BY DEF SaveStep
  <2>2. call[c] \in Row /\ RowOK(call[c])  BY RowsOK DEF Inv, TypeOK
  <2>3. call[c].cleanup # None => new = call[c]
    BY <2>1, <2>2, EvolvesFacts DEF RowOK, Live, LiveStatus
  <2>4. call' = [call EXCEPT ![c] = new]  BY <2>1 DEF Save
  <2> QED BY <2>3, <2>4 DEF Inv, TypeOK
<1>3. ASSUME NEW s \in Session, StartCommit(s)
      PROVE  Kept
  <2> SUFFICES ASSUME NEW c \in Call, call[c].cleanup # None PROVE call'[c] = call[c]
    OBVIOUS
  <2>1. call[c].status = "ended"  BY RowsOK DEF Inv, RowOK
  <2>2. c # start[s].id  BY <1>3, <2>1, StartedRows
  <2>3. CASE c \in start[s].previous
    BY <1>3, <2>1, <2>2, <2>3, StartedRows DEF HungUp, Live, LiveStatus
  <2>4. CASE c \notin start[s].previous
    BY <1>3, <2>2, <2>4, StartedRows
  <2> QED BY <2>3, <2>4
<1>4. ASSUME NEW s \in Session, Request(s)
      PROVE  Kept /\ UNCHANGED pass
  <2>1. UNCHANGED pass
    BY <1>4 DEF Request, StartLock, StartCommit, StartAbort, Accept, Decline, End, Heartbeat,
                IssueToken, Inbox
  <2>2. CASE StartCommit(s)
    BY <2>1, <2>2, <1>3
  <2>3. CASE StartAbort(s) \/ \E u \in User, c \in Call, d \in Device : StartLock(s, u, c, d)
    BY <2>1, <2>3 DEF StartAbort, StartLock
  <2>4. CASE SaveStep
    BY <2>1, <2>4, <1>2
  <2> QED BY <1>4, <2>2, <2>3, <2>4, RequestCases DEF Inv
<1>5. ASSUME NEW w \in Worker, Maintenance(w)
      PROVE  DueUncleaned'
  <2>1. CASE PassBegin(w)
    BY <2>1 DEF PassBegin, Inv, DueUncleaned, TypeOK
  <2>2. CASE \E c \in Call : SweepCall(w, c)
    <3>1. SaveStep /\ UNCHANGED pass  BY <2>2, SweepSaves DEF Inv
    <3> QED BY <3>1, <1>1, <1>2
  <2>3. CASE SweepRooms(w)
    <3>1. pass' = [pass EXCEPT ![w] = pass'[w]]  BY <2>3 DEF SweepRooms, Inv, TypeOK
    <3>2. pass'[w].due = {c \in Call : Uncleaned(c, pass[w].at) /\ ~Closing(c)}
      BY <2>3 DEF SweepRooms, Inv, TypeOK
    <3>3. UNCHANGED call  BY <2>3 DEF SweepRooms
    <3>4. \A c \in pass'[w].due : call[c].cleanup # None  BY <3>2 DEF Uncleaned
    <3>5. \A v \in Worker \ {w} : pass[v] # None => pass[v].due \cap pass'[w].due = {}
      BY <3>2 DEF Closing
    <3> QED BY <3>1, <3>3, <3>4, <3>5 DEF Inv, DueUncleaned, TypeOK
  <2>4. CASE \E c \in Call : RoomDeleted(w, c) \/ RoomNotDeleted(w, c)
    <3>1. PICK c \in Call : RoomDeleted(w, c) \/ RoomNotDeleted(w, c)  BY <2>4
    <3>2. pass[w] \in PassRow  BY <3>1 DEF RoomDeleted, RoomNotDeleted, Inv, TypeOK
    <3>3. /\ [pass[w] EXCEPT !.closed = @ \cup {c}].due = pass[w].due
          /\ [pass[w] EXCEPT !.failed = @ \cup {c}].due = pass[w].due
      BY <3>2 DEF PassRow
    <3>4. Kept /\ Fewer
      BY <3>1, <3>3 DEF RoomDeleted, RoomNotDeleted, Inv, TypeOK
    <3> QED BY <3>4, <1>1
  <2>5. CASE CommitRooms(w)
    <3>1. CleanStep  BY <2>5, CommitCleans DEF Inv
    <3>2. \A c \in Call \ pass[w].due : call'[c] = call[c]
      BY <2>5 DEF CommitRooms
    <3>3. \A v \in Worker : pass'[v] # None => v # w /\ pass'[v] = pass[v]
      BY <2>5 DEF CommitRooms, Inv, TypeOK
    <3>4. \A v \in Worker \ {w} : pass[v] # None =>
            pass[v].due \cap pass[w].due = {} /\ pass[v].due \subseteq Call
      BY <2>5 DEF CommitRooms, Inv, DueUncleaned, TypeOK, PassRow
    <3> QED BY <3>2, <3>3, <3>4 DEF Inv, DueUncleaned
  <2>6. CASE PassCut(w)
    <3>1. Kept /\ Fewer  BY <2>6 DEF PassCut, Inv, TypeOK
    <3> QED BY <3>1, <1>1
  <2> QED BY <1>5, <2>1, <2>2, <2>3, <2>4, <2>5, <2>6 DEF Maintenance
<1>6. CASE Surroundings \/ UNCHANGED vars
  <2>1. UNCHANGED <<call, pass>>
    BY <1>6 DEF Surroundings, Join, Leave, Revoke, Disable, Tick, vars
  <2> QED BY <2>1 DEF Inv, DueUncleaned
<1> QED BY <1>1, <1>4, <1>5, <1>6 DEF Next

-----------------------------------------------------------------------------
(* The theorems *)

\* Before the first request there is no call, no seat and no transaction.
LEMMA InvInit == Init => Inv
<1> SUFFICES ASSUME Init PROVE Inv
  OBVIOUS
<1>1. TypeOK  BY TypeInit
<1>2. \A c \in Call : call[c] = NoRow  BY DEF Init
<1>3. PartiesKnown  BY <1>2 DEF PartiesKnown, NoRow
<1>4. SeatsMatchLiveCalls
  BY <1>2, NoneAssumption DEF Init, SeatsMatchLiveCalls, NoRow, Live, LiveStatus
<1>5. AnsweredOnlyWhenActive  BY <1>2 DEF AnsweredOnlyWhenActive, NoRow, OverStatus
<1>6. StartForPeers /\ StartKnowsSeats /\ DueUncleaned
  BY DEF Init, StartForPeers, StartKnowsSeats, DueUncleaned
<1> QED BY <1>1, <1>3, <1>4, <1>5, <1>6 DEF Inv

\* Every step keeps the invariant.
LEMMA InvNext == Inv /\ [Next]_vars => Inv'
<1> SUFFICES ASSUME Inv, [Next]_vars PROVE Inv'
  OBVIOUS
<1>1. TypeOK'  BY TypeOfCalls, TypeOfRest DEF Inv, TypeOK
<1>2. DueUncleaned'  BY DueStays
<1>3. /\ PartiesKnown' /\ StartForPeers' /\ SeatsMatchLiveCalls' /\ StartKnowsSeats'
      /\ AnsweredOnlyWhenActive'
  <2>1. CASE SaveStep /\ UNCHANGED start
    BY <2>1, SavedRows, SavedSeats DEF Inv, StartForPeers
  <2>2. CASE CleanStep
    BY <2>2, CleanedRows, CleanedSeats DEF Inv, StartForPeers, CleanStep
  <2>3. CASE \E s \in Session, u \in User, c \in Call, d \in Device : StartLock(s, u, c, d)
    <3>1. UNCHANGED call  BY <2>3 DEF StartLock
    <3> QED BY <2>3, <3>1, LockedSeats DEF Inv, PartiesKnown, AnsweredOnlyWhenActive
  <2>4. CASE \E s \in Session : StartCommit(s)
    BY <2>4, StartedRowsOK, StartedSeats
  <2>5. CASE \E s \in Session : StartAbort(s)
    BY <2>5 DEF StartAbort, Inv, TypeOK, PartiesKnown, StartForPeers, SeatsMatchLiveCalls,
                StartKnowsSeats, AnsweredOnlyWhenActive
  <2>6. CASE UNCHANGED <<call, seat, start>>
    BY <2>6 DEF Inv, PartiesKnown, StartForPeers, SeatsMatchLiveCalls, StartKnowsSeats,
                AnsweredOnlyWhenActive
  <2> QED BY <2>1, <2>2, <2>3, <2>4, <2>5, <2>6, NextCases DEF Inv
<1> QED BY <1>1, <1>2, <1>3 DEF Inv

\* The inductive invariant holds in every reachable state of every instance.
THEOREM Invariance == Spec => []Inv
BY InvInit, InvNext, PTL DEF Spec

\* The seats are exactly the participants of the live calls (service.py: start, finish).
THEOREM SeatsRight == Spec => []SeatsMatchLiveCalls
<1>1. Inv => SeatsMatchLiveCalls  BY DEF Inv
<1> QED BY <1>1, Invariance, PTL

\* What "start" reads under the user locks is complete until it commits.
THEOREM StartRight == Spec => []StartKnowsSeats
<1>1. Inv => StartKnowsSeats  BY DEF Inv
<1> QED BY <1>1, Invariance, PTL

\* Answer, end and cleanup of a row agree with its status.
THEOREM RowsRight == Spec => []AnsweredOnlyWhenActive
<1>1. Inv => AnsweredOnlyWhenActive  BY DEF Inv
<1> QED BY <1>1, Invariance, PTL

-----------------------------------------------------------------------------
(* A call that is over is over for good *)

\* What OverIsFinal says of one step.
OverStays ==
  \A c \in Call : call[c].status \in OverStatus =>
    /\ call'[c] = [call[c] EXCEPT !.cleanup = call'[c].cleanup]
    /\ call[c].cleanup = None => call'[c].cleanup = None

\* Rows of calls that are over are written by the end of a pass only.
LEMMA OverStep ==
  ASSUME Inv, [Next]_vars
  PROVE  OverStays
<1> SUFFICES ASSUME NEW c \in Call, call[c].status \in OverStatus
             PROVE  /\ call'[c] = [call[c] EXCEPT !.cleanup = call'[c].cleanup]
                    /\ call[c].cleanup = None => call'[c].cleanup = None
  BY DEF OverStays
<1>1. call[c] \in Row /\ ~Live(call[c]) /\ call[c].status # "none"
  BY DEF Inv, TypeOK, Live, LiveStatus, OverStatus
<1>2. SUFFICES \/ call'[c] = call[c]
               \/ /\ call[c].cleanup # None
                  /\ \E t \in Time \cup {None} : call'[c] = [call[c] EXCEPT !.cleanup = t]
  BY <1>1 DEF Row
<1>3. CASE SaveStep
  <2>1. PICK b \in Call, t \in Time, new \in Row : Evolves(call[b], new, t) /\ Save(b, new)
    BY <1>3 DEF SaveStep
  <2>2. call[b] \in Row /\ RowOK(call[b])  BY RowsOK DEF Inv, TypeOK
  <2>3. ~Live(call[b]) => new = call[b]  BY <2>1, <2>2, EvolvesFacts
  <2> QED BY <1>1, <2>1, <2>3 DEF Save, Inv, TypeOK
<1>4. CASE CleanStep
  <2>1. PICK w \in Worker :
          /\ CommitRooms(w)
          /\ \E t \in Time \cup {None} : call'[c] = [call[c] EXCEPT !.cleanup = t]
          /\ c \notin pass[w].due => call'[c] = call[c]
    BY <1>4 DEF CleanStep
  <2>2. c \in pass[w].due => call[c].cleanup # None
    BY <2>1 DEF Inv, DueUncleaned, CommitRooms
  <2> QED BY <2>1, <2>2
<1>5. CASE \E s \in Session : StartCommit(s)
  <2>1. PICK s \in Session : StartCommit(s)  BY <1>5
  <2>2. c # start[s].id  BY <1>1, <2>1, StartedRows
  <2>3. CASE c \in start[s].previous
    BY <1>1, <2>1, <2>2, <2>3, StartedRows DEF HungUp
  <2>4. CASE c \notin start[s].previous
    BY <2>1, <2>2, <2>4, StartedRows
  <2> QED BY <2>3, <2>4
<1>6. CASE UNCHANGED call
  BY <1>6
<1>7. \/ SaveStep \/ CleanStep \/ UNCHANGED call \/ \E s \in Session : StartCommit(s)
  BY NextCases DEF Inv, StartLock, StartAbort
<1> QED BY <1>3, <1>4, <1>5, <1>6, <1>7

\* A call that is over stays as it is, and its cleanup is not taken up again (service.py,
\* worker.py: nothing writes a row that is not live, except the cleanup).
THEOREM OverForGood == Spec => OverIsFinal
<1>1. Inv /\ [Next]_vars => OverStays  BY OverStep
<1>2. OverIsFinal <=> [][OverStays]_vars
  BY PTL DEF OverIsFinal, OverStays
<1> QED BY <1>1, <1>2, Invariance, PTL DEF Spec

-----------------------------------------------------------------------------
(* Calls implements ExclusiveCalls: one step is one step of the contract, or none *)

\* The contract's view of a row.
Phase(r) == IF r.status \in OverStatus THEN "over" ELSE r.status

Phases == [c \in Call |-> Phase(call[c])]
People == [c \in Call |-> Parties(call[c]) \ {None}]

\* A call is engaged, for the contract, when its row is live.
LEMMA EngagedIsLive ==
  ASSUME NEW r \in Row
  PROVE  /\ Phase(r) \in {"ringing", "active"} <=> Live(r)
         /\ Phase(r) = "none" <=> r.status = "none"
         /\ Live(r) => Phase(r) = r.status
BY DEF Phase, Row, Live, LiveStatus, OverStatus

\* Neither phases nor people change when the rows keep status and people.
LEMMA SameView ==
  ASSUME \A c \in Call : /\ call'[c].status = call[c].status
                         /\ call'[c].caller = call[c].caller
                         /\ call'[c].callee = call[c].callee
  PROVE  UNCHANGED <<Phases, People>>
BY DEF Phases, People, Phase, Parties

\* Saving a row answers the call, finishes it, or is no step of the contract.
LEMMA SavedView ==
  ASSUME Inv, SaveStep
  PROVE  \/ \E c \in Call : Contract!Answer(c) \/ Contract!Finish(c)
         \/ UNCHANGED <<Phases, People>>
<1>1. PICK c \in Call, t \in Time, new \in Row : Evolves(call[c], new, t) /\ Save(c, new)
  BY DEF SaveStep
<1> DEFINE old == call[c]
<1>2. old \in Row /\ RowOK(old)  BY RowsOK DEF Inv, TypeOK
<1>3. /\ call' = [call EXCEPT ![c] = new]
      /\ new.caller = old.caller /\ new.callee = old.callee
  BY <1>1, <1>2, EvolvesFacts DEF Save
<1>4. UNCHANGED People
  BY <1>3 DEF People, Parties, Inv, TypeOK
<1>5. Phases' = [Phases EXCEPT ![c] = Phase(new)] /\ Phases[c] = Phase(old)
  BY <1>3 DEF Phases, Inv, TypeOK
<1>6. CASE HungUp(old, new, t)
  <2>1. Phase(new) = "over" /\ Phase(old) \in {"ringing", "active"}
    BY <1>2, <1>6, HungUpIsOver, EngagedIsLive DEF Phase
  <2>2. Contract!Finish(c)
    BY <1>4, <1>5, <2>1 DEF Contract!Finish, Contract!Engaged, Phases, People, Phase
  <2> QED BY <2>2
<1>7. CASE \E s \in Session, d \in Device :
             SessionUser[s] = old.callee /\ Answered(old, new, s, d, t)
  <2>1. PICK s \in Session, d \in Device : Answered(old, new, s, d, t)  BY <1>7
  <2>2. old.status = "ringing" /\ new.status = "active"
    BY <1>2, <2>1, AnsweredFacts DEF Answered
  <2>3. Phase(old) = "ringing" /\ Phase(new) = "active"
    BY <2>2 DEF Phase, OverStatus
  <2>4. Contract!Answer(c)
    BY <1>4, <1>5, <2>3 DEF Contract!Answer, Phases, People, Phase
  <2> QED BY <2>4
<1>8. CASE new = old \/ Renewed(old, new, t)
  <2>1. new.status = old.status  BY <1>2, <1>8, RenewedFacts
  <2>2. Phase(new) = Phase(old)  BY <2>1 DEF Phase
  <2> QED BY <1>4, <1>5, <2>2 DEF Phases
<1> QED BY <1>1, <1>6, <1>7, <1>8 DEF Evolves

\* The contract's Place, in terms of the views.
LEMMA PlacedIsNext ==
  ASSUME NEW c \in Call, NEW u \in User, NEW v \in User, NEW stale \in SUBSET Call,
         Phases[c] = "none", u # v,
         \A b \in Call \ stale :
           Phases[b] \in {"ringing", "active"} => u \notin People[b] /\ v \notin People[b],
         \A b \in stale : Phases[b] \in {"ringing", "active"},
         Phases' = [b \in Call |-> IF b = c THEN "ringing"
                                   ELSE IF b \in stale THEN "over" ELSE Phases[b]],
         People' = [People EXCEPT ![c] = {u, v}]
  PROVE  Contract!Next
<1>1. Contract!Place(c, u, v, stale)
  BY DEF Contract!Place, Contract!Free, Contract!Engaged, Phases, People, Phase
<1> QED BY <1>1 DEF Contract!Next

\* The second half of "start" places the call, giving up the earlier calls that were still live.
LEMMA StartedView ==
  ASSUME Inv, NEW s \in Session, StartCommit(s)
  PROVE  Contract!Next
<1> DEFINE p == start[s]
           u == SessionUser[s]
           v == p.callee
           stale == {c \in Call : c \in p.previous /\ Live(call[c])}
<1>1. /\ p.id \in Call /\ call[p.id].status = "none"
      /\ p.peers = {u, v} /\ u # v /\ p.peers \subseteq User
      /\ call'[p.id] = NewRow(s, v, p.device, p.at)
      /\ \A c \in p.previous \ {p.id} :
           /\ c \in Call /\ ~Live(call'[c])
           /\ call'[c].caller = call[c].caller /\ call'[c].callee = call[c].callee
           /\ call'[c] = call[c] \/ HungUp(call[c], call'[c], p.at)
      /\ \A c \in Call \ (p.previous \cup {p.id}) : call'[c] = call[c]
  BY StartedRows
<1>2. p.at \in Time  BY DEF Inv, TypeOK, StartCommit, StartRow
<1>3. p.id \notin stale  BY <1>1 DEF Live, LiveStatus
<1>4. \A c \in Call : call[c] \in Row  BY DEF Inv, TypeOK
<1>5. ASSUME NEW c \in Call \ stale, Phases[c] \in {"ringing", "active"}
      PROVE  u \notin People[c] /\ v \notin People[c]
  <2>1. Live(call[c])  BY <1>4, <1>5, EngagedIsLive DEF Phases
  <2>2. c \notin p.previous  BY <2>1, <1>5
  <2>3. \A x \in p.peers : seat[x] = None \/ seat[x] \in p.previous
    BY <1>1 DEF StartCommit, Freed
  <2>4. \A x \in p.peers : seat[x] # c  BY <2>2, <2>3, NoneAssumption
  <2> QED BY <1>1, <2>1, <2>4 DEF Inv, SeatsMatchLiveCalls, People
<1>6. \A c \in stale : Phases[c] \in {"ringing", "active"}
  BY <1>4, EngagedIsLive DEF Phases
<1>7. Phases[p.id] = "none"  BY <1>1, <1>4, EngagedIsLive DEF Phases
<1>8. ASSUME NEW c \in Call
      PROVE  Phases'[c] = IF c = p.id THEN "ringing" ELSE IF c \in stale THEN "over" ELSE Phases[c]
  <2>0. Phases'[c] = Phase(call'[c]) /\ Phases[c] = Phase(call[c])  BY DEF Phases
  <2>1. CASE c = p.id
    BY <1>1, <2>0, <2>1, NewRowFacts DEF Phase, OverStatus
  <2>2. CASE c # p.id /\ c \in stale
    <3>1. HungUp(call[c], call'[c], p.at)  BY <1>1, <2>2
    <3> QED BY <1>2, <1>4, <2>0, <2>2, <3>1, HungUpIsOver DEF Phase
  <2>3. CASE c # p.id /\ c \notin stale
    <3>1. call'[c] = call[c]  BY <1>1, <2>3 DEF HungUp
    <3> QED BY <2>0, <2>3, <3>1
  <2> QED BY <2>1, <2>2, <2>3
<1>9. ASSUME NEW c \in Call
      PROVE  People'[c] = IF c = p.id THEN {u, v} ELSE People[c]
  <2>0. People'[c] = Parties(call'[c]) \ {None} /\ People[c] = Parties(call[c]) \ {None}
    BY DEF People
  <2>1. CASE c = p.id
    BY <1>1, <2>0, <2>1, NewRowFacts, NoneAssumption DEF Parties
  <2>2. CASE c # p.id
    <3>1. Parties(call'[c]) = Parties(call[c])  BY <1>1, <2>2 DEF Parties
    <3> QED BY <2>0, <2>2, <3>1
  <2> QED BY <2>1, <2>2
<1>10. Phases' = [b \in Call |-> IF b = p.id THEN "ringing"
                                 ELSE IF b \in stale THEN "over" ELSE Phases[b]]
  <2>1. Phases' = [b \in Call |-> Phases'[b]]  BY DEF Phases
  <2> HIDE DEF stale, p
  <2> QED BY <1>8, <2>1
<1>11. People' = [People EXCEPT ![p.id] = {u, v}]
  <2>1. People' = [b \in Call |-> People'[b]] /\ People = [b \in Call |-> People[b]]
    BY DEF People
  <2> HIDE DEF u, v, p
  <2> QED BY <1>1, <1>9, <2>1
<1>12. p.id \in Call /\ u \in User /\ v \in User /\ stale \in SUBSET Call  BY <1>1
<1> HIDE DEF p, u, v, stale
<1> QED BY <1>1, <1>5, <1>6, <1>7, <1>10, <1>11, <1>12, PlacedIsNext

\* One step of calling is a step of the contract or leaves it alone.
LEMMA StepView ==
  ASSUME Inv, [Next]_vars
  PROVE  [Contract!Next]_<<Phases, People>>
<1>1. CASE SaveStep
  BY <1>1, SavedView DEF Contract!Next
<1>2. CASE CleanStep
  <2>1. ASSUME NEW c \in Call
        PROVE  /\ call'[c].status = call[c].status
               /\ call'[c].caller = call[c].caller
               /\ call'[c].callee = call[c].callee
    <3>1. PICK t \in Time \cup {None} : call'[c] = [call[c] EXCEPT !.cleanup = t]
      BY <1>2 DEF CleanStep
    <3> QED BY <3>1 DEF Inv, TypeOK, Row
  <2> QED BY <2>1, SameView
<1>3. CASE \E s \in Session : StartCommit(s)
  BY <1>3, StartedView
<1>4. CASE UNCHANGED call
  BY <1>4, SameView
<1> QED BY <1>1, <1>2, <1>3, <1>4, NextCases DEF Inv, StartLock, StartAbort

\* Calling keeps its contract: a person is in at most one call that rings or is answered, and a
\* call that is over is over, whatever the interleaving of requests, sweeps and restarts.
THEOREM ContractKept == Spec => ImplementsContract
<1>1. Init => Contract!Init
  BY NoneAssumption DEF Init, Contract!Init, NoRow, OverStatus, Parties
<1>2. Inv /\ [Next]_vars => [Contract!Next]_(Contract!cvars)
  BY StepView DEF Contract!cvars, Phases, People, Phase
<1> QED BY <1>1, <1>2, Invariance, PTL DEF Spec, ImplementsContract, Contract!Spec

-----------------------------------------------------------------------------
(* Time readings, tokens and closed rooms *)

\* No transaction works with a reading that is older than Lag.
Readings ==
  /\ \A w \in Worker : pass[w] # None => pass[w].at <= now /\ now <= pass[w].at + Lag
  /\ \A s \in Session : start[s] # None => start[s].at <= now /\ now <= start[s].at + Lag

\* A token has not expired, and was issued before the call ended, up to the age of the reading
\* the call was ended with.
TokenAges ==
  \A k \in token :
    /\ k.issued <= now /\ now < k.issued + TokenTime
    /\ ~Live(call[k.call]) => k.issued <= call[k.call].ended + Lag

\* A room deleted by a pass that will not repeat it stays empty.
ClosedForGood ==
  \A w \in Worker : pass[w] # None =>
    \A c \in pass[w].closed :
      /\ c \in pass[w].due
      /\ call[c].ended + SealTime <= pass[w].at => room[c] = {}

MediaInv ==
  /\ Inv
  /\ Readings
  /\ MediaOnOneDevice
  /\ TokenAges
  /\ ClosedForGood
  /\ RoomSealed

-----------------------------------------------------------------------------
(* Steps, seen from readings, tokens and rooms *)

\* Where the readings that are in use come from.
LEMMA ReadingsNext ==
  ASSUME Inv, Readings, [Next]_vars
  PROVE  Readings'
<1>1. now \in Nat /\ Lag \in Nat  BY TimeAssumption DEF Inv, TypeOK, Time
<1>2. CASE Tick
  <2>1. /\ \A w \in Worker : pass[w] # None => pass[w].at \in Nat
        /\ \A s \in Session : start[s] # None => start[s].at \in Nat
    BY DEF Inv, TypeOK, PassRow, StartRow, Time
  <2> QED BY <1>1, <1>2, <2>1 DEF Tick, Readings
<1>3. ASSUME NEW s \in Session, Request(s)
      PROVE  Readings'
  <2>1. CASE \E u \in User, c \in Call, d \in Device : StartLock(s, u, c, d)
    BY <1>1, <2>1 DEF StartLock, Readings, Inv, TypeOK
  <2>2. CASE StartCommit(s) \/ StartAbort(s)
    BY <2>2 DEF StartCommit, StartAbort, Readings, Inv, TypeOK
  <2>3. CASE SaveStep /\ UNCHANGED start
    <3>1. UNCHANGED <<pass, now>>
      BY <1>3 DEF Request, StartLock, StartCommit, StartAbort, Accept, Decline, End, Heartbeat,
                  IssueToken, Inbox
    <3> QED BY <2>3, <3>1 DEF Readings
  <2> QED BY <1>3, <2>1, <2>2, <2>3, RequestCases DEF Inv
<1>4. ASSUME NEW w \in Worker, Maintenance(w)
      PROVE  Readings'
  <2>1. UNCHANGED <<start, now>>
    BY <1>4 DEF Maintenance, PassBegin, SweepCall, SweepRooms, RoomDeleted, RoomNotDeleted,
                CommitRooms, PassCut
  <2>2. ASSUME NEW v \in Worker, pass'[v] # None
        PROVE  \/ pass'[v].at = now
               \/ pass[v] # None /\ pass'[v].at = pass[v].at
    <3>1. CASE PassBegin(w)
      BY <2>2, <3>1 DEF PassBegin, Inv, TypeOK
    <3>2. CASE SweepRooms(w)
      BY <2>2, <3>2 DEF SweepRooms, Inv, TypeOK
    <3>3. CASE CommitRooms(w) \/ PassCut(w)
      BY <2>2, <3>3 DEF CommitRooms, PassCut, Inv, TypeOK
    <3>4. CASE \E c \in Call : SweepCall(w, c)
      BY <2>2, <3>4 DEF SweepCall
    <3>5. CASE \E c \in Call : RoomDeleted(w, c) \/ RoomNotDeleted(w, c)
      <4>1. PICK c \in Call : RoomDeleted(w, c) \/ RoomNotDeleted(w, c)  BY <3>5
      <4>2. pass[w] \in PassRow /\ pass[w] # None
        BY <4>1 DEF RoomDeleted, RoomNotDeleted, Inv, TypeOK
      <4>3. /\ [pass[w] EXCEPT !.closed = @ \cup {c}].at = pass[w].at
            /\ [pass[w] EXCEPT !.failed = @ \cup {c}].at = pass[w].at
        BY <4>2 DEF PassRow
      <4> QED BY <2>2, <4>1, <4>2, <4>3 DEF RoomDeleted, RoomNotDeleted, Inv, TypeOK
    <3> QED BY <1>4, <3>1, <3>2, <3>3, <3>4, <3>5 DEF Maintenance
  <2>3. now <= now /\ now <= now + Lag  BY <1>1
  <2> QED BY <2>1, <2>2, <2>3 DEF Readings
<1>5. CASE UNCHANGED <<pass, start, now>>
  BY <1>5 DEF Readings
<1>6. Surroundings => Tick \/ UNCHANGED <<pass, start, now>>
  BY DEF Surroundings, Join, Leave, Revoke, Disable
<1> QED BY <1>2, <1>3, <1>4, <1>5, <1>6 DEF Next, vars

\* An answered call keeps its answer, its people, their tabs and their sessions; and if it ends
\* now, then with a reading that is not older than Lag.
LEMMA AnsweredKept ==
  ASSUME Inv, Readings, [Next]_vars, NEW c \in Call, call[c].answered # None
  PROVE  /\ call'[c].answered = call[c].answered
         /\ call'[c].caller = call[c].caller /\ call'[c].callee = call[c].callee
         /\ call'[c].callerSession = call[c].callerSession
         /\ call'[c].callerDevice = call[c].callerDevice
         /\ call'[c].calleeSession = call[c].calleeSession
         /\ call'[c].calleeDevice = call[c].calleeDevice
         /\ \/ Live(call[c]) /\ Live(call'[c])
            \/ ~Live(call[c]) /\ ~Live(call'[c]) /\ call'[c].ended = call[c].ended
            \/ Live(call[c]) /\ call'[c].ended \in Time /\ now <= call'[c].ended + Lag
<1> DEFINE old == call[c]
           Ends(new) ==
             /\ new.answered = old.answered
             /\ new.caller = old.caller /\ new.callee = old.callee
             /\ new.callerSession = old.callerSession /\ new.callerDevice = old.callerDevice
             /\ new.calleeSession = old.calleeSession /\ new.calleeDevice = old.calleeDevice
           Fate(new) ==
             \/ Live(old) /\ Live(new)
             \/ ~Live(old) /\ ~Live(new) /\ new.ended = old.ended
             \/ Live(old) /\ new.ended \in Time /\ now <= new.ended + Lag
<1>1. old \in Row /\ RowOK(old)  BY RowsOK DEF Inv, TypeOK
<1>2. old.status \in {"active", "ended"}  BY <1>1 DEF RowOK
<1>3. ASSUME NEW new, NEW t \in Time, Evolves(old, new, t), now <= t + Lag
      PROVE  Ends(new) /\ Fate(new)
  <2>1. CASE new = old  BY <2>1
  <2>2. CASE HungUp(old, new, t)
    BY <1>1, <1>3, <2>2, FinishFacts DEF HungUp
  <2>3. CASE Renewed(old, new, t)
    BY <1>1, <2>3, RenewedFacts DEF Live
  <2> QED BY <1>2, <1>3, <2>1, <2>2, <2>3 DEF Evolves, Answered
<1>4. CASE SaveStep
  <2>1. PICK b \in Call, t \in Time, new \in Row :
          Reading(t) /\ Evolves(call[b], new, t) /\ Save(b, new)
    BY <1>4 DEF SaveStep
  <2>2. now <= t + Lag
    BY <2>1, TimeAssumption DEF Reading, Readings, Inv, TypeOK, Time
  <2>3. call'[c] = IF b = c THEN new ELSE old  BY <2>1 DEF Save, Inv, TypeOK
  <2>4. CASE b = c  BY <1>3, <2>1, <2>2, <2>3, <2>4
  <2>5. CASE b # c  BY <2>3, <2>5
  <2> QED BY <2>4, <2>5
<1>5. CASE CleanStep
  <2>1. PICK t \in Time \cup {None} : call'[c] = [old EXCEPT !.cleanup = t]
    BY <1>5 DEF CleanStep
  <2>2. Ends(call'[c]) /\ call'[c].status = old.status /\ call'[c].ended = old.ended
    BY <1>1, <2>1 DEF Row
  <2> QED BY <2>2 DEF Live
<1>6. CASE \E s \in Session : StartCommit(s)
  <2>1. PICK s \in Session : StartCommit(s)  BY <1>6
  <2>2. c # start[s].id  BY <1>2, <2>1, StartedRows
  <2>3. CASE c \in start[s].previous
    <3>1. start[s].at \in Time /\ now <= start[s].at + Lag
      BY <2>1 DEF StartCommit, Readings, Inv, TypeOK, StartRow
    <3>2. call'[c] = old \/ HungUp(old, call'[c], start[s].at)
      BY <2>1, <2>2, <2>3, StartedRows
    <3>3. Evolves(old, call'[c], start[s].at)  BY <3>2 DEF Evolves
    <3> QED BY <1>3, <3>1, <3>3
  <2>4. CASE c \notin start[s].previous
    <3>1. call'[c] = old  BY <2>1, <2>2, <2>4, StartedRows
    <3> QED BY <3>1
  <2> QED BY <2>3, <2>4
<1>7. CASE UNCHANGED call
  BY <1>7
<1> QED BY <1>4, <1>5, <1>6, <1>7, NextCases DEF Inv, StartLock, StartAbort

-----------------------------------------------------------------------------
(* Tokens *)

\* Only a token request adds a token, and only the clock changes the time.
LEMMA TokenCases ==
  ASSUME [Next]_vars
  PROVE  \/ \E s \in Session, c \in Call, d \in Device : IssueToken(s, c, d)
         \/ UNCHANGED <<token, now>>
         \/ Tick
<1>1. ASSUME NEW s \in Session, Request(s)
      PROVE  \/ \E c \in Call, d \in Device : IssueToken(s, c, d)
             \/ UNCHANGED <<token, now>>
  BY <1>1 DEF Request, StartLock, StartCommit, StartAbort, Accept, Decline, End, Heartbeat, Inbox
<1>2. ASSUME NEW w \in Worker, Maintenance(w)
      PROVE  UNCHANGED <<token, now>>
  BY <1>2 DEF Maintenance, PassBegin, SweepCall, SweepRooms, RoomDeleted, RoomNotDeleted,
              CommitRooms, PassCut
<1>3. Surroundings => Tick \/ UNCHANGED <<token, now>>
  BY DEF Surroundings, Join, Leave, Revoke, Disable
<1> QED BY <1>1, <1>2, <1>3 DEF Next, vars

\* A token is issued to the tab that holds an end of an active call with authorized sessions.
LEMMA TokenIssued ==
  ASSUME Inv, NEW s \in Session, NEW c \in Call, NEW d \in Device, IssueToken(s, c, d),
         NEW k \in token', k \notin token
  PROVE  /\ k = [call |-> c, user |-> SessionUser[s], session |-> s, device |-> d,
                 issued |-> now]
         /\ call' = call /\ call[c].status = "active"
         /\ SessionUser[s] \in Parties(call[c]) /\ Holds(call[c], s, d)
         /\ Authorized(call[c])
<1> DEFINE r == Loaded(c)
<1>1. /\ r.status = "active" /\ Holds(r, s, d)
      /\ k = [call |-> c, user |-> SessionUser[s], session |-> s, device |-> d, issued |-> now]
      /\ SessionUser[s] \in Parties(call[c])
      /\ Save(c, r)
  BY DEF IssueToken, Participates
<1>2. r = call[c]  BY <1>1, LoadedCases DEF Inv, Live, LiveStatus
<1>3. call' = call  BY <1>1, <1>2 DEF Save, Inv, TypeOK
<1>4. Authorized(call[c])
  <2> SUFFICES ASSUME ~Authorized(call[c]) PROVE FALSE
    OBVIOUS
  <2>1. call[c] \in Row /\ now \in Time /\ call[c].status = "active"
    BY <1>1, <1>2 DEF Inv, TypeOK
  <2>2. r = Finish(call[c], "ended", now)
    BY <2>1 DEF Loaded, Expired, Expire, RangOut, Live, LiveStatus
  <2>3. "ended" \in OverStatus  BY DEF OverStatus
  <2>4. Finish(call[c], "ended", now).status = "ended"  BY <2>1, <2>3, FinishFacts
  <2> QED BY <1>1, <2>2, <2>4
<1> QED BY <1>1, <1>2, <1>3, <1>4

\* Tokens stay with the tab and session that hold their end of the call.
LEMMA DeviceStep ==
  ASSUME Inv, Readings, MediaOnOneDevice, [Next]_vars
  PROVE  MediaOnOneDevice'
<1> DEFINE Good(k) ==
             /\ call'[k.call].answered # None
             /\ k.user \in Parties(call'[k.call])
             /\ <<k.session, k.device>> = LET r == call'[k.call] IN
                  IF k.user = r.caller THEN <<r.callerSession, r.callerDevice>>
                                       ELSE <<r.calleeSession, r.calleeDevice>>
<1>1. ASSUME NEW k \in token
      PROVE  Good(k)
  <2>1. k.call \in Call  BY DEF Inv, TypeOK, Token
  <2>2. /\ call[k.call].answered # None
        /\ k.user \in Parties(call[k.call])
        /\ <<k.session, k.device>> = LET r == call[k.call] IN
             IF k.user = r.caller THEN <<r.callerSession, r.callerDevice>>
                                  ELSE <<r.calleeSession, r.calleeDevice>>
    BY DEF MediaOnOneDevice
  <2> QED BY <2>1, <2>2, AnsweredKept DEF Parties
<1>2. ASSUME NEW s \in Session, NEW c \in Call, NEW d \in Device, IssueToken(s, c, d),
             NEW k \in token', k \notin token
      PROVE  Good(k)
  <2>1. /\ k.call = c /\ k.user = SessionUser[s] /\ k.session = s /\ k.device = d
        /\ call' = call /\ call[c].status = "active"
        /\ SessionUser[s] \in Parties(call[c]) /\ Holds(call[c], s, d)
    BY <1>2, TokenIssued
  <2>2. call[c].answered # None  BY <2>1, RowsOK DEF Inv, RowOK
  <2> QED BY <2>1, <2>2 DEF Holds
<1>3. Tick => token' \subseteq token  BY DEF Tick
<1>4. \A k \in token' : Good(k)  BY <1>1, <1>2, <1>3, TokenCases
<1> QED BY <1>4 DEF MediaOnOneDevice

\* Tokens expire, and none is issued once the call is over.
LEMMA AgesStep ==
  ASSUME Inv, Readings, MediaOnOneDevice, TokenAges, [Next]_vars
  PROVE  TokenAges'
<1>0. now \in Nat /\ Lag \in Nat /\ TokenTime \in Nat /\ TokenTime > 0
  BY TimeAssumption DEF Inv, TypeOK, Time
<1>1. ASSUME NEW k \in token
      PROVE  ~Live(call'[k.call]) => k.issued <= call'[k.call].ended + Lag
  <2>1. k.call \in Call /\ k.issued \in Nat  BY DEF Inv, TypeOK, Token, Time
  <2>2. call[k.call].answered # None  BY DEF MediaOnOneDevice
  <2>3. k.issued <= now /\ (~Live(call[k.call]) => k.issued <= call[k.call].ended + Lag)
    BY DEF TokenAges
  <2>4. \/ Live(call[k.call]) /\ Live(call'[k.call])
        \/ /\ ~Live(call[k.call]) /\ ~Live(call'[k.call])
           /\ call'[k.call].ended = call[k.call].ended
        \/ /\ Live(call[k.call]) /\ call'[k.call].ended \in Nat
           /\ now <= call'[k.call].ended + Lag
    BY <2>1, <2>2, AnsweredKept DEF Time
  <2> QED BY <1>0, <2>1, <2>3, <2>4
<1>2. CASE \E s \in Session, c \in Call, d \in Device : IssueToken(s, c, d)
  <2>1. PICK s \in Session, c \in Call, d \in Device : IssueToken(s, c, d)  BY <1>2
  <2>2. now' = now  BY <2>1 DEF IssueToken
  <2>3. ASSUME NEW k \in token', k \notin token
        PROVE  k.issued = now /\ Live(call'[k.call])
    BY <2>1, <2>3, TokenIssued DEF Live, LiveStatus
  <2>4. \A k \in token' : k \in token \/ (k.issued = now /\ Live(call'[k.call]))
    BY <2>3
  <2> QED BY <1>0, <1>1, <2>2, <2>4 DEF TokenAges
<1>3. CASE UNCHANGED <<token, now>>
  BY <1>1, <1>3 DEF TokenAges
<1>4. CASE Tick
  <2>1. \A k \in token' : k \in token /\ now + 1 < k.issued + TokenTime /\ k.issued \in Nat
    BY <1>4 DEF Tick, Inv, TypeOK, Token, Time
  <2>2. now' = now + 1  BY <1>4 DEF Tick
  <2> QED BY <1>0, <1>1, <2>1, <2>2 DEF TokenAges
<1> QED BY <1>2, <1>3, <1>4, TokenCases

-----------------------------------------------------------------------------
(* Rooms *)

\* When the deletion is not repeated any more, the last token has expired: this is what the
\* margin of the sealing time over the life of a token is for.
LEMMA NoTokenLate ==
  ASSUME Inv, TokenAges, NEW c \in Call, call[c].status = "ended",
         NEW t \in Time, t <= now, call[c].ended + SealTime <= t
  PROVE  \A k \in token : k.call # c
<1> SUFFICES ASSUME NEW k \in token, k.call = c PROVE FALSE
  OBVIOUS
<1>1. call[c].ended \in Nat
  BY RowsOK DEF Inv, TypeOK, Row, RowOK, OverStatus, Time
<1>2. /\ k.issued \in Nat /\ now \in Nat /\ t \in Nat
      /\ Lag \in Nat /\ TokenTime \in Nat /\ SealTime \in Nat /\ TokenTime + Lag <= SealTime
  BY TimeAssumption DEF Inv, TypeOK, Token, Time
<1>3. now < k.issued + TokenTime /\ k.issued <= call[c].ended + Lag
  BY DEF TokenAges, Live, LiveStatus
<1> QED BY <1>1, <1>2, <1>3

\* People come into a room with a token only.
LEMMA RoomCases ==
  ASSUME Inv, [Next]_vars, NEW c \in Call
  PROVE  room'[c] \subseteq room[c] \/ \E k \in token : k.call = c
<1> USE DEF Inv, TypeOK
<1>1. ASSUME NEW s \in Session, Request(s)
      PROVE  UNCHANGED room
  BY <1>1 DEF Request, StartLock, StartCommit, StartAbort, Accept, Decline, End, Heartbeat,
              IssueToken, Inbox
<1>2. ASSUME NEW w \in Worker, Maintenance(w)
      PROVE  room'[c] \subseteq room[c]
  <2>1. CASE \E b \in Call : RoomDeleted(w, b) \/ RoomNotDeleted(w, b)
    BY <2>1 DEF RoomDeleted, RoomNotDeleted
  <2> QED
    BY <1>2, <2>1 DEF Maintenance, PassBegin, SweepCall, SweepRooms, CommitRooms, PassCut
<1>3. CASE Surroundings
  BY <1>3 DEF Surroundings, Join, Leave, Revoke, Disable, Tick
<1> QED BY <1>1, <1>2, <1>3 DEF Next, vars

\* Deleted rooms, seen from one pass: they stay noted until it ends.
LEMMA ClosedCases ==
  ASSUME Inv, ClosedForGood, [Next]_vars,
         NEW w \in Worker, pass'[w] # None, NEW c \in pass'[w].closed
  PROVE  /\ pass[w] # None /\ c \in pass[w].due /\ c \in Call
         /\ pass'[w].due = pass[w].due /\ pass'[w].at = pass[w].at
         /\ c \in pass[w].closed \/ room'[c] = {}
<1> DEFINE Goal == /\ pass[w] # None /\ c \in pass[w].due /\ c \in Call
                   /\ pass'[w].due = pass[w].due /\ pass'[w].at = pass[w].at
                   /\ c \in pass[w].closed \/ room'[c] = {}
<1>1. CASE pass'[w] = pass[w]
  BY <1>1 DEF ClosedForGood, Inv, TypeOK, PassRow
<1>2. CASE PassBegin(w) \/ SweepRooms(w) \/ CommitRooms(w) \/ PassCut(w)
  BY <1>2 DEF PassBegin, SweepRooms, CommitRooms, PassCut, Inv, TypeOK
<1>3. CASE \E b \in Call : RoomDeleted(w, b) \/ RoomNotDeleted(w, b)
  <2>1. PICK b \in Call : RoomDeleted(w, b) \/ RoomNotDeleted(w, b)  BY <1>3
  <2>2. pass[w] \in PassRow /\ pass[w] # None /\ b \in pass[w].due
    BY <2>1 DEF RoomDeleted, RoomNotDeleted, Unanswered, Inv, TypeOK
  <2>3. CASE RoomDeleted(w, b)
    <3>1. pass'[w] = [pass[w] EXCEPT !.closed = @ \cup {b}]
      BY <2>3 DEF RoomDeleted, Inv, TypeOK
    <3>2. /\ pass'[w].due = pass[w].due /\ pass'[w].at = pass[w].at
          /\ pass'[w].closed = pass[w].closed \cup {b}
      BY <2>2, <3>1 DEF PassRow
    <3>3. room'[b] = {}  BY <2>3 DEF RoomDeleted, Inv, TypeOK
    <3> QED BY <2>1, <2>2, <3>2, <3>3 DEF ClosedForGood, PassRow
  <2>4. CASE RoomNotDeleted(w, b)
    <3>1. pass'[w] = [pass[w] EXCEPT !.failed = @ \cup {b}]
      BY <2>4 DEF RoomNotDeleted, Inv, TypeOK
    <3>2. /\ pass'[w].due = pass[w].due /\ pass'[w].at = pass[w].at
          /\ pass'[w].closed = pass[w].closed
      BY <2>2, <3>1 DEF PassRow
    <3> QED BY <2>2, <3>2 DEF ClosedForGood, PassRow
  <2> QED BY <2>1, <2>3, <2>4
<1>4. \/ pass'[w] = pass[w]
      \/ PassBegin(w) \/ SweepRooms(w) \/ CommitRooms(w) \/ PassCut(w)
      \/ \E b \in Call : RoomDeleted(w, b) \/ RoomNotDeleted(w, b)
  <2>1. ASSUME NEW s \in Session, Request(s)
        PROVE  UNCHANGED pass
    BY <2>1 DEF Request, StartLock, StartCommit, StartAbort, Accept, Decline, End, Heartbeat,
                IssueToken, Inbox
  <2>2. ASSUME NEW v \in Worker \ {w}, Maintenance(v)
        PROVE  pass'[w] = pass[w]
    BY <2>2 DEF Maintenance, PassBegin, SweepCall, SweepRooms, RoomDeleted, RoomNotDeleted,
                CommitRooms, PassCut, Inv, TypeOK
  <2>3. Surroundings => UNCHANGED pass
    BY DEF Surroundings, Join, Leave, Revoke, Disable, Tick
  <2>4. ASSUME NEW b \in Call, SweepCall(w, b)
        PROVE  UNCHANGED pass
    BY <2>4 DEF SweepCall
  <2> QED BY <2>1, <2>2, <2>3, <2>4 DEF Next, vars, Maintenance
<1> QED BY <1>1, <1>2, <1>3, <1>4

\* A room that was deleted for the last time stays empty while its pass ends.
LEMMA ClosedStep ==
  ASSUME MediaInv, [Next]_vars
  PROVE  ClosedForGood'
<1> SUFFICES ASSUME NEW w \in Worker, pass'[w] # None, NEW c \in pass'[w].closed
             PROVE  /\ c \in pass'[w].due
                    /\ call'[c].ended + SealTime <= pass'[w].at => room'[c] = {}
  BY DEF ClosedForGood
<1> USE DEF MediaInv
<1>1. /\ pass[w] # None /\ c \in pass[w].due /\ c \in Call
      /\ pass'[w].due = pass[w].due /\ pass'[w].at = pass[w].at
      /\ c \in pass[w].closed \/ room'[c] = {}
  BY ClosedCases
<1>2. call[c].cleanup # None  BY <1>1 DEF Inv, DueUncleaned
<1>3. call[c].status = "ended" /\ call[c] \in Row
  BY <1>1, <1>2, RowsOK DEF RowOK, Inv, TypeOK
<1>4. call'[c].ended = call[c].ended
  <2>1. call'[c] = [call[c] EXCEPT !.cleanup = call'[c].cleanup]
    BY <1>1, <1>3, OverStep DEF OverStays, OverStatus
  <2> QED BY <1>3, <2>1 DEF Row
<1>5. ASSUME call[c].ended + SealTime <= pass[w].at, c \in pass[w].closed
      PROVE  room'[c] = {}
  <2>1. pass[w].at \in Time /\ pass[w].at <= now
    BY <1>1 DEF Inv, TypeOK, PassRow, Readings
  <2>2. \A k \in token : k.call # c
    BY <1>1, <1>3, <1>5, <2>1, NoTokenLate
  <2>3. room[c] = {}  BY <1>1, <1>5 DEF ClosedForGood
  <2> QED BY <1>1, <2>2, <2>3, RoomCases
<1> QED BY <1>1, <1>4, <1>5

\* A room whose cleanup is done is empty and stays so.
LEMMA SealedStep ==
  ASSUME MediaInv, [Next]_vars
  PROVE  RoomSealed'
<1> SUFFICES ASSUME NEW c \in Call, call'[c].status = "ended", call'[c].cleanup = None
             PROVE  room'[c] = {} /\ \A k \in token' : k.call # c
  BY DEF RoomSealed
<1> USE DEF MediaInv
<1>0. call[c] \in Row /\ RowOK(call[c])  BY RowsOK DEF Inv, TypeOK
<1>1. call[c].status = "ended"
  <2> SUFFICES ASSUME call[c].status # "ended" PROVE FALSE
    OBVIOUS
  <2>1. CASE SaveStep
    <3>1. PICK b \in Call, t \in Time, new \in Row :
            Reading(t) /\ Evolves(call[b], new, t) /\ Save(b, new)
      BY <2>1 DEF SaveStep
    <3>2. c = b /\ call'[c] = new  BY <3>1 DEF Save, Inv, TypeOK
    <3>3. ~HungUp(call[c], new, t)
      <4> SUFFICES ASSUME HungUp(call[c], new, t) PROVE FALSE
        OBVIOUS
      <4>1. PICK st \in OverStatus :
              (st = "ended" <=> call[c].status = "active") /\ new = Finish(call[c], st, t)
        BY DEF HungUp
      <4>2. /\ new.status = st
            /\ new.cleanup = IF call[c].answered = None THEN None ELSE t
        BY <1>0, <4>1, FinishFacts
      <4>3. call[c].answered # None  BY <1>0, <3>2, <4>1, <4>2 DEF RowOK
      <4> QED BY <3>2, <4>2, <4>3, NoneAssumption DEF Time
    <3>4. CASE Renewed(call[c], new, t)
      BY <1>0, <3>2, <3>4, RenewedFacts
    <3>5. CASE \E s \in Session, d \in Device :
                 SessionUser[s] = call[c].callee /\ Answered(call[c], new, s, d, t)
      BY <1>0, <3>2, <3>5, AnsweredFacts
    <3> QED BY <3>1, <3>2, <3>3, <3>4, <3>5 DEF Evolves
  <2>2. CASE CleanStep
    <3>1. PICK t \in Time \cup {None} : call'[c] = [call[c] EXCEPT !.cleanup = t]
      BY <2>2 DEF CleanStep
    <3> QED BY <1>0, <3>1 DEF Row
  <2>3. CASE \E s \in Session : StartCommit(s)
    <3>1. PICK s \in Session : StartCommit(s)  BY <2>3
    <3>2. CASE c = start[s].id
      BY <3>1, <3>2, StartedRows, NewRowFacts
    <3>3. CASE c \in start[s].previous \ {start[s].id}
      <4>0. start[s].at \in Time  BY <3>1 DEF StartCommit, Inv, TypeOK, StartRow
      <4>1. HungUp(call[c], call'[c], start[s].at) /\ start[s].at \in Time
        BY <3>1, <3>3, <4>0, StartedRows
      <4>2. PICK st \in OverStatus :
              /\ st = "ended" <=> call[c].status = "active"
              /\ call'[c] = Finish(call[c], st, start[s].at)
        BY <4>1 DEF HungUp
      <4>3. /\ call'[c].status = st
            /\ call'[c].cleanup = IF call[c].answered = None THEN None ELSE start[s].at
        BY <1>0, <4>1, <4>2, FinishFacts
      <4>4. call[c].answered # None  BY <1>0, <4>2, <4>3 DEF RowOK
      <4> QED BY <4>1, <4>3, <4>4, NoneAssumption DEF Time
    <3>4. CASE c \notin start[s].previous \cup {start[s].id}
      <4>1. call'[c] = call[c]  BY <3>1, <3>4, StartedRows
      <4> QED BY <4>1
    <3> QED BY <3>2, <3>3, <3>4
  <2>4. CASE UNCHANGED call
    BY <2>4
  <2> QED BY <2>1, <2>2, <2>3, <2>4, NextCases DEF Inv, StartLock, StartAbort
<1>2. \A k \in token' : k.call = c => k \in token
  <2>1. ASSUME NEW s \in Session, NEW b \in Call, NEW d \in Device, IssueToken(s, b, d),
               NEW k \in token', k \notin token
        PROVE  k.call # c
    BY <1>1, <2>1, TokenIssued
  <2>2. Tick => token' \subseteq token  BY DEF Tick
  <2> QED BY <2>1, <2>2, TokenCases
<1>3. CASE call[c].cleanup = None
  <2>1. room[c] = {} /\ \A k \in token : k.call # c  BY <1>1, <1>3 DEF RoomSealed
  <2> QED BY <1>2, <2>1, RoomCases
<1>4. CASE call[c].cleanup # None
  <2>1. \E w \in Worker : CommitRooms(w) /\ c \in pass[w].due
    <3>1. CASE SaveStep
      <4>1. PICK b \in Call, t \in Time, new \in Row :
              Reading(t) /\ Evolves(call[b], new, t) /\ Save(b, new)
        BY <3>1 DEF SaveStep
      <4>2. b = c => new = call[c]
        BY <1>0, <1>1, <4>1, EvolvesFacts DEF Live, LiveStatus
      <4>3. call'[c] = call[c]  BY <4>1, <4>2 DEF Save, Inv, TypeOK
      <4> QED BY <1>4, <4>3
    <3>2. CASE CleanStep
      BY <1>4, <3>2 DEF CleanStep
    <3>3. CASE \E s \in Session : StartCommit(s)
      <4>1. PICK s \in Session : StartCommit(s)  BY <3>3
      <4>2. call'[c] = call[c]
        BY <1>1, <4>1, StartedRows DEF HungUp, Live, LiveStatus
      <4> QED BY <1>4, <4>2
    <3>4. CASE UNCHANGED call
      BY <1>4, <3>4
    <3> QED BY <3>1, <3>2, <3>3, <3>4, NextCases DEF Inv, StartLock, StartAbort
  <2>2. PICK w \in Worker : CommitRooms(w) /\ c \in pass[w].due  BY <2>1
  <2> DEFINE p == pass[w]
  <2>3. p \in PassRow /\ p # None  BY <2>2 DEF CommitRooms, Inv, TypeOK
  <2>4. call'[c] = Rescheduled(p, c) /\ UNCHANGED <<room, token>>
    BY <2>2 DEF CommitRooms
  <2>5. p.at \in Nat /\ RetryTime \in Nat /\ RepeatTime \in Nat /\ SealTime \in Nat
    BY <2>3, TimeAssumption DEF PassRow, Time
  <2>6. call[c].ended # None /\ call[c].ended \in Nat
    BY <1>0, <1>1 DEF RowOK, OverStatus, Row, Time
  <2>7. c \in p.closed /\ NextCleanup(call[c], p.at) = None
    <3>1. p.at + RetryTime # None  BY <2>5, NoneAssumption
    <3>2. \A t : [call[c] EXCEPT !.cleanup = t].cleanup = t  BY <1>0 DEF Row
    <3> QED BY <2>4, <3>1, <3>2 DEF Rescheduled
  <2>8. call[c].ended + SealTime <= p.at
    <3>1. p.at + RepeatTime # None  BY <2>5, NoneAssumption
    <3> QED BY <2>5, <2>6, <2>7, <3>1 DEF NextCleanup
  <2>9. room[c] = {}  BY <2>3, <2>7, <2>8 DEF ClosedForGood
  <2>10. p.at <= now /\ p.at \in Time  BY <2>3, <2>5 DEF Readings, Time
  <2>11. \A k \in token : k.call # c  BY <1>1, <2>8, <2>10, NoTokenLate
  <2> QED BY <1>2, <2>4, <2>9, <2>11
<1> QED BY <1>3, <1>4

-----------------------------------------------------------------------------
(* The theorems *)

\* The invariant holds at the start and every step keeps it.
THEOREM MediaInvariance == Spec => []MediaInv
<1>1. Init => MediaInv
  <2> SUFFICES ASSUME Init PROVE MediaInv
    OBVIOUS
  <2>1. Readings /\ MediaOnOneDevice /\ TokenAges /\ ClosedForGood
    BY DEF Init, Readings, MediaOnOneDevice, TokenAges, ClosedForGood
  <2>2. RoomSealed  BY DEF Init, RoomSealed, NoRow
  <2> QED BY <2>1, <2>2, InvInit DEF MediaInv
<1>2. MediaInv /\ [Next]_vars => MediaInv'
  BY InvNext, ReadingsNext, DeviceStep, AgesStep, ClosedStep, SealedStep DEF MediaInv
<1> QED BY <1>1, <1>2, PTL DEF Spec

\* The media of each end of a call is on one tab of one session (service.py: action, token).
THEOREM OneDevice == Spec => []MediaOnOneDevice
<1>1. MediaInv => MediaOnOneDevice  BY DEF MediaInv
<1> QED BY <1>1, MediaInvariance, PTL

\* A room whose deletion is no longer repeated is empty and cannot be recreated, as long as the
\* life of a token and the age of a reading together fit in the sealing time (worker.py).
THEOREM RoomsSealed == Spec => []RoomSealed
<1>1. MediaInv => RoomSealed  BY DEF MediaInv
<1> QED BY <1>1, MediaInvariance, PTL

\* What NoTokenAfterRevocation says of one step.
TokensToValid == \A k \in token' \ token : Live(call'[k.call]) /\ auth[k.session] = "valid"

\* A token is issued to a valid session of a live call only (service.py: load, expire, token).
THEOREM TokensValid == Spec => NoTokenAfterRevocation
<1>1. Inv /\ [Next]_vars => TokensToValid
  <2> SUFFICES ASSUME Inv, [Next]_vars, NEW k \in token' \ token
               PROVE  Live(call'[k.call]) /\ auth[k.session] = "valid"
    BY DEF TokensToValid
  <2>1. CASE \E s \in Session, c \in Call, d \in Device : IssueToken(s, c, d)
    <3>1. PICK s \in Session, c \in Call, d \in Device : IssueToken(s, c, d)  BY <2>1
    <3>2. /\ k.call = c /\ k.session = s
          /\ call' = call /\ call[c].status = "active"
          /\ SessionUser[s] \in Parties(call[c]) /\ Holds(call[c], s, d)
          /\ Authorized(call[c])
      BY <3>1, TokenIssued
    <3>3. s # None  BY NoneAssumption
    <3>4. auth[s] = "valid"  BY <3>2, <3>3 DEF Holds, Authorized
    <3> QED BY <3>2, <3>4 DEF Live, LiveStatus
  <2>2. CASE UNCHANGED <<token, now>> \/ Tick
    BY <2>2 DEF Tick
  <2> QED BY <2>1, <2>2, TokenCases
<1>2. NoTokenAfterRevocation <=> [][TokensToValid]_vars
  BY PTL DEF NoTokenAfterRevocation, TokensToValid
<1> QED BY <1>1, <1>2, Invariance, PTL DEF Spec
=============================================================================
