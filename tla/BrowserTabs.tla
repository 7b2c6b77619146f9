----------------------------- MODULE BrowserTabs -----------------------------
(***************************************************************************)
(* The tabs of one browser keep one session alive: refreshSession() and    *)
(* request() of lib/api.ts, the cookies the tabs share, and what           *)
(* AuthenticationService.refresh() does with their refresh token.          *)
(*                                                                         *)
(* A refresh token is the number of rotations before it, so those below    *)
(* the session's are used.  The CSRF cookie comes and goes with the        *)
(* refresh cookie.  Signing in again is left out.                          *)
(***************************************************************************)
EXTENDS Integers, Sequences

CONSTANTS
  Tab,
  Call,        \* calls of api() that may be under way at once
  TabOf,       \* the tab of each
  HasLocks,    \* the browser has navigator.locks
  AccessLife,  \* auth_access_ttl_seconds
  Cooldown,    \* the least time between rotations: effective_interval
  MaxTime,     \* bound: horizon of the clock
  None

\* The validator of the settings keeps the cooldown within the life of an access token.
TimesFit ==
  /\ {AccessLife, Cooldown, MaxTime} \subseteq Nat /\ 0 < Cooldown /\ Cooldown <= AccessLife
  /\ TabOf \in [Call -> Tab] /\ HasLocks \in BOOLEAN /\ None \notin Nat

VARIABLES
  now,
  session,    \* the unused token, the last rotation, whether the session is over
  jar,        \* cookies: the refresh token, and when the access token expires
  call,       \* calls of api()
  refresh,    \* refreshing, in each tab
  queue,      \* who holds (first) and who waits for the lock 'klack-refresh'
  stray,      \* rotations given up by the tab and yet to reach the server
  leaving,    \* the answer to a logout is under way
  signedOut,  \* tabs that heard that the session is over
  past        \* history: what has happened to the session

vars == <<now, session, jar, call, refresh, queue, stray, leaving, signedOut, past>>

Token == 0..MaxTime
NoCookies == [token |-> None, access |-> 0]
Issued(token) == [token |-> token, access |-> now + AccessLife]

Init ==
  /\ now = 0
  /\ session = [token |-> 0, seen |-> 0, over |-> FALSE]
  /\ jar = Issued(0)
  /\ call = [c \in Call |-> None]
  /\ refresh = [t \in Tab |-> None]
  /\ queue = <<>>
  /\ stray = [k \in Token |-> 0]
  /\ leaving = FALSE
  /\ signedOut = {}
  /\ past = {}

-----------------------------------------------------------------------------
(* The server *)

\* authenticate_access() with an access token that expires at the given time.
Authentic(access) == now < access /\ ~session.over

\* What refresh() answers to a token.
Verdict(token) ==
  IF token = None \/ token < session.token \/ session.over THEN "over"
  ELSE IF session.seen + Cooldown > now THEN "early"
  ELSE "rotated"

\* A used token ends the session.  Requests without, or after the end, change nothing.
Refresh(token) ==
  LET verdict == Verdict(token)
      reused == verdict = "over" /\ token # None /\ ~session.over
  IN /\ session' =
          IF verdict = "rotated"
          THEN [session EXCEPT !.token = token + 1, !.seen = now]
          ELSE [session EXCEPT !.over = @ \/ reused]
     /\ past' = past \cup (IF reused THEN {"reused"} ELSE {})
                     \cup (IF verdict = "early" THEN {"early"} ELSE {})

\* The session ends elsewhere: logout-all, recovery, an administrator, its absolute lifetime.
End ==
  /\ ~session.over
  /\ session' = [session EXCEPT !.over = TRUE]
  /\ UNCHANGED <<now, jar, call, refresh, queue, stray, leaving, signedOut, past>>

\* logout() of a tab, and its answer, which deletes the cookies.
Logout ==
  /\ ~session.over
  /\ session' = [session EXCEPT !.over = TRUE] /\ leaving' = TRUE
  /\ UNCHANGED <<now, jar, call, refresh, queue, stray, signedOut, past>>

LogoutAnswered ==
  /\ leaving
  /\ leaving' = FALSE /\ jar' = NoCookies
  /\ UNCHANGED <<now, session, call, refresh, queue, stray, signedOut, past>>

\* A rotation reaches the server after its tab has stopped waiting for it.
Straggle(token) ==
  /\ stray[token] > 0
  /\ stray' = [stray EXCEPT ![token] = @ - 1]
  /\ Refresh(token)
  /\ UNCHANGED <<now, jar, call, refresh, queue, leaving, signedOut>>

Tick ==
  /\ now < MaxTime
  /\ now' = now + 1
  /\ UNCHANGED <<session, jar, call, refresh, queue, stray, leaving, signedOut, past>>

-----------------------------------------------------------------------------
(* request() *)

Sent(access) == [step |-> "sent", access |-> access]
Answered(ok) == [step |-> "answered", ok |-> ok]
Waiting == [step |-> "waiting"]
Again == [step |-> "again"]

At(x, step) == x # None /\ x.step = step

CallStart(c) ==
  /\ call[c] = None /\ TabOf[c] \notin signedOut
  /\ call' = [call EXCEPT ![c] = Sent(jar.access)]
  /\ UNCHANGED <<now, session, jar, refresh, queue, stray, leaving, signedOut, past>>

CallServed(c) ==
  /\ At(call[c], "sent")
  /\ call' = [call EXCEPT ![c] = Answered(Authentic(call[c].access))]
  /\ UNCHANGED <<now, session, jar, refresh, queue, stray, leaving, signedOut, past>>

\* Answered otherwise than 401, lost, or at its second attempt: the call returns or throws.
CallEnd(c) ==
  /\ \/ At(call[c], "sent") \/ At(call[c], "again")
     \/ At(call[c], "answered") /\ call[c].ok
  /\ call' = [call EXCEPT ![c] = None]
  /\ UNCHANGED <<now, session, jar, refresh, queue, stray, leaving, signedOut, past>>

Rotating == [step |-> "rotating", token |-> jar.token]

\* The answer is 401: refreshSession() begins, or the one under way is shared.
CallRefused(c) ==
  LET t == TabOf[c] IN
  /\ At(call[c], "answered") /\ ~call[c].ok
  /\ call' = [call EXCEPT ![c] = Waiting]
  /\ IF refresh[t] # None THEN UNCHANGED <<refresh, queue>>
     ELSE IF HasLocks
     THEN /\ refresh' = [refresh EXCEPT ![t] = [step |-> "queued"]]
          /\ queue' = Append(queue, t)
     ELSE /\ refresh' = [refresh EXCEPT ![t] = Rotating]
          /\ UNCHANGED queue
  /\ UNCHANGED <<now, session, jar, stray, leaving, signedOut, past>>

-----------------------------------------------------------------------------
(* refreshSession() *)

Granted_AtOnce(t) == TRUE  \* variant: the lock is not waited for

Granted(t) == queue[1] = t

\* With the lock the tab first asks /auth/me whether another tab has refreshed the session.
Look(t) ==
  /\ At(refresh[t], "queued") /\ Granted(t)
  /\ refresh' = [refresh EXCEPT ![t] = [step |-> "looking", access |-> jar.access]]
  /\ UNCHANGED <<now, session, jar, call, queue, stray, leaving, signedOut, past>>

\* The server may also answer with an error, which is not "ok" either.
LookServed(t) ==
  /\ At(refresh[t], "looking")
  /\ \E failing \in BOOLEAN :
       /\ refresh' = [refresh EXCEPT ![t] =
            [step |-> "looked", ok |-> Authentic(refresh[t].access) /\ ~failing]]
       /\ past' = IF failing THEN past \cup {"failing"} ELSE past
  /\ UNCHANGED <<now, session, jar, call, queue, stray, leaving, signedOut>>

\* What request() takes for the end of the session: 401 (403 needs cookies of two sessions).
Signed(verdict) == verdict = "over"

Released_Never(t) == queue  \* variant: the lock is kept

\* The callback of the lock has ended.
Released(t) ==
  IF \A i \in 1..Len(queue) : queue[i] # t THEN queue
  ELSE LET i == CHOOSE i \in 1..Len(queue) : queue[i] = t
       IN SubSeq(queue, 1, i - 1) \o SubSeq(queue, i + 1, Len(queue))

\* finally: the tab can refresh again, the calls that waited go on or throw.
Settled(t, verdict) ==
  /\ refresh' = [refresh EXCEPT ![t] = None]
  /\ queue' = Released(t)
  /\ call' = [c \in Call |->
       IF TabOf[c] = t /\ At(call[c], "waiting")
       THEN IF verdict = "rotated" THEN Again ELSE None
       ELSE call[c]]
  /\ signedOut' = IF Signed(verdict) THEN signedOut \cup {t} ELSE signedOut

\* Another tab has done it.
Looked(t) == refresh[t].ok

LookEnd(t) ==
  /\ At(refresh[t], "looked")
  /\ IF Looked(t) THEN Settled(t, "rotated")
     ELSE /\ refresh' = [refresh EXCEPT ![t] = Rotating]
          /\ UNCHANGED <<call, queue, signedOut>>
  /\ UNCHANGED <<now, session, jar, stray, leaving, past>>

RotateServed(t) ==
  /\ At(refresh[t], "rotating")
  /\ LET token == refresh[t].token IN
       /\ Refresh(token)
       /\ refresh' = [refresh EXCEPT ![t] =
            [step |-> "rotated", verdict |-> Verdict(token),
             cookies |-> CASE Verdict(token) = "rotated" -> Issued(token + 1)
                           [] Verdict(token) = "over" -> NoCookies
                           [] OTHER -> None]]
  /\ UNCHANGED <<now, jar, call, queue, stray, leaving, signedOut>>

RotateEnd(t) ==
  /\ At(refresh[t], "rotated")
  /\ jar' = IF refresh[t].cookies = None THEN jar ELSE refresh[t].cookies
  /\ Settled(t, refresh[t].verdict)
  /\ UNCHANGED <<now, session, stray, leaving, past>>

\* Leaves a rotation to itself.
Left(t) ==
  /\ stray' = IF At(refresh[t], "rotating") /\ refresh[t].token # None
              THEN [stray EXCEPT ![refresh[t].token] = @ + 1] ELSE stray
  /\ past' = IF At(refresh[t], "rotating") \/ At(refresh[t], "rotated")
             THEN past \cup {"lost"} ELSE past

\* AbortSignal.timeout, or the network: the request may yet arrive, its answer will not.
GiveUp(t) ==
  /\ refresh[t] # None /\ ~At(refresh[t], "queued")
  /\ Left(t)
  /\ Settled(t, "lost")
  /\ UNCHANGED <<now, session, jar, leaving>>

\* The tab is closed, which lets go of its lock, or loaded again.
Close(t) ==
  /\ Left(t)
  /\ refresh' = [refresh EXCEPT ![t] = None]
  /\ queue' = Released(t)
  /\ call' = [c \in Call |-> IF TabOf[c] = t THEN None ELSE call[c]]
  /\ refresh[t] # None \/ \E c \in Call : TabOf[c] = t /\ call[c] # None
  /\ UNCHANGED <<now, session, jar, leaving, signedOut>>

-----------------------------------------------------------------------------
(* Specification *)

CallStep(c) == CallServed(c) \/ CallEnd(c) \/ CallRefused(c)
RefreshStep(t) ==
  Look(t) \/ LookServed(t) \/ LookEnd(t) \/ RotateServed(t) \/ RotateEnd(t) \/ GiveUp(t)

Next ==
  \/ \E c \in Call : CallStart(c) \/ CallStep(c)
  \/ \E t \in Tab : RefreshStep(t) \/ Close(t)
  \/ \E k \in Token : Straggle(k)
  \/ End \/ Logout \/ LogoutAnswered \/ Tick

Spec == Init /\ [][Next]_vars

\* Requests end, after 20 seconds at the latest; the browser hands the lock on.
Fairness ==
  /\ \A c \in Call : WF_vars(CallStep(c))
  /\ \A t \in Tab : WF_vars(RefreshStep(t))

FairSpec == Spec /\ Fairness

-----------------------------------------------------------------------------
(* Properties *)

\* api.ts and ADR 0002: tabs whose access token ends at the same time refresh in turn.  None
\* presents a token that another has used, which would end their own session, unless the answer
\* to a rotation was lost; none rotates what another has just rotated, as long as the server and
\* the network work.
RefreshesInTurn ==
  /\ "reused" \in past => "lost" \in past
  /\ "early" \in past => past \cap {"lost", "failing"} # {}

\* A call under way ends, whichever tab holds the lock, gives up or is closed.
CallsEnd == \A c \in Call : call[c] # None ~> call[c] = None
=============================================================================
