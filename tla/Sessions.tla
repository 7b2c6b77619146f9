------------------------------ MODULE Sessions ------------------------------
(***************************************************************************)
(* One account: its password, its browser sessions with their refresh      *)
(* tokens, and the links mailed to its owner (modules/identity).           *)
(*                                                                         *)
(* Login and password recovery hash outside any transaction and then look  *)
(* again under the row lock of the user, so they are open "requests" of    *)
(* several steps; a request that authenticates by a session acts on what   *)
(* it read then.  Everything else is one transaction, one action.  Other   *)
(* accounts share nothing with this one, ids are never used twice, and a   *)
(* request with the wrong CSRF token or origin changes nothing.            *)
(***************************************************************************)
EXTENDS Integers, FiniteSets

CONSTANTS
  Session,      (* session ids                                              *)
  Token,        (* refresh tokens                                           *)
  Link,         (* mailed one-time tokens                                   *)
  Request,      (* requests that take several steps                         *)
  Password,     (* passwords                                                *)
  None,         (* SQL NULL                                                 *)
  MaxSessions,  (* auth_max_active_sessions                                 *)
  SessionLife,  (* auth_refresh_ttl_seconds                                 *)
  LinkLife,     (* life of a mailed token                                   *)
  MinInterval,  (* auth_refresh_min_interval_seconds                        *)
  MaxRows,      (* refresh tokens kept for a session                        *)
  MaxTime       (* horizon of the clock: bounds the model                   *)

ASSUME NoneAssumption == None \notin (Session \cup Password)

ASSUME NumberAssumption ==
  /\ {MaxSessions, SessionLife, LinkLife, MaxRows} \subseteq Nat \ {0}
  /\ MinInterval \in Nat /\ MaxTime \in Nat

VARIABLES
  cred,      (* the password hash: the password that fits it, whether it was made with
                today's parameters, and a serial number that tells hashes apart (a salt) *)
  session,   (* identity_auth_sessions                                       *)
  token,     (* identity_refresh_tokens                                      *)
  link,      (* identity_email_action_tokens                                 *)
  req,       (* open requests                                                *)
  opened,    (* history: the password each session was opened with           *)
  disabled,  (* disabled_at is set                                           *)
  verified,  (* email_verified_at is set                                     *)
  now

vars == <<cred, session, token, link, req, opened, disabled, verified, now>>

-----------------------------------------------------------------------------
(* Rows *)

Hash == [password : Password \cup {None}, current : BOOLEAN, serial : Nat]
SessionRow == [status : {"none", "open", "revoked", "purged"},
               created : Nat, seen : Nat, expires : Nat]
TokenRow == [status : {"none", "fresh", "used", "revoked", "purged"},
             session : Session \cup {None}]
LinkRow == [status : {"none", "open", "used", "revoked", "purged"},
            purpose : {"verify_email", "recover_password"}, expires : Nat]

NewHash(p) == [password |-> p, current |-> TRUE, serial |-> cred.serial + 1]
NewSession == [status |-> "open", created |-> now, seen |-> now, expires |-> now + SessionLife]
NewToken(s) == [status |-> "fresh", session |-> s]
NewLink(purpose) == [status |-> "open", purpose |-> purpose, expires |-> now + LinkLife]

Registered == cred.password # None

Active(s) == session[s].status = "open" /\ now < session[s].expires

\* _require_active_email_action(), for the link with its right secret.
Usable_Spent(l) ==  \* variant: used and replaced links too
  link[l].status # "none" /\ now < link[l].expires /\ ~disabled

Usable(l) == link[l].status = "open" /\ now < link[l].expires /\ ~disabled

SessionsWithout(S) ==
  [s \in Session |-> IF s \in S /\ session[s].status = "open"
                     THEN [session[s] EXCEPT !.status = "revoked"] ELSE session[s]]

TokensWithout_Kept(S) == token  \* variant: their refresh tokens are forgotten

\* _revoke_active_refresh_tokens()
TokensWithout(S) ==
  [t \in Token |-> IF token[t].session \in S /\ token[t].status = "fresh"
                   THEN [token[t] EXCEPT !.status = "revoked"] ELSE token[t]]

LinksWithout_Kept(purpose) == link  \* variant: earlier links stay good

\* revoke_email_actions()
LinksWithout(purpose) ==
  [l \in Link |-> IF link[l].status = "open" /\ link[l].purpose = purpose
                  THEN [link[l] EXCEPT !.status = "revoked"] ELSE link[l]]

\* revoke_session() and revoke_all_sessions(): the tokens of sessions revoked before stay.
Revoke(S) ==
  /\ session' = SessionsWithout(S)
  /\ token' = TokensWithout({s \in S : session[s].status = "open"})

-----------------------------------------------------------------------------
(* Registration and login *)

\* register(): the unique email makes a second one fail.  An account registered before the
\* hashing parameters were raised has an outdated hash.
Register(p, s, t, l) ==
  /\ ~Registered
  /\ session[s].status = "none" /\ token[t].status = "none" /\ link[l].status = "none"
  /\ \E current \in BOOLEAN : cred' = [password |-> p, current |-> current, serial |-> 0]
  /\ session' = [session EXCEPT ![s] = NewSession]
  /\ token' = [token EXCEPT ![t] = NewToken(s)]
  /\ link' = [link EXCEPT ![l] = NewLink("verify_email")]
  /\ opened' = [opened EXCEPT ![s] = p]
  /\ UNCHANGED <<req, disabled, verified, now>>

\* login() reads the hash, lets go of the transaction and finds that the password fits.
LoginVerify(r, p) ==
  /\ req[r] = None
  /\ Registered /\ cred.password = p /\ ~disabled
  /\ req' = [req EXCEPT ![r] = [op |-> "login", password |-> p, hash |-> cred, first |-> TRUE]]
  /\ UNCHANGED <<cred, session, token, link, opened, disabled, verified, now>>

\* Under the lock the hash is another one: once more, without the lock.
LoginVerifyAgain(r) ==
  /\ req[r] # None /\ req[r].op = "login" /\ req[r].first
  /\ cred # req[r].hash /\ ~disabled
  /\ cred.password = req[r].password
  /\ req' = [req EXCEPT ![r].hash = cred, ![r].first = FALSE]
  /\ UNCHANGED <<cred, session, token, link, opened, disabled, verified, now>>

Verified_Before(p) == TRUE  \* variant: the hash is not compared again

\* compare_digest() under the lock: the hash is the one the password was verified against.
Verified(p) == cred = p.hash

Retained_Full == MaxSessions  \* variant: off by one

Retained == MaxSessions - 1

\* enforce_active_session_cap(): the oldest active sessions, so that "Retained" are left.
Oldest ==
  LET active == {s \in Session : Active(s)} IN
  {out \in SUBSET active :
     /\ \A s \in out, k \in active \ out : session[s].created <= session[k].created
     /\ IF Cardinality(active) <= Retained THEN out = {}
        ELSE Cardinality(active \ out) = Retained}

LoginCommit(r, s, t) ==
  /\ req[r] # None /\ req[r].op = "login"
  /\ Verified(req[r]) /\ ~disabled
  /\ session[s].status = "none" /\ token[t].status = "none"
  /\ \E out \in Oldest :
       /\ session' = [SessionsWithout(out) EXCEPT ![s] = NewSession]
       /\ token' = [TokensWithout(out) EXCEPT ![t] = NewToken(s)]
  /\ cred' = IF req[r].hash.current THEN cred ELSE NewHash(req[r].password)
  /\ opened' = [opened EXCEPT ![s] = req[r].password]
  /\ req' = [req EXCEPT ![r] = None]
  /\ UNCHANGED <<link, disabled, verified, now>>

\* Any request may fail between two steps, or be cut off.
Abandon(r) ==
  /\ req[r] # None
  /\ req' = [req EXCEPT ![r] = None]
  /\ UNCHANGED <<cred, session, token, link, opened, disabled, verified, now>>

-----------------------------------------------------------------------------
(* Refresh tokens *)

StorageBound_Floor == SessionLife \div MaxRows  \* variant: rounded down

StorageBound == (SessionLife + MaxRows - 1) \div MaxRows

Interval == IF StorageBound > MinInterval THEN StorageBound ELSE MinInterval

\* refresh() with a token that was used before: the whole family is revoked, even without CSRF.
RefreshReused(t) ==
  /\ token[t].status = "used"
  /\ Revoke({token[t].session})
  /\ UNCHANGED <<cred, link, req, opened, disabled, verified, now>>

RefreshRotate(t, fresh) ==
  LET s == token[t].session IN
  /\ token[t].status = "fresh"
  /\ Active(s) /\ ~disabled
  /\ session[s].seen + Interval <= now
  /\ token[fresh].status = "none"
  /\ token' = [token EXCEPT ![fresh] = NewToken(s), ![t].status = "used"]
  /\ session' = [session EXCEPT ![s].seen = now]
  /\ UNCHANGED <<cred, link, req, opened, disabled, verified, now>>

-----------------------------------------------------------------------------
(* Requests authenticated by a session *)

\* authenticate_access()
Authenticate(r, s) ==
  /\ req[r] = None
  /\ Active(s) /\ ~disabled
  /\ req' = [req EXCEPT ![r] = [op |-> "user", session |-> s]]
  /\ UNCHANGED <<cred, session, token, link, opened, disabled, verified, now>>

\* logout() by the access token, and revoke_session() of any session of the same user.
RevokeOne(r, s) ==
  /\ req[r] # None /\ req[r].op = "user"
  /\ session[s].status \in {"open", "revoked"}
  /\ Revoke({s})
  /\ req' = [req EXCEPT ![r] = None]
  /\ UNCHANGED <<cred, link, opened, disabled, verified, now>>

\* logout() by a refresh token, which may be a used one.
LogoutByRefresh(t) ==
  LET s == token[t].session IN
  /\ token[t].status \in {"fresh", "used", "revoked"}
  /\ Active(s) /\ ~disabled
  /\ Revoke({s})
  /\ UNCHANGED <<cred, link, req, opened, disabled, verified, now>>

Ended_None == {}  \* variant: sessions survive the recovery

\* revoke_all_sessions(), of logout-all and recovery.
Ended == {s \in Session : session[s].status = "open"}

LogoutAll(r) ==
  /\ req[r] # None /\ req[r].op = "user"
  /\ Revoke(Ended)
  /\ req' = [req EXCEPT ![r] = None]
  /\ UNCHANGED <<cred, link, opened, disabled, verified, now>>

-----------------------------------------------------------------------------
(* Mailed links *)

\* replace_email_action()
Replace(l, purpose) ==
  /\ link[l].status = "none"
  /\ link' = [LinksWithout(purpose) EXCEPT ![l] = NewLink(purpose)]

RequestVerification(r, l) ==
  /\ req[r] # None /\ req[r].op = "user"
  /\ ~disabled /\ ~verified
  /\ Replace(l, "verify_email")
  /\ req' = [req EXCEPT ![r] = None]
  /\ UNCHANGED <<cred, session, token, opened, disabled, verified, now>>

CompleteVerification(l) ==
  /\ link[l].purpose = "verify_email" /\ Usable(l)
  /\ verified' = TRUE
  /\ link' = [LinksWithout("verify_email") EXCEPT ![l].status = "used"]
  /\ UNCHANGED <<cred, session, token, req, opened, disabled, now>>

RequestRecovery(l) ==
  /\ Registered /\ ~disabled
  /\ Replace(l, "recover_password")
  /\ UNCHANGED <<cred, session, token, req, opened, disabled, verified, now>>

\* complete_password_recovery() finds the link usable, lets go of it and hashes.
RecoveryHash(r, l, p) ==
  /\ req[r] = None
  /\ link[l].purpose = "recover_password" /\ Usable(l)
  /\ req' = [req EXCEPT ![r] = [op |-> "recovery", link |-> l, password |-> p]]
  /\ UNCHANGED <<cred, session, token, link, opened, disabled, verified, now>>

\* The rest, after looking at the link again under the locks of the user and the link.
RecoveryCommit(r) ==
  LET l == req[r].link IN
  /\ req[r] # None /\ req[r].op = "recovery"
  /\ Usable(l)
  /\ cred' = NewHash(req[r].password)
  /\ verified' = TRUE
  /\ link' = [LinksWithout("recover_password") EXCEPT ![l].status = "used"]
  /\ Revoke(Ended)
  /\ req' = [req EXCEPT ![r] = None]
  /\ UNCHANGED <<opened, disabled, now>>

-----------------------------------------------------------------------------
(* Worker, administration, time *)

\* cleanup_batch(): rows that have been dead for the retention time, which may be zero.
PurgeSession(s) ==
  /\ session[s].status = "revoked" \/ (session[s].status = "open" /\ session[s].expires <= now)
  /\ session' = [session EXCEPT ![s].status = "purged"]
  /\ token' = [t \in Token |-> IF token[t].session = s
                               THEN [token[t] EXCEPT !.status = "purged"] ELSE token[t]]
  /\ UNCHANGED <<cred, link, req, opened, disabled, verified, now>>

PurgeLink(l) ==
  /\ \/ link[l].status \in {"used", "revoked"}
     \/ link[l].status = "open" /\ link[l].expires <= now
  /\ link' = [link EXCEPT ![l].status = "purged"]
  /\ UNCHANGED <<cred, session, token, req, opened, disabled, verified, now>>

Disable ==
  /\ Registered /\ ~disabled
  /\ disabled' = TRUE
  /\ UNCHANGED <<cred, session, token, link, req, opened, verified, now>>

Tick ==
  /\ now < MaxTime
  /\ now' = now + 1
  /\ UNCHANGED <<cred, session, token, link, req, opened, disabled, verified>>

-----------------------------------------------------------------------------

Init ==
  /\ cred = [password |-> None, current |-> TRUE, serial |-> 0]
  /\ session = [s \in Session |-> [status |-> "none", created |-> 0, seen |-> 0, expires |-> 0]]
  /\ token = [t \in Token |-> [status |-> "none", session |-> None]]
  /\ link = [l \in Link |-> [status |-> "none", purpose |-> "verify_email", expires |-> 0]]
  /\ req = [r \in Request |-> None]
  /\ opened = [s \in Session |-> None]
  /\ disabled = FALSE /\ verified = FALSE
  /\ now = 0

Anonymous(r) ==
  \/ \E p \in Password : LoginVerify(r, p)
  \/ LoginVerifyAgain(r)
  \/ \E s \in Session, t \in Token : LoginCommit(r, s, t)
  \/ \E l \in Link, p \in Password : RecoveryHash(r, l, p)
  \/ RecoveryCommit(r)
  \/ Abandon(r)

Authenticated(r) ==
  \/ \E s \in Session : Authenticate(r, s)
  \/ \E s \in Session : RevokeOne(r, s)
  \/ LogoutAll(r)
  \/ \E l \in Link : RequestVerification(r, l)

OneStep ==
  \/ \E p \in Password, s \in Session, t \in Token, l \in Link : Register(p, s, t, l)
  \/ \E t \in Token : RefreshReused(t)
  \/ \E t \in Token, fresh \in Token : RefreshRotate(t, fresh)
  \/ \E t \in Token : LogoutByRefresh(t)
  \/ \E l \in Link : CompleteVerification(l)
  \/ \E l \in Link : RequestRecovery(l)

Surroundings ==
  \/ \E s \in Session : PurgeSession(s)
  \/ \E l \in Link : PurgeLink(l)
  \/ Disable
  \/ Tick

Next ==
  \/ \E r \in Request : Anonymous(r) \/ Authenticated(r)
  \/ OneStep
  \/ Surroundings

Spec == Init /\ [][Next]_vars

-----------------------------------------------------------------------------
(* Type invariant *)

LoginRequest == [op : {"login"}, password : Password, hash : Hash, first : BOOLEAN]
RecoveryRequest == [op : {"recovery"}, link : Link, password : Password]
UserRequest == [op : {"user"}, session : Session]

\* Every variable holds a value of its kind.
TypeOK ==
  /\ cred \in Hash
  /\ session \in [Session -> SessionRow]
  /\ token \in [Token -> TokenRow]
  /\ link \in [Link -> LinkRow]
  /\ req \in [Request -> LoginRequest \cup RecoveryRequest \cup UserRequest \cup {None}]
  /\ opened \in [Session -> Password \cup {None}]
  /\ disabled \in BOOLEAN /\ verified \in BOOLEAN
  /\ now \in Nat

-----------------------------------------------------------------------------
(* Safety *)

\* Whoever holds a session gave the password the account has now: a recovery ends the sessions
\* opened with the password before it, and a login that verified that password and was
\* overtaken by the recovery opens none.
SessionsKnowPassword ==
  \A s \in Session : session[s].status = "open" => opened[s] = cred.password

\* Logins that race each other and the revocation and expiry of sessions never leave more
\* active sessions than the cap allows.
SessionCap == Cardinality({s \in Session : Active(s)}) <= MaxSessions

\* A session that is not revoked has exactly one refresh token that is neither used nor revoked,
\* and a revoked one has none: rotation, replay, logout, the cap and recovery agree on it.
OneFreshToken ==
  \A s \in Session :
    Cardinality({t \in Token : token[t].session = s /\ token[t].status = "fresh"})
      = IF session[s].status = "open" THEN 1 ELSE 0

\* Refreshing at every permitted moment does not store more tokens for a session than the
\* configured bound, whatever the rounding of the interval.
RowsBounded ==
  \A s \in Session : Cardinality({t \in Token : token[t].session = s}) <= MaxRows

\* At most one link of each purpose is open: a new mail makes the earlier ones useless.
OneOpenLink ==
  \A k, l \in Link :
    link[k].status = "open" /\ link[l].status = "open" /\ link[k].purpose = link[l].purpose
      => k = l

-----------------------------------------------------------------------------
(* Action properties *)

\* Only the use of a recovery link, each at most once, changes which password opens the account:
\* a login that improves the hash of the password it verified does not bring that password back
\* after a recovery, and two recoveries with one link do not both succeed.
PasswordOnlyByLink ==
  [][Registered /\ cred'.password # cred.password =>
       \E l \in Link : /\ link[l].purpose = "recover_password"
                       /\ link[l].status = "open" /\ link'[l].status = "used"]_vars
=============================================================================
