--------------------------- MODULE SessionsSafety ---------------------------
(* Safety of Sessions, for every number of sessions, tokens, links, passwords *)
(* and requests: types, whose password opens sessions, which links are good,  *)
(* refresh tokens, the number of rows, the cap on sessions.                   *)
EXTENDS Sessions, FiniteSetTheorems, TLAPS

-----------------------------------------------------------------------------
(* What revocation does *)

\* Revoking sessions closes the open ones among them and changes nothing else about sessions.
LEMMA RevokedSessions ==
  ASSUME session \in [Session -> SessionRow], NEW S
  PROVE  /\ SessionsWithout(S) \in [Session -> SessionRow]
         /\ \A s \in Session :
              /\ SessionsWithout(S)[s].status =
                   IF s \in S /\ session[s].status = "open" THEN "revoked" ELSE session[s].status
              /\ SessionsWithout(S)[s].created = session[s].created
              /\ SessionsWithout(S)[s].seen = session[s].seen
              /\ SessionsWithout(S)[s].expires = session[s].expires
BY DEF SessionsWithout, SessionRow

\* Revoking their tokens takes the fresh ones and changes nothing else about tokens.
LEMMA RevokedTokens ==
  ASSUME token \in [Token -> TokenRow], NEW S
  PROVE  /\ TokensWithout(S) \in [Token -> TokenRow]
         /\ \A t \in Token :
              /\ TokensWithout(S)[t].session = token[t].session
              /\ TokensWithout(S)[t].status =
                   IF token[t].session \in S /\ token[t].status = "fresh"
                   THEN "revoked" ELSE token[t].status
BY DEF TokensWithout, TokenRow

\* Revoking links closes the open ones of a purpose and changes nothing else about links.
LEMMA RevokedLinks ==
  ASSUME link \in [Link -> LinkRow], NEW k
  PROVE  /\ LinksWithout(k) \in [Link -> LinkRow]
         /\ \A l \in Link :
              /\ LinksWithout(k)[l].purpose = link[l].purpose
              /\ LinksWithout(k)[l].expires = link[l].expires
              /\ LinksWithout(k)[l].status =
                   IF link[l].status = "open" /\ link[l].purpose = k
                   THEN "revoked" ELSE link[l].status
BY DEF LinksWithout, LinkRow

-----------------------------------------------------------------------------
(* Types *)

\* The empty tables are of their types.
LEMMA InitType == Init => TypeOK
<1> SUFFICES ASSUME Init PROVE TypeOK
  OBVIOUS
<1> USE DEF Init
<1>1. cred \in Hash
  BY DEF Hash
<1>2. session \in [Session -> SessionRow] /\ token \in [Token -> TokenRow]
  BY DEF SessionRow, TokenRow
<1>3. link \in [Link -> LinkRow]
  BY DEF LinkRow
<1>4. QED BY <1>1, <1>2, <1>3 DEF TypeOK

\* What registration, login, rotation and mail insert are rows.
LEMMA NewRows ==
  ASSUME TypeOK
  PROVE  /\ NewSession \in SessionRow
         /\ \A s \in Session : NewToken(s) \in TokenRow
         /\ \A k \in {"verify_email", "recover_password"} : NewLink(k) \in LinkRow
         /\ \A p \in Password : NewHash(p) \in Hash
BY NumberAssumption
   DEF TypeOK, NewSession, NewToken, NewLink, NewHash, SessionRow, TokenRow, LinkRow, Hash

\* Revocation leaves rows.
LEMMA RevokeType ==
  ASSUME TypeOK, NEW S, Revoke(S)
  PROVE  session' \in [Session -> SessionRow] /\ token' \in [Token -> TokenRow]
BY RevokedSessions, RevokedTokens DEF TypeOK, Revoke

\* Logins and recoveries keep the types.
LEMMA AnonymousType ==
  ASSUME TypeOK, NEW r \in Request, Anonymous(r)
  PROVE  TypeOK'
<1> USE DEF TypeOK
<1>1. ASSUME NEW p \in Password, LoginVerify(r, p)
      PROVE  TypeOK'
  BY <1>1 DEF LoginVerify, LoginRequest
<1>2. CASE LoginVerifyAgain(r)
  <2>1. req[r] \in LoginRequest
    BY <1>2 DEF LoginVerifyAgain, RecoveryRequest, UserRequest
  <2>2. [[req[r] EXCEPT !.hash = cred] EXCEPT !.first = FALSE] \in LoginRequest
    BY <2>1 DEF LoginRequest
  <2>3. req' = [req EXCEPT ![r] = [[req[r] EXCEPT !.hash = cred] EXCEPT !.first = FALSE]]
    BY <1>2 DEF LoginVerifyAgain
  <2>4. QED BY <1>2, <2>2, <2>3 DEF LoginVerifyAgain
<1>3. ASSUME NEW s \in Session, NEW t \in Token, LoginCommit(r, s, t)
      PROVE  TypeOK'
  <2>1. req[r] \in LoginRequest
    BY <1>3 DEF LoginCommit, RecoveryRequest, UserRequest
  <2>2. session' \in [Session -> SessionRow] /\ token' \in [Token -> TokenRow]
    BY <1>3, NewRows, RevokedSessions, RevokedTokens DEF LoginCommit
  <2>3. cred' \in Hash /\ opened' \in [Session -> Password \cup {None}]
    BY <1>3, <2>1, NewRows DEF LoginCommit, LoginRequest
  <2>4. QED BY <1>3, <2>2, <2>3 DEF LoginCommit
<1>4. ASSUME NEW l \in Link, NEW p \in Password, RecoveryHash(r, l, p)
      PROVE  TypeOK'
  BY <1>4 DEF RecoveryHash, RecoveryRequest
<1>5. CASE RecoveryCommit(r)
  <2>1. req[r] \in RecoveryRequest
    BY <1>5 DEF RecoveryCommit, LoginRequest, UserRequest
  <2>2. session' \in [Session -> SessionRow] /\ token' \in [Token -> TokenRow]
    BY <1>5, RevokeType DEF RecoveryCommit
  <2>3. link' \in [Link -> LinkRow]
    <3> DEFINE l == req[r].link
               kept == LinksWithout("recover_password")
    <3>1. kept \in [Link -> LinkRow]
      BY RevokedLinks
    <3>2. link' = [kept EXCEPT ![l].status = "used"]
      BY <1>5 DEF RecoveryCommit
    <3>3. QED
      <4> HIDE DEF kept, l
      <4> QED BY <3>1, <3>2 DEF LinkRow
  <2>4. cred' \in Hash
    BY <1>5, <2>1, NewRows DEF RecoveryCommit, RecoveryRequest
  <2>5. QED BY <1>5, <2>2, <2>3, <2>4 DEF RecoveryCommit
<1>6. CASE Abandon(r)
  BY <1>6 DEF Abandon
<1>7. QED BY <1>1, <1>2, <1>3, <1>4, <1>5, <1>6 DEF Anonymous

\* Requests of a session keep the types.
LEMMA AuthenticatedType ==
  ASSUME TypeOK, NEW r \in Request, Authenticated(r)
  PROVE  TypeOK'
<1> USE DEF TypeOK
<1>1. ASSUME NEW s \in Session, Authenticate(r, s)
      PROVE  TypeOK'
  BY <1>1 DEF Authenticate, UserRequest
<1>2. ASSUME NEW s \in Session, RevokeOne(r, s)
      PROVE  TypeOK'
  BY <1>2, RevokeType DEF RevokeOne
<1>3. CASE LogoutAll(r)
  BY <1>3, RevokeType DEF LogoutAll
<1>4. ASSUME NEW l \in Link, RequestVerification(r, l)
      PROVE  TypeOK'
  BY <1>4, RevokedLinks, NewRows DEF RequestVerification, Replace
<1>5. QED BY <1>1, <1>2, <1>3, <1>4 DEF Authenticated

\* Requests of one transaction keep the types.
LEMMA OneStepType ==
  ASSUME TypeOK, OneStep
  PROVE  TypeOK'
<1> USE DEF TypeOK
<1>1. ASSUME NEW p \in Password, NEW s \in Session, NEW t \in Token, NEW l \in Link,
             Register(p, s, t, l)
      PROVE  TypeOK'
  <2>1. cred' \in Hash
    BY <1>1 DEF Register, Hash
  <2>2. QED BY <1>1, <2>1, NewRows DEF Register
<1>2. ASSUME NEW t \in Token, RefreshReused(t)
      PROVE  TypeOK'
  BY <1>2, RevokeType DEF RefreshReused
<1>3. ASSUME NEW t \in Token, NEW fresh \in Token, RefreshRotate(t, fresh)
      PROVE  TypeOK'
  <2> DEFINE s == token[t].session
             more == [token EXCEPT ![fresh] = NewToken(s)]
  <2>1. s \in Session \cup {None} /\ now \in Nat
    BY DEF TokenRow
  <2>2. more \in [Token -> TokenRow]
    BY <2>1 DEF NewToken, TokenRow
  <2>3. token' = [more EXCEPT ![t].status = "used"]
    BY <1>3 DEF RefreshRotate
  <2>4. token' \in [Token -> TokenRow]
    <3> HIDE DEF more
    <3> QED BY <2>2, <2>3 DEF TokenRow
  <2>5. session' \in [Session -> SessionRow]
    BY <1>3, <2>1 DEF RefreshRotate, SessionRow
  <2>6. QED BY <1>3, <2>4, <2>5 DEF RefreshRotate
<1>4. ASSUME NEW t \in Token, LogoutByRefresh(t)
      PROVE  TypeOK'
  BY <1>4, RevokeType DEF LogoutByRefresh
<1>5. ASSUME NEW l \in Link, CompleteVerification(l)
      PROVE  TypeOK'
  <2>1. link' \in [Link -> LinkRow]
    BY <1>5, RevokedLinks DEF CompleteVerification, LinkRow
  <2>2. QED BY <1>5, <2>1 DEF CompleteVerification
<1>6. ASSUME NEW l \in Link, RequestRecovery(l)
      PROVE  TypeOK'
  BY <1>6, RevokedLinks, NewRows DEF RequestRecovery, Replace
<1>7. QED BY <1>1, <1>2, <1>3, <1>4, <1>5, <1>6 DEF OneStep

\* Worker, administration and time keep the types.
LEMMA SurroundingsType ==
  ASSUME TypeOK, Surroundings
  PROVE  TypeOK'
<1> USE DEF TypeOK
<1>1. ASSUME NEW s \in Session, PurgeSession(s)
      PROVE  TypeOK'
  <2>1. session' \in [Session -> SessionRow]
    BY <1>1 DEF PurgeSession, SessionRow
  <2>2. token' \in [Token -> TokenRow]
    BY <1>1 DEF PurgeSession, TokenRow
  <2>3. QED BY <1>1, <2>1, <2>2 DEF PurgeSession
<1>2. ASSUME NEW l \in Link, PurgeLink(l)
      PROVE  TypeOK'
  BY <1>2 DEF PurgeLink, LinkRow
<1>3. CASE Disable
  BY <1>3 DEF Disable
<1>4. CASE Tick
  BY <1>4 DEF Tick
<1>5. QED BY <1>1, <1>2, <1>3, <1>4 DEF Surroundings

\* Every step keeps the types.
LEMMA NextType == TypeOK /\ [Next]_vars => TypeOK'
<1> SUFFICES ASSUME TypeOK, [Next]_vars PROVE TypeOK'
  OBVIOUS
<1>1. CASE UNCHANGED vars
  BY <1>1 DEF vars, TypeOK
<1>2. QED BY <1>1, AnonymousType, AuthenticatedType, OneStepType, SurroundingsType DEF Next

\* Every reachable state has the types of its tables and requests.
THEOREM TypeCorrect == Spec => []TypeOK
<1>1. QED BY InitType, NextType, PTL DEF Spec

-----------------------------------------------------------------------------
(* The inductive invariant *)

\* Before the registration there is nothing.
NothingBefore ==
  ~Registered => /\ \A s \in Session : session[s].status # "open"
                 /\ \A l \in Link : link[l].status # "open"
                 /\ \A r \in Request : req[r] = None

\* A login carries a hash its password fits, a recovery a link for recoveries.
RequestsKnow ==
  \A r \in Request : req[r] # None =>
    /\ req[r].op = "login" => req[r].hash.password = req[r].password
    /\ req[r].op = "recovery" =>
         link[req[r].link].purpose = "recover_password" /\ link[req[r].link].status # "none"

PasswordInv ==
  TypeOK /\ NothingBefore /\ RequestsKnow /\ SessionsKnowPassword /\ OneOpenLink

\* Before the registration the invariant holds.
LEMMA InitPassword == Init => PasswordInv
BY InitType
   DEF Init, PasswordInv, NothingBefore, RequestsKnow, SessionsKnowPassword, OneOpenLink

\* What kind of request an open request is.
LEMMA RequestKinds ==
  ASSUME TypeOK, NEW r \in Request, req[r] # None
  PROVE  /\ req[r].op = "login" => req[r] \in LoginRequest
         /\ req[r].op = "recovery" => req[r] \in RecoveryRequest
BY DEF TypeOK, LoginRequest, RecoveryRequest, UserRequest

-----------------------------------------------------------------------------
(* What steps do to the password, the sessions and the links *)

SamePassword == cred'.password = cred.password
NoneOpens == \A s \in Session :
  session'[s].status = "open" => session[s].status = "open" /\ opened'[s] = opened[s]
NoLinkOpens == \A l \in Link : link'[l].status = "open" => link[l].status = "open"

\* No used-up link comes back, and no link changes its purpose.
LinksStay == \A l \in Link : link[l].status # "none" =>
  link'[l].status # "none" /\ link'[l].purpose = link[l].purpose

\* The mail with a new link: earlier links of its purpose are revoked.
Mailed(l, k) ==
  /\ Registered
  /\ link' = [LinksWithout(k) EXCEPT ![l] = NewLink(k)] /\ link[l].status = "none"

\* The password becomes another one, by a link that is used up, and every session ends.
Recovered(l, p) ==
  /\ Registered /\ p \in Password /\ cred'.password = p
  /\ link[l].purpose = "recover_password" /\ link[l].status = "open" /\ link'[l].status = "used"
  /\ \A s \in Session : session'[s].status # "open"

\* A session opens with the password of the account.
Opens(s) ==
  /\ Registered /\ SamePassword
  /\ opened' = [opened EXCEPT ![s] = cred.password]
  /\ \A k \in Session \ {s} : session'[k].status = "open" => session[k].status = "open"

\* Revocation opens no session.
LEMMA RevokeOpensNone ==
  ASSUME TypeOK, NEW S, Revoke(S), opened' = opened
  PROVE  NoneOpens
BY RevokedSessions DEF TypeOK, Revoke, NoneOpens

\* Every step keeps password and sessions, or opens a session, or is a recovery, or registers.
LEMMA PasswordSteps ==
  ASSUME PasswordInv, [Next]_vars
  PROVE  \/ SamePassword /\ NoneOpens
         \/ \E s \in Session : Opens(s)
         \/ \E l \in Link, p \in Password : Recovered(l, p)
         \/ \E p \in Password, s \in Session, t \in Token, l \in Link : Register(p, s, t, l)
<1>0. TypeOK /\ RequestsKnow /\ NothingBefore
  BY DEF PasswordInv
<1>1. ASSUME UNCHANGED <<cred, session, opened>>
      PROVE  SamePassword /\ NoneOpens
  BY <1>1 DEF SamePassword, NoneOpens
<1>2. ASSUME NEW S, Revoke(S), UNCHANGED <<cred, opened>>
      PROVE  SamePassword /\ NoneOpens
  BY <1>0, <1>2, RevokeOpensNone DEF SamePassword
<1>3. ASSUME NEW r \in Request, NEW s \in Session, NEW t \in Token, LoginCommit(r, s, t)
      PROVE  Opens(s)
  <2>1. req[r] # None /\ req[r] \in LoginRequest /\ req[r].op = "login" /\ cred = req[r].hash
    BY <1>0, <1>3, RequestKinds DEF LoginCommit, Verified
  <2>2. req[r].password = cred.password /\ cred.password \in Password
    BY <1>0, <2>1 DEF RequestsKnow, LoginRequest
  <2>3. Registered
    BY <1>0, <2>1 DEF NothingBefore
  <2>4. SamePassword
    BY <1>3, <2>2 DEF LoginCommit, NewHash, SamePassword
  <2>5. opened' = [opened EXCEPT ![s] = cred.password]
    BY <1>3, <2>2 DEF LoginCommit
  <2>6. \A k \in Session \ {s} : session'[k].status = "open" => session[k].status = "open"
    BY <1>0, <1>3, RevokedSessions DEF LoginCommit, TypeOK
  <2>7. QED BY <2>3, <2>4, <2>5, <2>6 DEF Opens
<1>4. ASSUME NEW r \in Request, RecoveryCommit(r)
      PROVE  \E l \in Link, p \in Password : Recovered(l, p)
  <2> DEFINE l == req[r].link
             p == req[r].password
  <2>1. req[r] # None /\ req[r] \in RecoveryRequest /\ req[r].op = "recovery"
    BY <1>0, <1>4, RequestKinds DEF RecoveryCommit
  <2>2. l \in Link /\ p \in Password /\ link[l].purpose = "recover_password"
    BY <1>0, <2>1 DEF RequestsKnow, RecoveryRequest
  <2>3. Registered /\ link[l].status = "open"
    BY <1>0, <1>4, <2>1 DEF NothingBefore, RecoveryCommit, Usable
  <2>4. cred'.password = p
    BY <1>4 DEF RecoveryCommit, NewHash
  <2>5. link'[l].status = "used"
    <3> DEFINE kept == LinksWithout("recover_password")
    <3>1. kept \in [Link -> LinkRow] /\ link' = [kept EXCEPT ![l].status = "used"]
      BY <1>0, <1>4, RevokedLinks DEF RecoveryCommit, TypeOK
    <3> HIDE DEF kept
    <3>2. QED BY <2>2, <3>1 DEF LinkRow
  <2>6. \A s \in Session : session'[s].status # "open"
    BY <1>0, <1>4, RevokedSessions DEF RecoveryCommit, Revoke, Ended, TypeOK
  <2>7. QED BY <2>2, <2>3, <2>4, <2>5, <2>6 DEF Recovered
<1>5. ASSUME NEW s \in Session, PurgeSession(s)
      PROVE  SamePassword /\ NoneOpens
  BY <1>0, <1>5 DEF PurgeSession, SamePassword, NoneOpens, TypeOK, SessionRow
<1>6. ASSUME NEW t \in Token, NEW fresh \in Token, RefreshRotate(t, fresh)
      PROVE  SamePassword /\ NoneOpens
  BY <1>0, <1>6 DEF RefreshRotate, SamePassword, NoneOpens, TypeOK, SessionRow
<1>7. ASSUME NEW r \in Request, Anonymous(r)
      PROVE  \/ SamePassword /\ NoneOpens
             \/ \E s \in Session : Opens(s)
             \/ \E l \in Link, p \in Password : Recovered(l, p)
  BY <1>1, <1>3, <1>4, <1>7 DEF Anonymous, LoginVerify, LoginVerifyAgain, RecoveryHash, Abandon
<1>8. ASSUME NEW r \in Request, Authenticated(r)
      PROVE  SamePassword /\ NoneOpens
  BY <1>1, <1>2, <1>8 DEF Authenticated, Authenticate, RevokeOne, LogoutAll, RequestVerification
<1>9. CASE OneStep
  BY <1>1, <1>2, <1>6, <1>9
     DEF OneStep, RefreshReused, LogoutByRefresh, CompleteVerification, RequestRecovery
<1>10. CASE Surroundings
  BY <1>1, <1>5, <1>10 DEF Surroundings, PurgeLink, Disable, Tick
<1>11. CASE UNCHANGED vars
  BY <1>1, <1>11 DEF vars
<1>12. QED BY <1>7, <1>8, <1>9, <1>10, <1>11 DEF Next

\* Every step keeps the links, closes some, mails one, or registers.
LEMMA LinkSteps ==
  ASSUME PasswordInv, [Next]_vars
  PROVE  \/ NoLinkOpens /\ LinksStay
         \/ \E l \in Link, k \in {"verify_email", "recover_password"} : Mailed(l, k)
         \/ \E p \in Password, s \in Session, t \in Token, l \in Link : Register(p, s, t, l)
<1>0. TypeOK /\ NothingBefore
  BY DEF PasswordInv
<1>1. ASSUME link' = link
      PROVE  NoLinkOpens /\ LinksStay
  BY <1>1 DEF NoLinkOpens, LinksStay
<1>2. ASSUME NEW l \in Link, NEW k \in {"verify_email", "recover_password"},
             link' = [LinksWithout(k) EXCEPT ![l].status = "used"]
      PROVE  NoLinkOpens /\ LinksStay
  <2> DEFINE kept == LinksWithout(k)
  <2>1. /\ kept \in [Link -> LinkRow]
        /\ \A m \in Link :
             /\ kept[m].purpose = link[m].purpose
             /\ kept[m].status = "open" => link[m].status = "open"
             /\ kept[m].status = "none" => link[m].status = "none"
    BY <1>0, RevokedLinks DEF TypeOK
  <2>2. link' = [kept EXCEPT ![l].status = "used"]
    BY <1>2
  <2> HIDE DEF kept
  <2>3. QED BY <2>1, <2>2 DEF NoLinkOpens, LinksStay, LinkRow
<1>3. ASSUME NEW l \in Link, PurgeLink(l)
      PROVE  NoLinkOpens /\ LinksStay
  BY <1>0, <1>3 DEF PurgeLink, NoLinkOpens, LinksStay, TypeOK, LinkRow
<1>4. ASSUME NEW r \in Request, NEW l \in Link, RequestVerification(r, l)
      PROVE  Mailed(l, "verify_email")
  BY <1>0, <1>4 DEF RequestVerification, Replace, Mailed, NothingBefore
<1>5. ASSUME NEW l \in Link, RequestRecovery(l)
      PROVE  Mailed(l, "recover_password")
  BY <1>5 DEF RequestRecovery, Replace, Mailed
<1>6. ASSUME NEW r \in Request, RecoveryCommit(r)
      PROVE  NoLinkOpens /\ LinksStay
  <2>1. req[r].link \in Link
    BY <1>0, <1>6, RequestKinds DEF RecoveryCommit, RecoveryRequest
  <2>2. QED BY <1>2, <1>6, <2>1 DEF RecoveryCommit
<1>7. ASSUME NEW r \in Request, Anonymous(r)
      PROVE  NoLinkOpens /\ LinksStay
  BY <1>1, <1>6, <1>7
     DEF Anonymous, LoginVerify, LoginVerifyAgain, LoginCommit, RecoveryHash, Abandon
<1>8. ASSUME NEW r \in Request, Authenticated(r)
      PROVE  \/ NoLinkOpens /\ LinksStay
             \/ \E l \in Link : Mailed(l, "verify_email")
  BY <1>1, <1>4, <1>8 DEF Authenticated, Authenticate, RevokeOne, LogoutAll
<1>9. ASSUME NEW l \in Link, CompleteVerification(l)
      PROVE  NoLinkOpens /\ LinksStay
  BY <1>2, <1>9 DEF CompleteVerification
<1>10. CASE OneStep
  BY <1>1, <1>5, <1>9, <1>10 DEF OneStep, RefreshReused, RefreshRotate, LogoutByRefresh
<1>11. CASE Surroundings
  BY <1>1, <1>3, <1>11 DEF Surroundings, PurgeSession, Disable, Tick
<1>12. CASE UNCHANGED vars
  BY <1>1, <1>12 DEF vars
<1>13. QED BY <1>7, <1>8, <1>10, <1>11, <1>12 DEF Next

\* Links stay in every step: new ones take ids that were never used.
LEMMA LinksAlwaysStay ==
  ASSUME PasswordInv, [Next]_vars
  PROVE  LinksStay
<1>0. TypeOK
  BY DEF PasswordInv
<1>1. ASSUME NEW l \in Link, NEW k \in {"verify_email", "recover_password"}, Mailed(l, k)
      PROVE  LinksStay
  <2> DEFINE kept == LinksWithout(k)
  <2>1. /\ kept \in [Link -> LinkRow]
        /\ \A m \in Link : /\ kept[m].purpose = link[m].purpose
                           /\ kept[m].status = "none" => link[m].status = "none"
    BY <1>0, RevokedLinks DEF TypeOK
  <2>2. link' = [kept EXCEPT ![l] = NewLink(k)] /\ link[l].status = "none"
    BY <1>1 DEF Mailed
  <2>3. NewLink(k).status # "none"
    BY DEF NewLink
  <2> HIDE DEF kept
  <2>4. \A m \in Link : link'[m] = IF m = l THEN NewLink(k) ELSE kept[m]
    BY <2>1, <2>2
  <2>5. QED BY <2>1, <2>2, <2>3, <2>4 DEF LinksStay
<1>2. ASSUME NEW p \in Password, NEW s \in Session, NEW t \in Token, NEW l \in Link,
             Register(p, s, t, l)
      PROVE  LinksStay
  BY <1>0, <1>2 DEF Register, LinksStay, TypeOK
<1>3. QED BY <1>1, <1>2, LinkSteps

-----------------------------------------------------------------------------
(* Each part of the invariant *)

\* Once registered, always registered.
LEMMA RegisteredStays ==
  ASSUME PasswordInv, [Next]_vars, Registered
  PROVE  Registered'
<1>1. None \notin Password
  BY NoneAssumption
<1>2. ASSUME NEW p \in Password, NEW s \in Session, NEW t \in Token, NEW l \in Link
      PROVE  ~Register(p, s, t, l)
  BY DEF Register
<1>3. QED BY <1>1, <1>2, PasswordSteps DEF Registered, SamePassword, Opens, Recovered

\* Every step before the registration leaves nothing open, and none undoes it.
LEMMA NextNothing ==
  ASSUME PasswordInv, [Next]_vars
  PROVE  NothingBefore'
<1>0. TypeOK /\ NothingBefore /\ None \notin Password
  BY NoneAssumption DEF PasswordInv
<1> SUFFICES ASSUME ~Registered' PROVE NothingBefore'
  BY DEF NothingBefore
<1>1. ~Registered
  BY RegisteredStays
<1>2. ASSUME NEW p \in Password, NEW s \in Session, NEW t \in Token, NEW l \in Link,
             Register(p, s, t, l)
      PROVE  FALSE
  BY <1>0, <1>2 DEF Register, Registered
<1>3. NoneOpens
  BY <1>1, <1>2, PasswordSteps DEF Opens, Recovered
<1>4. NoLinkOpens
  BY <1>1, <1>2, LinkSteps DEF Mailed
<1>5. ~OneStep => req' = req
  <2>1. ASSUME NEW r \in Request, Anonymous(r) \/ Authenticated(r)
        PROVE  req' = req
    <3>1. req[r] = None
      BY <1>0, <1>1 DEF NothingBefore
    <3>2. \A s \in Session : ~Active(s)
      BY <1>0, <1>1 DEF NothingBefore, Active
    <3>3. \A l \in Link : ~Usable(l)
      BY <1>0, <1>1 DEF NothingBefore, Usable
    <3>4. QED BY <1>1, <2>1, <3>1, <3>2, <3>3
            DEF Anonymous, LoginVerify, LoginVerifyAgain, LoginCommit, RecoveryHash,
                RecoveryCommit, Abandon, Authenticated, Authenticate, RevokeOne, LogoutAll,
                RequestVerification
  <2>2. CASE Surroundings
    BY <2>2 DEF Surroundings, PurgeSession, PurgeLink, Disable, Tick
  <2>3. QED BY <2>1, <2>2 DEF Next, vars
<1>6. OneStep => req' = req
  BY DEF OneStep, Register, RefreshReused, RefreshRotate, LogoutByRefresh, CompleteVerification,
         RequestRecovery
<1>7. QED BY <1>0, <1>1, <1>3, <1>4, <1>5, <1>6 DEF NothingBefore, NoneOpens, NoLinkOpens

\* Every step leaves what logins and recoveries carry right.
LEMMA NextRequests ==
  ASSUME PasswordInv, [Next]_vars
  PROVE  RequestsKnow'
<1> DEFINE Good(q, lk) ==
      q # None => /\ q.op = "login" => q.hash.password = q.password
                  /\ q.op = "recovery" =>
                       lk[q.link].purpose = "recover_password" /\ lk[q.link].status # "none"
<1>0. TypeOK /\ RequestsKnow /\ LinksStay
  BY LinksAlwaysStay DEF PasswordInv
<1>1. ASSUME NEW q \in Request, req'[q] = req[q]
      PROVE  Good(req'[q], link')
  <2>1. req[q] # None /\ req[q].op = "recovery" => req[q].link \in Link
    BY <1>0, RequestKinds DEF RecoveryRequest
  <2>2. QED BY <1>0, <1>1, <2>1 DEF RequestsKnow, LinksStay
<1>2. ASSUME NEW r \in Request, NEW v, req' = [req EXCEPT ![r] = v], Good(v, link')
      PROVE  RequestsKnow'
  <2>1. \A q \in Request : Good(req'[q], link')
    BY <1>0, <1>1, <1>2 DEF TypeOK
  <2>2. QED BY <2>1 DEF RequestsKnow
<1>3. ASSUME req' = req
      PROVE  RequestsKnow'
  BY <1>1, <1>3 DEF RequestsKnow
<1>4. ASSUME NEW r \in Request, req' = [req EXCEPT ![r] = None]
      PROVE  RequestsKnow'
  BY <1>2, <1>4
<1>5. ASSUME NEW r \in Request, NEW p \in Password, LoginVerify(r, p)
      PROVE  RequestsKnow'
  <2> DEFINE v == [op |-> "login", password |-> p, hash |-> cred, first |-> TRUE]
  <2>1. Good(v, link') /\ req' = [req EXCEPT ![r] = v]
    BY <1>5 DEF LoginVerify
  <2> HIDE DEF v
  <2>2. QED BY <1>2, <2>1
<1>6. ASSUME NEW r \in Request, LoginVerifyAgain(r)
      PROVE  RequestsKnow'
  <2> DEFINE v == [[req[r] EXCEPT !.hash = cred] EXCEPT !.first = FALSE]
  <2>1. req[r] \in LoginRequest /\ cred.password = req[r].password
    BY <1>0, <1>6, RequestKinds DEF LoginVerifyAgain
  <2>2. Good(v, link')
    BY <2>1 DEF LoginRequest
  <2>3. req' = [req EXCEPT ![r] = v]
    BY <1>6 DEF LoginVerifyAgain
  <2> HIDE DEF v
  <2>4. QED BY <1>2, <2>2, <2>3
<1>7. ASSUME NEW r \in Request, NEW l \in Link, NEW p \in Password, RecoveryHash(r, l, p)
      PROVE  RequestsKnow'
  <2> DEFINE v == [op |-> "recovery", link |-> l, password |-> p]
  <2>1. Good(v, link') /\ req' = [req EXCEPT ![r] = v]
    BY <1>7 DEF RecoveryHash, Usable
  <2> HIDE DEF v
  <2>2. QED BY <1>2, <2>1
<1>8. ASSUME NEW r \in Request, NEW s \in Session, Authenticate(r, s)
      PROVE  RequestsKnow'
  <2> DEFINE v == [op |-> "user", session |-> s]
  <2>1. Good(v, link') /\ req' = [req EXCEPT ![r] = v]
    BY <1>8 DEF Authenticate
  <2> HIDE DEF v
  <2>2. QED BY <1>2, <2>1
<1>9. ASSUME NEW r \in Request, Anonymous(r)
      PROVE  RequestsKnow'
  BY <1>4, <1>5, <1>6, <1>7, <1>9 DEF Anonymous, LoginCommit, RecoveryCommit, Abandon
<1>10. ASSUME NEW r \in Request, Authenticated(r)
       PROVE  RequestsKnow'
  BY <1>4, <1>8, <1>10 DEF Authenticated, RevokeOne, LogoutAll, RequestVerification
<1>11. CASE OneStep
  BY <1>3, <1>11 DEF OneStep, Register, RefreshReused, RefreshRotate, LogoutByRefresh,
                     CompleteVerification, RequestRecovery
<1>12. CASE Surroundings
  BY <1>3, <1>12 DEF Surroundings, PurgeSession, PurgeLink, Disable, Tick
<1>13. CASE UNCHANGED vars
  BY <1>3, <1>13 DEF vars
<1>14. QED BY <1>9, <1>10, <1>11, <1>12, <1>13 DEF Next

\* A session that is open was opened with the password of the account: a login opens one only
\* with the hash it verified, and a recovery leaves none.
LEMMA NextKnow ==
  ASSUME PasswordInv, [Next]_vars
  PROVE  SessionsKnowPassword'
<1>0. TypeOK /\ NothingBefore /\ SessionsKnowPassword
  BY DEF PasswordInv
<1>1. CASE SamePassword /\ NoneOpens
  BY <1>0, <1>1 DEF SamePassword, NoneOpens, SessionsKnowPassword
<1>2. ASSUME NEW s \in Session, Opens(s)
      PROVE  SessionsKnowPassword'
  BY <1>0, <1>2 DEF Opens, SamePassword, SessionsKnowPassword, TypeOK
<1>3. ASSUME NEW l \in Link, NEW p \in Password, Recovered(l, p)
      PROVE  SessionsKnowPassword'
  BY <1>3 DEF Recovered, SessionsKnowPassword
<1>4. ASSUME NEW p \in Password, NEW s \in Session, NEW t \in Token, NEW l \in Link,
             Register(p, s, t, l)
      PROVE  SessionsKnowPassword'
  <2>1. \A k \in Session : session[k].status # "open"
    BY <1>0, <1>4 DEF Register, NothingBefore
  <2>2. QED BY <1>0, <1>4, <2>1 DEF Register, SessionsKnowPassword, TypeOK
<1>5. QED BY <1>1, <1>2, <1>3, <1>4, PasswordSteps

\* A new link closes the earlier one of its purpose, and no step reopens one.
LEMMA NextOneLink ==
  ASSUME PasswordInv, [Next]_vars
  PROVE  OneOpenLink'
<1>0. TypeOK /\ NothingBefore /\ OneOpenLink /\ LinksStay
  BY LinksAlwaysStay DEF PasswordInv
<1>1. CASE NoLinkOpens
  BY <1>0, <1>1 DEF NoLinkOpens, LinksStay, OneOpenLink
<1>2. ASSUME NEW l \in Link, NEW k \in {"verify_email", "recover_password"}, Mailed(l, k)
      PROVE  OneOpenLink'
  <2> DEFINE kept == LinksWithout(k)
  <2>1. /\ kept \in [Link -> LinkRow]
        /\ \A m \in Link : /\ kept[m].purpose = link[m].purpose
                           /\ kept[m].status = "open" =>
                                link[m].status = "open" /\ link[m].purpose # k
    BY <1>0, RevokedLinks DEF TypeOK
  <2>2. link' = [kept EXCEPT ![l] = NewLink(k)]
    BY <1>2 DEF Mailed
  <2>3. NewLink(k).purpose = k
    BY DEF NewLink
  <2> HIDE DEF kept
  <2>4. \A m \in Link : link'[m] = IF m = l THEN NewLink(k) ELSE kept[m]
    BY <2>1, <2>2
  <2>5. \A m \in Link : link'[m].status = "open" =>
          m = l \/ (link[m].status = "open" /\ link'[m].purpose = link[m].purpose
                     /\ link'[m].purpose # k)
    BY <2>1, <2>4
  <2>6. link'[l].purpose = k
    BY <2>3, <2>4
  <2>7. QED BY <1>0, <2>5, <2>6 DEF OneOpenLink
<1>3. ASSUME NEW p \in Password, NEW s \in Session, NEW t \in Token, NEW l \in Link,
             Register(p, s, t, l)
      PROVE  OneOpenLink'
  <2>1. \A m \in Link : link[m].status # "open"
    BY <1>0, <1>3 DEF Register, NothingBefore
  <2>2. QED BY <1>0, <1>3, <2>1 DEF Register, OneOpenLink, TypeOK
<1>4. QED BY <1>1, <1>2, <1>3, LinkSteps

\* The invariant is inductive.
LEMMA NextPassword == PasswordInv /\ [Next]_vars => PasswordInv'
<1> SUFFICES ASSUME PasswordInv, [Next]_vars PROVE PasswordInv'
  OBVIOUS
<1>1. TypeOK'
  BY NextType DEF PasswordInv
<1>2. QED BY <1>1, NextNothing, NextRequests, NextKnow, NextOneLink DEF PasswordInv

\* The invariant holds in every reachable state.
LEMMA PasswordInvariance == Spec => []PasswordInv
BY InitPassword, NextPassword, PTL DEF Spec

-----------------------------------------------------------------------------
(* Theorems *)

\* Every open session was opened with the password the account has now (login() against
\* complete_password_recovery()).
THEOREM PasswordKnown == Spec => []SessionsKnowPassword
<1>1. PasswordInv => SessionsKnowPassword
  BY DEF PasswordInv
<1>2. QED BY <1>1, PasswordInvariance, PTL

\* At most one link of each purpose is open (replace_email_action()).
THEOREM OneLink == Spec => []OneOpenLink
<1>1. PasswordInv => OneOpenLink
  BY DEF PasswordInv
<1>2. QED BY <1>1, PasswordInvariance, PTL

\* What PasswordOnlyByLink says of one step.
ChangedByLink ==
  Registered /\ cred'.password # cred.password =>
    \E l \in Link : /\ link[l].purpose = "recover_password"
                    /\ link[l].status = "open" /\ link'[l].status = "used"

\* Only a recovery link that is open until then and used up by it changes the password.
THEOREM PasswordByLink == Spec => PasswordOnlyByLink
<1>1. PasswordInv /\ [Next]_vars => ChangedByLink
  <2> SUFFICES ASSUME PasswordInv, [Next]_vars, Registered, cred'.password # cred.password
               PROVE  \E l \in Link : /\ link[l].purpose = "recover_password"
                                      /\ link[l].status = "open" /\ link'[l].status = "used"
    BY DEF ChangedByLink
  <2>1. PICK l \in Link, p \in Password : Recovered(l, p)
    BY PasswordSteps DEF SamePassword, Opens, Register
  <2>2. QED BY <2>1 DEF Recovered
<1>2. PasswordOnlyByLink <=> [][ChangedByLink]_vars
  BY PTL DEF PasswordOnlyByLink, ChangedByLink
<1>3. QED BY <1>1, <1>2, PasswordInvariance, PTL DEF Spec

-----------------------------------------------------------------------------
(* Refresh tokens, the number of rows, the cap on sessions: the invariant *)

Fresh(t) == token[t].status = "fresh"
Family(s) == {t \in Token : token[t].session = s}

\* An unused id belongs to no session, a session with an unused id has no tokens.
TokenRows ==
  /\ \A t \in Token : token[t].status = "none" <=> token[t].session = None
  /\ \A s \in Session : session[s].status = "none" => Family(s) = {}

\* A fresh token belongs to an open session, which has one and only one.
FreshTokens ==
  /\ \A t \in Token : Fresh(t) => session[token[t].session].status = "open"
  /\ \A t, u \in Token : Fresh(t) /\ Fresh(u) /\ token[t].session = token[u].session => t = u
  /\ \A s \in Session : session[s].status = "open" =>
       \E t \in Token : Fresh(t) /\ token[t].session = s

\* Each token of a session after the first took an interval of its life.
RowsTakeTime ==
  \A s \in Session :
    /\ IsFiniteSet(Family(s))
    /\ session[s].status # "none" =>
         /\ session[s].created <= session[s].seen
         /\ session[s].seen < session[s].expires
         /\ session[s].expires = session[s].created + SessionLife
         /\ (Cardinality(Family(s)) - 1) * Interval <= session[s].seen - session[s].created

Capped ==
  /\ IsFiniteSet({s \in Session : Active(s)})
  /\ SessionCap

TokenInv == PasswordInv /\ TokenRows /\ FreshTokens /\ RowsTakeTime /\ Capped

-----------------------------------------------------------------------------
(* Arithmetic of the interval *)

\* Rounding up: as many intervals as tokens are allowed cover the life of a session.
LEMMA IntervalBound ==
  /\ Interval \in Nat \ {0}
  /\ SessionLife <= MaxRows * Interval
<1>1. SessionLife \in Nat \ {0} /\ MaxRows \in Nat \ {0} /\ MinInterval \in Nat
  BY NumberAssumption
<1>2. StorageBound \in Nat \ {0} /\ SessionLife <= MaxRows * StorageBound
  <2> DEFINE n == SessionLife + MaxRows - 1
             q == n \div MaxRows
  <2>1. n \in Nat /\ n >= MaxRows
    BY <1>1
  <2>2. q \in Int /\ MaxRows * q <= n /\ n < MaxRows * q + MaxRows
    BY <1>1, <2>1
  <2>3. MaxRows * q >= SessionLife
    BY <1>1, <2>2
  <2>4. q > 0
    BY <1>1, <2>2, <2>3
  <2>5. QED BY <2>2, <2>3, <2>4 DEF StorageBound
<1>3. CASE StorageBound > MinInterval
  BY <1>1, <1>2, <1>3 DEF Interval
<1>4. CASE ~(StorageBound > MinInterval)
  <2>1. Interval = MinInterval /\ StorageBound <= MinInterval
    BY <1>1, <1>2, <1>4 DEF Interval
  <2>2. MaxRows * StorageBound <= MaxRows * MinInterval
    BY <1>1, <1>2, <2>1
  <2>3. QED BY <1>1, <1>2, <2>1, <2>2
<1>5. QED BY <1>3, <1>4

\* What RowsTakeTime is for: fewer than MaxRows intervals fit into a session.
LEMMA IntervalsFit ==
  ASSUME NEW n \in Nat, (n - 1) * Interval < SessionLife
  PROVE  n <= MaxRows
<1>1. Interval \in Nat \ {0} /\ MaxRows \in Nat \ {0} /\ SessionLife \in Nat
  BY IntervalBound, NumberAssumption
<1>2. SUFFICES ASSUME n - 1 >= MaxRows PROVE FALSE
  BY <1>1
<1>3. (n - 1) * Interval >= MaxRows * Interval
  BY <1>1, <1>2
<1>4. QED BY <1>1, <1>3, IntervalBound

-----------------------------------------------------------------------------
(* What steps do to sessions and tokens *)

\* A session opens with its first token, and some active ones are revoked for it.
Opening(s, t, out) ==
  /\ session[s].status = "none" /\ token[t].status = "none"
  /\ out \in SUBSET {k \in Session : Active(k)}
  /\ session' = [SessionsWithout(out) EXCEPT ![s] = NewSession]
  /\ token' = [TokensWithout(out) EXCEPT ![t] = NewToken(s)]
  /\ now' = now

\* Every step keeps sessions and tokens, revokes some, opens one, rotates or purges.
LEMMA TokenSteps ==
  ASSUME TokenInv, [Next]_vars
  PROVE  \/ session' = session /\ token' = token /\ now' \in {now, now + 1}
         \/ now' = now /\ \E S \in SUBSET (Session \cup {None}) : Revoke(S)
         \/ \E s \in Session, t \in Token, out \in Oldest : Opening(s, t, out)
         \/ \E s \in Session, t \in Token :
              Opening(s, t, {}) /\ \A k \in Session : session[k].status # "open"
         \/ \E t, u \in Token : RefreshRotate(t, u)
         \/ \E s \in Session : PurgeSession(s)
<1>0. TypeOK /\ NothingBefore
  BY DEF TokenInv, PasswordInv
<1>1. ASSUME NEW p \in Password, NEW s \in Session, NEW t \in Token, NEW l \in Link,
             Register(p, s, t, l)
      PROVE  Opening(s, t, {}) /\ \A k \in Session : session[k].status # "open"
  <2>1. SessionsWithout({}) = session
    BY <1>0 DEF SessionsWithout, TypeOK
  <2>2. TokensWithout({}) = token
    BY <1>0 DEF TokensWithout, TypeOK
  <2>3. QED BY <1>0, <1>1, <2>1, <2>2 DEF Register, Opening, NothingBefore
<1>2. ASSUME NEW r \in Request, NEW s \in Session, NEW t \in Token, LoginCommit(r, s, t)
      PROVE  \E out \in Oldest : Opening(s, t, out)
  BY <1>2 DEF LoginCommit, Opening, Oldest
<1>3. ASSUME NEW r \in Request, Anonymous(r)
      PROVE  \/ session' = session /\ token' = token /\ now' = now
             \/ now' = now /\ Revoke(Ended)
             \/ \E s \in Session, t \in Token, out \in Oldest : Opening(s, t, out)
  BY <1>2, <1>3
     DEF Anonymous, LoginVerify, LoginVerifyAgain, RecoveryHash, RecoveryCommit, Abandon
<1>4. ASSUME NEW r \in Request, Authenticated(r)
      PROVE  \/ session' = session /\ token' = token /\ now' = now
             \/ now' = now /\ (Revoke(Ended) \/ \E s \in Session : Revoke({s}))
  BY <1>4 DEF Authenticated, Authenticate, RevokeOne, LogoutAll, RequestVerification
<1>5. \A t \in Token : {token[t].session} \in SUBSET (Session \cup {None})
  BY <1>0 DEF TypeOK, TokenRow
<1>6. Ended \in SUBSET (Session \cup {None})
  BY DEF Ended
<1>7. ASSUME OneStep
      PROVE  \/ session' = session /\ token' = token /\ now' = now
             \/ now' = now /\ \E t \in Token : Revoke({token[t].session})
             \/ \E s \in Session, t \in Token :
                  Opening(s, t, {}) /\ \A k \in Session : session[k].status # "open"
             \/ \E t, u \in Token : RefreshRotate(t, u)
  BY <1>1, <1>7 DEF OneStep, RefreshReused, LogoutByRefresh, CompleteVerification,
                    RequestRecovery
<1>8. CASE Surroundings
  BY <1>8 DEF Surroundings, PurgeLink, Disable, Tick
<1>9. CASE UNCHANGED vars
  BY <1>9 DEF vars
<1>10. QED BY <1>3, <1>4, <1>5, <1>6, <1>7, <1>8, <1>9 DEF Next

-----------------------------------------------------------------------------
(* The same row by row *)

SameTimes(s) ==
  /\ session'[s].created = session[s].created
  /\ session'[s].seen = session[s].seen
  /\ session'[s].expires = session[s].expires

Revocation(S) ==
  /\ \A s \in Session :
       /\ SameTimes(s)
       /\ session'[s].status =
            IF s \in S /\ session[s].status = "open" THEN "revoked" ELSE session[s].status
  /\ \A t \in Token :
       /\ token'[t].session = token[t].session
       /\ token'[t].status =
            IF token[t].session \in S /\ Fresh(t) THEN "revoked" ELSE token[t].status

\* A revocation, row by row.
LEMMA RevocationRows ==
  ASSUME TokenInv, NEW S, Revoke(S)
  PROVE  Revocation(S)
<1>0. session \in [Session -> SessionRow] /\ token \in [Token -> TokenRow]
  BY DEF TokenInv, PasswordInv, TypeOK
<1> DEFINE T == {s \in S : session[s].status = "open"}
<1>1. session' = SessionsWithout(S) /\ token' = TokensWithout(T)
  BY DEF Revoke
<1>2. \A t \in Token : Fresh(t) => (token[t].session \in T <=> token[t].session \in S)
  BY DEF TokenInv, FreshTokens
<1>3. \A s \in Session :
        /\ SameTimes(s)
        /\ session'[s].status =
             IF s \in S /\ session[s].status = "open" THEN "revoked" ELSE session[s].status
  BY <1>0, <1>1, RevokedSessions DEF SameTimes
<1>4. \A t \in Token :
        /\ token'[t].session = token[t].session
        /\ token'[t].status =
             IF token[t].session \in T /\ token[t].status = "fresh"
             THEN "revoked" ELSE token[t].status
  <2> HIDE DEF T
  <2> QED BY <1>0, <1>1, RevokedTokens
<1>5. QED BY <1>2, <1>3, <1>4 DEF Fresh, Revocation

\* Session s opens with token t, the sessions "out" are revoked with their tokens.
Opened(s, t, out) ==
  /\ session[s].status = "none" /\ token[t].status = "none" /\ s \notin out
  /\ \A k \in out : k \in Session /\ session[k].status = "open"
  /\ session'[s] = NewSession /\ token'[t] = NewToken(s)
  /\ \A k \in Session \ {s} :
       /\ SameTimes(k)
       /\ session'[k].status = IF k \in out THEN "revoked" ELSE session[k].status
  /\ \A u \in Token \ {t} :
       /\ token'[u].session = token[u].session
       /\ token'[u].status = IF token[u].session \in out /\ Fresh(u)
                             THEN "revoked" ELSE token[u].status

\* The opening of a session, row by row.
LEMMA OpeningRows ==
  ASSUME TokenInv, NEW s \in Session, NEW t \in Token, NEW out, Opening(s, t, out)
  PROVE  Opened(s, t, out)
<1>0. session \in [Session -> SessionRow] /\ token \in [Token -> TokenRow]
  BY DEF TokenInv, PasswordInv, TypeOK
<1> DEFINE ss == SessionsWithout(out)
           tt == TokensWithout(out)
<1>1. /\ ss \in [Session -> SessionRow]
      /\ \A k \in Session :
           /\ ss[k].status = IF k \in out THEN "revoked" ELSE session[k].status
           /\ ss[k].created = session[k].created
           /\ ss[k].seen = session[k].seen
           /\ ss[k].expires = session[k].expires
  BY <1>0, RevokedSessions DEF Opening, Active
<1>2. /\ tt \in [Token -> TokenRow]
      /\ \A u \in Token :
           /\ tt[u].session = token[u].session
           /\ tt[u].status = IF token[u].session \in out /\ Fresh(u)
                             THEN "revoked" ELSE token[u].status
  BY <1>0, RevokedTokens DEF Fresh
<1>3. session' = [ss EXCEPT ![s] = NewSession] /\ token' = [tt EXCEPT ![t] = NewToken(s)]
  BY DEF Opening
<1>4. /\ session[s].status = "none" /\ token[t].status = "none" /\ s \notin out
      /\ \A k \in out : k \in Session /\ session[k].status = "open"
  BY DEF Opening, Active
<1> HIDE DEF ss, tt
<1>5. QED BY <1>1, <1>2, <1>3, <1>4 DEF Opened, SameTimes

\* Token u replaces token t of the active session s.
Rotated(s, t, u) ==
  /\ s \in Session /\ session[s].status = "open" /\ now < session[s].expires
  /\ session[s].seen + Interval <= now
  /\ Fresh(t) /\ token[t].session = s /\ token[u].status = "none" /\ t # u
  /\ token'[t].status = "used" /\ token'[t].session = s
  /\ token'[u] = NewToken(s)
  /\ \A v \in Token \ {t, u} : token'[v] = token[v]
  /\ session'[s].status = "open" /\ session'[s].seen = now
  /\ session'[s].created = session[s].created /\ session'[s].expires = session[s].expires
  /\ \A k \in Session \ {s} : session'[k] = session[k]

\* A rotation, row by row.
LEMMA RotationRows ==
  ASSUME TokenInv, NEW t \in Token, NEW u \in Token, RefreshRotate(t, u)
  PROVE  Rotated(token[t].session, t, u)
<1> DEFINE s == token[t].session
           more == [token EXCEPT ![u] = NewToken(s)]
<1>0. session \in [Session -> SessionRow] /\ token \in [Token -> TokenRow]
  BY DEF TokenInv, PasswordInv, TypeOK
<1>1. /\ token[t].status = "fresh" /\ token[u].status = "none" /\ t # u
      /\ session[s].status = "open" /\ now < session[s].expires
      /\ session[s].seen + Interval <= now
  BY DEF RefreshRotate, Active
<1>2. s \in Session
  BY <1>0, <1>1 DEF TokenInv, TokenRows, TokenRow
<1>3. token' = [more EXCEPT ![t].status = "used"]
  BY DEF RefreshRotate
<1>4. more[t] = token[t] /\ \A v \in Token : v # t => more[v] = token'[v]
  BY <1>0, <1>1, <1>3
<1>5. token'[t] = [token[t] EXCEPT !.status = "used"]
  BY <1>0, <1>3, <1>4
<1>6. token'[t].status = "used" /\ token'[t].session = s
  BY <1>0, <1>5 DEF TokenRow
<1>7. token'[u] = NewToken(s) /\ \A v \in Token \ {t, u} : token'[v] = token[v]
  BY <1>0, <1>1, <1>4
<1>8. session' = [session EXCEPT ![s] = [session[s] EXCEPT !.seen = now]]
  BY DEF RefreshRotate
<1>9. /\ session'[s].status = "open" /\ session'[s].seen = now
      /\ session'[s].created = session[s].created /\ session'[s].expires = session[s].expires
      /\ \A k \in Session \ {s} : session'[k] = session[k]
  BY <1>0, <1>1, <1>2, <1>8 DEF SessionRow
<1>10. QED BY <1>1, <1>2, <1>6, <1>7, <1>9 DEF Rotated, Fresh

\* The rows of a dead session are deleted.
Purged(s) ==
  /\ session[s].status # "none" /\ session'[s].status = "purged"
  /\ \A k \in Session : SameTimes(k)
  /\ \A k \in Session \ {s} : session'[k].status = session[k].status
  /\ \A t \in Token :
       /\ token'[t].session = token[t].session
       /\ token'[t].status = IF token[t].session = s THEN "purged" ELSE token[t].status

\* The purge of a session, row by row.
LEMMA PurgeRows ==
  ASSUME TokenInv, NEW s \in Session, PurgeSession(s)
  PROVE  Purged(s)
BY DEF TokenInv, PasswordInv, TypeOK, PurgeSession, SessionRow, TokenRow, Purged, SameTimes

\* Every step is one of these.
LEMMA RowSteps ==
  ASSUME TokenInv, [Next]_vars
  PROVE  \/ session' = session /\ token' = token /\ now' \in {now, now + 1}
         \/ \E S \in SUBSET (Session \cup {None}) : Revocation(S) /\ now' = now
         \/ \E s \in Session, t \in Token, out \in Oldest : Opened(s, t, out) /\ now' = now
         \/ \E s \in Session, t \in Token :
              Opened(s, t, {}) /\ now' = now /\ \A k \in Session : session[k].status # "open"
         \/ \E s \in Session, t, u \in Token : Rotated(s, t, u) /\ now' = now
         \/ \E s \in Session : Purged(s) /\ now' = now
<1>1. ASSUME NEW s \in Session, NEW t \in Token, NEW out, Opening(s, t, out)
      PROVE  Opened(s, t, out) /\ now' = now
  <2>1. now' = now
    BY <1>1 DEF Opening
  <2>2. QED BY <1>1, <2>1, OpeningRows
<1>2. ASSUME NEW t \in Token, NEW u \in Token, RefreshRotate(t, u)
      PROVE  \E s \in Session : Rotated(s, t, u) /\ now' = now
  <2>1. now' = now
    BY <1>2 DEF RefreshRotate
  <2>2. Rotated(token[t].session, t, u)
    BY <1>2, RotationRows
  <2>3. token[t].session \in Session
    BY <2>2 DEF Rotated
  <2>4. QED BY <2>1, <2>2, <2>3
<1>3. ASSUME NEW s \in Session, PurgeSession(s)
      PROVE  Purged(s) /\ now' = now
  <2>1. now' = now
    BY <1>3 DEF PurgeSession
  <2>2. QED BY <1>3, <2>1, PurgeRows
<1>4. QED BY <1>1, <1>2, <1>3, RevocationRows, TokenSteps

-----------------------------------------------------------------------------
(* Each part of the invariant *)

\* No step gives a token to an unused id or takes an unused token.
LEMMA NextTokenRows ==
  ASSUME TokenInv, [Next]_vars
  PROVE  TokenRows'
<1>0. TokenRows /\ None \notin Session
  BY NoneAssumption DEF TokenInv
<1>1. CASE session' = session /\ token' = token
  BY <1>0, <1>1 DEF TokenRows, Family
<1>2. ASSUME NEW S, Revocation(S)
      PROVE  TokenRows'
  <2>1. \A t \in Token : /\ token'[t].session = token[t].session
                         /\ token'[t].status = "none" <=> token[t].status = "none"
    BY <1>2 DEF Revocation, Fresh
  <2>2. \A s \in Session : session'[s].status = "none" => session[s].status = "none"
    BY <1>2 DEF Revocation
  <2>3. QED BY <1>0, <2>1, <2>2 DEF TokenRows, Family
<1>3. ASSUME NEW s \in Session, NEW t \in Token, NEW out, Opened(s, t, out)
      PROVE  TokenRows'
  <2>1. session'[s].status = "open" /\ token'[t].status = "fresh" /\ token'[t].session = s
    BY <1>3 DEF Opened, NewSession, NewToken
  <2>2. \A u \in Token : token'[u].status = "none" <=> token'[u].session = None
    BY <1>0, <1>3, <2>1 DEF Opened, TokenRows, Fresh
  <2>3. \A k \in Session \ {s} :
          session'[k].status = "none" => session[k].status = "none" /\ Family(k)' = Family(k)
    BY <1>0, <1>3, <2>1 DEF Opened, TokenRows, Family
  <2>4. QED BY <1>0, <2>1, <2>2, <2>3 DEF TokenRows
<1>4. ASSUME NEW s \in Session, NEW t \in Token, NEW u \in Token, Rotated(s, t, u)
      PROVE  TokenRows'
  <2>1. token'[u].status = "fresh" /\ token'[u].session = s
    BY <1>4 DEF Rotated, NewToken
  <2>2. \A v \in Token : token'[v].status = "none" <=> token'[v].session = None
    BY <1>0, <1>4, <2>1 DEF Rotated, TokenRows, Fresh
  <2>3. \A v \in Token : token'[v].session \in {token[v].session, s}
    BY <1>4, <2>1 DEF Rotated
  <2>4. session'[s].status = "open" /\ \A k \in Session \ {s} : session'[k] = session[k]
    BY <1>4 DEF Rotated
  <2>5. QED BY <1>0, <2>2, <2>3, <2>4 DEF TokenRows, Family
<1>5. ASSUME NEW s \in Session, Purged(s)
      PROVE  TokenRows'
  BY <1>0, <1>5 DEF TokenRows, Family, Purged
<1>6. QED BY <1>1, <1>2, <1>3, <1>4, <1>5, RowSteps

\* Every step leaves each open session its one fresh token and the others none.
LEMMA NextFresh ==
  ASSUME TokenInv, [Next]_vars
  PROVE  FreshTokens'
<1>0. FreshTokens /\ TokenRows /\ token \in [Token -> TokenRow] /\ None \notin Session
  BY NoneAssumption DEF TokenInv, PasswordInv, TypeOK
<1>1. \A t \in Token : Fresh(t) => token[t].session \in Session
  BY <1>0 DEF TokenRows, TokenRow, Fresh
<1>2. CASE session' = session /\ token' = token
  BY <1>0, <1>2 DEF FreshTokens, Fresh
<1>3. ASSUME NEW S, Revocation(S)
      PROVE  FreshTokens'
  <2>1. \A t \in Token : /\ token'[t].session = token[t].session
                         /\ Fresh(t)' <=> Fresh(t) /\ token[t].session \notin S
    BY <1>3 DEF Revocation, Fresh
  <2>2. \A s \in Session : session'[s].status = "open" <=> session[s].status = "open" /\ s \notin S
    BY <1>3 DEF Revocation
  <2>3. QED BY <1>0, <1>1, <2>1, <2>2 DEF FreshTokens
<1>4. ASSUME NEW s \in Session, NEW t \in Token, NEW out, Opened(s, t, out)
      PROVE  FreshTokens'
  <2>1. /\ session'[s].status = "open" /\ session[s].status = "none"
        /\ Fresh(t)' /\ token'[t].session = s /\ ~Fresh(t)
    BY <1>4 DEF Opened, NewSession, NewToken, Fresh
  <2>2. \A u \in Token \ {t} :
          /\ token'[u].session = token[u].session
          /\ Fresh(u)' <=> Fresh(u) /\ token[u].session \notin out
    BY <1>4 DEF Opened, Fresh
  <2>3. \A k \in Session \ {s} :
          session'[k].status = "open" <=> session[k].status = "open" /\ k \notin out
    BY <1>4 DEF Opened
  <2>4. \A u \in Token : Fresh(u) => token[u].session # s
    BY <1>0, <2>1 DEF FreshTokens
  <2>5. QED BY <1>0, <1>1, <2>1, <2>2, <2>3, <2>4 DEF FreshTokens
<1>5. ASSUME NEW s \in Session, NEW t \in Token, NEW u \in Token, Rotated(s, t, u)
      PROVE  FreshTokens'
  <2>1. /\ session[s].status = "open" /\ t # u /\ Fresh(t) /\ token[t].session = s
        /\ ~Fresh(u) /\ ~Fresh(t)' /\ Fresh(u)' /\ token'[u].session = s
    BY <1>5 DEF Rotated, NewToken, Fresh
  <2>2. \A v \in Token \ {t, u} :
          token'[v].session = token[v].session /\ (Fresh(v)' <=> Fresh(v))
    BY <1>5 DEF Rotated, Fresh
  <2>3. \A k \in Session : session'[k].status = session[k].status
    BY <1>5 DEF Rotated
  <2>4. \A v \in Token : Fresh(v) /\ token[v].session = s => v = t
    BY <1>0, <2>1 DEF FreshTokens
  <2>5. QED BY <1>0, <1>1, <2>1, <2>2, <2>3, <2>4 DEF FreshTokens
<1>6. ASSUME NEW s \in Session, Purged(s)
      PROVE  FreshTokens'
  <2>1. \A t \in Token : /\ token'[t].session = token[t].session
                         /\ Fresh(t)' <=> Fresh(t) /\ token[t].session # s
    BY <1>6 DEF Purged, Fresh
  <2>2. session'[s].status # "open" /\ \A k \in Session \ {s} : session'[k].status = session[k].status
    BY <1>6 DEF Purged
  <2>3. QED BY <1>0, <1>1, <2>1, <2>2 DEF FreshTokens
<1>7. QED BY <1>2, <1>3, <1>4, <1>5, <1>6, RowSteps

\* What RowsTakeTime says of one session.
TakesTime(s) ==
  /\ IsFiniteSet(Family(s))
  /\ session[s].status # "none" =>
       /\ session[s].created <= session[s].seen
       /\ session[s].seen < session[s].expires
       /\ session[s].expires = session[s].created + SessionLife
       /\ (Cardinality(Family(s)) - 1) * Interval <= session[s].seen - session[s].created

\* A rotation adds one token and takes at least one interval; nothing else adds a token to a
\* session that has one.
LEMMA NextTakeTime ==
  ASSUME TokenInv, [Next]_vars
  PROVE  RowsTakeTime'
<1>0. /\ TokenRows /\ TypeOK /\ None \notin Session
      /\ \A s \in Session : TakesTime(s)
  BY NoneAssumption DEF TokenInv, PasswordInv, RowsTakeTime, TakesTime
<1>1. ASSUME NEW s \in Session, SameTimes(s), Family(s)' = Family(s),
             session[s].status = "none" => session'[s].status = "none"
      PROVE  TakesTime(s)'
  BY <1>0, <1>1 DEF TakesTime, SameTimes
<1>2. SUFFICES \A s \in Session : TakesTime(s)'
  BY DEF RowsTakeTime, TakesTime
<1>3. CASE session' = session /\ token' = token
  BY <1>1, <1>3 DEF Family, SameTimes
<1>4. ASSUME NEW S, Revocation(S)
      PROVE  \A s \in Session : TakesTime(s)'
  <2>1. \A s \in Session : /\ SameTimes(s) /\ Family(s)' = Family(s)
                           /\ session[s].status = "none" => session'[s].status = "none"
    BY <1>4 DEF Revocation, Family
  <2>2. QED BY <1>1, <2>1
<1>5. ASSUME NEW s \in Session, Purged(s)
      PROVE  \A k \in Session : TakesTime(k)'
  <2>1. \A k \in Session : /\ SameTimes(k) /\ Family(k)' = Family(k)
                           /\ session[k].status = "none" => session'[k].status = "none"
    BY <1>5 DEF Purged, Family
  <2>2. QED BY <1>1, <2>1
<1>6. ASSUME NEW s \in Session, NEW t \in Token, NEW out, Opened(s, t, out)
      PROVE  \A k \in Session : TakesTime(k)'
  <2>1. token[t].session = None /\ token'[t].session = s /\ Family(s) = {}
    BY <1>0, <1>6 DEF Opened, TokenRows, NewToken
  <2>2. \A u \in Token \ {t} : token'[u].session = token[u].session
    BY <1>6 DEF Opened
  <2>3. \A k \in Session \ {s} : /\ SameTimes(k) /\ Family(k)' = Family(k)
                                 /\ session[k].status = "none" => session'[k].status = "none"
    BY <1>0, <1>6, <2>1, <2>2 DEF Opened, Family
  <2>4. Family(s)' = {t}
    BY <2>1, <2>2 DEF Family
  <2>5. TakesTime(s)'
    <3>1. IsFiniteSet({t}) /\ Cardinality({t}) = 1
      BY FS_Singleton
    <3>2. /\ session'[s].created = now /\ session'[s].seen = now
          /\ session'[s].expires = now + SessionLife
      BY <1>6 DEF Opened, NewSession
    <3>3. now \in Nat /\ SessionLife \in Nat \ {0} /\ Interval \in Nat
      BY <1>0, NumberAssumption, IntervalBound DEF TypeOK
    <3>4. (1 - 1) * Interval <= now - now
      BY <3>3
    <3>5. QED BY <2>4, <3>1, <3>2, <3>3, <3>4 DEF TakesTime
  <2>6. QED BY <1>1, <2>3, <2>5
<1>7. ASSUME NEW s \in Session, NEW t \in Token, NEW u \in Token, Rotated(s, t, u)
      PROVE  \A k \in Session : TakesTime(k)'
  <2>1. token[u].session = None /\ token'[u].session = s
    BY <1>0, <1>7 DEF Rotated, TokenRows, NewToken
  <2>2. \A v \in Token \ {u} : token'[v].session = token[v].session
    BY <1>7 DEF Rotated
  <2>3. \A k \in Session \ {s} : /\ SameTimes(k) /\ Family(k)' = Family(k)
                                 /\ session[k].status = "none" => session'[k].status = "none"
    BY <1>0, <1>7, <2>1, <2>2 DEF Rotated, Family, SameTimes
  <2>4. Family(s)' = Family(s) \cup {u} /\ u \notin Family(s)
    BY <1>0, <2>1, <2>2 DEF Family
  <2>5. TakesTime(s)'
    <3> DEFINE n == Cardinality(Family(s))
               c == session[s].created
    <3>1. /\ IsFiniteSet(Family(s))
          /\ c <= session[s].seen /\ session[s].expires = c + SessionLife
          /\ (n - 1) * Interval <= session[s].seen - c
      BY <1>0, <1>7 DEF TakesTime, Rotated
    <3>2. IsFiniteSet(Family(s)') /\ Cardinality(Family(s)') = n + 1
      BY <2>4, <3>1, FS_AddElement
    <3>3. /\ now \in Nat /\ Interval \in Nat /\ n \in Nat
          /\ c \in Nat /\ session[s].seen \in Nat
      BY <1>0, <3>1, IntervalBound, FS_CardinalityType DEF TypeOK, SessionRow
    <3>4. /\ session'[s].created = c /\ session'[s].seen = now
          /\ session'[s].expires = session[s].expires
      BY <1>7 DEF Rotated
    <3>5. session[s].seen + Interval <= now /\ now < session[s].expires
      BY <1>7 DEF Rotated
    <3>6. c <= now /\ n * Interval <= now - c
      <4> HIDE DEF n, c
      <4>1. n * Interval = (n - 1) * Interval + Interval /\ (n - 1) * Interval \in Int
        BY <3>3
      <4>2. QED BY <3>1, <3>3, <3>5, <4>1
    <3>7. /\ session'[s].created <= session'[s].seen
          /\ session'[s].seen < session'[s].expires
          /\ session'[s].expires = session'[s].created + SessionLife
          /\ (Cardinality(Family(s)') - 1) * Interval <= session'[s].seen - session'[s].created
      <4>1. (Cardinality(Family(s)') - 1) * Interval <= session'[s].seen - session'[s].created
        <5>1. Cardinality(Family(s)') - 1 = n
          BY <3>2, <3>3
        <5>2. QED BY <3>4, <3>6, <5>1
      <4>2. /\ session'[s].created <= session'[s].seen
            /\ session'[s].seen < session'[s].expires
            /\ session'[s].expires = session'[s].created + SessionLife
        BY <3>1, <3>4, <3>5, <3>6
      <4>3. QED BY <4>1, <4>2
    <3>8. QED BY <3>2, <3>7 DEF TakesTime
  <2>6. QED BY <1>1, <2>3, <2>5
<1>8. QED BY <1>3, <1>4, <1>5, <1>6, <1>7, RowSteps

\* Opening a session adds one active session to at most MaxSessions - 1, everything else adds none.
LEMMA NextCap ==
  ASSUME TokenInv, [Next]_vars
  PROVE  Capped'
<1> DEFINE active == {k \in Session : Active(k)}
<1>0. /\ TypeOK /\ IsFiniteSet(active) /\ Cardinality(active) <= MaxSessions
      /\ MaxSessions \in Nat \ {0}
  BY NumberAssumption DEF TokenInv, PasswordInv, Capped, SessionCap
<1>1. ASSUME active' \subseteq active
      PROVE  Capped'
  <2>1. IsFiniteSet(active') /\ Cardinality(active') <= Cardinality(active)
    BY <1>0, <1>1, FS_Subset
  <2>2. Cardinality(active) \in Nat /\ Cardinality(active') \in Nat
    BY <1>0, <2>1, FS_CardinalityType
  <2>3. Cardinality(active') <= MaxSessions
    BY <1>0, <2>1, <2>2
  <2>4. QED BY <2>1, <2>3 DEF Capped, SessionCap
<1>2. ASSUME NEW s \in Session, NEW kept \in SUBSET active, active' \subseteq kept \cup {s},
             Cardinality(kept) <= Retained
      PROVE  Capped'
  <2>1. IsFiniteSet(kept)
    BY <1>0, FS_Subset
  <2>2. /\ IsFiniteSet(kept \cup {s})
        /\ Cardinality(kept \cup {s}) \in {Cardinality(kept), Cardinality(kept) + 1}
    BY <2>1, FS_AddElement
  <2>3. IsFiniteSet(active') /\ Cardinality(active') <= Cardinality(kept \cup {s})
    BY <1>2, <2>2, FS_Subset
  <2>4. Cardinality(kept) \in Nat /\ Cardinality(active') \in Nat
    BY <2>1, <2>3, FS_CardinalityType
  <2>5. Cardinality(active') <= MaxSessions
    BY <1>0, <1>2, <2>2, <2>3, <2>4 DEF Retained
  <2>6. QED BY <2>3, <2>5 DEF Capped, SessionCap
<1>3. CASE session' = session /\ now' \in {now, now + 1}
  <2>1. session \in [Session -> SessionRow] /\ now \in Nat
    BY <1>0 DEF TypeOK
  <2>2. \A s \in Session : session[s].expires \in Nat
    BY <2>1 DEF SessionRow
  <2>3. \A s \in Session : Active(s)' => Active(s)
    BY <1>3, <2>1, <2>2 DEF Active
  <2>4. QED BY <1>1, <2>3
<1>4. ASSUME NEW S, Revocation(S), now' = now
      PROVE  active' \subseteq active
  BY <1>4 DEF Revocation, SameTimes, Active
<1>5. ASSUME NEW s \in Session, Purged(s), now' = now
      PROVE  active' \subseteq active
  BY <1>5 DEF Purged, SameTimes, Active
<1>6. ASSUME NEW s \in Session, NEW t \in Token, NEW u \in Token, Rotated(s, t, u), now' = now
      PROVE  active' \subseteq active
  BY <1>6 DEF Rotated, Active
<1>7. ASSUME NEW s \in Session, NEW t \in Token, NEW out, Opened(s, t, out), now' = now
      PROVE  active' \subseteq (active \ out) \cup {s}
  BY <1>7 DEF Opened, SameTimes, Active
<1>8. ASSUME NEW out \in Oldest
      PROVE  Cardinality(active \ out) <= Retained
  <2>1. out \in SUBSET active /\ IF Cardinality(active) <= Retained THEN out = {}
                                 ELSE Cardinality(active \ out) = Retained
    BY DEF Oldest
  <2>2. CASE Cardinality(active) <= Retained
    <3>1. active \ out = active
      BY <2>1, <2>2
    <3>2. QED BY <2>2, <3>1
  <2>3. CASE ~(Cardinality(active) <= Retained)
    <3>1. Retained \in Nat /\ Cardinality(active \ out) = Retained
      BY <1>0, <2>1, <2>3 DEF Retained
    <3>2. QED BY <3>1
  <2>4. QED BY <2>2, <2>3
<1>9. ASSUME \A k \in Session : session[k].status # "open"
      PROVE  active = {} /\ Cardinality({}) <= Retained
  <2>1. active = {}
    BY <1>9 DEF Active
  <2>2. Cardinality({}) = 0
    BY FS_EmptySet
  <2>3. QED BY <1>0, <2>1, <2>2 DEF Retained
<1>10. ASSUME NEW s \in Session, NEW t \in Token, NEW out \in Oldest, Opened(s, t, out),
              now' = now
       PROVE  Capped'
  <2> DEFINE kept == active \ out
  <2>1. kept \in SUBSET active /\ active' \subseteq kept \cup {s} /\ Cardinality(kept) <= Retained
    BY <1>7, <1>8, <1>10
  <2> HIDE DEF kept, active
  <2>2. QED BY <1>2, <2>1
<1>11. ASSUME NEW s \in Session, NEW t \in Token, Opened(s, t, {}), now' = now,
              \A k \in Session : session[k].status # "open"
       PROVE  Capped'
  <2> DEFINE kept == active
  <2>1. kept \in SUBSET active /\ active' \subseteq kept \cup {s} /\ Cardinality(kept) <= Retained
    BY <1>7, <1>9, <1>11
  <2> HIDE DEF kept, active
  <2>2. QED BY <1>2, <2>1
<1> HIDE DEF active
<1>12. QED BY <1>1, <1>3, <1>4, <1>5, <1>6, <1>10, <1>11, RowSteps

-----------------------------------------------------------------------------
(* The invariant *)

\* Without rows the invariant holds.
LEMMA InitTokens == Init => TokenInv
<1> SUFFICES ASSUME Init PROVE TokenInv
  OBVIOUS
<1>1. PasswordInv
  BY InitPassword
<1>2. \A s \in Session : session[s].status = "none" /\ Family(s) = {}
  BY NoneAssumption DEF Init, Family
<1>3. TokenRows /\ FreshTokens
  BY <1>2 DEF Init, TokenRows, FreshTokens, Fresh
<1>4. IsFiniteSet({}) /\ Cardinality({}) = 0
  BY FS_EmptySet
<1>5. RowsTakeTime
  BY <1>2, <1>4 DEF RowsTakeTime
<1>6. {s \in Session : Active(s)} = {}
  BY <1>2 DEF Active
<1>7. Capped
  BY <1>4, <1>6, NumberAssumption DEF Capped, SessionCap
<1>8. QED BY <1>1, <1>3, <1>5, <1>7 DEF TokenInv

\* The invariant holds in every reachable state.
LEMMA TokenInvariance == Spec => []TokenInv
<1>1. TokenInv /\ [Next]_vars => TokenInv'
  <2> SUFFICES ASSUME TokenInv, [Next]_vars PROVE TokenInv'
    OBVIOUS
  <2>1. PasswordInv'
    BY NextPassword DEF TokenInv
  <2>2. QED BY <2>1, NextTokenRows, NextFresh, NextTakeTime, NextCap DEF TokenInv
<1>2. QED BY <1>1, InitTokens, PTL DEF Spec

-----------------------------------------------------------------------------
(* Theorems *)

\* Rotation, replay, logout, the cap and recovery agree on the one good refresh token of a
\* session, however many sessions and tokens there are.
THEOREM OneFresh == Spec => []OneFreshToken
<1>1. ASSUME TokenInv, NEW s \in Session
      PROVE  Cardinality({t \in Token : token[t].session = s /\ token[t].status = "fresh"})
               = IF session[s].status = "open" THEN 1 ELSE 0
  <2> DEFINE good == {t \in Token : token[t].session = s /\ token[t].status = "fresh"}
  <2>1. CASE session[s].status = "open"
    <3>1. PICK t \in Token : Fresh(t) /\ token[t].session = s
      BY <1>1, <2>1 DEF TokenInv, FreshTokens
    <3>2. good = {t}
      BY <1>1, <3>1 DEF TokenInv, FreshTokens, Fresh
    <3>3. Cardinality({t}) = 1
      BY FS_Singleton
    <3>4. QED BY <2>1, <3>2, <3>3
  <2>2. CASE session[s].status # "open"
    <3>1. good = {}
      BY <1>1, <2>2 DEF TokenInv, FreshTokens, Fresh
    <3>2. Cardinality({}) = 0
      BY FS_EmptySet
    <3>3. QED BY <2>2, <3>1, <3>2
  <2>3. QED BY <2>1, <2>2
<1>2. TokenInv => OneFreshToken
  BY <1>1 DEF OneFreshToken
<1>3. QED BY <1>2, TokenInvariance, PTL

\* The interval between two refreshes keeps the stored tokens of a session within the bound,
\* for every lifetime, bound and minimal interval, divisible or not.
THEOREM RowBound == Spec => []RowsBounded
<1>1. ASSUME TokenInv, NEW s \in Session
      PROVE  Cardinality(Family(s)) <= MaxRows
  <2> DEFINE n == Cardinality(Family(s))
  <2>1. IsFiniteSet(Family(s)) /\ n \in Nat
    BY <1>1, FS_CardinalityType DEF TokenInv, RowsTakeTime
  <2>2. CASE session[s].status = "none"
    <3>1. Family(s) = {}
      BY <1>1, <2>2 DEF TokenInv, TokenRows
    <3>2. n = 0
      BY <3>1, FS_EmptySet
    <3>3. QED BY <3>2, NumberAssumption
  <2>3. CASE session[s].status # "none"
    <3>1. /\ session[s].seen < session[s].created + SessionLife
          /\ (n - 1) * Interval <= session[s].seen - session[s].created
      BY <1>1, <2>3 DEF TokenInv, RowsTakeTime
    <3>2. session[s].seen \in Nat /\ session[s].created \in Nat
      BY <1>1 DEF TokenInv, PasswordInv, TypeOK, SessionRow
    <3>3. SessionLife \in Nat /\ Interval \in Nat
      BY IntervalBound, NumberAssumption
    <3> HIDE DEF n
    <3>4. (n - 1) * Interval \in Int
      BY <2>1, <3>3
    <3>5. (n - 1) * Interval < SessionLife
      BY <3>1, <3>2, <3>3, <3>4
    <3>6. n <= MaxRows
      BY <2>1, <3>5, IntervalsFit
    <3>7. QED BY <3>6 DEF n
  <2>4. QED BY <2>2, <2>3
<1>2. TokenInv => RowsBounded
  BY <1>1 DEF RowsBounded, Family
<1>3. QED BY <1>2, TokenInvariance, PTL

\* No number of racing logins leaves more active sessions than configured.
THEOREM CapHolds == Spec => []SessionCap
<1>1. TokenInv => SessionCap
  BY DEF TokenInv, Capped
<1>2. QED BY <1>1, TokenInvariance, PTL
=============================================================================
