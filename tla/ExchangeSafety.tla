----------------------------- MODULE ExchangeSafety ------------------------
(* Safety of the outbox of emails, for every number of emails and workers, and of the tabs *)
(* that keep a session, for every number of tabs and calls.                                *)
EXTENDS Exchange, Integers, Sequences, TLAPS

-----------------------------------------------------------------------------
(* The inductive invariant *)

\* What names an email or a worker, or the state of a link, is not the name of nothing.
NamesApart == None \notin Worker \cup Email \cup {"open", "over", "gone"}

MailRow == [sent : BOOLEAN, available : BOOLEAN, lease : Worker \cup {None}, over : BOOLEAN]

\* Every variable holds a value of its kind.
MailTypes ==
  /\ outbox \in [Email -> MailRow \cup {None}]
  /\ link \in [Email -> {"open", "over", "gone"} \cup {None}]
  /\ batch \in [Worker -> SUBSET Email]
  /\ taken \in [Worker -> Email \cup {None}]
  /\ copies \in [Email -> 0 .. 2]
  /\ loss \in SUBSET Email

Holds(w, e) == e \in batch[w] \/ taken[w] = e

\* As long as nothing was lost, who deals with an email has its lease, alone, unless the row
\* was removed; and what was accepted is dealt with until it is recorded.
Known(e) ==
  /\ \A w \in Worker : Holds(w, e) =>
       outbox[e] = None \/ (~outbox[e].sent /\ outbox[e].lease = w /\ ~outbox[e].over)
  /\ \A v, w \in Worker : Holds(v, e) /\ Holds(w, e) => v = w
  /\ copies[e] > 0 =>
       /\ \A w \in Worker : e \notin batch[w]
       /\ e \in M!Queued => \E w \in Worker : taken[w] = e

\* What is recorded, or about to be, was accepted; and before the request there is nothing.
Recorded(e) ==
  /\ \A w \in Worker : taken[w] = e => copies[e] > 0
  /\ outbox[e] # None /\ outbox[e].sent => copies[e] > 0
  /\ copies[e] = 2 => e \in loss
  /\ link[e] = None =>
       outbox[e] = None /\ copies[e] = 0 /\ \A w \in Worker : ~Holds(w, e)

MailInv ==
  /\ MailTypes
  /\ \A e \in Email : (e \in loss \/ Known(e)) /\ Recorded(e)

-----------------------------------------------------------------------------
(* Types *)

\* The empty tables are of their types.
LEMMA InitType == M!Init => MailTypes
BY DEF M!Init, MailTypes

\* Requests, cleaning and time keep the types.
LEMMA EmailType ==
  ASSUME MailTypes, NEW e \in Email, M!EmailStep(e)
  PROVE  MailTypes'
<1> USE DEF MailTypes, MailRow
<1>1. CASE M!Request(e) BY <1>1 DEF M!Request
<1>2. CASE M!CloseLink(e)
  <2>1. outbox' \in [Email -> MailRow \cup {None}]
    BY <1>2 DEF M!CloseLink
  <2>2. QED BY <1>2, <2>1 DEF M!CloseLink
<1>3. CASE M!CleanEmail(e) BY <1>3 DEF M!CleanEmail
<1>4. CASE M!CleanLink(e) BY <1>4 DEF M!CleanLink
<1>5. CASE M!Available(e) BY <1>5 DEF M!Available, M!Queued
<1>6. CASE M!LeaseEnds(e)
  <2>1. outbox' \in [Email -> MailRow \cup {None}]
    <3>1. outbox[e] \in MailRow /\ outbox' = [outbox EXCEPT ![e] = [outbox[e] EXCEPT !.over = TRUE]]
      BY <1>6 DEF M!LeaseEnds, M!Queued
    <3>2. [outbox[e] EXCEPT !.over = TRUE] \in MailRow
      BY <3>1
    <3>3. QED BY <3>1, <3>2
  <2>2. QED BY <1>6, <2>1 DEF M!LeaseEnds
<1>7. QED BY <1>1, <1>2, <1>3, <1>4, <1>5, <1>6 DEF M!EmailStep

\* So do the workers.
LEMMA WorkerType ==
  ASSUME MailTypes, NEW w \in Worker, M!WorkerStep(w)
  PROVE  MailTypes'
<1> USE DEF MailTypes
<1>1. ASSUME NEW emails \in SUBSET Email, M!Claim(w, emails)
      PROVE  MailTypes'
  <2>1. \A e \in emails : e \in Email /\ outbox[e] \in MailRow
    BY <1>1 DEF M!Claim, M!Claimable, M!Queued
  <2>2. \A e \in emails : [outbox[e] EXCEPT !.lease = w, !.over = FALSE] \in MailRow
    BY <2>1 DEF MailRow
  <2>3. outbox' \in [Email -> MailRow \cup {None}]
    BY <1>1, <2>1, <2>2 DEF M!Claim
  <2>4. batch' \in [Worker -> SUBSET Email]
    BY <1>1 DEF M!Claim
  <2>5. QED BY <1>1, <2>3, <2>4 DEF M!Claim
<1>2. ASSUME NEW e \in Email, M!SmtpAccepts(w, e)
      PROVE  MailTypes'
  BY <1>2 DEF M!SmtpAccepts, M!Accept
<1>3. ASSUME NEW e \in Email, M!MarkSent(w, e)
      PROVE  MailTypes'
  <2>1. M!HasLease(w, e) =>
          [outbox[e] EXCEPT !.sent = TRUE, !.lease = None, !.over = FALSE] \in MailRow
    BY DEF M!HasLease, M!Queued, MailRow
  <2>2. outbox' \in [Email -> MailRow \cup {None}]
    BY <1>3, <2>1 DEF M!MarkSent
  <2>3. QED BY <1>3, <2>2 DEF M!MarkSent
<1>4. ASSUME NEW e \in Email, M!SmtpFails(w, e)
      PROVE  MailTypes'
  <2>1. M!HasLease(w, e) =>
          [outbox[e] EXCEPT !.available = FALSE, !.lease = None, !.over = FALSE] \in MailRow
    BY DEF M!HasLease, M!Queued, MailRow
  <2>2. outbox' \in [Email -> MailRow \cup {None}]
    BY <1>4, <2>1 DEF M!SmtpFails
  <2>3. copies' \in [Email -> 0 .. 2] /\ loss' \in SUBSET Email
    BY <1>4 DEF M!SmtpFails, M!Accept
  <2>4. QED BY <1>4, <2>2, <2>3 DEF M!SmtpFails
<1>5. CASE M!Stop(w)
  BY <1>5 DEF M!Stop
<1>6. QED BY <1>1, <1>2, <1>3, <1>4, <1>5 DEF M!WorkerStep

-----------------------------------------------------------------------------
(* Steps *)

Good(e) == (e \in loss \/ Known(e)) /\ Recorded(e)

\* A step that leaves alone the rows and the holders of an email leaves it in order.
LEMMA Untouched ==
  ASSUME NEW e \in Email, Good(e),
         outbox'[e] = outbox[e], link'[e] = link[e] \/ link'[e] # None, copies'[e] = copies[e],
         e \in loss => e \in loss',
         \A w \in Worker :
           (e \in batch'[w] <=> e \in batch[w]) /\ (taken'[w] = e <=> taken[w] = e)
  PROVE  Good(e)'
<1>1. M!Queued' \cap {e} = M!Queued \cap {e}
  BY DEF M!Queued
<1>2. \A w \in Worker : Holds(w, e)' <=> Holds(w, e)
  BY DEF Holds
<1>3. Known(e) => Known(e)'
  BY <1>1, <1>2 DEF Known
<1>4. Recorded(e)'
  BY <1>2 DEF Good, Recorded
<1>5. QED BY <1>3, <1>4 DEF Good

\* Requests, cleaning and time: what ends a lease in use is a loss.
LEMMA EmailGood ==
  ASSUME NamesApart, MailTypes, NEW e \in Email, M!EmailStep(e), NEW f \in Email, Good(f)
  PROVE  Good(f)'
<1> USE DEF MailTypes
<1>1. CASE f # e
  <2>1. /\ outbox'[f] = outbox[f] /\ link'[f] = link[f] /\ copies'[f] = copies[f]
        /\ f \in loss => f \in loss'
        /\ batch' = batch /\ taken' = taken
    BY <1>1 DEF M!EmailStep, M!Request, M!CloseLink, M!CleanEmail, M!CleanLink, M!Available, M!LeaseEnds
  <2>2. QED BY <2>1, Untouched
<1>2. CASE f = e
  <2> USE <1>2
  <2>1. CASE M!Request(e)
    <3>1. /\ copies'[e] = 0 /\ link'[e] # None /\ outbox'[e].sent = FALSE
          /\ loss' = loss /\ \A w \in Worker : ~Holds(w, e)'
      BY <2>1 DEF M!Request, Good, Recorded, Holds, NamesApart
    <3>2. QED BY <3>1 DEF Good, Known, Recorded, Holds
  <2>2. CASE M!CloseLink(e)
    BY <2>2, Untouched DEF M!CloseLink, NamesApart
  <2>3. CASE M!CleanEmail(e) \/ M!CleanLink(e)
    <3>1. /\ outbox'[e] = None /\ copies' = copies /\ loss' = loss
          /\ link'[e] = None => link[e] = None
          /\ batch' = batch /\ taken' = taken
      BY <2>3 DEF M!CleanEmail, M!CleanLink, NamesApart
    <3>2. e \notin M!Queued'
      BY <3>1 DEF M!Queued
    <3>3. Known(e) => Known(e)'
      BY <3>1, <3>2 DEF Known, Holds
    <3>4. QED BY <3>1, <3>3 DEF Good, Recorded, Holds
  <2>4. CASE M!Available(e) \/ M!LeaseEnds(e)
    <3>1. /\ outbox[e] \in MailRow /\ ~outbox[e].sent
          /\ outbox'[e].sent = outbox[e].sent /\ outbox'[e].lease = outbox[e].lease
          /\ copies' = copies /\ link' = link /\ batch' = batch /\ taken' = taken
          /\ loss \subseteq loss' /\ link[e] # None /\ e \in M!Queued
      BY <2>4 DEF M!Available, M!LeaseEnds, M!Queued, MailRow, Good, Recorded
    <3>2. e \notin loss' => outbox'[e].over = outbox[e].over \/ \A w \in Worker : ~Holds(w, e)
      BY <2>4, <3>1 DEF M!Available, M!LeaseEnds, Holds, MailRow
    <3>3. ASSUME e \notin loss'
          PROVE  Known(e)'
      <4>1. Known(e) /\ outbox[e] # None
        BY <3>1, <3>3 DEF Good, M!Queued
      <4>2. QED BY <3>1, <3>2, <3>3, <4>1 DEF Known, Holds
    <3>4. QED BY <3>1, <3>3 DEF Good, Recorded, Holds
  <2>5. QED BY <2>1, <2>2, <2>3, <2>4 DEF M!EmailStep
<1>3. QED BY <1>1, <1>2

\* A claim takes leases that nobody uses.
LEMMA ClaimGood ==
  ASSUME NamesApart, MailTypes, NEW w \in Worker, NEW emails \in SUBSET Email, M!Claim(w, emails),
         NEW f \in Email, Good(f)
  PROVE  Good(f)'
<1> USE DEF MailTypes
<1>1. CASE f \notin emails
  <2>1. /\ outbox'[f] = outbox[f] /\ UNCHANGED <<link, copies, loss, taken>>
        /\ \A v \in Worker : f \in batch'[v] <=> f \in batch[v]
    BY <1>1 DEF M!Claim
  <2>2. QED BY <2>1, Untouched
<1>2. CASE f \in emails
  <2>1. f \in M!Queued /\ M!Unleased(f) /\ link[f] = "open" /\ outbox[f] \in MailRow
    BY <1>2 DEF M!Claim, M!Claimable, M!Queued
  <2>2. /\ outbox'[f].lease = w /\ ~outbox'[f].over /\ ~outbox'[f].sent
        /\ UNCHANGED <<link, copies, loss, taken>>
        /\ \A v \in Worker : f \in batch'[v] <=> v = w \/ f \in batch[v]
        /\ taken[w] = None
    BY <1>2, <2>1 DEF M!Claim, MailRow, M!Queued
  <2>3. ASSUME f \notin loss
        PROVE  Known(f)'
    <3>1. \A v \in Worker : ~Holds(v, f)
      BY <2>1, <2>3 DEF Good, Known, M!Queued, M!Unleased, NamesApart
    <3>2. ~(copies[f] > 0)
      BY <2>1, <2>3, <3>1 DEF Good, Known, Holds
    <3>3. QED BY <2>2, <3>1, <3>2 DEF Known, Holds
  <2>4. QED BY <2>1, <2>2, <2>3 DEF Good, Recorded, Holds, NamesApart
<1>3. QED BY <1>1, <1>2

\* An acceptance is the first one, unless something was lost before.
LEMMA AcceptGood ==
  ASSUME NamesApart, MailTypes, NEW w \in Worker, NEW e \in Email, M!SmtpAccepts(w, e),
         NEW f \in Email, Good(f)
  PROVE  Good(f)'
<1> USE DEF MailTypes
<1>1. /\ UNCHANGED <<outbox, link, loss>> /\ e \in batch[w] /\ taken[w] = None
      /\ \A v \in Worker : (f \in batch'[v] <=> f \in batch[v] /\ ~(v = w /\ f = e))
                           /\ (taken'[v] = f <=> taken[v] = f \/ (v = w /\ f = e))
      /\ f # e => copies'[f] = copies[f]
      /\ copies'[e] > 0 /\ (copies[e] = 0 => copies'[e] = 1)
  BY DEF M!SmtpAccepts, M!Accept, NamesApart
<1>2. CASE f # e
  BY <1>1, <1>2, Untouched
<1>3. CASE f = e
  <2>1. ASSUME e \notin loss
        PROVE  Known(e)' /\ copies'[e] = 1
    <3>1. Known(e)
      BY <1>3, <2>1 DEF Good
    <3>2. copies[e] = 0
      BY <1>1, <3>1 DEF Known
    <3>3. \A v \in Worker : Holds(v, e)' <=> Holds(v, e)
      BY <1>1, <1>3 DEF Holds
    <3>4. \A v \in Worker : e \notin batch'[v]
      BY <1>1, <1>3, <3>1 DEF Known, Holds
    <3>5. taken'[w] = e
      BY <1>1, <1>3
    <3>6. QED BY <1>1, <3>1, <3>2, <3>3, <3>4, <3>5 DEF Known
  <2>2. link[e] # None
    BY <1>1, <1>3 DEF Good, Recorded, Holds
  <2>3. QED BY <1>1, <1>3, <2>1, <2>2 DEF Good, Recorded
<1>4. QED BY <1>2, <1>3

\* What is recorded was accepted; if the lease is gone, the row is, or something was lost.
LEMMA MarkGood ==
  ASSUME NamesApart, MailTypes, NEW w \in Worker, NEW e \in Email, M!MarkSent(w, e),
         NEW f \in Email, Good(f)
  PROVE  Good(f)'
<1> USE DEF MailTypes
<1>1. /\ UNCHANGED <<link, batch, copies, loss>> /\ taken[w] = e
      /\ f # e => outbox'[f] = outbox[f]
      /\ \A v \in Worker : taken'[v] = f <=> taken[v] = f /\ ~(v = w /\ f = e)
  BY DEF M!MarkSent, NamesApart
<1>2. CASE f # e
  BY <1>1, <1>2, Untouched
<1>3. CASE f = e
  <2>1. copies[e] > 0 /\ link[e] # None
    BY <1>1, <1>3 DEF Good, Recorded, Holds
  <2>2. ASSUME e \notin loss
        PROVE  Known(e)'
    <3>1. Known(e)
      BY <1>3, <2>2 DEF Good
    <3>2. \A v \in Worker : ~Holds(v, e)'
      BY <1>1, <1>3, <2>1, <3>1 DEF Known, Holds
    <3>3. e \notin M!Queued'
      <4>1. CASE M!HasLease(w, e)
        <5>1. outbox'[e].sent
          BY <4>1 DEF M!MarkSent, M!HasLease, M!Queued, MailRow
        <5>2. QED BY <5>1 DEF M!Queued
      <4>2. CASE ~M!HasLease(w, e)
        <5>1. outbox' = outbox
          BY <4>2 DEF M!MarkSent
        <5>2. outbox[e] = None
          BY <1>1, <3>1, <4>2 DEF Known, Holds, M!HasLease, M!Queued
        <5>3. QED BY <5>1, <5>2 DEF M!Queued
      <4>3. QED BY <4>1, <4>2
    <3>4. QED BY <2>1, <3>2, <3>3 DEF Known, Holds
  <2>3. QED BY <1>1, <1>3, <2>1, <2>2 DEF Good, Recorded
<1>4. QED BY <1>2, <1>3

\* A failure gives up the lease; one that hides an acceptance is a loss.
LEMMA FailGood ==
  ASSUME NamesApart, MailTypes, NEW w \in Worker, NEW e \in Email, M!SmtpFails(w, e),
         NEW f \in Email, Good(f)
  PROVE  Good(f)'
<1> USE DEF MailTypes
<1>1. /\ UNCHANGED <<link, taken>> /\ e \in batch[w] /\ taken[w] = None
      /\ f # e => outbox'[f] = outbox[f] /\ copies'[f] = copies[f]
      /\ \A v \in Worker : f \in batch'[v] <=> f \in batch[v] /\ ~(v = w /\ f = e)
      /\ f \in loss => f \in loss'
      /\ copies'[e] = copies[e] \/ (e \in loss' /\ copies'[e] > 0)
  BY DEF M!SmtpFails, M!Accept
<1>2. CASE f # e
  BY <1>1, <1>2, Untouched
<1>3. CASE f = e
  <2>1. link[e] # None
    BY <1>1, <1>3 DEF Good, Recorded, Holds
  <2>2. outbox'[e] # None /\ outbox'[e].sent => outbox[e] # None /\ outbox[e].sent
    BY DEF M!SmtpFails, M!HasLease, M!Queued, MailRow
  <2>3. ASSUME e \notin loss'
        PROVE  Known(e)'
    <3>1. Known(e) /\ copies'[e] = copies[e]
      BY <1>1, <1>3, <2>3 DEF Good
    <3>2. \A v \in Worker : ~Holds(v, e)'
      BY <1>1, <1>3, <3>1 DEF Known, Holds, NamesApart
    <3>3. ~(copies'[e] > 0)
      BY <1>1, <3>1 DEF Known
    <3>4. QED BY <3>2, <3>3 DEF Known
  <2>4. QED BY <1>1, <1>3, <2>1, <2>2, <2>3 DEF Good, Recorded, Holds
<1>4. QED BY <1>2, <1>3

\* A stop between an acceptance and its record is a loss; the rest of the batch stays leased.
LEMMA StopGood ==
  ASSUME NamesApart, MailTypes, NEW w \in Worker, M!Stop(w), NEW f \in Email, Good(f)
  PROVE  Good(f)'
<1> USE DEF MailTypes
<1>1. /\ UNCHANGED <<outbox, link, copies>>
      /\ f \in loss => f \in loss'
      /\ \A v \in Worker : /\ f \in batch'[v] <=> f \in batch[v] /\ v # w
                           /\ taken'[v] = f <=> taken[v] = f /\ v # w
      /\ f \notin loss' => taken[w] # f
  BY DEF M!Stop, NamesApart
<1>2. ASSUME f \notin loss'
      PROVE  Known(f)'
  <2>1. Known(f) /\ (f \in M!Queued' <=> f \in M!Queued)
    BY <1>1, <1>2 DEF Good, M!Queued
  <2>2. QED BY <1>1, <1>2, <2>1 DEF Known, Holds
<1>3. Recorded(f)'
  BY <1>1 DEF Good, Recorded, Holds
<1>4. QED BY <1>2, <1>3 DEF Good

-----------------------------------------------------------------------------
(* Theorems *)

\* The invariant holds before the first request, and every step keeps it.
LEMMA Inductive ==
  ASSUME NamesApart
  PROVE  (M!Init => MailInv) /\ (MailInv /\ [M!Next]_(M!vars) => MailInv')
<1>1. M!Init => MailInv
  <2> SUFFICES ASSUME M!Init PROVE MailInv
    OBVIOUS
  <2>1. \A e \in Email : Known(e) /\ Recorded(e)
    BY DEF M!Init, Known, Recorded, Holds, M!Queued, NamesApart
  <2>2. QED BY <2>1, InitType DEF MailInv
<1>2. ASSUME MailInv, [M!Next]_(M!vars)
      PROVE  MailInv'
  <2>1. MailTypes /\ \A f \in Email : Good(f)
    BY <1>2 DEF MailInv, Good
  <2>2. CASE UNCHANGED M!vars
    <3>1. MailTypes'
      BY <2>1, <2>2 DEF M!vars, MailTypes
    <3>2. \A f \in Email : Good(f)'
      BY <2>1, <2>2, Untouched DEF M!vars
    <3>3. QED BY <3>1, <3>2 DEF MailInv, Good
  <2>3. ASSUME NEW e \in Email, M!EmailStep(e)
        PROVE  MailInv'
    BY <2>1, <2>3, EmailType, EmailGood DEF MailInv, Good
  <2>4. ASSUME NEW w \in Worker, M!WorkerStep(w)
        PROVE  MailInv'
    <3>1. ASSUME NEW f \in Email
          PROVE  Good(f)'
      <4>1. Good(f)
        BY <2>1
      <4>2. ASSUME NEW emails \in SUBSET Email, M!Claim(w, emails)
            PROVE  Good(f)'
        BY <2>1, <4>1, <4>2, ClaimGood
      <4>3. ASSUME NEW e \in Email, M!SmtpAccepts(w, e) \/ M!MarkSent(w, e) \/ M!SmtpFails(w, e)
            PROVE  Good(f)'
        BY <2>1, <4>1, <4>3, AcceptGood, MarkGood, FailGood
      <4>4. CASE M!Stop(w)
        BY <2>1, <4>1, <4>4, StopGood
      <4>5. QED BY <2>4, <4>2, <4>3, <4>4 DEF M!WorkerStep
    <3>2. QED BY <2>1, <2>4, <3>1, WorkerType DEF MailInv, Good
  <2>5. QED BY <1>2, <2>2, <2>3, <2>4 DEF M!Next
<1>3. QED BY <1>1, <1>2

\* Copies of emails are accounted for, however many workers share the outbox: none is recorded
\* as sent that was not, and none is sent twice without a stop, an error or an ended lease.
THEOREM Accounted ==
  ASSUME NamesApart
  PROVE  M!Spec => []CopiesAccounted
<1>1. MailInv => CopiesAccounted
  BY DEF MailInv, Recorded, CopiesAccounted, M!CopiesAccounted
<1>2. QED BY <1>1, Inductive, PTL DEF M!Spec

-----------------------------------------------------------------------------
(* The tabs of a browser with locks *)

Cookies == [token : Nat \cup {None}, access : Nat]
Responses ==
  [step : {"rotated"}, verdict : {"rotated", "early", "over"}, cookies : Cookies \cup {None}]

\* None is neither a number nor a response or the cookies in one.
CookiesApart == None \notin Nat \cup Cookies \cup Responses

\* The cookies of who follows the session.
Newest == [token |-> session.token, access |-> session.seen + AccessLife]

Is(t, step) == B!At(refresh[t], step)

TabTypes ==
  /\ now \in Nat
  /\ session \in [token : Nat, seen : Nat, over : BOOLEAN]
  /\ jar \in Cookies
  /\ refresh = [t \in Tab |-> refresh[t]]
  /\ \A t \in Tab :
       /\ Is(t, "rotating") => refresh[t].token \in Nat \cup {None}
       /\ Is(t, "rotated") => refresh[t].cookies \in Cookies \cup {None}
  /\ stray = [k \in B!Token |-> stray[k]]
  /\ queue \in Seq(Tab)

InQueue(t) == \E i \in 1..Len(queue) : queue[i] = t

\* Who refreshes is in the queue, and only its head does more than wait.
Alone ==
  \A t \in Tab : refresh[t] # None =>
    /\ InQueue(t)
    /\ Is(t, "queued") \/ queue[1] = t

\* Each step of a refresh goes by the cookies of the session as it is, and the answer to a
\* rotation brings them.
InTurn ==
  /\ \A k \in B!Token : stray[k] = 0
  /\ \A t \in Tab :
       /\ Is(t, "looking") => refresh[t].access = Newest.access
       /\ Is(t, "looked") =>
            refresh[t].ok \/ "failing" \in past \/ Newest.access <= now
       /\ Is(t, "rotating") =>
            /\ refresh[t].token = session.token
            /\ "failing" \in past \/ session.seen + Cooldown <= now
       /\ Is(t, "rotated") =>
            Newest = IF refresh[t].cookies = None THEN jar ELSE refresh[t].cookies
  /\ (\A t \in Tab : ~Is(t, "rotated")) => jar = Newest

TabsInv ==
  /\ TabTypes
  /\ Alone
  /\ leaving => session.over
  /\ session.over \/ "lost" \in past \/ InTurn
  /\ RefreshesInTurn

\* Leaving the queue keeps the others and its head, unless that is who leaves.
LEMMA OthersStay ==
  ASSUME queue \in Seq(Tab), NEW t \in Tab, queue' = B!Released(t), NEW u \in Tab \ {t}, InQueue(u)
  PROVE  InQueue(u)' /\ (queue[1] = u => queue'[1] = u)
<1>1. CASE \A i \in 1..Len(queue) : queue[i] # t
  BY <1>1 DEF B!Released, InQueue
<1>2. CASE ~\A i \in 1..Len(queue) : queue[i] # t
  <2> DEFINE i == CHOOSE i \in 1..Len(queue) : queue[i] = t
             before == SubSeq(queue, 1, i - 1)
             after == SubSeq(queue, i + 1, Len(queue))
  <2>1. i \in 1..Len(queue) /\ queue[i] = t
    BY <1>2
  <2>2. queue' = before \o after
    BY <1>2 DEF B!Released
  <2> HIDE DEF i
  <2>3. /\ before \in Seq(Tab) /\ Len(before) = i - 1 /\ \A k \in 1..i - 1 : before[k] = queue[k]
        /\ after \in Seq(Tab) /\ Len(after) = Len(queue) - i
        /\ \A k \in 1..Len(queue) - i : after[k] = queue[k + i]
    BY <2>1
  <2> HIDE DEF before, after
  <2>4. PICK k \in 1..Len(queue) : queue[k] = u
    BY DEF InQueue
  <2>5. k # i /\ k \in Nat /\ i \in Nat /\ Len(queue) \in Nat
    BY <2>1, <2>4
  <2>6. Len(queue') = Len(queue) - 1 /\ \A n \in 1..Len(queue) - 1 :
          queue'[n] = IF n < i THEN queue[n] ELSE queue[n + 1]
    <3>1. Len(queue') = Len(queue) - 1
      <4>1. ASSUME NEW s \in Seq(Tab), NEW r \in Seq(Tab)
            PROVE  Len(s \o r) = Len(s) + Len(r)
        OBVIOUS
      <4>2. Len(before \o after) = Len(before) + Len(after)
        BY <2>3, <4>1
      <4>3. QED BY <2>1, <2>2, <2>3, <4>2
    <3>2. ASSUME NEW n \in 1..Len(queue) - 1, n < i
          PROVE  queue'[n] = queue[n]
      <4>1. n \in 1..i - 1 /\ n \in 1..Len(before) /\ n \in 1..Len(before) + Len(after)
        BY <2>1, <2>3, <3>2
      <4>2. queue'[n] = before[n]
        BY <2>2, <2>3, <4>1
      <4>3. QED BY <2>3, <4>1, <4>2
    <3>3. ASSUME NEW n \in 1..Len(queue) - 1, n >= i
          PROVE  queue'[n] = queue[n + 1]
      <4>1. n - (i - 1) \in 1..Len(queue) - i /\ n \in 1..Len(before) + Len(after)
        BY <2>1, <2>3, <3>3
      <4>2. queue'[n] = after[n - (i - 1)]
        BY <2>1, <2>2, <2>3, <3>3, <4>1
      <4>3. after[n - (i - 1)] = queue[n - (i - 1) + i]
        BY <2>3, <4>1
      <4>4. n - (i - 1) + i = n + 1
        BY <2>1, <3>3
      <4>5. QED BY <4>2, <4>3, <4>4
    <3>4. QED BY <2>1, <3>1, <3>2, <3>3
  <2>7. InQueue(u)'
    <3>1. CASE k < i
      <4>1. k \in 1..Len(queue') /\ queue'[k] = u
        BY <2>1, <2>4, <2>5, <2>6, <3>1
      <4>2. QED BY <4>1 DEF InQueue
    <3>2. CASE k > i
      <4>1. k - 1 \in 1..Len(queue') /\ queue'[k - 1] = u
        BY <2>1, <2>4, <2>5, <2>6, <3>2
      <4>2. QED BY <4>1 DEF InQueue
    <3>3. QED BY <2>5, <3>1, <3>2
  <2>8. ASSUME queue[1] = u
        PROVE  queue'[1] = u
    BY <2>1, <2>4, <2>6, <2>8
  <2>9. QED BY <2>7, <2>8
<1>3. QED BY <1>1, <1>2

\* What is left of the queue is a queue.
LEMMA StillQueue ==
  ASSUME queue \in Seq(Tab), NEW t \in Tab
  PROVE  B!Released(t) \in Seq(Tab)
<1>1. CASE \A i \in 1..Len(queue) : queue[i] # t
  BY <1>1 DEF B!Released
<1>2. ASSUME NEW i \in 1..Len(queue)
      PROVE  SubSeq(queue, 1, i - 1) \o SubSeq(queue, i + 1, Len(queue)) \in Seq(Tab)
  <2>1. SubSeq(queue, 1, i - 1) \in Seq(Tab) /\ SubSeq(queue, i + 1, Len(queue)) \in Seq(Tab)
    OBVIOUS
  <2>2. QED BY <2>1
<1>3. QED BY <1>1, <1>2 DEF B!Released

\* At first all is in step.
LEMMA InitTabs ==
  ASSUME B!TimesFit, B!Init
  PROVE  TabsInv
BY DEF B!TimesFit, B!Init, TabsInv, TabTypes, Alone, InTurn, RefreshesInTurn, B!RefreshesInTurn,
       Newest, Is, B!At, B!Issued, B!Token, Cookies

\* Steps that only calls, the clock or who ends the session take.
LEMMA OthersKeep ==
  ASSUME B!TimesFit, HasLocks = TRUE, TabsInv,
         \/ \E c \in Call : B!CallStart(c) \/ B!CallServed(c) \/ B!CallEnd(c)
         \/ B!End \/ B!Logout \/ B!Tick
  PROVE  TabsInv'
<1> USE DEF TabsInv, RefreshesInTurn, B!RefreshesInTurn
<1>1. UNCHANGED <<refresh, queue, stray, past, jar>>
  BY DEF B!CallStart, B!CallServed, B!CallEnd, B!End, B!Logout, B!Tick
<1>2. Alone'
  BY <1>1 DEF Alone, InQueue, Is, B!At
<1>3. CASE \E c \in Call : B!CallStart(c) \/ B!CallServed(c) \/ B!CallEnd(c)
  <2>1. UNCHANGED <<now, session, leaving>>
    BY <1>3 DEF B!CallStart, B!CallServed, B!CallEnd
  <2>2. InTurn => InTurn'
    BY <1>1, <2>1 DEF InTurn, Newest, Is, B!At
  <2>3. QED BY <1>1, <1>2, <2>1, <2>2 DEF TabTypes, Is, B!At
<1>4. CASE B!End \/ B!Logout
  <2>1. session' = [session EXCEPT !.over = TRUE] /\ now' = now
    BY <1>4 DEF B!End, B!Logout
  <2>2. session' \in [token : Nat, seen : Nat, over : BOOLEAN] /\ session'.over
    BY <2>1 DEF TabTypes
  <2>3. QED BY <1>1, <1>2, <2>1, <2>2 DEF TabTypes, Is, B!At
<1>5. CASE B!Tick
  <2>1. now' = now + 1 /\ UNCHANGED <<session, leaving>> /\ now \in Nat
    BY <1>5 DEF B!Tick, TabTypes
  <2>2. Newest.access \in Nat /\ Newest' = Newest /\ session.seen + Cooldown \in Nat
    BY <2>1 DEF Newest, TabTypes, B!TimesFit
  <2>3. InTurn => InTurn'
    BY <1>1, <2>1, <2>2 DEF InTurn, Is, B!At
  <2>4. QED BY <1>1, <1>2, <2>1, <2>3 DEF TabTypes, Is, B!At
<1>6. QED BY <1>3, <1>4, <1>5

\* What the server does with a token keeps the session well formed, and ends it if it was used.
LEMMA ServedKeeps ==
  ASSUME B!TimesFit, TabTypes, NEW token \in Nat \cup {None}, B!Refresh(token)
  PROVE  /\ session' \in [token : Nat, seen : Nat, over : BOOLEAN]
         /\ session.over => session'.over
         /\ past \subseteq past' /\ past' \ past \subseteq {"reused", "early"}
         /\ "reused" \in past' => "reused" \in past \/ (token # session.token /\ ~session.over)
         /\ "early" \in past' =>
              "early" \in past \/ (session.seen + Cooldown > now /\ ~session.over)
<1>0. session \in [token : Nat, seen : Nat, over : BOOLEAN] /\ now \in Nat
  BY DEF TabTypes
<1>1. CASE B!Verdict(token) = "rotated"
  <2>1. token \in Nat
    BY <1>1 DEF B!Verdict
  <2>2. session' = [session EXCEPT !.token = token + 1, !.seen = now] /\ past' = past
    BY <1>1 DEF B!Refresh
  <2>3. session'.over = session.over
    BY <1>0, <2>2
  <2>4. session' \in [token : Nat, seen : Nat, over : BOOLEAN]
    <3>1. session' = [token |-> token + 1, seen |-> now, over |-> session.over]
      BY <1>0, <2>2
    <3>2. session.over \in BOOLEAN
      BY <1>0
    <3>3. QED BY <1>0, <2>1, <3>1, <3>2
  <2>5. QED BY <2>2, <2>3, <2>4
<1>2. CASE B!Verdict(token) = "early"
  <2>1. session.seen + Cooldown > now /\ ~session.over
    BY <1>2 DEF B!Verdict
  <2>2. session' = [session EXCEPT !.over = session.over \/ FALSE] /\ past' = past \cup {"early"}
    BY <1>2 DEF B!Refresh
  <2>3. session' \in [token : Nat, seen : Nat, over : BOOLEAN]
    BY <1>0, <2>2
  <2>4. QED BY <2>1, <2>2, <2>3
<1>3. CASE B!Verdict(token) = "over"
  <2> DEFINE reused == token # None /\ ~session.over
  <2>1. reused => token # session.token
    BY <1>3 DEF B!Verdict
  <2>2. /\ session' = [session EXCEPT !.over = session.over \/ reused]
        /\ past' = past \cup IF reused THEN {"reused"} ELSE {}
    BY <1>3 DEF B!Refresh
  <2>3. /\ session' \in [token : Nat, seen : Nat, over : BOOLEAN]
        /\ session.over => session'.over
    <3>1. (session.over \/ reused) \in BOOLEAN
      OBVIOUS
    <3>2. session' \in [token : Nat, seen : Nat, over : BOOLEAN]
          /\ session'.over = (session.over \/ reused)
      BY <1>0, <2>2, <3>1
    <3>3. QED BY <3>2
  <2>4. QED BY <2>1, <2>2, <2>3
<1>4. QED BY <1>1, <1>2, <1>3 DEF B!Verdict

\* What comes late or with a logout: only once an answer was lost or the session is over.
LEMMA LateKeeps ==
  ASSUME B!TimesFit, HasLocks = TRUE, TabsInv,
         B!LogoutAnswered \/ \E k \in B!Token : B!Straggle(k)
  PROVE  TabsInv'
<1> USE DEF TabsInv
<1>1. CASE B!LogoutAnswered
  <2>1. jar' = [token |-> None, access |-> 0] /\ session.over
        /\ UNCHANGED <<now, session, refresh, queue, stray, past>> /\ leaving' = FALSE
    BY <1>1 DEF B!LogoutAnswered, B!NoCookies
  <2>2. jar' \in Cookies
    BY <2>1 DEF Cookies
  <2>3. TabTypes' /\ Alone'
    BY <2>1, <2>2 DEF TabTypes, Alone, InQueue, Is, B!At
  <2>4. QED BY <2>1, <2>3 DEF RefreshesInTurn, B!RefreshesInTurn
<1>2. ASSUME NEW k \in B!Token, B!Straggle(k)
      PROVE  TabsInv'
  <2>1. k \in Nat
    BY DEF B!Token, B!TimesFit
  <2>2. session.over \/ "lost" \in past
    BY <1>2, <2>1 DEF B!Straggle, InTurn
  <2>3. B!Refresh(k) /\ UNCHANGED <<now, jar, refresh, queue, leaving>>
    BY <1>2 DEF B!Straggle
  <2>4. TabTypes'
    BY <1>2, <2>1, <2>3, ServedKeeps DEF B!Straggle, TabTypes, Is, B!At
  <2>5. Alone'
    BY <2>3 DEF Alone, InQueue, Is, B!At
  <2>6. /\ session.over => session'.over
        /\ session'.over \/ "lost" \in past'
        /\ RefreshesInTurn'
    BY <2>1, <2>2, <2>3, ServedKeeps DEF RefreshesInTurn, B!RefreshesInTurn
  <2>7. QED BY <2>3, <2>4, <2>5, <2>6
<1>3. QED BY <1>1, <1>2

\* A call that is refused puts its tab at the end of the queue.
LEMMA RefusedKeeps ==
  ASSUME B!TimesFit, HasLocks = TRUE, TabsInv, NEW c \in Call, B!CallRefused(c)
  PROVE  TabsInv'
<1> DEFINE t == TabOf[c]
<1> USE DEF TabsInv, RefreshesInTurn, B!RefreshesInTurn
<1>1. t \in Tab
  BY DEF B!TimesFit
<1>2. CASE refresh[t] # None
  <2>1. UNCHANGED <<refresh, queue, now, session, jar, stray, leaving, past>>
    BY <1>2 DEF B!CallRefused
  <2>2. InTurn => InTurn'
    BY <2>1 DEF InTurn, Newest, Is, B!At
  <2>3. TabTypes' /\ Alone'
    BY <2>1 DEF TabTypes, Alone, InQueue, Is, B!At
  <2>4. QED BY <2>1, <2>2, <2>3
<1>3. CASE refresh[t] = None
  <2>1. /\ refresh' = [refresh EXCEPT ![t] = [step |-> "queued"]]
        /\ queue' = Append(queue, t)
        /\ UNCHANGED <<now, session, jar, stray, leaving, past>>
    BY <1>3 DEF B!CallRefused
  <2>2. queue \in Seq(Tab) /\ refresh = [u \in Tab |-> refresh[u]]
    BY DEF TabTypes
  <2>3. /\ queue' \in Seq(Tab) /\ InQueue(t)'
        /\ \A u \in Tab : InQueue(u) => InQueue(u)' /\ queue'[1] = queue[1]
    BY <1>1, <2>1, <2>2 DEF InQueue
  <2>4. /\ \A u \in Tab \ {t} : refresh'[u] = refresh[u]
        /\ refresh'[t] = [step |-> "queued"]
    BY <1>1, <2>1, <2>2
  <2>5. Alone'
    BY <2>3, <2>4 DEF Alone, Is, B!At
  <2>6. TabTypes'
    BY <2>1, <2>2, <2>3, <2>4 DEF TabTypes, Is, B!At
  <2>7. InTurn => InTurn'
    BY <1>1, <1>3, <2>1, <2>4 DEF InTurn, Newest, Is, B!At
  <2>8. QED BY <2>1, <2>5, <2>6, <2>7
<1>4. QED BY <1>2, <1>3

\* A step of the tab that has the lock leaves the others where they are.
LEMMA HeadAlone ==
  ASSUME TabTypes, Alone, NEW t \in Tab,
         queue[1] = t, InQueue(t), refresh' = [refresh EXCEPT ![t] = refresh'[t]], queue' = queue
  PROVE  /\ Alone'
         /\ \A u \in Tab \ {t} : refresh'[u] = refresh[u]
         /\ \A u \in Tab \ {t} : \A step \in {"looking", "looked", "rotating", "rotated"} :
              ~Is(u, step) /\ ~Is(u, step)'
<1>1. \A u \in Tab \ {t} : refresh'[u] = refresh[u]
  BY DEF TabTypes
<1>2. \A u \in Tab \ {t} : refresh[u] = None \/ Is(u, "queued")
  BY DEF Alone
<1>3. \A u \in Tab : InQueue(u)' <=> InQueue(u)
  BY DEF InQueue
<1>4. Alone'
  BY <1>1, <1>3 DEF Alone, Is, B!At
<1>5. QED BY <1>1, <1>2, <1>4 DEF Is, B!At

\* The tab that has the lock looks whether the session was refreshed, and if not rotates it.
LEMMA LookKeeps ==
  ASSUME B!TimesFit, HasLocks = TRUE, TabsInv, NEW t \in Tab,
         B!Look(t) \/ B!LookServed(t) \/ (B!LookEnd(t) /\ ~B!Looked(t))
  PROVE  TabsInv'
<1> USE DEF TabsInv
<1>1. /\ UNCHANGED <<now, session, jar, queue, stray, leaving>>
      /\ past' = past \/ past' = past \cup {"failing"}
      /\ refresh' = [refresh EXCEPT ![t] = refresh'[t]]
  BY DEF B!Look, B!LookServed, B!LookEnd, B!Rotating
<1>2. queue[1] = t /\ InQueue(t)
  BY DEF B!Look, B!LookServed, B!LookEnd, B!Granted, Alone, Is, B!At
<1>3. Alone' /\ \A u \in Tab \ {t} :
        /\ refresh'[u] = refresh[u]
        /\ \A step \in {"looking", "looked", "rotating", "rotated"} : ~Is(u, step) /\ ~Is(u, step)'
  BY <1>1, <1>2, HeadAlone
<1>4. RefreshesInTurn'
  BY <1>1 DEF RefreshesInTurn, B!RefreshesInTurn
<1>5. Newest' = Newest
  BY <1>1 DEF Newest
<1>6. CASE B!Look(t)
  <2>1. refresh'[t] = [step |-> "looking", access |-> jar.access] /\ past' = past
    BY <1>6 DEF B!Look, TabTypes
  <2>2. ~Is(t, "rotated")
    BY <1>6 DEF B!Look, Is, B!At
  <2>3. TabTypes'
    BY <1>1, <1>3, <2>1 DEF TabTypes, Is, B!At
  <2>4. ASSUME InTurn
        PROVE  InTurn'
    <3>1. jar = Newest
      BY <1>3, <2>2, <2>4 DEF InTurn
    <3>2. QED BY <1>1, <1>3, <1>5, <2>1, <2>4, <3>1 DEF InTurn, Is, B!At
  <2>5. QED BY <1>1, <1>3, <1>4, <2>1, <2>3, <2>4
<1>7. CASE B!LookServed(t)
  <2>1. PICK failing \in BOOLEAN :
          /\ refresh' = [refresh EXCEPT ![t] =
               [step |-> "looked", ok |-> B!Authentic(refresh[t].access) /\ ~failing]]
          /\ past' = IF failing THEN past \cup {"failing"} ELSE past
    BY <1>7 DEF B!LookServed
  <2>2. /\ refresh'[t] = [step |-> "looked", ok |-> B!Authentic(refresh[t].access) /\ ~failing]
        /\ Is(t, "looking") /\ ~Is(t, "rotated")
    BY <1>7, <2>1 DEF B!LookServed, Is, B!At, TabTypes
  <2>3. TabTypes'
    BY <1>1, <1>3, <2>2 DEF TabTypes, Is, B!At
  <2>4. ASSUME InTurn, ~session.over
        PROVE  InTurn'
    <3>1. refresh[t].access = Newest.access /\ Newest.access \in Nat /\ now \in Nat
      BY <2>2, <2>4 DEF InTurn, Newest, TabTypes, B!TimesFit
    <3>2. ~failing /\ now < Newest.access => refresh'[t].ok
      <4>1. refresh'[t].ok = (B!Authentic(refresh[t].access) /\ ~failing)
        BY <2>2
      <4>2. now < Newest.access => B!Authentic(refresh[t].access)
        BY <2>4, <3>1 DEF B!Authentic
      <4>3. QED BY <4>1, <4>2
    <3>3. failing => "failing" \in past'
      BY <2>1
    <3>4. refresh'[t].ok \/ "failing" \in past' \/ Newest.access <= now
      BY <3>1, <3>2, <3>3
    <3>5. refresh'[t].step = "looked"
      BY <2>2
    <3>6. jar = Newest
      BY <1>3, <2>2, <2>4 DEF InTurn
    <3>7. QED BY <1>1, <1>3, <1>5, <2>4, <3>4, <3>5, <3>6 DEF InTurn, Is, B!At
  <2>5. QED BY <1>1, <1>3, <1>4, <2>3, <2>4
<1>8. CASE B!LookEnd(t) /\ ~B!Looked(t)
  <2>1. refresh'[t] = [step |-> "rotating", token |-> jar.token] /\ past' = past
    BY <1>8 DEF B!LookEnd, B!Rotating, TabTypes
  <2>2. Is(t, "looked") /\ ~Is(t, "rotated") /\ ~refresh[t].ok
    BY <1>8 DEF B!LookEnd, B!Looked, Is, B!At
  <2>3. TabTypes'
    BY <1>1, <1>3, <2>1 DEF TabTypes, Is, B!At, Cookies
  <2>4. ASSUME InTurn
        PROVE  InTurn'
    <3>1. "failing" \in past \/ session.seen + Cooldown <= now
      BY <2>2, <2>4 DEF InTurn, Newest, B!TimesFit, TabTypes
    <3>2. jar = Newest
      BY <1>3, <2>2, <2>4 DEF InTurn
    <3>3. jar.token = session.token
      BY <3>2 DEF Newest
    <3>4. QED BY <1>1, <1>3, <1>5, <2>1, <2>4, <3>1, <3>2, <3>3 DEF InTurn, Is, B!At
  <2>5. QED BY <1>1, <1>3, <1>4, <2>1, <2>3, <2>4
<1>9. QED BY <1>6, <1>7, <1>8

\* The server rotates the token that the tab has the lock for.
LEMMA RotateKeeps ==
  ASSUME B!TimesFit, CookiesApart, HasLocks = TRUE, TabsInv, NEW t \in Tab, B!RotateServed(t)
  PROVE  TabsInv'
<1> USE DEF TabsInv
<1> DEFINE token == refresh[t].token
           cookies == CASE B!Verdict(token) = "rotated" -> B!Issued(token + 1)
                        [] B!Verdict(token) = "over" -> B!NoCookies
                        [] OTHER -> None
           response == [step |-> "rotated", verdict |-> B!Verdict(token), cookies |-> cookies]
<1>1. /\ UNCHANGED <<now, jar, queue, stray, leaving>>
      /\ B!Refresh(token)
      /\ refresh' = [refresh EXCEPT ![t] = response]
  BY DEF B!RotateServed
<1>2. queue[1] = t /\ InQueue(t) /\ Is(t, "rotating") /\ token \in Nat \cup {None}
  BY DEF B!RotateServed, Alone, Is, B!At, TabTypes
<1> HIDE DEF cookies
<1>3. refresh'[t] = response /\ refresh' = [refresh EXCEPT ![t] = refresh'[t]]
  BY <1>1 DEF TabTypes
<1>4. refresh'[t].step = "rotated" /\ refresh'[t].cookies = cookies
  BY <1>3
<1> HIDE DEF response, token
<1>5. Alone' /\ \A u \in Tab \ {t} :
        /\ refresh'[u] = refresh[u]
        /\ \A step \in {"looking", "looked", "rotating", "rotated"} : ~Is(u, step) /\ ~Is(u, step)'
  BY <1>1, <1>2, <1>3, HeadAlone
<1>6. /\ session' \in [token : Nat, seen : Nat, over : BOOLEAN]
      /\ session.over => session'.over
      /\ past \subseteq past' /\ past' \ past \subseteq {"reused", "early"}
      /\ "reused" \in past' => "reused" \in past \/ (token # session.token /\ ~session.over)
      /\ "early" \in past' =>
           "early" \in past \/ (session.seen + Cooldown > now /\ ~session.over)
  BY <1>1, <1>2, ServedKeeps
<1>7. now \in Nat /\ AccessLife \in Nat /\ Cooldown \in Nat
  BY DEF TabTypes, B!TimesFit
<1>8. cookies \in Cookies \cup {None}
  <2>1. CASE B!Verdict(token) = "rotated"
    <3>1. token \in Nat
      BY <1>2, <2>1 DEF B!Verdict
    <3>2. cookies = B!Issued(token + 1)
      BY <2>1 DEF cookies
    <3>3. QED BY <1>7, <3>1, <3>2 DEF B!Issued, Cookies
  <2>2. CASE B!Verdict(token) = "over"
    BY <2>2 DEF cookies, B!NoCookies, Cookies
  <2>3. CASE B!Verdict(token) = "early"
    BY <2>3 DEF cookies
  <2>4. QED BY <2>1, <2>2, <2>3 DEF B!Verdict
<1>9. TabTypes'
  BY <1>1, <1>4, <1>5, <1>6, <1>8 DEF TabTypes, Is, B!At
<1>10. CASE session.over \/ "lost" \in past
  <2>1. session'.over \/ "lost" \in past'
    BY <1>6, <1>10
  <2>2. RefreshesInTurn'
    BY <1>6, <1>10 DEF RefreshesInTurn, B!RefreshesInTurn
  <2>3. QED BY <1>1, <1>5, <1>6, <1>9, <2>1, <2>2
<1>11. CASE InTurn /\ ~session.over /\ "lost" \notin past
  <2>1. token = session.token /\ ("failing" \in past \/ session.seen + Cooldown <= now)
    BY <1>2, <1>11 DEF InTurn, token
  <2>2. jar = Newest
    BY <1>2, <1>5, <1>11 DEF InTurn, Is, B!At
  <2>3. session.token \in Nat /\ session.seen \in Nat
    BY DEF TabTypes
  <2>4. Newest' = IF cookies = None THEN jar ELSE cookies
    <3>1. CASE B!Verdict(token) = "early"
      <4>1. session' = [session EXCEPT !.over = session.over \/ FALSE]
        BY <1>1, <3>1 DEF B!Refresh
      <4>2. session'.token = session.token /\ session'.seen = session.seen
        BY <4>1 DEF TabTypes
      <4>3. cookies = None
        BY <3>1 DEF cookies
      <4>4. QED BY <2>2, <4>2, <4>3 DEF Newest
    <3>2. CASE B!Verdict(token) = "rotated"
      <4>1. session' = [session EXCEPT !.token = token + 1, !.seen = now]
        BY <1>1, <3>2 DEF B!Refresh
      <4>2. session'.token = token + 1 /\ session'.seen = now
        BY <4>1 DEF TabTypes
      <4>3. cookies = [token |-> token + 1, access |-> now + AccessLife]
        BY <3>2 DEF cookies, B!Issued
      <4>4. cookies \in Cookies
        BY <1>7, <2>1, <2>3, <4>3 DEF Cookies
      <4>5. QED BY <4>2, <4>3, <4>4 DEF Newest, CookiesApart
    <3>3. B!Verdict(token) \in {"early", "rotated"}
      BY <1>11, <2>1, <2>3, CookiesApart DEF B!Verdict, CookiesApart
    <3>4. QED BY <3>1, <3>2, <3>3
  <2>5. InTurn'
    <3>1. Is(t, "rotated")'
      <4>1. B!Verdict(token) \in {"rotated", "early", "over"}
        BY DEF B!Verdict
      <4>2. response \in Responses
        BY <1>8, <4>1 DEF response, Responses
      <4>3. QED BY <1>3, <1>4, <4>2 DEF CookiesApart, Is, B!At
    <3>2. ~Is(t, "looking")' /\ ~Is(t, "looked")' /\ ~Is(t, "rotating")'
      BY <1>4 DEF Is, B!At
    <3>3. QED BY <1>1, <1>4, <1>5, <1>11, <2>4, <3>1, <3>2 DEF InTurn
  <2>6. RefreshesInTurn'
    <3>1. "reused" \in past' => "lost" \in past'
      BY <1>6, <2>1 DEF RefreshesInTurn, B!RefreshesInTurn
    <3>2. "early" \in past' => "early" \in past \/ "failing" \in past
      BY <1>6, <1>7, <2>1, <2>3
    <3>3. QED BY <1>6, <3>1, <3>2 DEF RefreshesInTurn, B!RefreshesInTurn
  <2>7. QED BY <1>1, <1>5, <1>6, <1>9, <2>5, <2>6
<1>12. QED BY <1>10, <1>11

\* What ends a refresh brings the cookies or is a loss.
LEMMA SettledKeeps ==
  ASSUME B!TimesFit, HasLocks = TRUE, TabsInv, NEW t \in Tab,
         \/ B!RotateEnd(t) \/ B!GiveUp(t) \/ B!Close(t)
         \/ B!LookEnd(t) /\ B!Looked(t)
  PROVE  TabsInv'
<1> USE DEF TabsInv
<1>1. /\ refresh' = [refresh EXCEPT ![t] = None]
      /\ queue' = B!Released(t)
      /\ UNCHANGED <<now, session, leaving>>
  BY DEF B!RotateEnd, B!GiveUp, B!Close, B!LookEnd, B!Settled
<1>2. /\ refresh'[t] = None
      /\ \A u \in Tab \ {t} : refresh'[u] = refresh[u]
      /\ queue \in Seq(Tab)
  BY <1>1 DEF TabTypes
<1>3. \A step : ~Is(t, step)' /\ \A u \in Tab \ {t} : Is(u, step)' <=> Is(u, step)
  BY <1>2 DEF Is, B!At
<1>4. Alone'
  <2>1. \A u \in Tab \ {t} : InQueue(u) => InQueue(u)' /\ (queue[1] = u => queue'[1] = u)
    BY <1>1, <1>2, OthersStay
  <2>2. QED BY <1>2, <1>3, <2>1 DEF Alone
<1>5. jar' \in Cookies
  BY DEF B!RotateEnd, B!GiveUp, B!Close, B!LookEnd, Is, B!At, TabTypes
<1>6. /\ stray' = [k \in B!Token |-> stray'[k]]
      /\ past \subseteq past' /\ past' \subseteq past \cup {"lost"}
      /\ UNCHANGED <<stray, past>> \/ "lost" \in past'
  BY DEF B!RotateEnd, B!GiveUp, B!Close, B!LookEnd, B!Left, B!At, TabTypes
<1>7. TabTypes'
  <2>1. queue' \in Seq(Tab)
    BY <1>1, <1>2, StillQueue
  <2>2. refresh' = [u \in Tab |-> refresh'[u]]
    BY <1>1 DEF TabTypes
  <2>3. QED BY <1>1, <1>2, <1>3, <1>5, <1>6, <2>1, <2>2 DEF TabTypes
<1>8. RefreshesInTurn'
  BY <1>6 DEF RefreshesInTurn, B!RefreshesInTurn
<1>9. ASSUME InTurn, "lost" \notin past'
      PROVE  InTurn'
  <2>1. Newest' = Newest /\ UNCHANGED <<stray, past>>
    BY <1>1, <1>6, <1>9 DEF Newest
  <2>2. jar' = Newest \/ (~Is(t, "rotated") /\ jar' = jar)
    BY <1>9 DEF B!RotateEnd, B!GiveUp, B!Close, B!LookEnd, B!Left, InTurn, Is, B!At
  <2>3. (\A u \in Tab : ~Is(u, "rotated")') => jar' = Newest
    BY <1>3, <1>9, <2>2 DEF InTurn
  <2>4. ASSUME NEW u \in Tab, Is(u, "rotated")'
        PROVE  u # t /\ refresh'[u] = refresh[u] /\ Is(u, "rotated") /\ jar' = jar
    <3>1. u # t /\ refresh'[u] = refresh[u] /\ Is(u, "rotated")
      BY <1>2, <1>3, <2>4
    <3>2. queue[1] = u
      BY <3>1 DEF Alone, Is, B!At
    <3>3. ~B!RotateEnd(t)
      BY <3>1, <3>2 DEF B!RotateEnd, Alone, Is, B!At
    <3>4. QED BY <3>1, <3>3 DEF B!GiveUp, B!Close, B!LookEnd
  <2>5. QED BY <1>1, <1>2, <1>3, <1>9, <2>1, <2>3, <2>4 DEF InTurn
<1>10. QED BY <1>1, <1>4, <1>6, <1>7, <1>8, <1>9

\* Every step keeps the tabs in turn.
LEMMA TabsInductive ==
  ASSUME B!TimesFit, CookiesApart, HasLocks = TRUE
  PROVE  TabsInv /\ [B!Next]_(B!vars) => TabsInv'
<1> SUFFICES ASSUME TabsInv, [B!Next]_(B!vars)
             PROVE  TabsInv'
  OBVIOUS
<1>1. CASE UNCHANGED B!vars
  BY <1>1 DEF B!vars, TabsInv, TabTypes, Alone, InTurn, RefreshesInTurn, B!RefreshesInTurn,
              Newest, Is, B!At, InQueue
<1>2. ASSUME NEW c \in Call, B!CallStart(c) \/ B!CallStep(c)
      PROVE  TabsInv'
  BY <1>2, OthersKeep, RefusedKeeps DEF B!CallStep
<1>3. ASSUME NEW t \in Tab, B!RefreshStep(t) \/ B!Close(t)
      PROVE  TabsInv'
  BY <1>3, LookKeeps, RotateKeeps, SettledKeeps DEF B!RefreshStep
<1>4. QED BY <1>1, <1>2, <1>3, OthersKeep, LateKeeps DEF B!Next

\* RefreshesInTurn: with navigator.locks, whatever the number of tabs and calls, no tab presents
\* a token that another has used unless an answer was lost, nor rotates what was just rotated
\* as long as the server and the network work (refreshSession() of lib/api.ts).
THEOREM InTurnAlways ==
  ASSUME B!TimesFit, CookiesApart, HasLocks = TRUE
  PROVE  B!Spec => []RefreshesInTurn
<1>1. B!Init => TabsInv
  BY InitTabs
<1>2. TabsInv => RefreshesInTurn
  BY DEF TabsInv
<1>3. QED BY <1>1, <1>2, TabsInductive, PTL DEF B!Spec
=============================================================================
