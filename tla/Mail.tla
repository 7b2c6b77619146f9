-------------------------------- MODULE Mail --------------------------------
(***************************************************************************)
(* The outbox of identity emails and the processes that empty it           *)
(* (modules/identity/infrastructure/maintenance.py, identity_worker.py).   *)
(* Time is what the queries compare it with: whether an email is available *)
(* yet, whether its lease is over and whether its link has expired; the    *)
(* retention period may be 0.  A lease id names its holder: a worker takes *)
(* new leases only when it is done with, or has lost, all of its old ones. *)
(***************************************************************************)
EXTENDS Naturals, FiniteSets

CONSTANTS
  Email,   \* emails and the links in them
  Worker,  \* processes of the identity worker
  None

VARIABLES
  outbox,  \* identity_email_outbox
  link,    \* identity_email_action_tokens: "open", "over" or "gone"
  batch,   \* deliver_batch(): the leases each worker has yet to use
  taken,   \* deliver_batch(): the email its SMTP server has just accepted
  copies,  \* history: how often each email was accepted, up to 2
  loss     \* history: the emails of which an acceptance may not have been recorded

vars == <<outbox, link, batch, taken, copies, loss>>

Queued == {e \in Email : outbox[e] # None /\ ~outbox[e].sent}

Init ==
  /\ outbox = [e \in Email |-> None]
  /\ link = [e \in Email |-> None]
  /\ batch = [w \in Worker |-> {}]
  /\ taken = [w \in Worker |-> None]
  /\ copies = [e \in Email |-> 0]
  /\ loss = {}

-----------------------------------------------------------------------------

\* An account action with its link and its email, in one transaction.
Request(e) ==
  /\ link[e] = None
  /\ link' = [link EXCEPT ![e] = "open"]
  /\ outbox' = [outbox EXCEPT ![e] =
       [sent |-> FALSE, available |-> TRUE, lease |-> None, over |-> FALSE]]
  /\ UNCHANGED <<batch, taken, copies, loss>>

\* The link is used or revoked, or it expires.
CloseLink(e) ==
  /\ link[e] = "open"
  /\ link' = [link EXCEPT ![e] = "over"]
  /\ UNCHANGED <<outbox, batch, taken, copies, loss>>

-----------------------------------------------------------------------------
(* deliver_batch().                                                        *)

Unleased_Any(e) == TRUE  \* variant: leases of others are ignored

Unleased_Never(e) == outbox[e].lease = None  \* variant: leases do not end

Unleased(e) == outbox[e].lease = None \/ outbox[e].over

Claimable ==
  {e \in Queued : /\ outbox[e].available /\ Unleased(e)
                  /\ link[e] = "open"}

\* Rows that another transaction has locked are skipped, hence any of them.
Claim(w, emails) ==
  /\ batch[w] = {} /\ taken[w] = None
  /\ emails # {} /\ emails \subseteq Claimable
  /\ outbox' = [e \in Email |->
       IF e \in emails THEN [outbox[e] EXCEPT !.lease = w, !.over = FALSE] ELSE outbox[e]]
  /\ batch' = [batch EXCEPT ![w] = emails]
  /\ UNCHANGED <<link, taken, copies, loss>>

\* send(), between the two transactions: nobody looks at the lease or the link again.
Accept(e) == copies' = [copies EXCEPT ![e] = IF @ = 2 THEN 2 ELSE @ + 1]

SmtpAccepts(w, e) ==
  /\ e \in batch[w] /\ taken[w] = None
  /\ Accept(e)
  /\ batch' = [batch EXCEPT ![w] = @ \ {e}]
  /\ taken' = [taken EXCEPT ![w] = e]
  /\ UNCHANGED <<outbox, link, loss>>

HasLease(w, e) == e \in Queued /\ outbox[e].lease = w

\* mark_email_sent
MarkSent(w, e) ==
  /\ taken[w] = e
  /\ outbox' = IF HasLease(w, e)
               THEN [outbox EXCEPT ![e].sent = TRUE, ![e].lease = None, ![e].over = FALSE]
               ELSE outbox
  /\ taken' = [taken EXCEPT ![w] = None]
  /\ UNCHANGED <<link, batch, copies, loss>>

\* mark_email_failed, after an error of SMTP that may hide an acceptance.
SmtpFails(w, e) ==
  /\ e \in batch[w] /\ taken[w] = None
  /\ \/ UNCHANGED <<copies, loss>>
     \/ Accept(e) /\ loss' = loss \cup {e}
  /\ outbox' = IF HasLease(w, e)
               THEN [outbox EXCEPT ![e].available = FALSE, ![e].lease = None, ![e].over = FALSE]
               ELSE outbox
  /\ batch' = [batch EXCEPT ![w] = @ \ {e}]
  /\ UNCHANGED <<link, taken>>

\* The process stops, or the database fails: the rest of the batch stays leased.
Stop(w) ==
  /\ batch[w] # {} \/ taken[w] # None
  /\ loss' = loss \cup ({taken[w]} \ {None})
  /\ batch' = [batch EXCEPT ![w] = {}]
  /\ taken' = [taken EXCEPT ![w] = None]
  /\ UNCHANGED <<outbox, link, copies>>

-----------------------------------------------------------------------------
(* cleanup(): the rows that are older than the retention period.           *)

CleanEmail(e) ==
  /\ outbox[e] # None /\ outbox[e].sent
  /\ outbox' = [outbox EXCEPT ![e] = None]
  /\ UNCHANGED <<link, batch, taken, copies, loss>>

\* A link takes its email with it (ON DELETE CASCADE).
CleanLink(e) ==
  /\ link[e] = "over"
  /\ link' = [link EXCEPT ![e] = "gone"]
  /\ outbox' = [outbox EXCEPT ![e] = None]
  /\ UNCHANGED <<batch, taken, copies, loss>>

-----------------------------------------------------------------------------
(* Time.                                                                   *)

Available(e) ==
  /\ e \in Queued /\ ~outbox[e].available
  /\ outbox' = [outbox EXCEPT ![e].available = TRUE]
  /\ UNCHANGED <<link, batch, taken, copies, loss>>

\* identity_outbox_lease_seconds after the claim, whether its holder is done or not.
LeaseEnds(e) ==
  /\ e \in Queued /\ outbox[e].lease # None /\ ~outbox[e].over
  /\ outbox' = [outbox EXCEPT ![e].over = TRUE]
  /\ loss' = IF \E w \in Worker : e \in batch[w] \/ taken[w] = e
             THEN loss \cup {e} ELSE loss
  /\ UNCHANGED <<link, batch, taken, copies>>

-----------------------------------------------------------------------------

EmailStep(e) ==
  \/ Request(e) \/ CloseLink(e)
  \/ CleanEmail(e) \/ CleanLink(e)
  \/ Available(e) \/ LeaseEnds(e)

WorkerStep(w) ==
  \/ \E emails \in SUBSET Email : Claim(w, emails)
  \/ \E e \in Email : SmtpAccepts(w, e) \/ MarkSent(w, e) \/ SmtpFails(w, e)
  \/ Stop(w)

Next ==
  \/ \E e \in Email : EmailStep(e)
  \/ \E w \in Worker : WorkerStep(w)

Spec == Init /\ [][Next]_vars

\* Time passes, the workers poll, and SMTP does not refuse an email for ever.
Fairness ==
  /\ SF_vars(\E w \in Worker : Claim(w, Claimable))
  /\ \A e \in Email :
       /\ WF_vars(Available(e) \/ LeaseEnds(e))
       /\ SF_vars(\E w \in Worker : SmtpAccepts(w, e))
       /\ WF_vars(\E w \in Worker : MarkSent(w, e))

FairSpec == Spec /\ Fairness

-----------------------------------------------------------------------------
(* Properties.                                                             *)

\* An email is recorded as sent only if it was, and sent a second time only after a stop, an
\* error or the end of a lease that came between an acceptance and its record.
CopiesAccounted ==
  \A e \in Email :
    /\ copies[e] = 2 => e \in loss
    /\ outbox[e] # None /\ outbox[e].sent => copies[e] > 0

\* What is queued is sent in the end unless its link is over, whatever stops halfway.
LinksArrive == \A e \in Email : e \in Queued ~> copies[e] > 0 \/ link[e] # "open"
=============================================================================
