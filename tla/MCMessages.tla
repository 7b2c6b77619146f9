----------------------------- MODULE MCMessages -----------------------------
(* An instance of Exchange for TLC: each part is explored while the others *)
(* rest.                                                                   *)
EXTENDS Exchange, FiniteSetsExt, TLC

CONSTANTS a, b, x, y, w1, t1, t2, c1, c2, c3

MC == INSTANCE MCBrowserTabs

mailVars == <<outbox, link, batch, taken, copies, loss>>
tabVars == <<now, session, jar, call, refresh, queue, stray, leaving, signedOut, past>>

ASSUME TimesAssumption == B!TimesFit

AllInit == Init /\ M!Init /\ B!Init

MessagesRest == Init /\ UNCHANGED vars
MailRests == M!Init /\ UNCHANGED mailVars
TabsRest == B!Init /\ UNCHANGED tabVars

MessagesAlone == MailRests /\ TabsRest
MailAlone == MessagesRest /\ TabsRest
TabsAlone == MessagesRest /\ MailRests

AllNext ==
  \/ MessagesAlone /\ ComposerStep
  \/ MessagesAlone /\ \E r \in wire : Create(r)
  \/ MessagesAlone /\ \E u \in User : MemberStep(u)
  \/ MessagesAlone /\ Archive
  \/ MailAlone /\ \E e \in Email : M!EmailStep(e)
  \/ MailAlone /\ \E w \in Worker : M!WorkerStep(w)
  \/ TabsAlone /\ B!Next

AllSpec ==
  AllInit /\ [][AllNext]_<<vars, mailVars, tabVars>> /\ M!Fairness /\ B!Fairness

\* One of two tabs has two calls.
TwoTabs == [c \in Call |-> IF c = c3 THEN t2 ELSE t1]

\* The second body mentions the second person.
MentionsB == x :> {} @@ y :> {b}

Changes == MapThenSumSet(LAMBDA m : message[m].revision - 1, Existing)
Marks == MapThenSumSet(LAMBDA m : Cardinality(message[m].saved)
                         + (IF message[m].pinned THEN 1 ELSE 0), Existing)
Settings ==
  Cardinality({u \in User : mode[u] # "all"}) + Cardinality({u \in User : paused[u]})
Closed == Cardinality(User \ member) + (IF archived THEN 1 ELSE 0)

\* The composer at work: all messages are its own, one of them changes or one door closes.
Sending ==
  /\ \A u \in User : cursor[u] = None
  /\ Marks + Settings = 0 /\ Changes + Closed <= 1
  /\ \A m \in Existing : message[m].client # None

\* The composer not yet used: no replies, and two changes at most, or one together
\* with a mark, a setting or a closed door.
Reading ==
  /\ sends = 0 /\ draft.body = None
  /\ Marks + Settings + Closed <= 1 /\ Marks + Settings + Changes + Closed <= 2
  /\ \A m \in Existing : message[m].reply = None

\* A second worker while there is one email.
OneBusy ==
  \A w \in Worker \ {w1} :
    Cardinality({e \in Email : link[e] # None}) > 1 => batch[w] = {} /\ taken[w] = None

Few == (Sending \/ Reading) /\ OneBusy /\ MC!OneTrouble
=============================================================================
