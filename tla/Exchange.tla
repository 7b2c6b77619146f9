------------------------------ MODULE Exchange ------------------------------
(* What people exchange with the system: messages (Messages), emails with  *)
(* links (Mail), and the tokens of a session (BrowserTabs).  The three do  *)
(* not depend on each other.                                               *)
EXTENDS Messages

CONSTANTS Email, Worker, Tab, Call, TabOf, HasLocks, AccessLife, Cooldown, MaxTime

VARIABLES outbox, link, batch, taken, copies, loss

VARIABLES now, session, jar, call, refresh, queue, stray, leaving, signedOut, past

M == INSTANCE Mail
B == INSTANCE BrowserTabs

\* A second copy of an email has a cause: a stop, an error or the end of a lease (Mail).
CopiesAccounted == M!CopiesAccounted

\* An email that is queued is sent in the end, unless its link is over first (Mail).
LinksArrive == M!LinksArrive

\* Tabs do not present a token that another has used, nor rotate again at once (BrowserTabs).
RefreshesInTurn == B!RefreshesInTurn

\* A call that is under way ends (BrowserTabs).
CallsEnd == B!CallsEnd
=============================================================================
