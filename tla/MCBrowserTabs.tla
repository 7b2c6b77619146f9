---------------------------- MODULE MCBrowserTabs ----------------------------
(* An instance of BrowserTabs for TLC: two tabs, one of which has two calls. *)
EXTENDS BrowserTabs

CONSTANTS t1, t2, c1, c2, c3

TwoTabs == [c \in Call |-> IF c = c3 THEN t2 ELSE t1]

\* One rotation given up is yet to arrive, the server fails or answers are lost but not both,
\* and the second call of a tab is over before the second rotation and the first trouble.
OneTrouble ==
  /\ \A j, k \in Token : stray[j] + (IF j = k THEN 0 ELSE stray[k]) <= 1
  /\ ~{"lost", "failing"} \subseteq past
  /\ call[c2] # None => now <= 1 /\ past = {}
=============================================================================
