----------------------------- MODULE MCSessions -----------------------------
(* Instances of Sessions for TLC. *)
EXTENDS Sessions, TLC

Symmetry ==
  Permutations(Session) \cup Permutations(Token) \cup Permutations(Link)
    \cup Permutations(Request) \cup Permutations(Password)

\* The races of logins and recoveries: nothing is rotated or purged.
Races ==
  /\ ~disabled
  /\ \A t \in Token : token[t].status \notin {"used", "purged"}
  /\ \A l \in Link : link[l].status # "purged"
=============================================================================
