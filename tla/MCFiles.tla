------------------------------ MODULE MCFiles ------------------------------
(* An instance of Files for TLC. *)
EXTENDS Files

CONSTANTS c1, w1

Elsewhere == {f \in Rows : row[f].channel # c1}

\* What other conversations have is reserved and never uploaded, and a second worker is there
\* while there is one file.
Few ==
  /\ \A f \in Elsewhere : row[f].status \in {"pending", "deleting", "removed"}
  /\ \A c \in Channel \ {c1} : access[c] = "open"
  /\ Cardinality(Rows) > 1 => \A w \in Worker \ {w1} : hold[w] = {}
=============================================================================
