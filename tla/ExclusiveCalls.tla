--------------------------- MODULE ExclusiveCalls ---------------------------
(***************************************************************************)
(* What the calling component promises: a call is between two people, it   *)
(* rings, may be answered, and is over for good; and a person takes part   *)
(* in at most one call that rings or is answered.  There are no seats, no  *)
(* locks, no clock and no maintenance here.                                *)
(***************************************************************************)
EXTENDS FiniteSets

CONSTANTS User, Call

VARIABLES
  phase,    (* "none", "ringing", "active" or "over", for each call *)
  parties   (* the people of each call                              *)

cvars == <<phase, parties>>

Engaged(c) == phase[c] \in {"ringing", "active"}

Free(u, others) == \A c \in others : Engaged(c) => u \notin parties[c]

Init ==
  /\ phase = [c \in Call |-> "none"]
  /\ parties = [c \in Call |-> {}]

\* A new call between two people who are free once the calls in "stale" have been given up.
Place(c, u, v, stale) ==
  /\ phase[c] = "none"
  /\ u # v /\ Free(u, Call \ stale) /\ Free(v, Call \ stale)
  /\ \A b \in stale : Engaged(b)
  /\ phase' = [b \in Call |-> IF b = c THEN "ringing"
                              ELSE IF b \in stale THEN "over" ELSE phase[b]]
  /\ parties' = [parties EXCEPT ![c] = {u, v}]

Answer(c) ==
  /\ phase[c] = "ringing"
  /\ phase' = [phase EXCEPT ![c] = "active"]
  /\ UNCHANGED parties

Finish(c) ==
  /\ Engaged(c)
  /\ phase' = [phase EXCEPT ![c] = "over"]
  /\ UNCHANGED parties

Next ==
  \/ \E c \in Call, u \in User, v \in User, stale \in SUBSET Call : Place(c, u, v, stale)
  \/ \E c \in Call : Answer(c)
  \/ \E c \in Call : Finish(c)

Spec == Init /\ [][Next]_cvars
=============================================================================
