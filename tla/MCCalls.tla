------------------------------ MODULE MCCalls ------------------------------
(* Instances of Calls for TLC. *)
EXTENDS Calls, TLC

CONSTANTS a, b, d, sa, sb, sd, sa2

\* One session for each of three people.
ThreeSessions == sa :> a @@ sb :> b @@ sd :> d

\* Two people, the first with two sessions.
TwoSessions == sa :> a @@ sa2 :> a @@ sb :> b

\* Two people with one session each.
OneSessionEach == sa :> a @@ sb :> b

Symmetry == Permutations(Call) \cup Permutations(Device)

\* Seats do not depend on tokens and rooms: leave out the tokens and the deletion of rooms,
\* and revoke one session at most.
OneLoss ==
  /\ token = {} /\ \A w \in Worker : pass[w] # None => pass[w].due = {}
  /\ disabled = {} /\ Cardinality({s \in Session : auth[s] # "valid"}) <= 1

\* One usable token at most, and none where a session or a user is lost: what must end does so
\* whether anybody is in the room or not.
MediaOrLoss ==
  \/ token = {} /\ \A c \in Call : room[c] = {}
  \/ /\ Cardinality(token) <= 1
     /\ disabled = {} /\ \A s \in Session : auth[s] = "valid"

\* Two usable tokens at most: those of the two ends, or two of one end.
FewTokens == Cardinality(token) <= 2 /\ disabled = {}
=============================================================================
