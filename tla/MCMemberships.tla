--------------------------- MODULE MCMemberships ---------------------------
(* An instance of Memberships for TLC. *)
EXTENDS Memberships, TLC

Symmetry ==
  Permutations(User) \cup Permutations(Workspace) \cup Permutations(Channel)
    \cup Permutations(Invitation) \cup Permutations(Process)

Channels == {c \in Channel : channel[c].status # "none"}
Invitations == {i \in Invitation : inv[i].status # "none"}

\* Three people, and four of the workspaces, channels and invitations together.
WithoutDirects ==
  /\ \A c \in Channels : ~Direct(c)
  /\ \A p \in Process : tx[p] # None => tx[p].pair = {}
  /\ Cardinality(made) + Cardinality(Channels) + Cardinality(Invitations) <= 4

Concerned ==
  {u \in User : \/ \E w \in Workspace : role[w][u] # "none"
                \/ \E c \in Channel : u \in member[c]
                \/ \E p \in Process : tx[p] # None /\ tx[p].actor = u}

\* Two people and no administrators: what these may do to direct conversations, owners may.
WithDirects ==
  /\ Cardinality(Concerned) <= 2
  /\ \A w \in Workspace, u \in User : role[w][u] # "admin"

Few == WithoutDirects \/ WithDirects
=============================================================================
