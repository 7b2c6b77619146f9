------------------------- MODULE MembershipsSafety -------------------------
(* Safety of Memberships, for every number of people, workspaces, channels,    *)
(* invitations and transactions: types, owners, containment, direct            *)
(* conversations.  Most of the work is to say once what a handler does to the  *)
(* tables.                                                                     *)
EXTENDS Memberships, FiniteSetTheorems, TLAPS

-----------------------------------------------------------------------------
(* Types *)

\* The empty tables are of their types.
LEMMA InitType == Init => TypeOK
BY DEF Init, TypeOK, ChannelRow, InvitationRow, Direct

\* Requests about workspaces, members and invitations keep the types.
LEMMA WorkspaceType ==
  ASSUME TypeOK, NEW p \in Process, InWorkspace(p)
  PROVE  TypeOK'
<1> USE DEF TypeOK, Commit, Direct
<1>1. ASSUME NEW u \in User, NEW r \in Role, ChangeRole(p, u, r)
      PROVE  TypeOK'
  BY <1>1 DEF ChangeRole, SetRole, Actor, TxRow
<1>2. ASSUME NEW u \in User, Depart(p, u), tx[p] # None
      PROVE  TypeOK'
  <2>1. role' \in [Workspace -> [User -> Role \cup {"none"}]]
    BY <1>2 DEF Depart, SetRole, TxRow
  <2>2. member' \in [Channel -> SUBSET User]
    BY <1>2 DEF Depart, WithoutChannels
  <2>3. QED BY <1>2, <2>1, <2>2 DEF Depart
<1>3. ASSUME NEW u \in User, RemoveMember(p, u)
      PROVE  TypeOK'
  BY <1>2, <1>3 DEF RemoveMember, Actor
<1>4. CASE LeaveWorkspace(p)
  <2>1. tx[p] # None /\ tx[p].actor \in User
    BY <1>4 DEF LeaveWorkspace, Actor, TxRow
  <2>2. QED BY <1>2, <1>4, <2>1 DEF LeaveWorkspace
<1>5. ASSUME NEW i \in Invitation, CreateInvitation(p, i)
      PROVE  TypeOK'
  BY <1>5 DEF CreateInvitation, NewInvitation, InvitationRow, Actor, TxRow
<1>6. ASSUME NEW i \in Invitation, NEW j \in Invitation, RotateInvitation(p, i, j)
      PROVE  TypeOK'
  <2> DEFINE revoked == [inv EXCEPT ![i].status = "revoked"]
  <2>1. revoked \in [Invitation -> InvitationRow]
    BY DEF InvitationRow
  <2>2. NewInvitation(tx[p].workspace) \in InvitationRow
    BY <1>6 DEF RotateInvitation, Actor, NewInvitation, InvitationRow, TxRow
  <2>3. inv' = [revoked EXCEPT ![j] = NewInvitation(tx[p].workspace)]
    BY <1>6 DEF RotateInvitation
  <2>4. inv' \in [Invitation -> InvitationRow]
    <3> HIDE DEF revoked
    <3> QED BY <2>1, <2>2, <2>3
  <2>5. QED BY <1>6, <2>4 DEF RotateInvitation
<1>7. ASSUME NEW i \in Invitation, RevokeInvitation(p, i)
      PROVE  TypeOK'
  BY <1>7 DEF RevokeInvitation, InvitationRow
<1>8. ASSUME NEW i \in Invitation, AcceptInvitation(p, i)
      PROVE  TypeOK'
  <2>1. inv' \in [Invitation -> InvitationRow]
    BY <1>8 DEF AcceptInvitation, InvitationRow
  <2>2. role' \in [Workspace -> [User -> Role \cup {"none"}]]
    BY <1>8 DEF AcceptInvitation, SetRole, Actor, TxRow, Role
  <2>3. QED BY <1>8, <2>1, <2>2 DEF AcceptInvitation
<1>9. QED BY <1>1, <1>3, <1>4, <1>5, <1>6, <1>7, <1>8 DEF InWorkspace

\* Requests about channels and direct conversations keep the types.
LEMMA ChannelType ==
  ASSUME TypeOK, NEW p \in Process, InChannel(p)
  PROVE  TypeOK'
<1> USE DEF TypeOK, Commit
<1>1. ASSUME NEW c \in Channel, NEW v \in {"public", "private"}, CreateChannel(p, c, v)
      PROVE  TypeOK'
  <2>1. tx[p].workspace \in Workspace /\ tx[p].actor \in User
    BY <1>1 DEF CreateChannel, Actor, TxRow
  <2>2. QED BY <1>1, <2>1 DEF CreateChannel, NewChannel, ChannelRow, Direct
<1>2. ASSUME NEW c \in Channel, NEW v \in {"public", "private"}, UpdateChannel(p, c, v)
      PROVE  TypeOK'
  BY <1>2 DEF UpdateChannel, Manageable, ChannelRow, Direct
<1>3. ASSUME NEW c \in Channel, NEW s \in {"open", "archived"}, SetArchived(p, c, s)
      PROVE  TypeOK'
  BY <1>3 DEF SetArchived, Manageable, ChannelRow, Direct
<1>4. ASSUME NEW c \in Channel, JoinChannel(p, c)
      PROVE  TypeOK'
  <2>1. tx[p].actor \in User
    BY <1>4 DEF JoinChannel, Actor, TxRow
  <2>2. QED BY <1>4, <2>1 DEF JoinChannel, Direct
<1>5. ASSUME NEW c \in Channel, LeaveChannel(p, c)
      PROVE  TypeOK'
  BY <1>5 DEF LeaveChannel, Direct
<1>6. ASSUME NEW c \in Channel, NEW u \in User, AddToChannel(p, c, u)
      PROVE  TypeOK'
  BY <1>6 DEF AddToChannel, Direct
<1>7. ASSUME NEW c \in Channel, NEW u \in User, RemoveFromChannel(p, c, u)
      PROVE  TypeOK'
  BY <1>7 DEF RemoveFromChannel, Direct
<1>8. ASSUME NEW u \in User, LookForDirect(p, u)
      PROVE  TypeOK'
  <2> DEFINE pair == {tx[p].actor, u}
  <2>1. tx[p] \in TxRow /\ pair \in SUBSET User
    BY <1>8 DEF LookForDirect, Actor, TxRow
  <2>2. PICK c \in Channel \cup {None} :
          tx' = [tx EXCEPT ![p].pair = pair, ![p].found = c]
    BY <1>8 DEF LookForDirect
  <2> HIDE DEF pair
  <2>3. [[tx[p] EXCEPT !.pair = pair] EXCEPT !.found = c] \in TxRow
    BY <2>1 DEF TxRow
  <2>4. tx' = [tx EXCEPT ![p] = [[tx[p] EXCEPT !.pair = pair] EXCEPT !.found = c]]
    BY <2>2
  <2>5. tx' \in [Process -> TxRow \cup {None}]
    BY <2>3, <2>4
  <2>6. QED BY <1>8, <2>5 DEF LookForDirect, Direct
<1>9. ASSUME NEW c \in Channel, OpenDirect(p, c)
      PROVE  TypeOK'
  <2>1. tx[p] \in TxRow
    BY <1>9 DEF OpenDirect
  <2>2. NewChannel(tx[p].workspace, "private", tx[p].pair) \in ChannelRow
    BY <2>1 DEF NewChannel, ChannelRow, TxRow
  <2>3. \/ channel' = channel
        \/ channel' = [channel EXCEPT ![c] = NewChannel(tx[p].workspace, "private", tx[p].pair)]
    BY <1>9 DEF OpenDirect
  <2>4. channel' \in [Channel -> ChannelRow]
    BY <2>2, <2>3
  <2>5. \A d \in Channel : Direct(d)' => channel'[d].visibility = "private" /\ channel'[d].status = "open"
    BY <2>3 DEF Direct, NewChannel
  <2>6. member' \in [Channel -> SUBSET User]
    BY <1>9, <2>1 DEF OpenDirect, TxRow
  <2>7. QED BY <1>9, <2>4, <2>5, <2>6 DEF OpenDirect
<1>10. QED BY <1>1, <1>2, <1>3, <1>4, <1>5, <1>6, <1>7, <1>8, <1>9 DEF InChannel

\* Every step keeps the types.
LEMMA NextType == TypeOK /\ [Next]_vars => TypeOK'
<1> SUFFICES ASSUME TypeOK, [Next]_vars PROVE TypeOK'
  OBVIOUS
<1> USE DEF TypeOK
<1>1. ASSUME NEW w \in Workspace, NEW u \in User, CreateWorkspace(w, u)
      PROVE  TypeOK'
  BY <1>1 DEF CreateWorkspace, Role, Direct
<1>2. ASSUME NEW p \in Process, NEW w \in Workspace, NEW u \in User, Begin(p, w, u)
      PROVE  TypeOK'
  BY <1>2 DEF Begin, TxRow, Direct
<1>3. ASSUME NEW p \in Process, Rollback(p)
      PROVE  TypeOK'
  BY <1>3 DEF Rollback, Direct
<1>4. ASSUME NEW i \in Invitation, ExpireInvitation(i)
      PROVE  TypeOK'
  BY <1>4 DEF ExpireInvitation, InvitationRow, Direct
<1>5. CASE UNCHANGED vars
  BY <1>5 DEF vars, Direct
<1>6. QED BY <1>1, <1>2, <1>3, <1>4, <1>5, WorkspaceType, ChannelType DEF Next

\* Every reachable state has the types of its tables and transactions.
THEOREM TypeCorrect == Spec => []TypeOK
<1>1. QED BY InitType, NextType, PTL DEF Spec

-----------------------------------------------------------------------------
(* The inductive invariant *)

\* Open transactions hold different workspaces and disjoint pairs of users.
LocksHeld ==
  \A p, q \in Process : p # q /\ tx[p] # None /\ tx[q] # None =>
    tx[p].workspace # tx[q].workspace /\ tx[p].pair \cap tx[q].pair = {}

\* A transaction is about a workspace that exists; the pair it may have locked is two people,
\* and the conversation it found is theirs.
Transactions ==
  \A p \in Process : tx[p] # None =>
    /\ tx[p].workspace \in made
    /\ tx[p].pair # {} => \E u, v \in User : u # v /\ tx[p].pair = {u, v}
    /\ tx[p].found # None => tx[p].pair # {} /\ channel[tx[p].found].pair = tx[p].pair

\* A channel that is not there has nobody in it, one that is has a workspace.
Rows ==
  \A c \in Channel :
    /\ channel[c].status = "none" => channel[c].pair = {} /\ member[c] = {}
    /\ channel[c].status # "none" => channel[c].workspace # None

Inv ==
  /\ TypeOK /\ LocksHeld /\ Transactions /\ Rows
  /\ ReadsStayTrue /\ DirectIsPair /\ OwnerRemains /\ ChannelWithinWorkspace

\* Without rows the invariant holds.
LEMMA InitInv == Init => Inv
BY InitType DEF Init, Inv, LocksHeld, Transactions, Rows, ReadsStayTrue, DirectIsPair,
                OwnerRemains, ChannelWithinWorkspace, Direct

-----------------------------------------------------------------------------
(* What handlers do *)

\* The handlers that end their transaction: all but LookForDirect.
Ending(p) == tx[p] # None /\ tx' = [tx EXCEPT ![p] = None] /\ made' = made

\* No role changes; no channel and nobody's membership in one does.
SameRoles == role' = role
SameChannels == channel' = channel /\ member' = member

\* Somebody leaves the workspace and its channels.
Departs(p, u) ==
  /\ NotFinalOwner(p, u)
  /\ role' = [role EXCEPT ![tx[p].workspace][u] = "none"]
  /\ channel' = channel /\ member' = WithoutChannels(p, u)

\* Somebody in the workspace gets another role.
Changes(p, u, r) ==
  /\ Roles(p)[u] # "none" /\ NotFinalOwner(p, u)
  /\ role' = [role EXCEPT ![tx[p].workspace][u] = r]
  /\ SameChannels

\* Somebody enters the workspace by an invitation.
Enters(p, u, i) ==
  /\ Roles(p)[u] = "none" /\ Pending(p, i)
  /\ role' = [role EXCEPT ![tx[p].workspace][u] = "member"]
  /\ inv' = [inv EXCEPT ![i].status = "accepted"]
  /\ SameChannels

\* A row of a channel changes in place.
Updates(p, c) ==
  /\ SameRoles /\ Manageable(p, c) /\ member' = member
  /\ \E v \in {"public", "private"}, s \in {"open", "archived"} :
       channel' = [channel EXCEPT ![c] =
         [status |-> s, visibility |-> v, workspace |-> channel[c].workspace, pair |-> {}]]

\* People of the workspace join a channel or leave it.
Moves(p, c, S) ==
  /\ SameRoles /\ Manageable(p, c) /\ channel' = channel
  /\ S \in SUBSET {u \in User : Roles(p)[u] # "none"}
  /\ \E R \in SUBSET member[c] : member' = [member EXCEPT ![c] = R \cup S]

\* A channel appears with its first members.
Appears(p, c, v, pair, S) ==
  /\ SameRoles
  /\ channel[c].status = "none"
  /\ channel' = [channel EXCEPT ![c] = NewChannel(tx[p].workspace, v, pair)]
  /\ member' = [member EXCEPT ![c] = S]

\* What a request about workspaces, members and invitations does to the rows.
LEMMA WorkspaceCases ==
  ASSUME TypeOK, NEW p \in Process, InWorkspace(p)
  PROVE  /\ Ending(p)
         /\ \/ SameRoles /\ SameChannels
            \/ \E u \in User : Departs(p, u)
            \/ \E u \in User, r \in Role : Changes(p, u, r)
            \/ \E u \in User, i \in Invitation : Enters(p, u, i)
<1> USE DEF Ending, Commit, SameRoles, SameChannels
<1>1. ASSUME NEW u \in User, NEW r \in Role, ChangeRole(p, u, r)
      PROVE  Ending(p) /\ Changes(p, u, r)
  BY <1>1 DEF ChangeRole, Actor, SetRole, Changes
<1>2. ASSUME NEW u \in User, RemoveMember(p, u)
      PROVE  Ending(p) /\ Departs(p, u)
  BY <1>2 DEF RemoveMember, Actor, Depart, SetRole, Departs
<1>3. CASE LeaveWorkspace(p)
  <2>1. tx[p].actor \in User
    BY <1>3 DEF LeaveWorkspace, Actor, TypeOK, TxRow
  <2>2. Ending(p) /\ Departs(p, tx[p].actor)
    BY <1>3 DEF LeaveWorkspace, Actor, Depart, SetRole, Departs
  <2>3. QED BY <2>1, <2>2
<1>4. ASSUME NEW i \in Invitation, AcceptInvitation(p, i)
      PROVE  Ending(p) /\ tx[p].actor \in User /\ Enters(p, tx[p].actor, i)
  BY <1>4 DEF AcceptInvitation, Acceptable, Actor, Mine, SetRole, Enters, TypeOK, TxRow
<1>5. ASSUME NEW i \in Invitation, NEW j \in Invitation,
             CreateInvitation(p, i) \/ RotateInvitation(p, i, j) \/ RevokeInvitation(p, i)
      PROVE  Ending(p) /\ SameRoles /\ SameChannels
  BY <1>5 DEF CreateInvitation, RotateInvitation, RevokeInvitation, Actor
<1>6. QED BY <1>1, <1>2, <1>3, <1>4, <1>5 DEF InWorkspace

\* What a request about channels and direct conversations does to the rows.
LEMMA ChannelCases ==
  ASSUME TypeOK, NEW p \in Process, InChannel(p)
  PROVE  \/ \E u \in User : LookForDirect(p, u)
         \/ /\ Ending(p)
            /\ \/ \E c \in Channel : Updates(p, c)
               \/ \E c \in Channel, S \in SUBSET User : Moves(p, c, S)
               \/ \E c \in Channel, v \in {"public", "private"} :
                    Roles(p)[tx[p].actor] # "none" /\ Appears(p, c, v, {}, {tx[p].actor})
               \/ \E c \in Channel : OpenDirect(p, c)
<1> USE DEF Ending, Commit, SameRoles
<1>1. ASSUME NEW c \in Channel, NEW v \in {"public", "private"}, CreateChannel(p, c, v)
      PROVE  Ending(p) /\ Roles(p)[tx[p].actor] # "none" /\ Appears(p, c, v, {}, {tx[p].actor})
  BY <1>1 DEF CreateChannel, Actor, Mine, Manager, Appears
<1>2. ASSUME NEW c \in Channel, NEW v \in {"public", "private"}, UpdateChannel(p, c, v)
      PROVE  Ending(p) /\ Updates(p, c)
  <2>1. channel[c] \in ChannelRow
    BY DEF TypeOK
  <2>2. [channel[c] EXCEPT !.visibility = v] =
          [status |-> "open", visibility |-> v, workspace |-> channel[c].workspace, pair |-> {}]
    <3>1. channel[c].status = "open" /\ channel[c].pair = {}
      BY <1>2, <2>1 DEF UpdateChannel, Manageable, Direct
    <3>2. QED BY <2>1, <3>1 DEF ChannelRow
  <2>3. channel' = [channel EXCEPT ![c] = [channel[c] EXCEPT !.visibility = v]]
    BY <1>2 DEF UpdateChannel
  <2>4. QED BY <1>2, <2>2, <2>3 DEF UpdateChannel, Actor, Updates
<1>3. ASSUME NEW c \in Channel, NEW s \in {"open", "archived"}, SetArchived(p, c, s)
      PROVE  Ending(p) /\ Updates(p, c)
  <2>1. channel[c] \in ChannelRow /\ channel[c].visibility \in {"public", "private"}
    BY DEF TypeOK, ChannelRow
  <2>2. [channel[c] EXCEPT !.status = s] =
          [status |-> s, visibility |-> channel[c].visibility,
           workspace |-> channel[c].workspace, pair |-> {}]
    <3>1. channel[c].pair = {}
      BY <1>3, <2>1 DEF SetArchived, Manageable, Direct
    <3>2. QED BY <2>1, <3>1 DEF ChannelRow
  <2>3. channel' = [channel EXCEPT ![c] = [channel[c] EXCEPT !.status = s]]
    BY <1>3 DEF SetArchived
  <2>4. QED BY <1>3, <2>1, <2>2, <2>3 DEF SetArchived, Actor, Updates
<1>4. ASSUME NEW c \in Channel, JoinChannel(p, c)
      PROVE  Ending(p) /\ tx[p].actor \in User /\ Moves(p, c, {tx[p].actor})
  BY <1>4 DEF JoinChannel, Actor, Mine, Role, Moves, TypeOK, TxRow
<1>5. ASSUME NEW c \in Channel, LeaveChannel(p, c)
      PROVE  Ending(p) /\ Moves(p, c, {})
  BY <1>5 DEF LeaveChannel, Actor, Moves, TypeOK
<1>6. ASSUME NEW c \in Channel, NEW u \in User, AddToChannel(p, c, u)
      PROVE  Ending(p) /\ Moves(p, c, {u})
  BY <1>6 DEF AddToChannel, Actor, Moves, TypeOK
<1>7. ASSUME NEW c \in Channel, NEW u \in User, RemoveFromChannel(p, c, u)
      PROVE  Ending(p) /\ Moves(p, c, {})
  BY <1>7 DEF RemoveFromChannel, Actor, Moves, TypeOK
<1>8. ASSUME NEW c \in Channel, OpenDirect(p, c)
      PROVE  Ending(p)
  BY <1>8 DEF OpenDirect
<1>9. QED BY <1>1, <1>2, <1>3, <1>4, <1>5, <1>6, <1>7, <1>8 DEF InChannel

\* Opening a direct conversation finds it complete or creates it.
LEMMA OpenCases ==
  ASSUME Inv, NEW p \in Process, NEW c \in Channel, OpenDirect(p, c)
  PROVE  /\ SameRoles
         /\ \/ SameChannels
            \/ /\ Appears(p, c, "private", tx[p].pair, tx[p].pair)
               /\ tx[p].pair # {}
               /\ \A d \in Channel : channel[d].pair # tx[p].pair
<1>1. SameRoles
  BY DEF OpenDirect, SameRoles
<1>2. CASE tx[p].found # None
  <2>1. c = tx[p].found /\ channel' = channel /\ tx[p] # None /\ tx[p].pair # {}
    BY <1>2 DEF OpenDirect
  <2>2. channel[c].pair = tx[p].pair /\ Direct(c)
    BY <1>2, <2>1 DEF Inv, Transactions, Direct
  <2>3. member[c] = tx[p].pair
    BY <2>2 DEF Inv, DirectIsPair
  <2>4. member' = [member EXCEPT ![c] = member[c] \cup tx[p].pair]
    BY DEF OpenDirect
  <2>5. member' = member
    BY <2>3, <2>4 DEF Inv, TypeOK
  <2>6. QED BY <1>1, <2>1, <2>5 DEF SameChannels
<1>3. CASE tx[p].found = None
  <2>1. member[c] = {}
    BY <1>3 DEF OpenDirect, Inv, Rows
  <2>2. member[c] \cup tx[p].pair = tx[p].pair
    BY <2>1
  <2>3. QED BY <1>1, <1>3, <2>2 DEF OpenDirect, Appears, SameRoles
<1>4. QED BY <1>2, <1>3

\* What a step does to roles and channels, for the safety proofs.
RoleEffect(p) ==
  /\ SameChannels
  /\ \/ \E u \in User, r \in Role : Changes(p, u, r)
     \/ \E u \in User, i \in Invitation : Enters(p, u, i)

ChannelEffect(p) ==
  \/ \E c \in Channel : Updates(p, c)
  \/ \E c \in Channel, S \in SUBSET User : Moves(p, c, S)
  \/ \E c \in Channel, v \in {"public", "private"} :
       Roles(p)[tx[p].actor] # "none" /\ Appears(p, c, v, {}, {tx[p].actor})
  \/ \E c \in Channel :
       /\ Appears(p, c, "private", tx[p].pair, tx[p].pair)
       /\ tx[p].pair # {}
       /\ \A d \in Channel : channel[d].pair # tx[p].pair

\* Every step is one of these.
LEMMA StepCases ==
  ASSUME Inv, [Next]_vars
  PROVE  \/ \E w \in Workspace, u \in User : CreateWorkspace(w, u)
         \/ \E p \in Process, w \in Workspace, u \in User : Begin(p, w, u)
         \/ \E p \in Process, u \in User : LookForDirect(p, u)
         \/ \E p \in Process : Ending(p) /\ SameRoles /\ SameChannels
         \/ \E p \in Process, u \in User : Ending(p) /\ Departs(p, u)
         \/ \E p \in Process : Ending(p) /\ RoleEffect(p)
         \/ \E p \in Process : Ending(p) /\ ChannelEffect(p)
         \/ tx' = tx /\ made' = made /\ SameRoles /\ SameChannels
<1>1. TypeOK
  BY DEF Inv
<1>2. ASSUME NEW p \in Process, Rollback(p)
      PROVE  Ending(p) /\ SameRoles /\ SameChannels
  BY <1>2 DEF Rollback, Ending, SameRoles, SameChannels
<1>3. ASSUME NEW p \in Process, InWorkspace(p)
      PROVE  \/ Ending(p) /\ SameRoles /\ SameChannels
             \/ \E u \in User : Ending(p) /\ Departs(p, u)
             \/ Ending(p) /\ RoleEffect(p)
  BY <1>1, <1>3, WorkspaceCases DEF RoleEffect, Changes, Enters
<1>4. ASSUME NEW p \in Process, InChannel(p)
      PROVE  \/ \E u \in User : LookForDirect(p, u)
             \/ Ending(p) /\ SameRoles /\ SameChannels
             \/ Ending(p) /\ ChannelEffect(p)
  BY <1>1, <1>4, ChannelCases, OpenCases DEF ChannelEffect
<1>5. ASSUME NEW i \in Invitation, ExpireInvitation(i)
      PROVE  tx' = tx /\ made' = made /\ SameRoles /\ SameChannels
  BY <1>5 DEF ExpireInvitation, SameRoles, SameChannels
<1>6. CASE UNCHANGED vars
  BY <1>6 DEF vars, SameRoles, SameChannels
<1>7. QED BY <1>2, <1>3, <1>4, <1>5, <1>6 DEF Next

-----------------------------------------------------------------------------
(* Locks and transactions *)

\* Every step leaves each open transaction the locks it needs.
LEMMA NextLocks ==
  ASSUME Inv, [Next]_vars
  PROVE  LocksHeld'
<1> USE DEF LocksHeld
<1>0. tx \in [Process -> TxRow \cup {None}] /\ LocksHeld
  BY DEF Inv, TypeOK
<1>1. ASSUME NEW w \in Workspace, NEW u \in User, CreateWorkspace(w, u)
      PROVE  LocksHeld'
  BY <1>0, <1>1 DEF CreateWorkspace
<1>2. ASSUME NEW p \in Process, NEW w \in Workspace, NEW u \in User, Begin(p, w, u)
      PROVE  LocksHeld'
  BY <1>0, <1>2 DEF Begin, Held
<1>3. ASSUME NEW p \in Process, NEW u \in User, LookForDirect(p, u)
      PROVE  LocksHeld'
  <2> DEFINE pair == {tx[p].actor, u}
  <2>1. PICK c \in Channel \cup {None} :
          tx' = [tx EXCEPT ![p].pair = pair, ![p].found = c]
    BY <1>3 DEF LookForDirect
  <2>2. tx[p] # None /\ UsersFree(pair) /\ tx[p] \in TxRow
    BY <1>0, <1>3 DEF LookForDirect, Actor
  <2> HIDE DEF pair
  <2>3. \A q \in Process : q # p => tx'[q] = tx[q]
    BY <1>0, <2>1
  <2>4. tx'[p].pair = pair /\ tx'[p].workspace = tx[p].workspace
    BY <1>0, <2>1, <2>2 DEF TxRow
  <2>5. QED BY <1>0, <2>2, <2>3, <2>4 DEF UsersFree
<1>4. ASSUME NEW p \in Process, Ending(p)
      PROVE  LocksHeld'
  BY <1>0, <1>4 DEF Ending
<1>5. CASE tx' = tx
  BY <1>0, <1>5
<1>6. QED BY <1>1, <1>2, <1>3, <1>4, <1>5, StepCases

\* The pair of an existing conversation stays.
LEMMA PairsStay ==
  ASSUME Inv, [Next]_vars, NEW c \in Channel, channel[c].pair # {}
  PROVE  channel'[c].pair = channel[c].pair
<1>1. TypeOK /\ channel[c].status # "none" /\ Direct(c)
  BY DEF Inv, Rows, Direct
<1>2. ASSUME NEW p \in Process, ChannelEffect(p)
      PROVE  channel'[c].pair = channel[c].pair
  BY <1>1, <1>2 DEF ChannelEffect, Updates, Moves, Appears, Manageable, TypeOK
<1>3. QED BY <1>2, StepCases
        DEF CreateWorkspace, Begin, LookForDirect, SameChannels, Departs, RoleEffect

\* Every step leaves what open transactions carry about themselves right.
LEMMA NextTransactions ==
  ASSUME Inv, [Next]_vars
  PROVE  Transactions'
<1>0. tx \in [Process -> TxRow \cup {None}] /\ Transactions /\ TypeOK
  BY DEF Inv, TypeOK
<1>1. ASSUME made \subseteq made', NEW q \in Process, tx'[q] = tx[q], tx[q] # None
      PROVE  /\ tx'[q].workspace \in made'
             /\ tx'[q].pair # {} => \E u, v \in User : u # v /\ tx'[q].pair = {u, v}
             /\ tx'[q].found # None =>
                  tx'[q].pair # {} /\ channel'[tx'[q].found].pair = tx'[q].pair
  <2>1. tx[q] \in TxRow
    BY <1>0, <1>1
  <2>2. ASSUME tx[q].found # None
        PROVE  tx[q].pair # {} /\ channel'[tx[q].found].pair = tx[q].pair
    <3>1. tx[q].found \in Channel /\ tx[q].pair # {} /\ channel[tx[q].found].pair = tx[q].pair
      BY <1>0, <1>1, <2>1, <2>2 DEF Transactions, TxRow
    <3>2. QED BY <3>1, PairsStay
  <2>3. QED BY <1>0, <1>1, <2>2 DEF Transactions
<1>2. ASSUME NEW w \in Workspace, NEW u \in User, CreateWorkspace(w, u)
      PROVE  Transactions'
  <2>1. tx' = tx /\ made \subseteq made'
    BY <1>2 DEF CreateWorkspace
  <2>2. QED BY <1>1, <2>1 DEF Transactions
<1>3. ASSUME NEW p \in Process, NEW w \in Workspace, NEW u \in User, Begin(p, w, u)
      PROVE  Transactions'
  <2>1. made' = made /\ w \in made /\ \A q \in Process : q # p => tx'[q] = tx[q]
    BY <1>0, <1>3 DEF Begin
  <2>2. tx'[p].workspace = w /\ tx'[p].pair = {} /\ tx'[p].found = None
    BY <1>0, <1>3 DEF Begin
  <2>3. QED BY <1>1, <2>1, <2>2 DEF Transactions
<1>4. ASSUME NEW p \in Process, NEW u \in User, LookForDirect(p, u)
      PROVE  Transactions'
  <2> DEFINE pair == {tx[p].actor, u}
  <2>1. PICK c \in Channel \cup {None} :
          /\ c # None => channel[c].pair = pair
          /\ tx' = [tx EXCEPT ![p].pair = pair, ![p].found = c]
    BY <1>4 DEF LookForDirect
  <2>2. /\ tx[p] # None /\ tx[p] \in TxRow /\ tx[p].actor \in User /\ u # tx[p].actor
        /\ made' = made /\ channel' = channel
    BY <1>0, <1>4 DEF LookForDirect, Actor, TxRow
  <2>3. pair # {} /\ \E a, b \in User : a # b /\ pair = {a, b}
    BY <2>2
  <2> HIDE DEF pair
  <2>4. \A q \in Process : q # p => tx'[q] = tx[q]
    BY <1>0, <2>1
  <2>5. tx'[p].pair = pair /\ tx'[p].found = c /\ tx'[p].workspace = tx[p].workspace
    BY <1>0, <2>1, <2>2 DEF TxRow
  <2>6. tx[p].workspace \in made
    BY <1>0, <2>2 DEF Transactions
  <2>7. tx'[p].pair # {} => \E a, b \in User : a # b /\ tx'[p].pair = {a, b}
    BY <2>3, <2>5
  <2>8. tx'[p].found # None => tx'[p].pair # {} /\ channel'[tx'[p].found].pair = tx'[p].pair
    BY <2>1, <2>2, <2>3, <2>5
  <2>9. tx'[p].workspace \in made'
    BY <2>2, <2>5, <2>6
  <2>10. made \subseteq made'
    BY <2>2
  <2>11. QED BY <1>1, <2>4, <2>7, <2>8, <2>9, <2>10 DEF Transactions
<1>5. ASSUME NEW p \in Process, Ending(p)
      PROVE  Transactions'
  <2>1. made' = made /\ tx'[p] = None /\ \A q \in Process : q # p => tx'[q] = tx[q]
    BY <1>0, <1>5 DEF Ending
  <2>2. QED BY <1>1, <2>1 DEF Transactions
<1>6. CASE tx' = tx /\ made' = made
  BY <1>1, <1>6 DEF Transactions
<1>7. QED BY <1>2, <1>3, <1>4, <1>5, <1>6, StepCases

\* Every step leaves the rows consistent with each other.
LEMMA NextRows ==
  ASSUME Inv, [Next]_vars
  PROVE  Rows'
<1>0. TypeOK /\ Rows
  BY DEF Inv
<1>1. ASSUME SameChannels
      PROVE  Rows'
  BY <1>0, <1>1 DEF SameChannels, Rows
<1>2. ASSUME NEW p \in Process, NEW u \in User, Departs(p, u)
      PROVE  Rows'
  BY <1>0, <1>2 DEF Departs, WithoutChannels, Rows
<1>3. ASSUME NEW p \in Process, ChannelEffect(p), Ending(p)
      PROVE  Rows'
  <2>0. tx[p].workspace # None
    BY <1>0, <1>3, NoneAssumption DEF Ending, TypeOK, TxRow
  <2>1. ASSUME NEW c \in Channel, Updates(p, c)
        PROVE  Rows'
    BY <1>0, <2>0, <2>1 DEF Updates, Manageable, Rows, TypeOK
  <2>2. ASSUME NEW c \in Channel, NEW S \in SUBSET User, Moves(p, c, S)
        PROVE  Rows'
    BY <1>0, <2>2 DEF Moves, Manageable, Rows, TypeOK
  <2>3. ASSUME NEW c \in Channel, NEW v, NEW pair, NEW S, Appears(p, c, v, pair, S)
        PROVE  Rows'
    BY <1>0, <2>0, <2>3 DEF Appears, NewChannel, Rows, TypeOK
  <2>4. QED BY <1>3, <2>1, <2>2, <2>3 DEF ChannelEffect
<1>4. QED BY <1>1, <1>2, <1>3, StepCases
        DEF CreateWorkspace, Begin, LookForDirect, RoleEffect, SameChannels

-----------------------------------------------------------------------------
(* Reads stay true *)

\* The locks are why: a handler writes roles of its own workspace only, which no other open
\* transaction has read, and creates conversations of its own pair only, which no other has
\* looked for.
LEMMA NextReads ==
  ASSUME Inv, [Next]_vars
  PROVE  ReadsStayTrue'
<1> DEFINE True(q) == /\ tx[q].roles = role[tx[q].workspace]
                      /\ tx[q].pair # {} /\ tx[q].found = None =>
                           \A c \in Channel : channel[c].pair # tx[q].pair
<1>0. /\ TypeOK /\ LocksHeld /\ Transactions /\ ReadsStayTrue
      /\ tx \in [Process -> TxRow \cup {None}]
  BY DEF Inv, TypeOK
<1>1. ASSUME tx' = tx, \A w \in made : role'[w] = role[w], channel' = channel
      PROVE  ReadsStayTrue'
  BY <1>0, <1>1 DEF ReadsStayTrue, Transactions
<1>2. ASSUME NEW w \in Workspace, NEW u \in User, CreateWorkspace(w, u)
      PROVE  ReadsStayTrue'
  BY <1>0, <1>1, <1>2 DEF CreateWorkspace, TypeOK
<1>3. ASSUME NEW p \in Process, NEW w \in Workspace, NEW u \in User, Begin(p, w, u)
      PROVE  ReadsStayTrue'
  BY <1>0, <1>3 DEF Begin, ReadsStayTrue
<1>4. ASSUME NEW p \in Process, NEW u \in User, LookForDirect(p, u)
      PROVE  ReadsStayTrue'
  <2> DEFINE pair == {tx[p].actor, u}
  <2>1. PICK c \in Channel \cup {None} :
          /\ IF \E d \in Channel : channel[d].pair = pair
             THEN c # None /\ channel[c].pair = pair ELSE c = None
          /\ tx' = [tx EXCEPT ![p].pair = pair, ![p].found = c]
    BY <1>4 DEF LookForDirect
  <2>2. tx[p] # None /\ tx[p] \in TxRow /\ role' = role /\ channel' = channel
    BY <1>0, <1>4 DEF LookForDirect, Actor
  <2> HIDE DEF pair
  <2>3. \A q \in Process : q # p => tx'[q] = tx[q]
    BY <1>0, <2>1
  <2>4. /\ tx'[p].pair = pair /\ tx'[p].found = c
        /\ tx'[p].workspace = tx[p].workspace /\ tx'[p].roles = tx[p].roles
    BY <1>0, <2>1, <2>2 DEF TxRow
  <2>5. QED BY <1>0, <2>1, <2>2, <2>3, <2>4 DEF ReadsStayTrue
<1>5. ASSUME NEW p \in Process, Ending(p),
             \A w \in Workspace : w # tx[p].workspace => role'[w] = role[w],
             \A c \in Channel : channel'[c].pair \in {channel[c].pair, {}, tx[p].pair}
      PROVE  ReadsStayTrue'
  <2>1. ASSUME NEW q \in Process, tx'[q] # None
        PROVE  True(q)'
    <3>1. q # p /\ tx'[q] = tx[q] /\ tx[q] \in TxRow /\ tx[p] # None
      BY <1>0, <1>5, <2>1 DEF Ending
    <3>2. tx[q].workspace # tx[p].workspace /\ tx[q].pair \cap tx[p].pair = {}
      BY <1>0, <2>1, <3>1 DEF LocksHeld
    <3>3. tx[q].roles = role'[tx[q].workspace]
      BY <1>0, <1>5, <2>1, <3>1, <3>2 DEF ReadsStayTrue, TxRow
    <3>4. ASSUME tx[q].pair # {}, tx[q].found = None, NEW c \in Channel
          PROVE  channel'[c].pair # tx[q].pair
      <4>1. channel[c].pair # tx[q].pair
        BY <1>0, <2>1, <3>1, <3>4 DEF ReadsStayTrue
      <4>2. QED BY <1>5, <3>2, <3>4, <4>1
    <3>5. QED BY <3>1, <3>3, <3>4
  <2>2. QED BY <2>1 DEF ReadsStayTrue
<1>6. ASSUME NEW p \in Process, NEW u \in User, NEW r, Ending(p), channel' = channel,
             role' = [role EXCEPT ![tx[p].workspace][u] = r]
      PROVE  ReadsStayTrue'
  BY <1>0, <1>5, <1>6 DEF TypeOK
<1>7. ASSUME NEW p \in Process, Ending(p), ChannelEffect(p)
      PROVE  ReadsStayTrue'
  <2>1. role' = role
    BY <1>7 DEF ChannelEffect, Updates, Moves, Appears, SameRoles
  <2>2. \A c \in Channel : channel'[c].pair \in {channel[c].pair, {}, tx[p].pair}
    BY <1>0, <1>7 DEF ChannelEffect, Updates, Moves, Appears, NewChannel, TypeOK
  <2>3. QED BY <1>5, <1>7, <2>1, <2>2
<1>8. ASSUME NEW p \in Process, Ending(p), SameRoles, SameChannels
      PROVE  ReadsStayTrue'
  BY <1>5, <1>8 DEF SameRoles, SameChannels
<1>9. QED BY <1>1, <1>2, <1>3, <1>4, <1>6, <1>7, <1>8, StepCases
        DEF RoleEffect, Departs, Changes, Enters, SameRoles, SameChannels

-----------------------------------------------------------------------------
(* Owners, containment, direct conversations *)

\* Every step leaves each workspace an owner.
LEMMA NextOwner ==
  ASSUME Inv, [Next]_vars
  PROVE  OwnerRemains'
<1>0. TypeOK /\ OwnerRemains /\ ReadsStayTrue
  BY DEF Inv
<1>1. ASSUME NEW p \in Process, tx[p] # None, NEW u \in User, NotFinalOwner(p, u),
             role[tx[p].workspace][u] = "owner"
      PROVE  \E v \in User : v # u /\ role[tx[p].workspace][v] = "owner"
  <2> DEFINE owners == {v \in User : Roles(p)[v] = "owner"}
  <2>1. Roles(p) = role[tx[p].workspace]
    BY <1>0, <1>1 DEF ReadsStayTrue, Roles
  <2>2. Cardinality(owners) > 1
    BY <1>1, <2>1 DEF NotFinalOwner
  <2>3. owners # {u}
    BY <2>2, FS_Singleton
  <2>4. u \in owners
    BY <1>1, <2>1
  <2>5. PICK v \in owners : v # u
    BY <2>3, <2>4
  <2>6. QED BY <2>1, <2>5
<1>2. ASSUME NEW p \in Process, Ending(p), NEW u \in User, NEW r,
             role[tx[p].workspace][u] = "owner" => NotFinalOwner(p, u),
             role' = [role EXCEPT ![tx[p].workspace][u] = r]
      PROVE  OwnerRemains'
  <2>1. tx[p] # None /\ tx[p].workspace \in Workspace /\ made' = made
    BY <1>0, <1>2 DEF Ending, TypeOK, TxRow
  <2>2. \A w \in Workspace, v \in User :
          ~(w = tx[p].workspace /\ v = u) => role'[w][v] = role[w][v]
    BY <1>0, <1>2, <2>1 DEF TypeOK
  <2>3. SUFFICES ASSUME NEW w \in made PROVE \E v \in User : role'[w][v] = "owner"
    BY <2>1 DEF OwnerRemains
  <2>4. PICK v \in User : role[w][v] = "owner"
    BY <1>0 DEF OwnerRemains
  <2>5. w \in Workspace
    BY <1>0 DEF TypeOK
  <2>6. CASE w = tx[p].workspace /\ v = u
    BY <1>1, <1>2, <2>1, <2>2, <2>4, <2>5, <2>6
  <2>7. CASE ~(w = tx[p].workspace /\ v = u)
    BY <2>2, <2>4, <2>5, <2>7
  <2>8. QED BY <2>6, <2>7
<1>3. ASSUME NEW p \in Process, tx[p] # None PROVE Roles(p) = role[tx[p].workspace]
  BY <1>0, <1>3 DEF ReadsStayTrue, Roles
<1>4. ASSUME NEW p \in Process, Ending(p), NEW u \in User, Departs(p, u)
      PROVE  OwnerRemains'
  BY <1>2, <1>4 DEF Departs
<1>5. ASSUME NEW p \in Process, Ending(p), RoleEffect(p)
      PROVE  OwnerRemains'
  <2>1. ASSUME NEW u \in User, NEW r \in Role, Changes(p, u, r)
        PROVE  OwnerRemains'
    BY <1>2, <1>5, <2>1 DEF Changes
  <2>2. ASSUME NEW u \in User, NEW i \in Invitation, Enters(p, u, i)
        PROVE  OwnerRemains'
    <3>1. role[tx[p].workspace][u] = "none"
      BY <1>3, <1>5, <2>2 DEF Enters, Ending
    <3>2. QED BY <1>2, <1>5, <2>2, <3>1 DEF Enters
  <2>3. QED BY <1>5, <2>1, <2>2 DEF RoleEffect
<1>6. ASSUME NEW w \in Workspace, NEW u \in User, CreateWorkspace(w, u)
      PROVE  OwnerRemains'
  BY <1>0, <1>6 DEF CreateWorkspace, OwnerRemains, TypeOK
<1>7. ASSUME made' = made, role' = role
      PROVE  OwnerRemains'
  BY <1>0, <1>7 DEF OwnerRemains
<1>8. QED BY <1>4, <1>5, <1>6, <1>7, StepCases
        DEF Begin, LookForDirect, Ending, SameRoles, ChannelEffect, Updates, Moves, Appears

\* Every step leaves channel members inside the workspace.
LEMMA NextContained ==
  ASSUME Inv, [Next]_vars
  PROVE  ChannelWithinWorkspace'
<1> USE DEF Direct
<1>0. /\ TypeOK /\ ChannelWithinWorkspace /\ ReadsStayTrue /\ Rows /\ Transactions
  BY DEF Inv
<1>1. ASSUME SameChannels,
             \A w \in Workspace, u \in User : role[w][u] # "none" => role'[w][u] # "none"
      PROVE  ChannelWithinWorkspace'
  BY <1>0, <1>1 DEF SameChannels, ChannelWithinWorkspace, TypeOK, ChannelRow
<1>2. ASSUME NEW p \in Process, Ending(p)
      PROVE  /\ tx[p].workspace \in Workspace /\ tx[p].workspace # None
             /\ tx[p].actor \in User /\ Roles(p) = role[tx[p].workspace]
  BY <1>0, <1>2, NoneAssumption DEF Ending, ReadsStayTrue, Roles, TypeOK, TxRow
<1>3. ASSUME NEW p \in Process, Ending(p), NEW u \in User, Departs(p, u)
      PROVE  ChannelWithinWorkspace'
  <2>1. \A w \in Workspace, v \in User :
          ~(w = tx[p].workspace /\ v = u) => role'[w][v] = role[w][v]
    BY <1>0, <1>2, <1>3 DEF Departs, TypeOK
  <2>2. SUFFICES ASSUME NEW c \in Channel, NEW v \in member'[c], channel'[c].pair = {}
                 PROVE  channel'[c].workspace # None /\ role'[channel'[c].workspace][v] # "none"
    BY DEF ChannelWithinWorkspace
  <2>3. channel' = channel /\ v \in member[c]
    BY <1>3, <2>2 DEF Departs, WithoutChannels
  <2>4. /\ channel[c].workspace # None /\ channel[c].workspace \in Workspace /\ v \in User
        /\ role[channel[c].workspace][v] # "none" /\ channel[c].status # "none"
    BY <1>0, <2>2, <2>3 DEF ChannelWithinWorkspace, TypeOK, ChannelRow, Rows
  <2>5. ~(channel[c].workspace = tx[p].workspace /\ v = u)
    BY <1>3, <2>2, <2>3, <2>4 DEF Departs, WithoutChannels, Manageable
  <2>6. QED BY <2>1, <2>3, <2>4, <2>5
<1>4. ASSUME NEW p \in Process, Ending(p), RoleEffect(p)
      PROVE  ChannelWithinWorkspace'
  <2>1. PICK u \in User, r \in Role : role' = [role EXCEPT ![tx[p].workspace][u] = r]
    BY <1>4 DEF RoleEffect, Changes, Enters, Role
  <2>2. \A w \in Workspace, v \in User : role'[w][v] \in {role[w][v], r}
    BY <1>0, <2>1 DEF TypeOK
  <2>3. r # "none"
    BY DEF Role
  <2>4. QED BY <1>1, <1>4, <2>2, <2>3 DEF RoleEffect
<1>5. ASSUME NEW p \in Process, Ending(p), ChannelEffect(p)
      PROVE  ChannelWithinWorkspace'
  <2>1. ASSUME NEW c \in Channel, Updates(p, c)
        PROVE  ChannelWithinWorkspace'
    BY <1>0, <2>1 DEF Updates, Manageable, SameRoles, ChannelWithinWorkspace, TypeOK
  <2>2. ASSUME NEW c \in Channel, NEW S \in SUBSET User, Moves(p, c, S)
        PROVE  ChannelWithinWorkspace'
    <3>1. /\ role' = role /\ channel' = channel /\ channel[c].workspace = tx[p].workspace
          /\ \A v \in S : role[tx[p].workspace][v] # "none"
      BY <1>2, <1>5, <2>2 DEF Moves, Manageable, SameRoles
    <3>2. \A d \in Channel : member'[d] \subseteq IF d = c THEN member[d] \cup S ELSE member[d]
      BY <1>0, <2>2 DEF Moves, TypeOK
    <3>3. QED BY <1>0, <1>2, <1>5, <3>1, <3>2 DEF ChannelWithinWorkspace
  <2>3. ASSUME NEW c \in Channel, NEW v, NEW pair, NEW S, Appears(p, c, v, pair, S),
               pair = {} => \A u \in S : Roles(p)[u] # "none"
        PROVE  ChannelWithinWorkspace'
    <3>1. /\ role' = role
          /\ channel'[c].workspace = tx[p].workspace /\ channel'[c].pair = pair /\ member'[c] = S
      BY <1>0, <2>3 DEF Appears, NewChannel, SameRoles, TypeOK
    <3>2. \A d \in Channel : d # c => channel'[d] = channel[d] /\ member'[d] = member[d]
      BY <1>0, <2>3 DEF Appears, TypeOK
    <3>3. QED BY <1>0, <1>2, <1>5, <2>3, <3>1, <3>2 DEF ChannelWithinWorkspace
  <2>4. QED BY <1>5, <2>1, <2>2, <2>3 DEF ChannelEffect
<1>6. ASSUME NEW w \in Workspace, NEW u \in User, CreateWorkspace(w, u)
      PROVE  ChannelWithinWorkspace'
  BY <1>0, <1>1, <1>6 DEF CreateWorkspace, SameChannels, TypeOK
<1>7. QED BY <1>1, <1>3, <1>4, <1>5, <1>6, StepCases
        DEF Begin, LookForDirect, SameRoles, SameChannels

\* Two different people are a pair of two.
LEMMA TwoPeople == \A u, v : u # v => Cardinality({u, v}) = 2
<1> SUFFICES ASSUME NEW u, NEW v, u # v PROVE Cardinality({u, v}) = 2
  OBVIOUS
<1>1. IsFiniteSet({u}) /\ Cardinality({u}) = 1
  BY FS_Singleton
<1>2. Cardinality({u} \cup {v}) = Cardinality({u}) + 1
  BY <1>1, FS_AddElement
<1>3. {u} \cup {v} = {u, v}
  OBVIOUS
<1>4. QED BY <1>1, <1>2, <1>3

\* Every step leaves direct conversations with their two people.
LEMMA NextDirect ==
  ASSUME Inv, [Next]_vars
  PROVE  DirectIsPair'
<1> USE DEF Direct
<1>0. TypeOK /\ DirectIsPair /\ Transactions /\ Rows
  BY DEF Inv
<1>1. ASSUME \A c \in Channel : channel'[c].pair = channel[c].pair,
             \A c \in Channel : channel[c].pair # {} => member'[c] = member[c]
      PROVE  DirectIsPair'
  BY <1>0, <1>1 DEF DirectIsPair
<1>2. ASSUME NEW p \in Process, NEW u \in User, Departs(p, u)
      PROVE  DirectIsPair'
  BY <1>1, <1>2 DEF Departs, WithoutChannels, Manageable
<1>3. ASSUME NEW p \in Process, Ending(p), ChannelEffect(p)
      PROVE  DirectIsPair'
  <2>1. ASSUME NEW c \in Channel, Updates(p, c)
        PROVE  DirectIsPair'
    <3>1. member' = member /\ channel[c].pair = {}
      BY <2>1 DEF Updates, Manageable
    <3>2. \A d \in Channel : channel'[d].pair = channel[d].pair
      <4>1. PICK v \in {"public", "private"}, s \in {"open", "archived"} :
              channel' = [channel EXCEPT ![c] =
                [status |-> s, visibility |-> v, workspace |-> channel[c].workspace, pair |-> {}]]
        BY <2>1 DEF Updates
      <4>2. channel'[c].pair = {} /\ \A d \in Channel : d # c => channel'[d] = channel[d]
        BY <1>0, <4>1 DEF TypeOK
      <4>3. QED BY <3>1, <4>2
    <3>3. QED BY <1>1, <3>1, <3>2
  <2>2. ASSUME NEW c \in Channel, NEW S \in SUBSET User, Moves(p, c, S)
        PROVE  DirectIsPair'
    BY <1>0, <1>1, <2>2 DEF Moves, Manageable, TypeOK
  <2>3. ASSUME NEW c \in Channel, NEW v, NEW S, Appears(p, c, v, {}, S)
        PROVE  DirectIsPair'
    BY <1>0, <1>1, <2>3 DEF Appears, NewChannel, Rows, TypeOK
  <2>4. ASSUME NEW c \in Channel, Appears(p, c, "private", tx[p].pair, tx[p].pair),
               tx[p].pair # {}, \A d \in Channel : channel[d].pair # tx[p].pair
        PROVE  DirectIsPair'
    <3>1. Cardinality(tx[p].pair) = 2
      <4>1. PICK a, b \in User : a # b /\ tx[p].pair = {a, b}
        BY <1>0, <1>3, <2>4 DEF Ending, Transactions
      <4>2. Cardinality({a, b}) = 2
        BY <4>1, TwoPeople
      <4>3. QED BY <4>1, <4>2
    <3>2. channel'[c].pair = tx[p].pair /\ member'[c] = tx[p].pair
      BY <1>0, <2>4 DEF Appears, NewChannel, TypeOK
    <3>3. \A d \in Channel : d # c => channel'[d] = channel[d] /\ member'[d] = member[d]
      BY <1>0, <2>4 DEF Appears, TypeOK
    <3>4. QED BY <1>0, <2>4, <3>1, <3>2, <3>3 DEF DirectIsPair
  <2>5. QED BY <1>3, <2>1, <2>2, <2>3, <2>4 DEF ChannelEffect
<1>4. ASSUME SameChannels
      PROVE  DirectIsPair'
  BY <1>1, <1>4 DEF SameChannels
<1>5. QED BY <1>2, <1>3, <1>4, StepCases
        DEF CreateWorkspace, Begin, LookForDirect, RoleEffect, SameChannels

-----------------------------------------------------------------------------
(* Theorems *)

\* The invariant is inductive.
LEMMA NextInv == Inv /\ [Next]_vars => Inv'
BY NextType, NextLocks, NextTransactions, NextRows, NextReads, NextOwner, NextContained,
   NextDirect DEF Inv

\* The invariant holds in every reachable state.
LEMMA Invariance == Spec => []Inv
BY InitInv, NextInv, PTL DEF Spec

\* Every workspace keeps an owner (_protect_final_owner under the workspace lock).
THEOREM OwnersStay == Spec => []OwnerRemains
<1>1. Inv => OwnerRemains
  BY DEF Inv
<1>2. QED BY <1>1, Invariance, PTL

\* Whoever is in a channel is in its workspace.
THEOREM MembersContained == Spec => []ChannelWithinWorkspace
<1>1. Inv => ChannelWithinWorkspace
  BY DEF Inv
<1>2. QED BY <1>1, Invariance, PTL

\* A direct conversation is of exactly two people, who have no other.
THEOREM DirectOfTwo == Spec => []DirectIsPair
<1>1. Inv => DirectIsPair
  BY DEF Inv
<1>2. QED BY <1>1, Invariance, PTL

\* Nothing a transaction read under its locks changes before it ends.
THEOREM LocksProtectReads == Spec => []ReadsStayTrue
<1>1. Inv => ReadsStayTrue
  BY DEF Inv
<1>2. QED BY <1>1, Invariance, PTL

\* A step lets somebody into an existing workspace only against an open invitation to it.
LEMMA StepEntry ==
  ASSUME Inv, [Next]_vars, NEW w \in made, NEW u \in User,
         role[w][u] = "none", role'[w][u] # "none"
  PROVE  \E i \in Invitation : /\ inv[i] = [status |-> "open", workspace |-> w]
                               /\ inv'[i].status = "accepted"
<1>0. TypeOK /\ ReadsStayTrue /\ w \in Workspace
  BY DEF Inv, TypeOK
<1>1. \A v \in Workspace, x \in User : ~CreateWorkspace(v, x)
  BY <1>0 DEF CreateWorkspace, TypeOK
<1>2. \A p \in Process : ~SameRoles /\ ~ChannelEffect(p)
  BY DEF SameRoles, ChannelEffect, Updates, Moves, Appears
<1>3. \A p \in Process, x \in User : ~Departs(p, x)
  BY <1>0 DEF Departs, TypeOK
<1>4. PICK p \in Process : Ending(p) /\ RoleEffect(p)
  BY <1>1, <1>2, <1>3, StepCases DEF Begin, LookForDirect, SameRoles
<1>5. Roles(p) = role[tx[p].workspace] /\ tx[p].workspace \in Workspace
  BY <1>0, <1>4 DEF Ending, ReadsStayTrue, Roles, TypeOK, TxRow
<1>6. ASSUME NEW x \in User, NEW r \in Role, Changes(p, x, r)
      PROVE  FALSE
  BY <1>0, <1>5, <1>6 DEF Changes, TypeOK
<1>7. PICK x \in User, i \in Invitation : Enters(p, x, i)
  BY <1>4, <1>6 DEF RoleEffect
<1>8. w = tx[p].workspace
  BY <1>0, <1>5, <1>7 DEF Enters, TypeOK
<1>9. inv[i] = [status |-> "open", workspace |-> w]
  BY <1>0, <1>7, <1>8 DEF Enters, Pending, TypeOK, InvitationRow
<1>10. inv'[i].status = "accepted"
  BY <1>0, <1>7 DEF Enters, TypeOK, InvitationRow
<1>11. QED BY <1>9, <1>10

\* Nobody enters an existing workspace but by an open invitation, spent by this entry.
THEOREM EntriesInvited == Spec => EntryByInvitation
<1>1. Inv /\ [Next]_vars =>
        [\A w \in made, u \in User : role[w][u] = "none" /\ role'[w][u] # "none" =>
           \E i \in Invitation : /\ inv[i] = [status |-> "open", workspace |-> w]
                                 /\ inv'[i].status = "accepted"]_vars
  BY StepEntry
<1>2. QED BY <1>1, Invariance, PTL DEF Spec, EntryByInvitation
=============================================================================
