---------------------------- MODULE Memberships ----------------------------
(***************************************************************************)
(* Who belongs to which workspace, channel and direct conversation:        *)
(* modules/workspaces, modules/channels and the opening of direct          *)
(* conversations in modules/messaging.                                     *)
(*                                                                         *)
(* Every handler first locks the workspace row (and then reads the roles,  *)
(* here all at once), checks what it read and writes.  So a handler is an  *)
(* open transaction "tx" and a step that commits it; in between others do  *)
(* what the locks let them.  Names, and the email verification that some   *)
(* handlers ask for first and that is never withdrawn, are left out.       *)
(***************************************************************************)
EXTENDS Integers, FiniteSets

CONSTANTS
  User,        (* people                                                    *)
  Workspace,   (* workspace ids                                             *)
  Channel,     (* channel ids, those of direct conversations included       *)
  Invitation,  (* invitation ids                                            *)
  Process,     (* database transactions that may be open at once            *)
  None         (* nothing                                                   *)

ASSUME NoneAssumption == None \notin (Workspace \cup Channel)

VARIABLES
  made,      (* the workspaces that exist                                    *)
  role,      (* workspace_memberships: the role of each user, or "none"      *)
  channel,   (* channel_channels                                             *)
  member,    (* channel_memberships: the members of each channel             *)
  inv,       (* workspace_invitations                                        *)
  tx         (* the open transaction of each process                         *)

vars == <<made, role, channel, member, inv, tx>>

-----------------------------------------------------------------------------
(* Rows *)

Role == {"owner", "admin", "member"}
Manager == {"owner", "admin"}

\* "pair" is the direct_key: the two people of a direct conversation, {} in other channels.
ChannelRow == [status : {"none", "open", "archived"}, visibility : {"public", "private"},
               workspace : Workspace \cup {None}, pair : SUBSET User]

InvitationRow == [status : {"none", "open", "expired", "accepted", "revoked"},
                  workspace : Workspace \cup {None}]

\* A transaction holds the lock of its workspace and, once it opens a direct conversation, of
\* the users in "pair"; "found" is the conversation of that pair it saw.
TxRow == [workspace : Workspace, actor : User, roles : [User -> Role \cup {"none"}],
          pair : SUBSET User, found : Channel \cup {None}]

NewChannel(w, visibility, pair) ==
  [status |-> "open", visibility |-> visibility, workspace |-> w, pair |-> pair]

Direct(c) == channel[c].pair # {}

\* _locked_channel(): a channel of the workspace that is not a direct conversation.
Manageable(p, c) ==
  /\ channel[c].status # "none" /\ channel[c].workspace = tx[p].workspace
  /\ ~Direct(c)

-----------------------------------------------------------------------------
(* Transactions *)

Held_Unlocked(w) == FALSE  \* variant: the workspace row is read without a lock

Held(w) == \E p \in Process : tx[p] # None /\ tx[p].workspace = w

\* get_workspace() for update, then the roles.
Begin(p, w, u) ==
  /\ tx[p] = None
  /\ w \in made /\ ~Held(w)
  /\ tx' = [tx EXCEPT ![p] =
       [workspace |-> w, actor |-> u, roles |-> role[w], pair |-> {}, found |-> None]]
  /\ UNCHANGED <<made, role, channel, member, inv>>

\* A check fails, a key is taken, the process stops.
Rollback(p) ==
  /\ tx[p] # None
  /\ tx' = [tx EXCEPT ![p] = None]
  /\ UNCHANGED <<made, role, channel, member, inv>>

\* Commit and let the locks go.
Commit(p) == tx' = [tx EXCEPT ![p] = None]

Roles(p) == tx[p].roles
Mine(p) == Roles(p)[tx[p].actor]

\* The transaction has the workspace lock only; the actor has one of the roles.
Actor(p, roles) == tx[p] # None /\ tx[p].pair = {} /\ Mine(p) \in roles

SetRole(p, u, r) == role' = [role EXCEPT ![tx[p].workspace][u] = r]

-----------------------------------------------------------------------------
(* Workspaces *)

CreateWorkspace(w, u) ==
  /\ w \notin made
  /\ made' = made \cup {w}
  /\ role' = [role EXCEPT ![w][u] = "owner"]
  /\ UNCHANGED <<channel, member, inv, tx>>

\* _protect_final_owner()
NotFinalOwner(p, u) ==
  Roles(p)[u] = "owner" => Cardinality({v \in User : Roles(p)[v] = "owner"}) > 1

ChangeRole(p, u, r) ==
  /\ Actor(p, {"owner"})
  /\ Roles(p)[u] \notin {"none", r}
  /\ NotFinalOwner(p, u)
  /\ SetRole(p, u, r)
  /\ Commit(p)
  /\ UNCHANGED <<made, channel, member, inv>>

WithoutChannels_OpenOnly(p, u) ==  \* variant: archived channels are forgotten
  [c \in Channel |-> IF Manageable(p, c) /\ channel[c].status = "open"
                     THEN member[c] \ {u} ELSE member[c]]

WithoutChannels_All(p, u) ==  \* variant: direct conversations are left, too
  [c \in Channel |-> IF channel[c].workspace = tx[p].workspace
                     THEN member[c] \ {u} ELSE member[c]]

\* Departure revokes channel access without erasing personal conversations.
WithoutChannels(p, u) ==
  [c \in Channel |-> IF Manageable(p, c) THEN member[c] \ {u} ELSE member[c]]

\* remove_membership() of the repository.
Depart(p, u) ==
  /\ NotFinalOwner(p, u)
  /\ SetRole(p, u, "none")
  /\ member' = WithoutChannels(p, u)
  /\ Commit(p)
  /\ UNCHANGED <<made, channel, inv>>

RemoveMember(p, u) ==
  /\ Actor(p, Manager)
  /\ Roles(p)[u] # "none"
  /\ Mine(p) = "admin" => Roles(p)[u] = "member"
  /\ Depart(p, u)

LeaveWorkspace(p) ==
  /\ Actor(p, Role)
  /\ Depart(p, tx[p].actor)

-----------------------------------------------------------------------------
(* Invitations *)

NewInvitation(w) == [status |-> "open", workspace |-> w]

Pending(p, i) == inv[i].status = "open" /\ inv[i].workspace = tx[p].workspace

CreateInvitation(p, i) ==
  /\ Actor(p, Manager)
  /\ inv[i].status = "none"
  /\ inv' = [inv EXCEPT ![i] = NewInvitation(tx[p].workspace)]
  /\ Commit(p)
  /\ UNCHANGED <<made, role, channel, member>>

RotateInvitation(p, i, j) ==
  /\ Actor(p, Manager)
  /\ Pending(p, i)
  /\ inv[j].status = "none"
  /\ inv' = [inv EXCEPT ![i].status = "revoked", ![j] = NewInvitation(tx[p].workspace)]
  /\ Commit(p)
  /\ UNCHANGED <<made, role, channel, member>>

RevokeInvitation(p, i) ==
  /\ Actor(p, Manager)
  /\ Pending(p, i)
  /\ inv' = [inv EXCEPT ![i].status = "revoked"]
  /\ Commit(p)
  /\ UNCHANGED <<made, role, channel, member>>

Acceptable_Accepted(p, i) ==  \* variant: only revocation and expiry are looked at
  inv[i].status \in {"open", "accepted"} /\ inv[i].workspace = tx[p].workspace

Acceptable(p, i) == Pending(p, i)

\* By somebody who is not a member.  The row of the invitation is locked and the clock read in
\* the transaction: that the invitation expires between this and the commit is left out.
AcceptInvitation(p, i) ==
  /\ Actor(p, {"none"})
  /\ Acceptable(p, i)
  /\ SetRole(p, tx[p].actor, "member")
  /\ inv' = [inv EXCEPT ![i].status = "accepted"]
  /\ Commit(p)
  /\ UNCHANGED <<made, channel, member>>

\* expires_at passes.
ExpireInvitation(i) ==
  /\ inv[i].status = "open"
  /\ inv' = [inv EXCEPT ![i].status = "expired"]
  /\ UNCHANGED <<made, role, channel, member, tx>>

-----------------------------------------------------------------------------
(* Channels *)

CreateChannel(p, c, visibility) ==
  /\ Actor(p, Manager)
  /\ channel[c].status = "none"
  /\ channel' = [channel EXCEPT ![c] = NewChannel(tx[p].workspace, visibility, {})]
  /\ member' = [member EXCEPT ![c] = {tx[p].actor}]
  /\ Commit(p)
  /\ UNCHANGED <<made, role, inv>>

\* update_channel(), and its refusal of archived channels.
UpdateChannel(p, c, visibility) ==
  /\ Actor(p, Manager) /\ Manageable(p, c)
  /\ channel[c].status = "open"
  /\ channel' = [channel EXCEPT ![c].visibility = visibility]
  /\ Commit(p)
  /\ UNCHANGED <<made, role, member, inv>>

\* archive_channel() and unarchive_channel().
SetArchived(p, c, status) ==
  /\ Actor(p, Manager) /\ Manageable(p, c)
  /\ channel' = [channel EXCEPT ![c].status = status]
  /\ Commit(p)
  /\ UNCHANGED <<made, role, member, inv>>

\* _can_view(), for channels that are not direct conversations.
CanView(p, c) ==
  \/ channel[c].visibility = "public"
  \/ tx[p].actor \in member[c]
  \/ Mine(p) \in Manager

JoinChannel(p, c) ==
  /\ Actor(p, Role) /\ Manageable(p, c)
  /\ CanView(p, c)
  /\ channel[c].status = "open"
  /\ member' = [member EXCEPT ![c] = @ \cup {tx[p].actor}]
  /\ Commit(p)
  /\ UNCHANGED <<made, role, channel, inv>>

LeaveChannel(p, c) ==
  /\ Actor(p, Role) /\ Manageable(p, c)
  /\ tx[p].actor \in member[c]
  /\ member' = [member EXCEPT ![c] = @ \ {tx[p].actor}]
  /\ Commit(p)
  /\ UNCHANGED <<made, role, channel, inv>>

AddToChannel(p, c, u) ==
  /\ Actor(p, Manager) /\ Manageable(p, c)
  /\ channel[c].status = "open"
  /\ Roles(p)[u] # "none"
  /\ member' = [member EXCEPT ![c] = @ \cup {u}]
  /\ Commit(p)
  /\ UNCHANGED <<made, role, channel, inv>>

RemoveFromChannel(p, c, u) ==
  /\ Actor(p, Manager) /\ Manageable(p, c)
  /\ Roles(p)[u] # "none"
  /\ Mine(p) = "admin" => Roles(p)[u] = "member"
  /\ u \in member[c]
  /\ member' = [member EXCEPT ![c] = @ \ {u}]
  /\ Commit(p)
  /\ UNCHANGED <<made, role, channel, inv>>

-----------------------------------------------------------------------------
(* Direct conversations *)

UsersFree_Unlocked(pair) == TRUE  \* variant: only the workspace is locked

UsersFree(pair) == \A p \in Process : tx[p] # None => tx[p].pair \cap pair = {}

\* open_direct(), after the checks in the workspace: direct() locks both users and looks for
\* the conversation, which may have been opened in another workspace.
LookForDirect(p, u) ==
  LET pair == {tx[p].actor, u} IN
  /\ Actor(p, Role)
  /\ u # tx[p].actor /\ Roles(p)[u] # "none"
  /\ UsersFree(pair)
  /\ \E c \in Channel \cup {None} :
       /\ IF \E d \in Channel : channel[d].pair = pair
          THEN c # None /\ channel[c].pair = pair ELSE c = None
       /\ tx' = [tx EXCEPT ![p].pair = pair, ![p].found = c]
  /\ UNCHANGED <<made, role, channel, member, inv>>

\* The rest of direct(): create the conversation if there is none, add whoever is missing.  The
\* unique key on the pair refuses a second conversation.
OpenDirect(p, c) ==
  LET t == tx[p] IN
  /\ t # None /\ t.pair # {}
  /\ IF t.found # None THEN c = t.found /\ UNCHANGED channel
     ELSE /\ channel[c].status = "none"
          /\ \A d \in Channel : channel[d].pair # t.pair
          /\ channel' = [channel EXCEPT ![c] = NewChannel(t.workspace, "private", t.pair)]
  /\ member' = [member EXCEPT ![c] = @ \cup t.pair]
  /\ Commit(p)
  /\ UNCHANGED <<made, role, inv>>

-----------------------------------------------------------------------------

Init ==
  /\ made = {}
  /\ role = [w \in Workspace |-> [u \in User |-> "none"]]
  /\ channel = [c \in Channel |->
       [status |-> "none", visibility |-> "private", workspace |-> None, pair |-> {}]]
  /\ member = [c \in Channel |-> {}]
  /\ inv = [i \in Invitation |-> [status |-> "none", workspace |-> None]]
  /\ tx = [p \in Process |-> None]

InWorkspace(p) ==
  \/ \E u \in User, r \in Role : ChangeRole(p, u, r)
  \/ \E u \in User : RemoveMember(p, u)
  \/ LeaveWorkspace(p)
  \/ \E i \in Invitation : CreateInvitation(p, i)
  \/ \E i, j \in Invitation : RotateInvitation(p, i, j)
  \/ \E i \in Invitation : RevokeInvitation(p, i)
  \/ \E i \in Invitation : AcceptInvitation(p, i)

InChannel(p) ==
  \/ \E c \in Channel, v \in {"public", "private"} : CreateChannel(p, c, v)
  \/ \E c \in Channel, v \in {"public", "private"} : UpdateChannel(p, c, v)
  \/ \E c \in Channel, s \in {"open", "archived"} : SetArchived(p, c, s)
  \/ \E c \in Channel : JoinChannel(p, c)
  \/ \E c \in Channel : LeaveChannel(p, c)
  \/ \E c \in Channel, u \in User : AddToChannel(p, c, u)
  \/ \E c \in Channel, u \in User : RemoveFromChannel(p, c, u)
  \/ \E u \in User : LookForDirect(p, u)
  \/ \E c \in Channel : OpenDirect(p, c)

Next ==
  \/ \E w \in Workspace, u \in User : CreateWorkspace(w, u)
  \/ \E p \in Process, w \in Workspace, u \in User : Begin(p, w, u)
  \/ \E p \in Process : Rollback(p) \/ InWorkspace(p) \/ InChannel(p)
  \/ \E i \in Invitation : ExpireInvitation(i)

Spec == Init /\ [][Next]_vars

-----------------------------------------------------------------------------
(* Type invariant *)

\* Every variable holds a value of its kind; a direct conversation is private, as a constraint of
\* its table demands, and open: nobody can archive it.
TypeOK ==
  /\ made \in SUBSET Workspace
  /\ role \in [Workspace -> [User -> Role \cup {"none"}]]
  /\ channel \in [Channel -> ChannelRow]
  /\ \A c \in Channel : Direct(c) => channel[c].visibility = "private" /\ channel[c].status = "open"
  /\ member \in [Channel -> SUBSET User]
  /\ inv \in [Invitation -> InvitationRow]
  /\ tx \in [Process -> TxRow \cup {None}]

-----------------------------------------------------------------------------
(* Safety *)

\* Every workspace keeps an owner, although owners demote each other, remove each other and
\* leave at the same time.
OwnerRemains == \A w \in made : \E u \in User : role[w][u] = "owner"

\* Whoever is in a channel is in its workspace: no foreign key says so, and joins, additions
\* and removals of the same person race.
ChannelWithinWorkspace ==
  \A c \in Channel : \A u \in member[c] :
    ~Direct(c) => channel[c].workspace # None /\ role[channel[c].workspace][u] # "none"

\* A direct conversation has exactly its two people, whatever becomes of their workspaces, and
\* no two people have two of them.
DirectIsPair ==
  \A c \in Channel : Direct(c) =>
    /\ member[c] = channel[c].pair /\ Cardinality(channel[c].pair) = 2
    /\ \A d \in Channel : channel[d].pair = channel[c].pair => c = d

\* What a transaction read is still so when it acts on it: the roles under the workspace lock,
\* and under the user locks that a conversation is missing, so that its creation cannot run
\* into the unique key from another workspace.
ReadsStayTrue ==
  \A p \in Process : tx[p] # None =>
    /\ tx[p].roles = role[tx[p].workspace]
    /\ tx[p].pair # {} /\ tx[p].found = None => \A c \in Channel : channel[c].pair # tx[p].pair

-----------------------------------------------------------------------------
(* Action properties *)

\* Nobody enters an existing workspace but by an invitation to it that is open until then and
\* spent by this one entry: accepting races with rotating, revoking and accepting again.
EntryByInvitation ==
  [][\A w \in made, u \in User : role[w][u] = "none" /\ role'[w][u] # "none" =>
       \E i \in Invitation : /\ inv[i] = [status |-> "open", workspace |-> w]
                             /\ inv'[i].status = "accepted"]_vars
=============================================================================
