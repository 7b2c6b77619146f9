------------------------------ MODULE ApiCache ------------------------------
(***************************************************************************)
(* What one tab keeps of the server: lib/api-cache.ts, as api() uses it    *)
(* for lists of workspaces, channels and members, and useConversation()    *)
(* for previews.  A value is a version of what the server has, and whose.  *)
(*                                                                         *)
(* The number of entries is not bounded here, and other tabs sign nobody   *)
(* in or out.                                                              *)
(***************************************************************************)
EXTENDS Naturals

CONSTANTS
  Path,        \* cacheable paths
  View,        \* conversations, each with a preview
  Load,        \* requests for paths that may be under way at once
  Reader,      \* callers of api()
  MaxVersion,  \* bound: changes of each path, plus one
  MaxAccount,  \* bound: sign-ins
  MaxClears,   \* bound: uses of clear() and invalidateMetadata()
  None

Key == Path \cup View

\* A load that is under way.
Request ==
  [path : Path, generation : Nat, as : Nat \cup {None}, version : Nat \cup {None}]

\* The names that a proof and an instance have to keep apart.
NamesApart == Path \cap View = {} /\ None \notin Load \cup Nat \cup Request

VARIABLES
  truth,       \* the version of each path at the server
  cookie,      \* the account of the cookies
  user,        \* the account the app shows, if any
  entry,       \* entries
  pending,     \* pending
  generation,  \* generation
  session,     \* session
  load,        \* requests under way
  reader,      \* callers that wait for one
  change,      \* changes of paths made in this tab whose answers are under way
  mounted,        \* mounted conversations
  known,       \* history: what answers to own changes said of each path
  got          \* history: the last result of each reader

vars == <<truth, cookie, user, entry, pending, generation, session, load, reader, change,
          mounted, known, got>>
store == <<entry, pending, generation, session>>
people == <<cookie, user>>
history == <<known, got>>

Init ==
  /\ truth = [p \in Path |-> 1]
  /\ cookie = 1 /\ user = 1
  /\ entry = [k \in Key |-> None]
  /\ pending = [p \in Path |-> None]
  /\ generation = 0 /\ session = 0
  /\ load = [l \in Load |-> None]
  /\ reader = [r \in Reader |-> None]
  /\ change = [p \in Path |-> None]
  /\ mounted = [v \in View |-> None]
  /\ known = [p \in Path |-> 0]
  /\ got = [r \in Reader |-> None]

-----------------------------------------------------------------------------
(* createApiCache() *)

Value(version, account) == [version |-> version, of |-> account, fresh |-> TRUE]

Forgotten_Kept == pending  \* variant: loads under way are joined after a change

Forgotten == [p \in Path |-> None]

\* clear()
Clear ==
  /\ generation < MaxClears
  /\ generation' = generation + 1 /\ session' = session + 1
  /\ pending' = Forgotten
  /\ entry' = [k \in Key |-> None]

\* invalidateMetadata()
InvalidateMetadata ==
  /\ generation < MaxClears
  /\ generation' = generation + 1 /\ UNCHANGED session
  /\ pending' = Forgotten
  /\ entry' = [k \in Key |-> IF k \in View THEN entry[k] ELSE None]

\* CACHE_TTL_MS have passed.
Expire(k) ==
  /\ entry[k] # None /\ entry[k].fresh
  /\ entry' = [entry EXCEPT ![k].fresh = FALSE]
  /\ UNCHANGED <<truth, people, pending, generation, session, load, reader, change, mounted,
                 history>>

-----------------------------------------------------------------------------
(* read() *)

Result(r, version, since) ==
  got' = [got EXCEPT ![r] = [version |-> version, known |-> since]]

Start(r) == user # None /\ reader[r] = None

ReadCached(r, p) ==
  /\ Start(r)
  /\ entry[p] # None /\ entry[p].fresh
  /\ Result(r, entry[p].version, known[p])
  /\ UNCHANGED <<truth, people, store, load, reader, change, mounted, known>>

Wait(r, p, l) == reader' = [reader EXCEPT ![r] = [load |-> l, known |-> known[p]]]

ReadJoin(r, p) ==
  /\ Start(r)
  /\ entry[p] # None => ~entry[p].fresh
  /\ pending[p] # None
  /\ Wait(r, p, pending[p])
  /\ UNCHANGED <<truth, people, store, load, change, mounted, history>>

\* A request of this kind carries the cookies of its moment.
ReadLoad(r, p, l) ==
  /\ Start(r)
  /\ entry[p] # None => ~entry[p].fresh
  /\ pending[p] = None /\ load[l] = None
  /\ pending' = [pending EXCEPT ![p] = l]
  /\ load' = [load EXCEPT ![l] =
       [path |-> p, generation |-> generation, as |-> cookie, version |-> None]]
  /\ Wait(r, p, l)
  /\ UNCHANGED <<truth, people, entry, generation, session, change, mounted, history>>

LoadServed(l) ==
  /\ load[l] # None /\ load[l].version = None /\ load[l].as # None
  /\ load' = [load EXCEPT ![l].version = truth[load[l].path]]
  /\ UNCHANGED <<truth, people, store, reader, change, mounted, history>>

Current(l) == load[l].generation = generation

\* finally: a load takes itself off the list of pending ones.
Unlisted(l) ==
  [pending EXCEPT ![load[l].path] = IF @ = l THEN None ELSE @]

Woken(l) == [r \in Reader |-> IF reader[r] # None /\ reader[r].load = l THEN None ELSE reader[r]]

LoadEnd(l) ==
  LET path == load[l].path
      version == load[l].version
  IN /\ load[l] # None /\ version # None
     /\ entry' = IF Current(l)
                 THEN [entry EXCEPT ![path] = Value(version, load[l].as)] ELSE entry
     /\ pending' = Unlisted(l)
     /\ load' = [load EXCEPT ![l] = None]
     /\ reader' = Woken(l)
     /\ got' = [r \in Reader |->
          IF reader[r] # None /\ reader[r].load = l
          THEN [version |-> version, known |-> reader[r].known] ELSE got[r]]
     /\ UNCHANGED <<truth, people, generation, session, change, mounted, known>>

\* Lost, or refused with a status that leaves the cache alone.
LoadFail(l) ==
  /\ load[l] # None
  /\ pending' = Unlisted(l)
  /\ load' = [load EXCEPT ![l] = None]
  /\ reader' = Woken(l)
  /\ UNCHANGED <<truth, people, entry, generation, session, change, mounted, history>>

\* 401 or 403, which clears the cache in api(); after 401 the app shows nobody.
LoadRefused(l) ==
  /\ load[l] # None
  /\ user' \in {user, None}
  /\ Clear
  /\ load' = [load EXCEPT ![l] = None]
  /\ reader' = Woken(l)
  /\ UNCHANGED <<truth, cookie, change, mounted, history>>

-----------------------------------------------------------------------------
(* Changes *)

Committed(p) == truth[p] < MaxVersion /\ truth' = [truth EXCEPT ![p] = @ + 1]

ChangeElsewhere(p) ==
  /\ Committed(p)
  /\ UNCHANGED <<people, store, load, reader, change, mounted, history>>

Change(p) ==
  /\ user # None /\ change[p] = None
  /\ Committed(p)
  /\ change' = [change EXCEPT ![p] = truth'[p]]
  /\ UNCHANGED <<people, store, load, reader, mounted, history>>

\* api() drops what it knew once the change is answered, and not when the answer is lost.
ChangeEnd(p, lost) ==
  /\ change[p] # None
  /\ change' = [change EXCEPT ![p] = None]
  /\ IF lost THEN UNCHANGED <<store, known>>
     ELSE InvalidateMetadata /\ known' = [known EXCEPT ![p] = change[p]]
  /\ UNCHANGED <<truth, people, load, reader, mounted, got>>

-----------------------------------------------------------------------------
(* Accounts.  The cookies of an answer are there before api() goes on.     *)

SignOut ==
  /\ user # None /\ cookie # None
  /\ cookie' = None
  /\ UNCHANGED <<truth, user, store, load, reader, change, mounted, history>>

\* klack:signed-out, and logout(): nobody is shown.
SignedOut ==
  /\ user # None /\ cookie = None
  /\ user' = None
  /\ Clear
  /\ UNCHANGED <<truth, cookie, load, reader, change, mounted, history>>

\* Someone signs in, once the workspace is no longer shown; who it was is not asked.
SignIn(account) ==
  /\ user = None /\ cookie # account
  /\ cookie' = account
  /\ UNCHANGED <<truth, user, store, load, reader, change, mounted, history>>

SignedIn ==
  /\ user = None /\ cookie # None
  /\ user' = cookie
  /\ Clear
  /\ UNCHANGED <<truth, cookie, load, reader, change, mounted, history>>

\* Another request of the tab is refused with 401 or 403, or is a change under /auth/.
ClearedElse ==
  /\ user # None
  /\ user' \in {user, None}
  /\ Clear
  /\ UNCHANGED <<truth, cookie, load, reader, change, mounted, history>>

-----------------------------------------------------------------------------
(* Previews: useConversation() keeps what it shows *)

Mount(v) ==
  /\ user # None
  /\ mounted[v] = None
  /\ mounted' = [mounted EXCEPT ![v] = [session |-> session, of |-> user]]
  /\ UNCHANGED <<truth, people, store, load, reader, change, history>>

\* Also when nobody is shown any longer and React has yet to take the view away.
Unmount(v) ==
  /\ mounted[v] # None
  /\ mounted' = [mounted EXCEPT ![v] = None]
  /\ UNCHANGED <<truth, people, store, load, reader, change, history>>

Mine_Always(v) == TRUE  \* variant: the session is not compared

Mine(v) == mounted[v].session = session

\* write()
Write(v) ==
  /\ mounted[v] # None
  /\ Mine(v)
  /\ entry' = [entry EXCEPT ![v] = Value(1, mounted[v].of)]
  /\ UNCHANGED <<truth, people, pending, generation, session, load, reader, change, mounted,
                 history>>

\* remove(), when access to the conversation has ended.
Drop(v) ==
  /\ entry[v] # None
  /\ entry' = [entry EXCEPT ![v] = None]
  /\ UNCHANGED <<truth, people, pending, generation, session, load, reader, change, mounted,
                 history>>

-----------------------------------------------------------------------------
(* Specification *)

Next ==
  \/ \E k \in Key : Expire(k)
  \/ \E r \in Reader, p \in Path :
       ReadCached(r, p) \/ ReadJoin(r, p) \/ \E l \in Load : ReadLoad(r, p, l)
  \/ \E l \in Load : LoadServed(l) \/ LoadEnd(l) \/ LoadFail(l) \/ LoadRefused(l)
  \/ \E p \in Path :
       ChangeElsewhere(p) \/ Change(p) \/ \E lost \in BOOLEAN : ChangeEnd(p, lost)
  \/ SignOut \/ SignedOut \/ \E a \in 1..MaxAccount : SignIn(a)
  \/ SignedIn \/ ClearedElse
  \/ \E v \in View : Mount(v) \/ Unmount(v) \/ Write(v) \/ Drop(v)

Spec == Init /\ [][Next]_vars

-----------------------------------------------------------------------------
(* Properties *)

\* The account that is shown sees nothing kept of another, whichever answers, and writes of
\* views that are going away, were late.
NothingOfOthers ==
  user # None => \A k \in Key : entry[k] # None => entry[k].of = user

\* A caller that reads after a change of this tab was answered is not given what was so before
\* it, whether from the cache, a load that was shared or one that was overtaken.
ReadYourWrites == \A r \in Reader : got[r] # None => got[r].version >= got[r].known
=============================================================================
