----------------------------- MODULE MCBrowser -----------------------------
(* An instance of Browser for TLC: the conversation is explored while the  *)
(* cache rests, and the other way round.                                   *)
EXTENDS Browser, MCConversation

cacheVars == <<truth, cookie, user, entry, pending, generation, session, load, reader,
               change, mounted, known, got>>

ASSUME CacheAssumption == C!NamesApart

BothInit == Init /\ C!Init

ConversationRests == Init /\ UNCHANGED vars
CacheRests == C!Init /\ UNCHANGED cacheVars

BothNext ==
  \/ CacheRests /\ Next
  \/ ConversationRests /\ C!Next

BothSpec == BothInit /\ [][BothNext]_<<vars, cacheVars>>
=============================================================================
