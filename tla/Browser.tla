------------------------------ MODULE Browser ------------------------------
(* One tab: the conversation it shows (Conversation) and what it keeps of  *)
(* lists and previews (ApiCache), which do not depend on each other.       *)
EXTENDS Conversation

CONSTANTS Path, View, Load, Reader, MaxVersion, MaxAccount, MaxClears

VARIABLES truth, cookie, user, entry, pending, generation, session, load, reader, change,
          mounted, known, got

C == INSTANCE ApiCache

\* The account that is shown sees nothing kept of another (ApiCache).
NothingOfOthers == C!NothingOfOthers

\* No caller is given what was so before a change of this tab was answered (ApiCache).
ReadYourWrites == C!ReadYourWrites
=============================================================================
