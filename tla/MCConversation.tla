--------------------------- MODULE MCConversation ---------------------------
(* Instances of Conversation for TLC. *)
EXTENDS Conversation

\* The last message quotes the first.
LastQuotesFirst == [m \in Message |-> IF m = LastMessage THEN 1 ELSE None]

\* Three changes, reconnections and readings in all.
Budget == used.changes + used.connects + used.reads <= 3
=============================================================================
