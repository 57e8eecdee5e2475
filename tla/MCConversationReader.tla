------------------------- MODULE MCConversationReader -------------------------
(* Small instances of ConversationReader for TLC. *)
EXTENDS ConversationReader

Five == 1..5
Ends == {1, 5}
=============================================================================
