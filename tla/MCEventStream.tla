---------------------------- MODULE MCEventStream ----------------------------
(* Small instances of EventStream for TLC. *)
EXTENDS EventStream

CONSTANTS m1, m2, c1

\* Two messages of one conversation, m1 the older.
OneConversation == [m \in {m1, m2} |-> c1]
InOrder == [m \in {m1, m2} |-> IF m = m1 THEN 1 ELSE 2]
=============================================================================
