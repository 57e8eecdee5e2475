-------------------------- MODULE MCOutboxDelivery --------------------------
(* Small instances of OutboxDelivery for TLC. *)
EXTENDS OutboxDelivery, TLC

\* Calls, conversations and texts are only compared, never ordered.
Symmetry ==
  Permutations(Calls) \union Permutations(Conversations) \union Permutations(Texts)
=============================================================================
