------------------------- MODULE MCSessionCoordinator -------------------------
(* Small instances of SessionCoordinator for TLC. *)
EXTENDS SessionCoordinator

CONSTANTS s1, s2

AllKinds == Kinds
=============================================================================
