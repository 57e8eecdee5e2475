------------------------------ MODULE OrderedScan ------------------------------
(***************************************************************************)
(* What reading page by page promises, without limits, queries, tools or   *)
(* the history: one scan through an ordered set that grows meanwhile. Each *)
(* page is the whole interval from the position to a new position, as the  *)
(* set is at that moment; the scan goes on as long as something lies       *)
(* beyond, and ends only with everything that does.                        *)
(***************************************************************************)
EXTENDS Integers

CONSTANT Items   \* what can be stored, a set of natural numbers

VARIABLES stored,   \* what is stored
          at,       \* the position of the scan
          seen,     \* what its pages have contained
          ended     \* it has come to its end

vars == <<stored, at, seen, ended>>

Beginning == -1

Init ==
  /\ stored \in SUBSET Items
  /\ at = Beginning
  /\ seen = {}
  /\ ended = FALSE

Grow ==
  /\ stored' \in SUBSET Items
  /\ stored \subseteq stored'
  /\ UNCHANGED <<at, seen, ended>>

Page ==
  /\ ~ended
  /\ at' \in stored
  /\ at < at'
  /\ \E m \in stored : at' < m
  /\ seen' = seen \union {m \in stored : at < m /\ m <= at'}
  /\ UNCHANGED <<stored, ended>>

LastPage ==
  /\ ~ended
  /\ seen' = seen \union {m \in stored : at < m}
  /\ ended' = TRUE
  /\ UNCHANGED <<stored, at>>

\* A client begins again, or the reader that found nothing.
Rescan ==
  /\ ended
  /\ at' = Beginning
  /\ seen' = {}
  /\ ended' = FALSE
  /\ UNCHANGED stored

Next == Grow \/ Page \/ LastPage \/ Rescan

Spec == Init /\ [][Next]_vars
=============================================================================
