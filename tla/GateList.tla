------------------------------ MODULE GateList ------------------------------
(***************************************************************************)
(* The shape of the repository's decisions: tests tried in a fixed order,  *)
(* of which the first that fires decides.                                  *)
(***************************************************************************)
EXTENDS Integers, Sequences

Gate(fires, outcome) == [fires |-> fires, outcome |-> outcome]

FirstOf(gates, otherwise) ==
  LET fired == {i \in DOMAIN gates : gates[i].fires}
  IN IF fired = {} THEN otherwise
     ELSE gates[CHOOSE i \in fired : \A j \in fired : i <= j].outcome
=============================================================================
