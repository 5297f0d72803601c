----------------------------- MODULE MCActions -----------------------------
(***************************************************************************)
(* Actions on small sets.  Retros are ordered by their ids; actions and    *)
(* teams are all alike.                                                    *)
(***************************************************************************)
EXTENDS Actions, TLC

Ids == Permutations(Actions) \cup Permutations(Teams)
=============================================================================
