---------------------------- MODULE MCSessions ----------------------------
(***************************************************************************)
(* Sessions with two browsers of two people, one with a cookie of v1.      *)
(***************************************************************************)
EXTENDS Sessions, TLC

CONSTANTS b1, b2, s1, s2, v

WhoSits == b1 :> s1 @@ b2 :> s2
WhoWas  == b1 :> v @@ b2 :> None

Ids == Permutations(Tokens) \cup Permutations(States) \cup Permutations(Users \ {v})
       \cup Permutations(Slots)
=============================================================================
