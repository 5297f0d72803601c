------------------------------ MODULE MCRoom ------------------------------
(***************************************************************************)
(* Room with browsers that are alike.  Connections and hubs are numbered   *)
(* in the order they are made and are not.                                 *)
(***************************************************************************)
EXTENDS Room, TLC

AnyBrowser == Permutations(Browsers)
=============================================================================
