--------------------------- MODULE MCSuggestions ---------------------------
(***************************************************************************)
(* Suggestions for a retro with three notes at most.  The model may answer *)
(* with all of them in one group or in two that share one, name a group    *)
(* twice, and draft two actions.                                           *)
(***************************************************************************)
EXTENDS Suggestions, TLC

Triples    == {t \in Notes \X Notes \X Notes : IsInjective(t)}
AnyGroups  == {<<t>> : t \in Triples} \cup {<<<<t[1], t[2]>>, <<t[3], t[2]>>>> : t \in Triples}
AnyNames   == {<<g, g>> : g \in Groups}
AnyActions == {<<text, text>> : text \in Texts}

Ids == UNION {Permutations(S) : S \in {Groups, Notes, Requests}}
=============================================================================
