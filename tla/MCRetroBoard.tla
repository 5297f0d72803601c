--------------------------- MODULE MCRetroBoard ---------------------------
(***************************************************************************)
(* RetroBoard, and what is shown of it, on small sets of ids.  Ids are     *)
(* alike, so any set of them may be permuted.                              *)
(***************************************************************************)
EXTENDS Projection, TLC

CONSTANTS textA, textB

Sizes == [text \in Texts |-> 1]

Ids == UNION {Permutations(S) : S \in {Users, Retros, Columns, Groups, Notes}}

People == {note[n].author : n \in {m \in Notes : note[m] # None}}
            \cup {u \in Users : \E g \in Groups : vote[g][u] # None}
            \cup {x[2] : x \in reaction}

\* Bounds: several people in one retro, or one person in several; one reaction
\* at a time.
Small ==
  /\ Cardinality({r \in Retros : stage[r] # None}) <= 1 \/ Cardinality(People) <= 1
  /\ Cardinality(reaction) <= 1
=============================================================================
