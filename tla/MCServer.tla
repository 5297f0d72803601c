----------------------------- MODULE MCServer -----------------------------
(***************************************************************************)
(* Server on v1 databases of two retros, the second of which may have been *)
(* deleted under its rows.  Groups has the id of a note in it, which v1    *)
(* never chose for a group, so that ids clash in every way there is.       *)
(***************************************************************************)
EXTENDS Server, TLC

CONSTANTS u1, gone, r1, r2, c1, c2, c3, g1, n1, n2, n3, t1, t2, e

OldRetro(status, votes, columns) ==
  [status |-> status, maxVotes |-> votes, columns |-> columns]

Row(n, r, u, c, g) == [id |-> n, retro |-> r, user |-> u, column |-> c, group |-> g]

\* gone is no user, c3 in no retro, and r2 there or not.
Base ==
  [tables     |-> V1Tables,
   users      |-> {u1},
   retro      |-> (r1 :> OldRetro("vote", 0, <<c1>>) @@ r2 :> OldRetro("discuss", 99, <<c2>>)),
   notes      |-> <<Row(n1, r1, u1, c1, g1), Row(n2, r2, u1, c2, g1)>>,
   votes      |-> {<<r1, u1, g1>>, <<r2, u1, g1>>, <<r1, gone, g1>>, <<r1, u1, n2>>},
   tasks      |-> {[id |-> t1, retro |-> r1, completed |-> TRUE],
                   [id |-> t2, retro |-> r2, completed |-> FALSE]},
   tags       |-> {<<r1, "tag">>, <<r2, "tag">>},
   reactions  |-> {<<n1, u1, e>>, <<n2, gone, e>>, <<n3, u1, e>>},
   unreadable |-> {}]

Without(r) == [Base EXCEPT !.retro[r] = None]

Own(r) == IF r = r1 THEN c1 ELSE c2

\* Two or three notes in the groups of both retros, in every way.
ByNotes ==
  {[b EXCEPT !.notes = <<Row(n1, r1, gone, c1, g1), Row(n2, r, u1, c, g), Row(n3, s, u1, Own(s), h)>>] :
     b \in {Base, Without(r2)}, r \in Retros, s \in Retros,
     c \in {c1, c2, c3}, g \in Groups, h \in Groups}

ByVotes ==
  {[Base EXCEPT !.votes = V \cup {<<r1, gone, g1>>}] : V \in SUBSET (Retros \X {u1} \X Groups)}

\* The tables that came with later releases go with their rows.
WithoutTable(t) ==
  [Base EXCEPT !.tables = @ \ {t},
               !.tags = IF t = "retro_tags" THEN {} ELSE @,
               !.reactions = IF t = "reactions" THEN {} ELSE @]

Broken ==
  {WithoutTable(t) : t \in V1Tables}
  \cup {[Base EXCEPT !.unreadable = {x}] : x \in {u1, r1, n1, t1, <<n1, u1, e>>, <<n3, u1, e>>}}
  \cup {[Without(r2) EXCEPT !.unreadable = {x}] : x \in {n2, t2}}
  \cup {[Base EXCEPT !.retro[r2] = OldRetro(s, 3, cs)] :
           s \in {"brainstorm", "closed"}, cs \in {<<>>, <<c1>>, <<c2, c2>>, <<c2, c3>>}}

SmallDatabases == ByNotes \cup Broken \cup ByVotes
=============================================================================
