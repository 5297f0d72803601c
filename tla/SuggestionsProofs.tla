------------------------- MODULE SuggestionsProofs -------------------------
(***************************************************************************)
(* Proofs about Suggestions for any number of people, notes, requests and  *)
(* answers: a kind of suggestion is asked for once at a time, a click      *)
(* takes what it shows, no item is taken twice or lost, and applying a     *)
(* suggestion does to the board nothing that people's commands could not.  *)
(***************************************************************************)
EXTENDS Suggestions, Induction, FiniteSetTheorems

AskedKinds == {"groups", "names", "actions", "recap"}

\* Requests are typed, no two are of one kind, and the marks are theirs.
Requested ==
  /\ busy \subseteq AskedKinds
  /\ request \in [Requests -> Request \cup {None}]
  /\ \A p, q \in Requests :
       (request[p] # None /\ request[q] # None /\ request[p].kind = request[q].kind) => p = q
  /\ \A q \in Requests : request[q] # None => request[q].kind \in busy
  /\ \A k \in busy : \E q \in Requests : request[q] # None /\ request[q].kind = k

---------------------------------------------------------------------------
(* What is kept of an answer *)

Distinctly(items) == \A i, j \in DOMAIN items : items[i] = items[j] => i = j

\* Of one kept name the next list is as distinct and as known.
LEMMA KeepNextDistinct ==
  ASSUME NEW S, NEW known, NEW x \in S,
         NEW kept \in {t \in Seq(S \cap known) : Distinctly(t)}
  PROVE  KeepNext(kept, x, known) \in {t \in Seq(S \cap known) : Distinctly(t)}
<1>1. CASE x \in known /\ x \notin ToSet(kept)
  <2> DEFINE next == Append(kept, x)
  <2>1. /\ kept \in Seq(S \cap known) /\ next \in Seq(S \cap known)
        /\ Len(kept) \in Nat /\ Len(next) = Len(kept) + 1 /\ next[Len(kept) + 1] = x
        /\ DOMAIN kept = 1 .. Len(kept) /\ DOMAIN next = 1 .. Len(kept) + 1
        /\ \A i \in 1 .. Len(kept) : next[i] = kept[i]
    BY <1>1
  <2>2. \A i \in 1 .. Len(kept) : kept[i] # x
    BY <1>1, <2>1 DEF ToSet
  <2> HIDE DEF next
  <2>3. Distinctly(next)
    BY <2>1, <2>2 DEF Distinctly
  <2> QED
    BY <1>1, <2>1, <2>3 DEF KeepNext, next
<1>2. CASE ~(x \in known /\ x \notin ToSet(kept))
  BY <1>2 DEF KeepNext
<1> QED
  BY <1>1, <1>2

\* Kept keeps a list of what is known, each once: for a list of any length.
LEMMA KeptDistinct ==
  ASSUME NEW S, NEW s \in Seq(S), NEW known
  PROVE  Kept(s, known) \in Seq(S \cap known) /\ Distinctly(Kept(s, known))
<1> DEFINE N == Len(s)
           Lists == {t \in Seq(S \cap known) : Distinctly(t)}
           step == [i \in 1 .. N |-> [t \in Lists |-> KeepNext(t, s[i], known)]]
           Eq(f) == f = [i \in 0 .. N |-> IF i = 0 THEN <<>> ELSE KeepNext(f[i - 1], s[i], known)]
<1>1. N \in Nat /\ \A i \in 1 .. N : s[i] \in S
  OBVIOUS
<1>2. <<>> \in Lists
  BY DEF Distinctly
<1>3. \A i \in 1 .. N, t \in Lists : KeepNext(t, s[i], known) \in Lists
  BY <1>1, KeepNextDistinct
<1> HIDE DEF Lists
<1>4. step \in Bodies(N, Lists)
  BY <1>3 DEF Bodies
<1>5. PICK f \in [0 .. N -> Lists] : f[0] = <<>> /\ \A i \in 1 .. N : f[i] = step[i][f[i - 1]]
  <2> HIDE DEF step, N
  <2>1. Courses(N, Lists, <<>>, step) # {}
    BY <1>1, <1>2, <1>4, LoopExists
  <2> QED
    BY <2>1 DEF Courses
<1>6. \A i \in 0 .. N : i # 0 => i \in 1 .. N /\ i - 1 \in 0 .. N
  BY <1>1
<1>7. \A i \in 0 .. N : i # 0 => f[i] = KeepNext(f[i - 1], s[i], known)
  BY <1>5, <1>6
<1>8. Eq(f)
  BY <1>5, <1>7
<1> DEFINE P == CHOOSE h : Eq(h)
<1>9. Kept(s, known) = P[N]
  BY DEF Kept
<1>10. Eq(P)
  <2> HIDE DEF Eq
  <2> QED
    BY <1>8
<1> HIDE DEF P
<1>11. P[0] = <<>> /\ \A i \in 1 .. N : P[i] = KeepNext(P[i - 1], s[i], known)
  <2>1. \A i \in 0 .. N : P[i] = IF i = 0 THEN <<>> ELSE KeepNext(P[i - 1], s[i], known)
    BY <1>10, Zenon
  <2>2. 0 \in 0 .. N /\ \A i \in 1 .. N : i \in 0 .. N /\ i # 0
    BY <1>1
  <2> HIDE DEF N
  <2> QED
    BY <2>1, <2>2
<1> DEFINE T == {i \in 0 .. N : P[i] \in Lists}
<1>12. 0 \in T
  BY <1>1, <1>2, <1>11
<1>13. \A i \in 0 .. N - 1 : i \in T => i + 1 \in T
  <2> TAKE i \in 0 .. N - 1
  <2> HAVE i \in T
  <2>1. i + 1 \in 1 .. N /\ i + 1 \in 0 .. N /\ i + 1 - 1 = i
    BY <1>1
  <2>2. P[i + 1] = KeepNext(P[i], s[i + 1], known)
    BY <1>11, <2>1
  <2> QED
    BY <1>3, <2>1, <2>2
<1>14. N \in T
  <2> HIDE DEF T, N
  <2>1. \A i \in 0 .. N : i \in T
    BY <1>1, <1>12, <1>13, CountingUp
  <2> QED
    BY <1>1, <2>1
<1> QED
  BY <1>9, <1>14 DEF Lists

\* Lists of notes, at least two to a list and no note in two places.
ApartLists(lists) ==
  \A i \in DOMAIN lists :
    /\ Len(lists[i]) > 1
    /\ \A j \in DOMAIN lists : \A a \in DOMAIN lists[i], b \in DOMAIN lists[j] :
         lists[i][a] = lists[j][b] => i = j /\ a = b

\* A list is one of any larger set as well.
LEMMA WiderLists ==
  ASSUME NEW S, NEW T, S \subseteq T
  PROVE  Seq(S) \subseteq Seq(T)
OBVIOUS

\* One more group takes no note of those there are.
LEMMA CleanNextApart ==
  ASSUME NEW known, NEW g \in Seq(Notes),
         NEW groups \in {t \in Seq(Seq(Notes \cap known)) : ApartLists(t)}
  PROVE  CleanNext(groups, g, known) \in {t \in Seq(Seq(Notes \cap known)) : ApartLists(t)}
<1> DEFINE ns == Kept(g, known \ Used(groups))
           next == Append(groups, ns)
<1>1. /\ ns \in Seq(Notes \cap (known \ Used(groups))) /\ Distinctly(ns)
  BY KeptDistinct
<1>2. ns \in Seq(Notes \cap known) /\ \A b \in DOMAIN ns : ns[b] \notin Used(groups)
  <2> HIDE DEF ns
  <2> QED
    BY <1>1
<1>3. CASE Len(ns) < 2
  BY <1>3 DEF CleanNext
<1>4. CASE ~(Len(ns) < 2)
  <2> HIDE DEF ns
  <2>0. Len(ns) > 1
    BY <1>2, <1>4
  <2>1. /\ groups \in Seq(Seq(Notes \cap known)) /\ next \in Seq(Seq(Notes \cap known))
        /\ Len(groups) \in Nat /\ next[Len(groups) + 1] = ns
        /\ DOMAIN groups = 1 .. Len(groups) /\ DOMAIN next = 1 .. Len(groups) + 1
        /\ \A i \in 1 .. Len(groups) : next[i] = groups[i]
    BY <1>2
  <2>2. \A i \in 1 .. Len(groups) : \A a \in DOMAIN groups[i] : groups[i][a] \in Used(groups)
    <3> TAKE i \in 1 .. Len(groups)
    <3> TAKE a \in DOMAIN groups[i]
    <3>1. groups[i][a] \in ToSet(groups[i])
      BY DEF ToSet
    <3>2. i \in DOMAIN groups
      BY <2>1
    <3> QED
      BY <3>1, <3>2 DEF Used
  <2> HIDE DEF next
  <2>3. ApartLists(next)
    <3> SUFFICES ASSUME NEW i \in DOMAIN next
                 PROVE  /\ Len(next[i]) > 1
                        /\ \A j \in DOMAIN next : \A a \in DOMAIN next[i], b \in DOMAIN next[j] :
                             next[i][a] = next[j][b] => i = j /\ a = b
      BY DEF ApartLists
    <3>1. \A j \in 1 .. Len(groups) + 1 : j = Len(groups) + 1 \/ j \in 1 .. Len(groups)
      BY <2>1
    <3>2. CASE i = Len(groups) + 1
      <4>1. next[i] = ns
        BY <2>1, <3>2
      <4>2. ASSUME NEW j \in DOMAIN next, NEW a \in DOMAIN ns, NEW b \in DOMAIN next[j], ns[a] = next[j][b]
            PROVE  i = j /\ a = b
        <5>1. j = Len(groups) + 1
          BY <1>2, <2>1, <2>2, <3>1, <4>2
        <5> QED
          BY <1>1, <2>1, <3>2, <4>2, <5>1 DEF Distinctly
      <4> QED
        BY <2>0, <4>1, <4>2
    <3>3. CASE i \in 1 .. Len(groups)
      <4>1. next[i] = groups[i] /\ Len(groups[i]) > 1
        BY <2>1, <3>3 DEF ApartLists
      <4>2. ASSUME NEW j \in DOMAIN next, NEW a \in DOMAIN groups[i], NEW b \in DOMAIN next[j],
                   groups[i][a] = next[j][b]
            PROVE  i = j /\ a = b
        <5>1. j \in 1 .. Len(groups)
          BY <1>2, <2>1, <2>2, <3>1, <3>3, <4>2
        <5>2. next[j] = groups[j]
          BY <2>1, <5>1
        <5> QED
          BY <2>1, <3>3, <4>2, <5>1, <5>2 DEF ApartLists
      <4> QED
        BY <4>1, <4>2
    <3> QED
      BY <2>1, <3>1, <3>2, <3>3
  <2> QED
    BY <1>4, <2>1, <2>3 DEF CleanNext, next, ns
<1> QED
  BY <1>3, <1>4

\* cleanGroups, of an answer of any length: lists of known notes, each of at
\* least two, and no note is twice in one or in two.
LEMMA CleanGroupsApart ==
  ASSUME NEW raw \in Seq(Seq(Notes)), NEW known
  PROVE  CleanGroups(raw, known) \in Seq(Seq(Notes \cap known)) /\ ApartLists(CleanGroups(raw, known))
<1> DEFINE N == Len(raw)
           Lists == {t \in Seq(Seq(Notes \cap known)) : ApartLists(t)}
           step == [i \in 1 .. N |-> [t \in Lists |-> CleanNext(t, raw[i], known)]]
           Eq(f) == f = [i \in 0 .. N |-> IF i = 0 THEN <<>> ELSE CleanNext(f[i - 1], raw[i], known)]
<1>1. N \in Nat /\ \A i \in 1 .. N : raw[i] \in Seq(Notes)
  OBVIOUS
<1>2. <<>> \in Lists
  BY DEF ApartLists
<1>3. \A i \in 1 .. N, t \in Lists : CleanNext(t, raw[i], known) \in Lists
  BY <1>1, CleanNextApart
<1> HIDE DEF Lists
<1>4. step \in Bodies(N, Lists)
  BY <1>3 DEF Bodies
<1>5. PICK f \in [0 .. N -> Lists] : f[0] = <<>> /\ \A i \in 1 .. N : f[i] = step[i][f[i - 1]]
  <2> HIDE DEF step, N
  <2>1. Courses(N, Lists, <<>>, step) # {}
    BY <1>1, <1>2, <1>4, LoopExists
  <2> QED
    BY <2>1 DEF Courses
<1>6. \A i \in 0 .. N : i # 0 => i \in 1 .. N /\ i - 1 \in 0 .. N
  BY <1>1
<1>7. \A i \in 0 .. N : i # 0 => f[i] = CleanNext(f[i - 1], raw[i], known)
  BY <1>5, <1>6
<1>8. Eq(f)
  BY <1>5, <1>7
<1> DEFINE P == CHOOSE h : Eq(h)
<1>9. CleanGroups(raw, known) = P[N]
  BY DEF CleanGroups
<1>10. Eq(P)
  <2> HIDE DEF Eq
  <2> QED
    BY <1>8
<1> HIDE DEF P
<1>11. P[0] = <<>> /\ \A i \in 1 .. N : P[i] = CleanNext(P[i - 1], raw[i], known)
  <2>1. \A i \in 0 .. N : P[i] = IF i = 0 THEN <<>> ELSE CleanNext(P[i - 1], raw[i], known)
    BY <1>10, Zenon
  <2>2. 0 \in 0 .. N /\ \A i \in 1 .. N : i \in 0 .. N /\ i # 0
    BY <1>1
  <2> HIDE DEF N
  <2> QED
    BY <2>1, <2>2
<1> DEFINE T == {i \in 0 .. N : P[i] \in Lists}
<1>12. 0 \in T
  BY <1>1, <1>2, <1>11
<1>13. \A i \in 0 .. N - 1 : i \in T => i + 1 \in T
  <2> TAKE i \in 0 .. N - 1
  <2> HAVE i \in T
  <2>1. i + 1 \in 1 .. N /\ i + 1 \in 0 .. N /\ i + 1 - 1 = i
    BY <1>1
  <2>2. P[i + 1] = CleanNext(P[i], raw[i + 1], known)
    BY <1>11, <2>1
  <2> QED
    BY <1>3, <2>1, <2>2
<1>14. N \in T
  <2> HIDE DEF T, N
  <2>1. \A i \in 0 .. N : i \in T
    BY <1>1, <1>12, <1>13, CountingUp
  <2> QED
    BY <1>1, <2>1
<1> QED
  BY <1>9, <1>14 DEF Lists

\* What is kept of any answer of the model, of any length and whatever is in it:
\* groups of two or more notes asked about, no note twice in one or in two of
\* them; groups to name that were asked about, none twice; or three actions at
\* most, and none if there was nothing to ask about.
THEOREM AnswersAreCleaned ==
  ASSUME NEW k \in Kinds, NEW raw \in Raw(k), NEW known
  PROVE  /\ k = "groups" => /\ Clean(k, raw, known) \in Seq(Seq(Notes \cap known))
                            /\ ApartLists(Clean(k, raw, known))
         /\ k = "names" => /\ Clean(k, raw, known) \in Seq(Groups \cap known)
                           /\ Distinctly(Clean(k, raw, known))
         /\ k = "actions" => /\ Clean(k, raw, known) \in Seq(Texts)
                             /\ Len(Clean(k, raw, known)) <= 3
                             /\ known = {} => Clean(k, raw, known) = <<>>
<1>1. CASE k = "groups"
  <2>1. raw \in Seq(Seq(Notes)) /\ Clean(k, raw, known) = CleanGroups(raw, known)
    BY <1>1, SuggestionsAssumption DEF Raw, Clean
  <2> QED
    BY <1>1, <2>1, CleanGroupsApart
<1>2. CASE k = "names"
  <2>1. raw \in Seq(Groups) /\ Clean(k, raw, known) = Kept(raw, known)
    BY <1>2, SuggestionsAssumption DEF Raw, Clean
  <2> QED
    BY <1>2, <2>1, KeptDistinct
<1>3. CASE k = "actions"
  <2>1. raw \in Seq(Texts) /\ Clean(k, raw, known) = DraftActions(raw, known)
    BY <1>3, SuggestionsAssumption DEF Raw, Clean
  <2>2. Len(raw) \in Nat
    BY <2>1
  <2>3. /\ DraftActions(raw, known) \in Seq(Texts) /\ Len(DraftActions(raw, known)) <= 3
        /\ known = {} => DraftActions(raw, known) = <<>>
    BY <2>1, <2>2 DEF DraftActions
  <2> QED
    BY <1>3, <2>1, <2>3
<1> QED
  BY <1>1, <1>2, <1>3 DEF Kinds

\* So it is a list in any case.
LEMMA AnswersAreLists ==
  ASSUME NEW k \in Kinds, NEW raw \in Raw(k), NEW known
  PROVE  Clean(k, raw, known) \in Seq(Groups \cup Texts \cup Seq(Notes))
<1> DEFINE payload == Clean(k, raw, known)
           S == Groups \cup Texts \cup Seq(Notes)
<1>1. \/ payload \in Seq(Seq(Notes \cap known))
      \/ payload \in Seq(Groups \cap known)
      \/ payload \in Seq(Texts)
  BY AnswersAreCleaned DEF Kinds
<1>2. Seq(Notes \cap known) \subseteq S /\ Groups \cap known \subseteq S /\ Texts \subseteq S
  BY WiderLists
<1> HIDE DEF payload, S
<1>3. payload \in Seq(S)
  BY <1>1, <1>2, WiderLists
<1> QED
  BY <1>3 DEF payload, S

---------------------------------------------------------------------------
(* The rows and what is shown of them *)

\* Rows have their type, their items are distinct, and no two have one id.
Rows ==
  /\ saved \in [Kinds -> Row \cup {None}]
  /\ \A k \in Kinds : saved[k] # None => Distinctly(saved[k].items)
  /\ \A j, k \in Kinds :
       (saved[j] # None /\ saved[k] # None /\ saved[j].id = saved[k].id) => j = k

\* People see what the row has, and what it has is what was not yet taken.
Views ==
  /\ shown = [k \in Kinds |-> IF saved[k] = None THEN {} ELSE {saved[k].items}]
  /\ left = [k \in Kinds |-> IF saved[k] = None THEN {} ELSE ToSet(saved[k].items)]

CommandFields == {"at", "id", "saw", "nth", "kind", "apply", "items", "item", "step", "groupOf"}

\* Commands are records of their fields.
Commands ==
  command # None =>
    /\ DOMAIN command = CommandFields
    /\ command.at \in {"take", "remove", "apply"}
    /\ command.kind \in Kinds
    /\ command.id \in Nat \ {0}
    /\ command.saw \in Seq(Item)
    /\ command.items \in Seq(Item)
    /\ command.nth \in {Whole} \cup DOMAIN command.saw

\* Until a command has taken anything, a row with the id it was sent for is
\* of its kind and has the items its sender saw.
Aims ==
  (command # None /\ command.at # "apply") =>
    \A k \in Kinds :
      (saved[k] # None /\ saved[k].id = command.id) =>
        k = command.kind /\ saved[k].items = command.saw

\* One that has read the row to take an item of it has the items its sender
\* saw, and a row of its kind under another id has none of them.
Removes ==
  (command # None /\ command.at = "remove") =>
    /\ command.items = command.saw /\ command.nth # Whole
    /\ (saved[command.kind] # None /\ saved[command.kind].id # command.id) =>
         ToSet(saved[command.kind].items) \cap ToSet(command.items) = {}

\* Rows, what is seen of them, and the command under way fit together.
Taking == Rows /\ Views /\ Commands /\ Aims /\ Removes /\ ClickTakesWhatItShows

---------------------------------------------------------------------------
(* Requests *)

\* None is neither a row nor what a request has read.
LEMMA NoneApart == None \notin Row /\ None \notin Request
BY SuggestionsAssumption

\* The kinds there are.
LEMMA KindsAsked == DOMAIN aiStage = AskedKinds
BY DEF aiStage, AskedKinds

\* A request that is over takes its own mark with it and no other's.
LEMMA OverRequested ==
  ASSUME Requested, NEW q \in Requests, request[q] # None, Over(q)
  PROVE  Requested'
<1>1. /\ request' \in [Requests -> Request \cup {None}] /\ request'[q] = None
      /\ \A p \in Requests : p # q => request'[p] = request[p]
      /\ busy' = busy \ {request[q].kind}
  BY DEF Over, Requested
<1>2. \A p \in Requests : request'[p] # None => p # q /\ request[p] # None /\ request'[p] = request[p]
  BY <1>1
<1>3. \A p \in Requests : request'[p] # None => request'[p].kind \in busy'
  BY <1>1, <1>2 DEF Requested
<1>4. ASSUME NEW k \in busy'
      PROVE  \E p \in Requests : request'[p] # None /\ request'[p].kind = k
  <2>1. PICK p \in Requests : request[p] # None /\ request[p].kind = k
    BY <1>1 DEF Requested
  <2>2. p # q
    BY <1>1, <2>1
  <2> QED
    BY <1>1, <2>1, <2>2
<1>5. busy' \subseteq AskedKinds
  BY <1>1 DEF Requested
<1>6. \A p, o \in Requests :
        (request'[p] # None /\ request'[o] # None /\ request'[p].kind = request'[o].kind) => p = o
  BY <1>2 DEF Requested
<1> QED
  BY <1>1, <1>3, <1>4, <1>5, <1>6 DEF Requested

\* Asking marks a kind that no request is of.
LEMMA AskRequested ==
  ASSUME Requested, NEW q \in Requests, NEW k \in DOMAIN aiStage, Ask(q, k)
  PROVE  Requested'
<1> DEFINE new == [kind |-> k, room |-> TRUE, read |-> FALSE, about |-> Titled(k)]
<1>1. new \in Request /\ new # None /\ new.kind = k
  <2>1. Titled(k) \in (SUBSET Groups) \cup (SUBSET Notes)
    BY DEF Titled
  <2>2. new \in Request
    BY <2>1 DEF Request
  <2> QED
    BY <2>2, NoneApart
<1>2. request[q] = None /\ k \notin busy /\ busy' = busy \cup {k}
      /\ request' = [request EXCEPT ![q] = new]
  BY DEF Ask
<1> HIDE DEF new
<1>3. /\ request' \in [Requests -> Request \cup {None}] /\ request'[q] = new
      /\ \A p \in Requests : p # q => request'[p] = request[p]
  BY <1>1, <1>2 DEF Requested
<1>4. \A p \in Requests : (p # q /\ request'[p] # None) => request'[p].kind # k
  BY <1>2, <1>3 DEF Requested
<1>5. \A p, o \in Requests :
        (request'[p] # None /\ request'[o] # None /\ request'[p].kind = request'[o].kind) => p = o
  <2> SUFFICES ASSUME NEW p \in Requests, NEW o \in Requests, p # o,
                      request'[p] # None, request'[o] # None, request'[p].kind = request'[o].kind
               PROVE  FALSE
    OBVIOUS
  <2>1. p # q /\ o # q
    BY <1>1, <1>3, <1>4
  <2> QED
    BY <2>1, <1>3 DEF Requested
<1>6. \A p \in Requests : request'[p] # None => request'[p].kind \in busy'
  BY <1>1, <1>2, <1>3 DEF Requested
<1>7. ASSUME NEW j \in busy'
      PROVE  \E p \in Requests : request'[p] # None /\ request'[p].kind = j
  <2>1. CASE j = k
    BY <2>1, <1>1, <1>3
  <2>2. CASE j # k
    <3>1. PICK p \in Requests : request[p] # None /\ request[p].kind = j
      BY <2>2, <1>2 DEF Requested
    <3> QED
      BY <3>1, <1>2, <1>3
  <2> QED
    BY <2>1, <2>2
<1>8. busy' \subseteq AskedKinds
  BY <1>2, KindsAsked DEF Requested
<1> QED
  BY <1>3, <1>5, <1>6, <1>7, <1>8 DEF Requested

\* What a request reads, and the loss of its room, leave its kind alone.
LEMMA SameKindsRequested ==
  ASSUME Requested, busy' = busy, request' \in [Requests -> Request \cup {None}],
         \A q \in Requests : request'[q] = None <=> request[q] = None,
         \A q \in Requests : request[q] # None => request'[q].kind = request[q].kind
  PROVE  Requested'
<1>1. \A p, o \in Requests :
        (request'[p] # None /\ request'[o] # None /\ request'[p].kind = request'[o].kind) => p = o
  BY DEF Requested
<1>2. \A q \in Requests : request'[q] # None => request'[q].kind \in busy'
  BY DEF Requested
<1>3. ASSUME NEW k \in busy'
      PROVE  \E p \in Requests : request'[p] # None /\ request'[p].kind = k
  <2>1. PICK p \in Requests : request[p] # None /\ request[p].kind = k
    BY DEF Requested
  <2> QED
    BY <2>1
<1> QED
  BY <1>1, <1>2, <1>3 DEF Requested

\* What the questions are about is some of the groups or of the notes.
LEMMA ReadIsTyped ==
  ASSUME NEW old \in Request
  PROVE  [old EXCEPT !.read = TRUE, !.about = About(old.kind, @)] \in Request
<1>1. About(old.kind, old.about) \in (SUBSET Groups) \cup (SUBSET Notes)
  BY DEF About, Request
<1> QED
  BY <1>1 DEF Request

\* Every step of a request keeps that.
LEMMA RequestNextRequested ==
  ASSUME Requested, NEW q \in Requests, RequestNext(q)
  PROVE  Requested'
<1>1. CASE \E k \in DOMAIN aiStage : Ask(q, k)
  BY <1>1, AskRequested
<1>2. CASE Read(q)
  <2> DEFINE new == [request[q] EXCEPT !.read = TRUE, !.about = About(request[q].kind, @)]
  <2>1. request[q] \in Request /\ request[q] # None
    BY <1>2 DEF Read, Requested
  <2>2. new \in Request /\ new.kind = request[q].kind /\ new # None
    BY <2>1, ReadIsTyped, SuggestionsAssumption DEF Request
  <2>3. request' = [request EXCEPT ![q] = new] /\ busy' = busy
    BY <1>2 DEF Read
  <2> HIDE DEF new
  <2>4. request' \in [Requests -> Request \cup {None}]
    BY <2>2, <2>3 DEF Requested
  <2>5. \A p \in Requests : request'[p] = IF p = q THEN new ELSE request[p]
    BY <2>3 DEF Requested
  <2> QED
    BY <2>1, <2>2, <2>3, <2>4, <2>5, SameKindsRequested
<1>3. CASE request[q] # None /\ \E raw \in Raw(request[q].kind) : Answer(q, raw)
  BY <1>3, OverRequested DEF Answer
<1>4. CASE AnswerRecap(q)
  BY <1>4, OverRequested DEF AnswerRecap
<1>5. CASE Fail(q)
  BY <1>5, OverRequested DEF Fail
<1> QED
  BY <1>1, <1>2, <1>3, <1>4, <1>5 DEF RequestNext

\* So does every other step.
LEMMA NextRequested == Requested /\ [Next]_vars => Requested'
<1> SUFFICES ASSUME Requested, [Next]_vars
             PROVE  Requested'
  OBVIOUS
<1>1. CASE \E q \in Requests : RequestNext(q)
  BY <1>1, RequestNextRequested
<1>2. CASE RoomForgotten
  <2>1. busy' = busy /\ \A q \in Requests :
          request'[q] = IF request[q] = None THEN None ELSE [request[q] EXCEPT !.room = FALSE]
    BY <1>2 DEF RoomForgotten
  <2>2. \A q \in Requests : request[q] # None =>
          /\ request'[q] \in Request /\ request'[q].kind = request[q].kind
          /\ request'[q] # None
    <3> SUFFICES ASSUME NEW q \in Requests, request[q] # None
                 PROVE  /\ request'[q] \in Request /\ request'[q].kind = request[q].kind
                        /\ request'[q] # None
      OBVIOUS
    <3>1. request[q] \in Request /\ request'[q] = [request[q] EXCEPT !.room = FALSE]
      BY <2>1 DEF Requested
    <3>2. request'[q] \in Request /\ request'[q].kind = request[q].kind
      BY <3>1 DEF Request
    <3> QED
      BY <3>2, NoneApart
  <2>3. request' \in [Requests -> Request \cup {None}]
    BY <1>2, <2>1, <2>2 DEF RoomForgotten
  <2> QED
    BY <2>1, <2>2, <2>3, SameKindsRequested
<1>3. CASE CommandNext \/ Otherwise \/ UNCHANGED vars
  <2>1. UNCHANGED <<busy, request>>
    BY <1>3 DEF CommandNext, Otherwise, vars, Click, TakeSuggestion, FindItem, TakeItem,
         NothingToTake, ApplyMove, ApplyTitle, ApplyName, ApplyAction, SkipStep, End
  <2> QED
    BY <2>1 DEF Requested
<1> QED
  BY <1>1, <1>2, <1>3 DEF Next

\* "Already working on that suggestion": for any number of requests, a kind is
\* marked exactly while one request for it is under way, however requests end
\* and whatever becomes of their room.
THEOREM RequestsOneAtATime == Spec => []OneAtATime
<1>1. Init => Requested
  BY DEF Init, Requested
<1>2. Requested => OneAtATime
  <2> SUFFICES ASSUME Requested, NEW k \in AskedKinds
               PROVE  Cardinality({q \in Requests : request[q] # None /\ request[q].kind = k})
                        = IF k \in busy THEN 1 ELSE 0
    BY KindsAsked DEF OneAtATime
  <2> DEFINE of == {q \in Requests : request[q] # None /\ request[q].kind = k}
  <2>1. CASE k \in busy
    <3>1. PICK q \in Requests : request[q] # None /\ request[q].kind = k
      BY <2>1 DEF Requested
    <3>2. of = {q}
      BY <3>1 DEF Requested
    <3> HIDE DEF of
    <3>3. Cardinality(of) = 1
      BY <3>2, FS_Singleton
    <3> QED
      BY <2>1, <3>3 DEF of
  <2>2. CASE k \notin busy
    <3>1. of = {}
      BY <2>2 DEF Requested
    <3>2. Cardinality({}) = 0
      BY FS_EmptySet
    <3> HIDE DEF of
    <3>3. Cardinality(of) = 0
      BY <3>1, <3>2
    <3> QED
      BY <2>2, <3>3 DEF of
  <2> QED
    BY <2>1, <2>2
<1>3. Requested /\ [Next]_vars => Requested'
  BY NextRequested
<1> QED
  BY <1>1, <1>2, <1>3, PTL DEF Spec

---------------------------------------------------------------------------
(* newID is new *)

FromsOf(items) == {items[i].from : i \in DOMAIN items}

\* The ids a list of items came from are finitely many.
LEMMA FromsFinite ==
  ASSUME NEW items \in Seq(Item)
  PROVE  IsFiniteSet(FromsOf(items))
<1> DEFINE f == [i \in 1 .. Len(items) |-> items[i].from]
<1>1. IsFiniteSet(1 .. Len(items))
  BY FS_Interval
<1>2. f \in Surjection(1 .. Len(items), FromsOf(items))
  BY DEF Surjection, FromsOf
<1> QED
  BY <1>1, <1>2, FS_Surjection DEF ExistsSurjection

\* No row, item or command has i.
IsNew(i) ==
  /\ i \in Nat \ {0}
  /\ \A k \in Kinds : saved[k] # None =>
       saved[k].id # i /\ \A n \in DOMAIN saved[k].items : saved[k].items[n].from # i
  /\ command # None =>
       command.id # i /\ \A n \in DOMAIN command.items : command.items[n].from # i

\* There is always an id that nothing has, and newID gives such an id.
LEMMA NewIdIsNew ==
  ASSUME Rows, Commands
  PROVE  IsNew(newID)
<1> DEFINE items == (UNION {ToSet(saved[k].items) : k \in {j \in Kinds : saved[j] # None}})
                      \cup (IF command = None THEN {} ELSE ToSet(command.items))
           inUse == {saved[k].id : k \in {j \in Kinds : saved[j] # None}}
                      \cup {x.from : x \in items}
                      \cup (IF command = None THEN {} ELSE {command.id})
           list(k) == IF saved[k] = None THEN <<>> ELSE saved[k].items
           taken == IF command = None THEN <<>> ELSE command.items
           froms == FromsOf(list("groups")) \cup FromsOf(list("names"))
                      \cup FromsOf(list("actions")) \cup FromsOf(taken)
           ids == {saved["groups"].id} \cup {saved["names"].id}
                      \cup {saved["actions"].id} \cup {command.id}
<1>1. IsFiniteSet(inUse)
  <2>1. /\ \A k \in Kinds : list(k) \in Seq(Item)
        /\ taken \in Seq(Item)
    <3>1. <<>> \in Seq(Item)
      OBVIOUS
    <3>2. \A k \in Kinds : saved[k] # None => saved[k].items \in Seq(Item)
      BY DEF Rows, Row
    <3> QED
      BY <3>1, <3>2 DEF Commands
  <2>2. IsFiniteSet(froms)
    <3> HIDE DEF list, taken
    <3>1. /\ IsFiniteSet(FromsOf(list("groups"))) /\ IsFiniteSet(FromsOf(list("names")))
          /\ IsFiniteSet(FromsOf(list("actions"))) /\ IsFiniteSet(FromsOf(taken))
      BY <2>1, FromsFinite DEF Kinds
    <3> QED
      BY <3>1, FS_Union
  <2>3. IsFiniteSet(ids)
    BY FS_Singleton, FS_Union
  <2>4. {saved[k].id : k \in {j \in Kinds : saved[j] # None}} \subseteq ids
    BY DEF Kinds
  <2>5. {x.from : x \in items} \subseteq froms
    <3> SUFFICES ASSUME NEW x \in items
                 PROVE  x.from \in froms
      OBVIOUS
    <3>1. CASE \E k \in Kinds : saved[k] # None /\ x \in ToSet(saved[k].items)
      <4>1. PICK k \in Kinds : saved[k] # None /\ x \in ToSet(saved[k].items)
        BY <3>1
      <4>2. x.from \in FromsOf(list(k))
        BY <4>1 DEF ToSet, FromsOf
      <4> QED
        BY <4>2 DEF Kinds
    <3>2. CASE command # None /\ x \in ToSet(command.items)
      <4>1. x.from \in FromsOf(taken)
        BY <3>2 DEF ToSet, FromsOf
      <4> HIDE DEF list, taken
      <4> QED
        BY <4>1
    <3> QED
      BY <3>1, <3>2
  <2>6. inUse \subseteq froms \cup ids
    BY <2>4, <2>5
  <2> HIDE DEF inUse, froms, ids
  <2>7. IsFiniteSet(froms \cup ids)
    BY <2>2, <2>3, FS_Union
  <2> QED
    BY <2>6, <2>7, FS_Subset
<1>2. \E i \in 1 .. Cardinality(inUse) + 1 : i \notin inUse
  <2> HIDE DEF inUse
  <2>1. Cardinality(inUse) \in Nat
    BY <1>1, FS_CardinalityType
  <2>2. Cardinality(1 .. Cardinality(inUse) + 1) = Cardinality(inUse) + 1
    BY <2>1, FS_Interval
  <2> QED
    BY <1>1, <2>1, <2>2, FS_Subset
<1>3. newID \in 1 .. Cardinality(inUse) + 1 /\ newID \notin inUse
  <2>1. newID = CHOOSE i \in 1 .. Cardinality(inUse) + 1 : i \notin inUse
    BY DEF newID
  <2> HIDE DEF inUse
  <2> QED
    BY <1>2, <2>1
<1>4. Cardinality(inUse) \in Nat
  <2> HIDE DEF inUse
  <2> QED
    BY <1>1, FS_CardinalityType
<1> DEFINE new == newID
<1>5. new \in Nat \ {0} /\ new \notin inUse
  BY <1>3, <1>4
<1> HIDE DEF new
<1>6. IsNew(new)
  <2>1. ASSUME NEW k \in Kinds, saved[k] # None
        PROVE  saved[k].id # new
    BY <2>1, <1>5
  <2>2. ASSUME NEW k \in Kinds, saved[k] # None, NEW n \in DOMAIN saved[k].items
        PROVE  saved[k].items[n].from # new
    <3>1. saved[k].items[n] \in ToSet(saved[k].items)
      BY DEF ToSet
    <3>2. saved[k].items[n] \in items
      BY <2>2, <3>1
    <3> HIDE DEF items
    <3> QED
      BY <1>5, <3>2
  <2>3. ASSUME command # None
        PROVE  command.id # new
    BY <2>3, <1>5
  <2>4. ASSUME command # None, NEW n \in DOMAIN command.items
        PROVE  command.items[n].from # new
    <3>1. command.items[n] \in ToSet(command.items)
      BY DEF ToSet
    <3>2. command.items[n] \in items
      BY <2>4, <3>1
    <3> HIDE DEF items
    <3> QED
      BY <1>5, <3>2
  <2> QED
    BY <1>5, <2>1, <2>2, <2>3, <2>4 DEF IsNew
<1> QED
  BY <1>6 DEF new

---------------------------------------------------------------------------
(* Items of a row *)

\* An answer that was saved is a row's items, distinct and all from its id.
LEMMA ItemsOfAnswer ==
  ASSUME NEW i \in Nat, NEW payload \in Seq(Groups \cup Texts \cup Seq(Notes)), payload # <<>>
  PROVE  /\ ItemsOf(i, payload) \in Seq(Item) \ {<<>>}
         /\ Distinctly(ItemsOf(i, payload))
         /\ \A x \in ToSet(ItemsOf(i, payload)) : x.from = i
<1> DEFINE items == ItemsOf(i, payload)
<1>1. /\ DOMAIN payload = 1 .. Len(payload) /\ Len(payload) \in Nat \ {0}
      /\ \A n \in 1 .. Len(payload) : payload[n] \in Groups \cup Texts \cup Seq(Notes)
  OBVIOUS
<1>2. items = [n \in 1 .. Len(payload) |-> [from |-> i, nth |-> n, what |-> payload[n]]]
  BY <1>1 DEF ItemsOf
<1>3. \A n \in 1 .. Len(payload) : items[n] \in Item /\ items[n].from = i /\ items[n].nth = n
  BY <1>1, <1>2 DEF Item
<1>4. DOMAIN items = 1 .. Len(payload)
  BY <1>2
<1>5. items \in Seq(Item) /\ Len(items) = Len(payload)
  BY <1>1, <1>2, <1>3
<1> HIDE DEF items
<1>6. items # <<>>
  BY <1>1, <1>5
<1>7. Distinctly(items)
  BY <1>3, <1>4 DEF Distinctly
<1>8. \A x \in ToSet(items) : x.from = i
  BY <1>3, <1>4 DEF ToSet
<1> QED
  BY <1>5, <1>6, <1>7, <1>8 DEF items

\* RemoveAt leaves the other items, distinct as they were.
LEMMA RemoveAtLeaves ==
  ASSUME NEW s \in Seq(Item), NEW n \in DOMAIN s, Distinctly(s)
  PROVE  /\ RemoveAt(s, n) \in Seq(Item)
         /\ Distinctly(RemoveAt(s, n))
         /\ ToSet(RemoveAt(s, n)) = ToSet(s) \ {s[n]}
<1> DEFINE rest == RemoveAt(s, n)
<1>1. n \in 1 .. Len(s) /\ Len(s) \in Nat /\ DOMAIN s = 1 .. Len(s)
  OBVIOUS
<1> DEFINE before == SubSeq(s, 1, n - 1)
           after == SubSeq(s, n + 1, Len(s))
<1>2. /\ before \in Seq(Item) /\ Len(before) = n - 1
      /\ \A i \in 1 .. n - 1 : before[i] = s[i]
  BY <1>1
<1>3. /\ after \in Seq(Item) /\ Len(after) = Len(s) - n
      /\ \A i \in 1 .. Len(s) - n : after[i] = s[n + i]
  BY <1>1
<1>4. /\ rest \in Seq(Item) /\ Len(rest) = Len(s) - 1
      /\ \A i \in 1 .. Len(s) - 1 : rest[i] = IF i < n THEN s[i] ELSE s[i + 1]
  <2>1. rest = before \o after
    BY DEF RemoveAt
  <2> HIDE DEF before, after, rest
  <2>2. rest \in Seq(Item) /\ Len(rest) = Len(s) - 1
    <3>1. before \in Seq(Item) /\ after \in Seq(Item)
      BY <1>2, <1>3
    <3>2. rest \in Seq(Item)
      BY <2>1, <3>1
    <3>3. Len(rest) = Len(before) + Len(after)
      BY <2>1, <3>1
    <3> QED
      BY <1>1, <1>2, <1>3, <3>2, <3>3
  <2>3. ASSUME NEW i \in 1 .. Len(s) - 1
        PROVE  rest[i] = IF i < n THEN s[i] ELSE s[i + 1]
    <3>1. CASE i < n
      BY <1>1, <1>2, <1>3, <2>1, <3>1
    <3>2. CASE ~(i < n)
      <4>1. rest[i] = after[i - (n - 1)] /\ i - (n - 1) \in 1 .. Len(s) - n
        BY SMTT(30), <1>1, <1>2, <1>3, <2>1, <3>2
      <4>2. n + (i - (n - 1)) = i + 1
        BY <1>1
      <4>3. after[i - (n - 1)] = s[n + (i - (n - 1))]
        BY <1>3, <4>1
      <4> QED
        BY <3>2, <4>1, <4>2, <4>3
    <3> QED
      BY <3>1, <3>2
  <2> QED
    BY <2>2, <2>3
<1> HIDE DEF rest
<1>5. DOMAIN rest = 1 .. Len(s) - 1
  BY <1>1, <1>4
<1>6. Distinctly(rest)
  <2> SUFFICES ASSUME NEW i \in 1 .. Len(s) - 1, NEW j \in 1 .. Len(s) - 1, rest[i] = rest[j]
               PROVE  i = j
    BY <1>5 DEF Distinctly
  <2> DEFINE at(m) == IF m < n THEN m ELSE m + 1
  <2>1. rest[i] = s[at(i)] /\ rest[j] = s[at(j)] /\ at(i) \in 1 .. Len(s) /\ at(j) \in 1 .. Len(s)
    BY <1>1, <1>4
  <2>2. at(i) = at(j)
    <3> HIDE DEF at
    <3> QED
      BY <1>1, <2>1 DEF Distinctly
  <2> QED
    BY <1>1, <2>2
<1>7. ToSet(rest) \subseteq ToSet(s) \ {s[n]}
  <2> SUFFICES ASSUME NEW i \in 1 .. Len(s) - 1
               PROVE  rest[i] \in ToSet(s) /\ rest[i] # s[n]
    BY <1>5 DEF ToSet
  <2> DEFINE at == IF i < n THEN i ELSE i + 1
  <2>1. rest[i] = s[at] /\ at \in 1 .. Len(s) /\ at # n
    BY <1>1, <1>4
  <2> HIDE DEF at
  <2> QED
    BY <1>1, <2>1 DEF Distinctly, ToSet
<1>8. ToSet(s) \ {s[n]} \subseteq ToSet(rest)
  <2> SUFFICES ASSUME NEW j \in 1 .. Len(s), s[j] # s[n]
               PROVE  s[j] \in ToSet(rest)
    BY <1>1 DEF ToSet
  <2> DEFINE at == IF j < n THEN j ELSE j - 1
  <2>1. rest[at] = s[j] /\ at \in 1 .. Len(s) - 1
    BY <1>1, <1>4
  <2> HIDE DEF at
  <2> QED
    BY <1>5, <2>1 DEF ToSet
<1> QED
  BY <1>4, <1>6, <1>7, <1>8 DEF rest

---------------------------------------------------------------------------
(* Rows *)

\* A row under a new id goes with the others.
LEMMA NewRow ==
  ASSUME Rows, NEW k \in Kinds, NEW i, IsNew(i), NEW items \in Seq(Item) \ {<<>>},
         Distinctly(items), saved' = [saved EXCEPT ![k] = [id |-> i, items |-> items]]
  PROVE  /\ Rows'
         /\ saved'[k] # None /\ saved'[k].id = i /\ saved'[k].items = items
         /\ \A j \in Kinds : j # k => saved'[j] = saved[j]
<1> DEFINE row == [id |-> i, items |-> items]
<1>1. row \in Row /\ row # None /\ row.id = i /\ row.items = items
  <2>1. row \in Row
    BY DEF IsNew, Row
  <2> QED
    BY <2>1, NoneApart
<1>2. saved' = [saved EXCEPT ![k] = row]
  OBVIOUS
<1> HIDE DEF row
<1>3. saved' \in [Kinds -> Row \cup {None}] /\ saved'[k] = row
      /\ \A j \in Kinds : j # k => saved'[j] = saved[j]
  BY <1>1, <1>2 DEF Rows
<1>4. \A j \in Kinds : saved'[j] # None => Distinctly(saved'[j].items)
  BY <1>1, <1>3 DEF Rows
<1>5. \A j, m \in Kinds :
        (saved'[j] # None /\ saved'[m] # None /\ saved'[j].id = saved'[m].id) => j = m
  BY <1>1, <1>3 DEF Rows, IsNew
<1> QED
  BY <1>1, <1>3, <1>4, <1>5 DEF Rows

\* So do the others without one.
LEMMA NoRow ==
  ASSUME Rows, NEW k \in Kinds, saved' = [saved EXCEPT ![k] = None]
  PROVE  /\ Rows' /\ saved'[k] = None
         /\ \A j \in Kinds : j # k => saved'[j] = saved[j]
BY DEF Rows

\* An answer that is saved: no command aims at its row or has read an item of it.
LEMMA AnswerTaking ==
  ASSUME Requested, Taking,
         NEW q \in Requests, NEW raw \in Raw(request[q].kind), Answer(q, raw)
  PROVE  Taking'
<1> DEFINE k == request[q].kind
           payload == Clean(k, raw, request[q].about)
           i == newID
           items == ItemsOf(i, payload)
<1>1. k \in Kinds /\ request[q].about \in (SUBSET Groups) \cup (SUBSET Notes)
  BY KindsAsked DEF Answer, Requested, Request, Kinds, AskedKinds, Recap
<1>2. payload \in Seq(Groups \cup Texts \cup Seq(Notes)) /\ payload # <<>>
  BY <1>1, AnswersAreLists DEF Answer
<1>3. IsNew(i)
  BY NewIdIsNew DEF Taking
<1>4. /\ saved' = [saved EXCEPT ![k] = [id |-> i, items |-> items]]
      /\ shown' = [shown EXCEPT ![k] = {items}]
      /\ left' = [left EXCEPT ![k] = ToSet(items)]
      /\ command' = command
  BY DEF Answer, SaveSuggestion
<1> HIDE DEF payload, i, k
<1>5. /\ items \in Seq(Item) \ {<<>>} /\ Distinctly(items)
      /\ \A x \in ToSet(items) : x.from = i
  BY <1>2, <1>3, ItemsOfAnswer DEF IsNew
<1> HIDE DEF items
<1>6. /\ Rows' /\ saved'[k] # None /\ saved'[k].id = i /\ saved'[k].items = items
      /\ \A j \in Kinds : j # k => saved'[j] = saved[j]
  BY ZenonT(30), <1>1, <1>3, <1>4, <1>5, NewRow DEF Taking
<1>7. Views'
  <2>1. shown' = [j \in Kinds |-> IF saved'[j] = None THEN {} ELSE {saved'[j].items}]
    BY <1>1, <1>4, <1>6 DEF Taking, Views
  <2>2. left' = [j \in Kinds |-> IF saved'[j] = None THEN {} ELSE ToSet(saved'[j].items)]
    BY <1>1, <1>4, <1>6 DEF Taking, Views
  <2> QED
    BY <2>1, <2>2 DEF Views
<1>8. Commands' /\ ClickTakesWhatItShows'
  BY <1>4 DEF Taking, Commands, ClickTakesWhatItShows
<1>9. Aims'
  BY <1>3, <1>4, <1>6 DEF Taking, Aims, IsNew
<1>10. Removes'
  <2>1. ASSUME command # None, command.kind = k
        PROVE  ToSet(items) \cap ToSet(command.items) = {}
    BY <1>3, <1>5, <2>1 DEF IsNew, ToSet
  <2> QED
    BY <1>4, <1>6, <2>1 DEF Taking, Removes, Commands
<1> QED
  BY <1>6, <1>7, <1>8, <1>9, <1>10 DEF Taking

\* Somebody clicks: what they see under a row's id is what the row has.
LEMMA ClickTaking ==
  ASSUME Taking, NEW k \in Kinds, NEW saw \in shown[k], NEW i \in {Whole} \cup DOMAIN saw,
         NEW apply \in BOOLEAN, Click(k, saw, i, apply)
  PROVE  Taking'
<1>1. saved[k] # None /\ saw = saved[k].items /\ saved[k] \in Row
  BY DEF Click, Taking, Views, Rows
<1>2. UNCHANGED <<saved, shown, left>>
  BY DEF Click, tables, history
<1>3. /\ DOMAIN command' = CommandFields
      /\ command'.at = "take" /\ command'.id = saved[k].id /\ command'.saw = saw
      /\ command'.nth = i /\ command'.kind = k /\ command'.items = <<>>
  BY DEF Click, CommandFields
<1>4. Rows' /\ Views'
  BY <1>2 DEF Taking, Rows, Views
<1>5. Commands'
  BY <1>1, <1>3 DEF Commands, Row
<1>6. Aims'
  BY <1>1, <1>2, <1>3 DEF Aims, Taking, Rows
<1>7. Removes' /\ ClickTakesWhatItShows'
  BY <1>3 DEF Removes, ClickTakesWhatItShows
<1> QED
  BY <1>4, <1>5, <1>6, <1>7 DEF Taking

\* What a command is after it took items, whatever steps come of them.
LEMMA TakeCommands ==
  ASSUME Commands, command # None, NEW items \in Seq(Item), Take(items)
  PROVE  /\ Commands'
         /\ command'.at = "apply" /\ command'.items = items
         /\ command'.saw = command.saw /\ command'.nth = command.nth
<1>1. /\ DOMAIN command' = CommandFields
      /\ command'.at = "apply" /\ command'.items = items
      /\ command'.saw = command.saw /\ command'.nth = command.nth
      /\ command'.kind = command.kind /\ command'.id = command.id
  BY DEF Take, Commands, CommandFields
<1> QED
  BY <1>1 DEF Commands

\* Taking a suggestion as a whole takes the row's items from what is left.
LEMMA TakeSuggestionTaking ==
  ASSUME Taking, TakeSuggestion
  PROVE  Taking'
<1> DEFINE k == command.kind
<1>1. command # None /\ command.at = "take" /\ command.nth = Whole
  BY DEF TakeSuggestion
<1>2. PICK j \in RowOf(command.id) : Take(saved[j].items) /\ PutBack(j, <<>>)
  BY DEF TakeSuggestion
<1>3. j = k /\ k \in Kinds /\ saved[k] # None /\ saved[k].items = command.saw
  BY <1>1, <1>2 DEF RowOf, Taking, Aims, Commands
<1>4. /\ saved' = [saved EXCEPT ![k] = None] /\ shown' = [shown EXCEPT ![k] = {}]
      /\ left' = [left EXCEPT ![k] = @ \ ToSet(saved[k].items)]
  BY <1>2, <1>3 DEF PutBack, Take
<1>5. /\ Rows' /\ saved'[k] = None /\ \A m \in Kinds : m # k => saved'[m] = saved[m]
  BY <1>3, <1>4, NoRow DEF Taking
<1>6. /\ Commands'
      /\ command'.at = "apply" /\ command'.items = command.saw
      /\ command'.saw = command.saw /\ command'.nth = Whole
  BY <1>1, <1>2, <1>3, TakeCommands DEF Taking, Commands
<1> HIDE DEF k
<1>7. Views'
  <2>1. left[k] = ToSet(saved[k].items)
    BY <1>3 DEF Taking, Views
  <2>2. shown' = [m \in Kinds |-> IF saved'[m] = None THEN {} ELSE {saved'[m].items}]
    BY <1>3, <1>4, <1>5 DEF Taking, Views
  <2>3. left' = [left EXCEPT ![k] = {}]
    BY <1>4, <2>1
  <2>4. left' = [m \in Kinds |-> IF saved'[m] = None THEN {} ELSE ToSet(saved'[m].items)]
    BY <1>3, <1>5, <2>3 DEF Taking, Views
  <2> QED
    BY <2>2, <2>4 DEF Views
<1>8. Aims' /\ Removes' /\ ClickTakesWhatItShows'
  BY <1>6 DEF Aims, Removes, ClickTakesWhatItShows, Whole
<1> QED
  BY <1>5, <1>6, <1>7, <1>8 DEF Taking

\* Reading the row to take an item reads what was seen.
LEMMA FindItemTaking ==
  ASSUME Taking, FindItem
  PROVE  Taking'
<1>1. command # None /\ command.at = "take" /\ command.nth # Whole
  BY DEF FindItem
<1>2. PICK k \in RowOf(command.id) :
        command' = [command EXCEPT !.at = "remove", !.items = saved[k].items]
  BY DEF FindItem
<1>3. /\ k = command.kind /\ k \in Kinds /\ saved[k] # None /\ saved[k] \in Row
      /\ saved[k].items = command.saw /\ saved[k].id = command.id
  BY <1>1, <1>2 DEF RowOf, Taking, Aims, Commands, Rows
<1>4. UNCHANGED <<saved, shown, left>>
  BY DEF FindItem, tables, history
<1>5. /\ DOMAIN command' = CommandFields
      /\ command'.at = "remove" /\ command'.items = command.saw
      /\ command'.saw = command.saw /\ command'.nth = command.nth
      /\ command'.kind = command.kind /\ command'.id = command.id
  BY <1>1, <1>2, <1>3 DEF Taking, Commands, CommandFields
<1>6. Rows' /\ Views'
  BY <1>4 DEF Taking, Rows, Views
<1>7. Commands'
  BY <1>1, <1>5 DEF Taking, Commands
<1>8. Aims'
  BY <1>1, <1>4, <1>5 DEF Taking, Aims
<1>9. Removes' /\ ClickTakesWhatItShows'
  BY <1>1, <1>3, <1>4, <1>5 DEF Removes, ClickTakesWhatItShows
<1> QED
  BY <1>6, <1>7, <1>8, <1>9 DEF Taking

\* Taking an item takes it from what is left, and from no other row.
LEMMA TakeItemTaking ==
  ASSUME Taking, TakeItem
  PROVE  Taking'
<1> DEFINE k == command.kind
           n == command.nth
           item == command.items[n]
           rest == RemoveAt(command.items, n)
           i == newID
<1>1. /\ command # None /\ command.at = "remove" /\ k \in Kinds
      /\ command.items = command.saw /\ n # Whole
      /\ command.items \in Seq(Item) /\ n \in DOMAIN command.items
  BY DEF TakeItem, Taking, Commands, Removes
<1>2. Take(<<item>>) /\ Leave(rest)
  BY DEF TakeItem
<1>3. /\ Commands'
      /\ command'.at = "apply" /\ command'.items = <<item>>
      /\ command'.saw = command.saw /\ command'.nth = n
  <2>1. <<item>> \in Seq(Item)
    BY <1>1
  <2> HIDE DEF item
  <2> QED
    BY <1>1, <1>2, <2>1, TakeCommands DEF Taking
<1>4. Aims' /\ Removes' /\ ClickTakesWhatItShows'
  BY <1>1, <1>3 DEF Aims, Removes, ClickTakesWhatItShows
<1>5. left' = [left EXCEPT ![k] = @ \ {item}]
  <2>1. ToSet(<<item>>) = {item}
    BY DEF ToSet
  <2> QED
    BY <1>2, <2>1 DEF Take
<1>6. item \in ToSet(command.items)
  BY <1>1 DEF ToSet
<1>7. CASE RowOf(command.id) = {}
  <2>1. UNCHANGED <<saved, shown>>
    BY <1>2, <1>7 DEF Leave
  <2>2. item \notin left[k]
    BY <1>1, <1>6, <1>7 DEF Taking, Views, Removes, RowOf
  <2>3. left' = left
    <3>1. left[k] \ {item} = left[k]
      BY <2>2
    <3> HIDE DEF item
    <3> QED
      BY <1>1, <1>5, <3>1 DEF Taking, Views
  <2> QED
    BY <1>3, <1>4, <2>1, <2>3 DEF Taking, Rows, Views
<1>8. CASE RowOf(command.id) # {}
  <2>1. saved[k] # None /\ saved[k].items = command.items /\ Distinctly(command.items)
    BY <1>1, <1>8 DEF RowOf, Taking, Aims, Rows
  <2>2. PutBack(k, rest)
    BY <1>2, <1>8 DEF Leave
  <2>3. rest \in Seq(Item) /\ Distinctly(rest) /\ ToSet(rest) = ToSet(command.items) \ {item}
    BY <1>1, <2>1, RemoveAtLeaves
  <2>4. left' = [left EXCEPT ![k] = ToSet(rest)]
    <3>1. left[k] = ToSet(command.items)
      BY <1>1, <2>1 DEF Taking, Views
    <3> HIDE DEF rest, item
    <3> QED
      BY <1>5, <2>3, <3>1
  <2>5. IsNew(i)
    BY NewIdIsNew DEF Taking
  <2> HIDE DEF k, rest, i, item
  <2>6. CASE rest = <<>>
    <3>1. saved' = [saved EXCEPT ![k] = None] /\ shown' = [shown EXCEPT ![k] = {}]
      BY <2>2, <2>6 DEF PutBack
    <3>2. /\ Rows' /\ saved'[k] = None /\ \A m \in Kinds : m # k => saved'[m] = saved[m]
      BY <1>1, <3>1, NoRow DEF Taking
    <3>3. shown' = [m \in Kinds |-> IF saved'[m] = None THEN {} ELSE {saved'[m].items}]
      BY <1>1, <3>1, <3>2 DEF Taking, Views
    <3>4. left' = [left EXCEPT ![k] = {}]
      <4>1. ToSet(rest) = {}
        BY <2>6 DEF ToSet
      <4> QED
        BY <2>4, <4>1
    <3>5. left' = [m \in Kinds |-> IF saved'[m] = None THEN {} ELSE ToSet(saved'[m].items)]
      BY <1>1, <3>2, <3>4 DEF Taking, Views
    <3> QED
      BY <1>3, <1>4, <3>2, <3>3, <3>5 DEF Taking, Views
  <2>7. CASE rest # <<>>
    <3>1. /\ saved' = [saved EXCEPT ![k] = [id |-> i, items |-> rest]]
          /\ shown' = [shown EXCEPT ![k] = {rest}]
      BY <2>2, <2>7 DEF PutBack, i
    <3>2. /\ Rows' /\ saved'[k] # None /\ saved'[k].items = rest
          /\ \A m \in Kinds : m # k => saved'[m] = saved[m]
      <4>1. Rows /\ k \in Kinds /\ rest \in Seq(Item) \ {<<>>} /\ Distinctly(rest)
        BY <1>1, <2>3, <2>7 DEF Taking
      <4>2. saved' = [saved EXCEPT ![k] = [id |-> i, items |-> rest]]
        BY <3>1
      <4> QED
        BY <2>5, <4>1, <4>2, NewRow
    <3>3. shown' = [m \in Kinds |-> IF saved'[m] = None THEN {} ELSE {saved'[m].items}]
      BY <1>1, <3>1, <3>2 DEF Taking, Views
    <3>4. left' = [m \in Kinds |-> IF saved'[m] = None THEN {} ELSE ToSet(saved'[m].items)]
      BY <1>1, <2>4, <3>2 DEF Taking, Views
    <3> QED
      BY <1>3, <1>4, <3>2, <3>3, <3>4 DEF Taking, Views
  <2> QED
    BY <2>6, <2>7
<1> QED
  BY <1>7, <1>8

\* A command that goes on with its steps, or with nothing, leaves all that.
LEMMA GoesOnTaking ==
  ASSUME Taking, UNCHANGED <<saved, shown, left>>,
         \/ command' = None
         \/ command' = command
         \/ /\ command # None /\ command.at = "apply"
            /\ DOMAIN command' = DOMAIN command
            /\ \A x \in CommandFields \ {"item", "step", "groupOf"} : command'[x] = command[x]
  PROVE  Taking'
<1>1. Rows' /\ Views'
  BY DEF Taking, Rows, Views
<1>2. CASE command' = None
  BY <1>1, <1>2 DEF Taking, Commands, Aims, Removes, ClickTakesWhatItShows
<1>3. CASE command' = command
  BY <1>1, <1>3 DEF Taking, Commands, Aims, Removes, ClickTakesWhatItShows
<1>4. CASE /\ command # None /\ command.at = "apply"
           /\ DOMAIN command' = DOMAIN command
           /\ \A x \in CommandFields \ {"item", "step", "groupOf"} : command'[x] = command[x]
  <2>1. /\ command'.at = "apply" /\ command'.id = command.id /\ command'.saw = command.saw
        /\ command'.nth = command.nth /\ command'.kind = command.kind
        /\ command'.items = command.items
    BY <1>4 DEF CommandFields
  <2>2. Commands'
    BY <1>4, <2>1 DEF Taking, Commands
  <2>3. Aims' /\ Removes' /\ ClickTakesWhatItShows'
    BY <1>4, <2>1 DEF Taking, Aims, Removes, ClickTakesWhatItShows
  <2> QED
    BY <1>1, <2>2, <2>3 DEF Taking
<1> QED
  BY <1>2, <1>3, <1>4

\* Every step of a command keeps it.
LEMMA CommandNextTaking ==
  ASSUME Taking, CommandNext
  PROVE  Taking'
<1>1. CASE \E k \in Kinds : \E saw \in shown[k] :
             \E i \in {Whole} \cup DOMAIN saw, apply \in BOOLEAN : Click(k, saw, i, apply)
  BY <1>1, ClickTaking
<1>2. CASE TakeSuggestion
  BY <1>2, TakeSuggestionTaking
<1>3. CASE FindItem
  BY <1>3, FindItemTaking
<1>4. CASE TakeItem
  BY <1>4, TakeItemTaking
<1>5. CASE NothingToTake \/ End
  BY <1>5, GoesOnTaking DEF NothingToTake, End, tables, history
<1>6. CASE ApplyMove \/ ApplyTitle \/ ApplyName \/ ApplyAction \/ SkipStep
  <2>1. command # None /\ command.at = "apply"
    BY <1>6 DEF ApplyMove, ApplyTitle, ApplyName, ApplyAction, SkipStep, Applying
  <2>2. UNCHANGED <<saved, shown, left>>
    BY <1>6 DEF ApplyMove, ApplyTitle, ApplyName, ApplyAction, SkipStep, tables, history
  <2>3. /\ DOMAIN command' = DOMAIN command
        /\ \A x \in CommandFields \ {"item", "step", "groupOf"} : command'[x] = command[x]
    BY <1>6, <2>1 DEF ApplyMove, ApplyTitle, ApplyName, ApplyAction, SkipStep, StepDone, OneFurther,
         Applying, Taking, Commands, CommandFields
  <2> QED
    BY <2>1, <2>2, <2>3, GoesOnTaking
<1> QED
  BY <1>1, <1>2, <1>3, <1>4, <1>5, <1>6 DEF CommandNext

\* So does every other step.
LEMMA NextTaking == Requested /\ Taking /\ [Next]_vars => Taking'
<1> SUFFICES ASSUME Requested, Taking, [Next]_vars
             PROVE  Taking'
  OBVIOUS
<1>1. CASE \E q \in Requests : request[q] # None /\ \E raw \in Raw(request[q].kind) : Answer(q, raw)
  BY <1>1, AnswerTaking
<1>2. CASE \E q \in Requests : (\E k \in DOMAIN aiStage : Ask(q, k)) \/ Read(q) \/ AnswerRecap(q) \/ Fail(q)
  BY <1>2, GoesOnTaking DEF Ask, Read, AnswerRecap, Fail, tables, history
<1>3. CASE RoomForgotten \/ Otherwise \/ UNCHANGED vars
  BY <1>3, GoesOnTaking DEF RoomForgotten, Otherwise, vars, tables, history
<1>4. CASE CommandNext
  BY <1>4, CommandNextTaking
<1> QED
  BY <1>1, <1>2, <1>3, <1>4 DEF Next, RequestNext

\* Nothing is saved and nobody is at work at first.
LEMMA InitTaking == Init => Requested /\ Taking
<1> SUFFICES ASSUME Init
             PROVE  Requested /\ Taking
  OBVIOUS
<1>1. /\ saved = [k \in Kinds |-> None] /\ shown = [k \in Kinds |-> {}]
      /\ left = [k \in Kinds |-> {}] /\ command = None
      /\ busy = {} /\ request = [q \in Requests |-> None]
  BY DEF Init
<1>2. Requested
  BY <1>1 DEF Requested
<1>3. Rows /\ Views
  BY <1>1 DEF Rows, Views
<1> QED
  BY <1>1, <1>2, <1>3 DEF Taking, Commands, Aims, Removes, ClickTakesWhatItShows

\* Both are kept for ever.
LEMMA AlwaysTaking == Spec => [](Requested /\ Taking)
<1>1. Init => Requested /\ Taking
  BY InitTaking
<1>2. Requested /\ Taking /\ [Next]_vars => (Requested /\ Taking)'
  BY NextRequested, NextTaking
<1> QED
  BY <1>1, <1>2, PTL DEF Spec

\* For any answers, requests and clicks, a command takes what its sender saw
\* under the id it was sent for, whatever others took or was saved meanwhile.
THEOREM ClicksTakeWhatTheyShow == Spec => []ClickTakesWhatItShows
<1>1. Taking => ClickTakesWhatItShows
  BY DEF Taking
<1> QED
  BY <1>1, AlwaysTaking, PTL

\* For any answers, requests and clicks, an item of the last suggestion of a
\* kind is still there or was taken, never both and never neither: nothing is
\* applied twice and nothing is lost or overwritten.
THEOREM ItemsAreTakenOnce == Spec => []EveryItemOnce
<1>1. Taking => EveryItemOnce
  BY DEF Taking, Views, EveryItemOnce
<1> QED
  BY <1>1, AlwaysTaking, PTL

---------------------------------------------------------------------------
(* The board *)

\* The groups a command has read are groups of notes.
Reaches ==
  command # None =>
    /\ DOMAIN command = CommandFields
    /\ \A n \in DOMAIN command.groupOf : n \in Notes /\ command.groupOf[n] \in Groups

\* What is proved of the store, of the board here.
Board == INSTANCE RetroBoardProofs WITH SizeOf <- [text \in Texts |-> 1]

\* The store's assumptions hold of the constants here.
LEMMA BoardAssumptions ==
  Board!LimitsAssumption /\ Board!RowsAssumption /\ Board!SizeAssumption
BY SuggestionsAssumption
   DEF Board!LimitsAssumption, Board!RowsAssumption, Board!SizeAssumption,
       Store!LimitsAssumption, Store!RowsAssumption,
       Store!Stages, Board!Stages, Store!Reflect, Board!Reflect, Store!Discuss, Board!Discuss,
       Store!GroupRow, Board!GroupRow, Store!NoteRow, Board!NoteRow,
       Store!VoteRow, Board!VoteRow

\* Both are the same tables,
LEMMA SameTypes == Board!TypeOK <=> Store!TypeOK
BY DEF Store!TypeOK, Board!TypeOK, Store!Stages, Board!Stages,
       Store!Reflect, Board!Reflect, Store!Discuss, Board!Discuss,
       Store!GroupRow, Board!GroupRow, Store!NoteRow, Board!NoteRow,
       Store!VoteRow, Board!VoteRow

\* with the same steps.
LEMMA SameSteps == Store!Next => Board!Next
<1>1. \A S : Store!Cardinality(S) = Board!Cardinality(S)
  BY DEF Store!Cardinality, Board!Cardinality
<1>2. \A r : Store!ColumnsOf(r) = Board!ColumnsOf(r)
  BY DEF Store!ColumnsOf, Board!ColumnsOf
<1>3. \A u, r : Store!Used(u, r) = Board!Used(u, r)
  <2>1. \A u, r : Store!Dots(u, r) = Board!Dots(u, r)
    BY Zenon DEF Store!Dots, Board!Dots, Store!CountOf, Board!CountOf
  <2> QED
    BY <1>1, <2>1 DEF Store!Used, Board!Used
<1>4. \A r, cs : Store!CreateRetro(r, cs) => Board!CreateRetro(r, cs)
  BY <1>1, Zenon DEF Store!CreateRetro, Board!CreateRetro, Store!Reflect, Board!Reflect
<1>5. \A r, limit : Store!UpdateRetro(r, limit) => Board!UpdateRetro(r, limit)
  BY DEF Store!UpdateRetro, Board!UpdateRetro
<1>6. \A r, to : Store!SetStage(r, to) => Board!SetStage(r, to)
  BY DEF Store!SetStage, Board!SetStage
<1>7. \A r, c : Store!AddColumn(r, c) => Board!AddColumn(r, c)
  BY <1>2, <1>1 DEF Store!AddColumn, Board!AddColumn
<1>8. \A r, c : Store!DeleteColumn(r, c) => Board!DeleteColumn(r, c)
  BY <1>2, <1>1
     DEF Store!DeleteColumn, Board!DeleteColumn,
         Store!NotesIn, Board!NotesIn, Store!DeleteGroups,
         Board!DeleteGroups, Store!NoVotes, Board!NoVotes
<1>9. \A r, g : Store!Spotlight(r, g) => Board!Spotlight(r, g)
  BY DEF Store!Spotlight, Board!Spotlight, Store!Reflect, Board!Reflect,
         Store!GroupIn, Board!GroupIn
<1>10. \A r, u, c, text, g, n : Store!AddNote(r, u, c, text, g, n) => Board!AddNote(r, u, c, text, g, n)
  BY DEF Store!AddNote, Board!AddNote, Store!Reflect, Board!Reflect,
         Store!Group, Board!Group, Store!NewGroup, Board!NewGroup
<1>11. \A r, u, n, text : Store!EditNote(r, u, n, text) => Board!EditNote(r, u, n, text)
  BY DEF Store!EditNote, Board!EditNote, Store!Reflect, Board!Reflect,
         Store!Group, Board!Group, Store!NoteIn, Board!NoteIn
<1>12. \A r, u, n : Store!DeleteNote(r, u, n) => Board!DeleteNote(r, u, n)
  BY DEF Store!DeleteNote, Board!DeleteNote, Store!Reflect, Board!Reflect,
         Store!Group, Board!Group, Store!NoteIn, Board!NoteIn, Store!NotesIn,
         Board!NotesIn, Store!DroppedIfEmpty, Board!DroppedIfEmpty,
         Store!DeleteGroups, Board!DeleteGroups, Store!NoVotes, Board!NoVotes
<1>13. \A n, to, groups : Store!Rehome(n, to, groups) => Board!Rehome(n, to, groups)
  BY DEF Store!Rehome, Board!Rehome, Store!NotesIn, Board!NotesIn,
         Store!DroppedIfEmpty, Board!DroppedIfEmpty, Store!DeleteGroups,
         Board!DeleteGroups, Store!NoVotes, Board!NoVotes, Store!Merge,
         Board!Merge
<1>14. \A r, n, g : Store!MoveIntoGroup(r, n, g) => Board!MoveIntoGroup(r, n, g)
  BY <1>13
     DEF Store!MoveIntoGroup, Board!MoveIntoGroup, Store!NoteIn, Board!NoteIn,
         Store!GroupIn, Board!GroupIn, Store!Group, Board!Group
<1>15. \A r, u, n, c, g : Store!MoveToColumn(r, u, n, c, g) => Board!MoveToColumn(r, u, n, c, g)
  BY <1>13
     DEF Store!MoveToColumn, Board!MoveToColumn, Store!NoteIn, Board!NoteIn,
         Store!Group, Board!Group, Store!Reflect, Board!Reflect, Store!NewGroup,
         Board!NewGroup
<1>16. \A r, g, title : Store!NameGroup(r, g, title) => Board!NameGroup(r, g, title)
  BY DEF Store!NameGroup, Board!NameGroup, Store!Reflect, Board!Reflect,
         Store!GroupIn, Board!GroupIn
<1>17. \A r, u, g : Store!VoteOn(r, u, g) => Board!VoteOn(r, u, g)
  BY <1>3 DEF Store!VoteOn, Board!VoteOn, Store!Vote, Board!Vote,
         Store!GroupIn, Board!GroupIn, Store!OneMore, Board!OneMore
<1>18. \A r, u, g : Store!TakeBackVote(r, u, g) => Board!TakeBackVote(r, u, g)
  BY DEF Store!TakeBackVote, Board!TakeBackVote, Store!Vote, Board!Vote,
         Store!GroupIn, Board!GroupIn, Store!OneFewer, Board!OneFewer
<1>19. \A r, u, n, emoji, on : Store!React(r, u, n, emoji, on) => Board!React(r, u, n, emoji, on)
  BY DEF Store!React, Board!React, Store!Discuss, Board!Discuss, Store!NoteIn,
         Board!NoteIn
<1>20. ASSUME NEW r \in Retros, Store!RetroNext(r)
       PROVE  Board!RetroNext(r)
  BY <1>4, <1>5, <1>6, <1>7, <1>8, <1>9, <1>20
     DEF Store!RetroNext, Board!RetroNext, Store!Stages, Board!Stages,
         Store!Reflect, Board!Reflect, Store!Discuss, Board!Discuss
<1>21. ASSUME NEW r \in Retros, NEW u \in Users, Store!NoteNext(r, u)
       PROVE  Board!NoteNext(r, u)
  BY <1>10, <1>11, <1>12, <1>14, <1>15, <1>16, <1>17, <1>18, <1>19, <1>21
     DEF Store!NoteNext, Board!NoteNext
<1> QED
  BY <1>20, <1>21 DEF Store!Next, Board!Next

\* Both call the same tables healthy.
LEMMA SameHealth == Board!Healthy <=> Store!Healthy
BY DEF Store!Healthy, Board!Healthy, Store!GroupsHaveNotes, Board!GroupsHaveNotes,
       Store!GroupsInColumns, Board!GroupsInColumns, Store!NotesInGroups, Board!NotesInGroups,
       Store!VotesOnGroups, Board!VotesOnGroups, Store!SpotlightOnGroup, Board!SpotlightOnGroup,
       Store!ReactionsOnNotes, Board!ReactionsOnNotes,
       Store!GroupIn, Board!GroupIn, Store!NotesIn, Board!NotesIn

\* A command of anybody's on a note or a group is a step of the store.
LEMMA HereIsNext ==
  (\E u \in Users : Store!NoteNext(Here, u)) \/ Store!RetroNext(Here) => Store!Next
BY SuggestionsAssumption DEF Store!Next

\* Every step that applies a suggestion is one that somebody could have taken:
\* the notes and groups it names are the board's, whatever became of them.
LEMMA ApplyIsStep ==
  ASSUME Store!TypeOK, Reaches,
         ApplyMove \/ ApplyTitle \/ ApplyName
  PROVE  [Store!Next]_(Store!vars) /\ Reaches'
<1>1. PICK u \in Users : TRUE
  BY SuggestionsAssumption
<1>2. Suggested \in Titles
  BY SuggestionsAssumption
<1>3. CASE ApplyMove
  <2> DEFINE to == command.groupOf[Step.with]
  <2>1. Step.note \in DOMAIN command.groupOf /\ Step.with \in DOMAIN command.groupOf
    BY <1>3 DEF ApplyMove, InReach
  <2>2. Step.note \in Notes /\ to \in Groups /\ command # None
    BY <1>3, <2>1 DEF Reaches, ApplyMove, Applying
  <2>3. Store!MoveIntoGroup(Here, Step.note, to)
    BY <1>3 DEF ApplyMove
  <2>4. Store!NoteNext(Here, u)
    BY <2>2, <2>3 DEF Store!NoteNext
  <2>5. command' = [OneFurther EXCEPT !.groupOf[Step.note] = to]
    BY <1>3 DEF ApplyMove
  <2> HIDE DEF to
  <2>6. DOMAIN command' = CommandFields
        /\ command'.groupOf = [command.groupOf EXCEPT ![Step.note] = to]
    BY <2>2, <2>5 DEF Reaches, CommandFields, OneFurther
  <2>7. Reaches'
    BY <2>2, <2>6 DEF Reaches
  <2> QED
    BY <2>4, <2>7, HereIsNext
<1>4. CASE ApplyTitle
  <2>1. command.groupOf[Step.with] \in Groups
    BY <1>4 DEF Reaches, ApplyTitle, Applying
  <2>2. Store!NoteNext(Here, u)
    BY <1>2, <1>4, <2>1 DEF ApplyTitle, Store!NoteNext
  <2>3. Reaches'
    BY <1>4 DEF Reaches, ApplyTitle, Applying, StepDone, OneFurther, CommandFields
  <2> QED
    BY <2>2, <2>3, HereIsNext
<1>5. CASE ApplyName
  <2>1. Reaches'
    BY <1>5 DEF Reaches, ApplyName, Applying, StepDone, OneFurther, CommandFields
  <2>2. CASE Step.group \in Groups
    <3>1. Store!NoteNext(Here, u)
      BY <1>2, <1>5, <2>2 DEF ApplyName, Store!NoteNext
    <3> QED
      BY <2>1, <3>1, HereIsNext
  <2>3. CASE Step.group \notin Groups
    <3>1. group' = [group EXCEPT ![Step.group].title = Suggested]
          /\ UNCHANGED <<stage, maxVotes, spotlight, column, note, vote, reaction>>
      BY <1>5 DEF ApplyName, Store!NameGroup
    <3>2. group' = group
      BY <2>3, <3>1 DEF Store!TypeOK
    <3> QED
      BY <2>1, <3>1, <3>2 DEF Store!vars
  <2> QED
    BY <2>2, <2>3
<1> QED
  BY <1>3, <1>4, <1>5

\* So is every other command, and nothing else touches the board.
LEMMA NextIsStep ==
  Store!TypeOK /\ Reaches /\ [Next]_vars => [Store!Next]_(Store!vars) /\ Reaches'
<1> SUFFICES ASSUME Store!TypeOK, Reaches, [Next]_vars
             PROVE  [Store!Next]_(Store!vars) /\ Reaches'
  OBVIOUS
<1>1. CASE ApplyMove \/ ApplyTitle \/ ApplyName
  BY <1>1, ApplyIsStep
<1>2. CASE (\E q \in Requests : RequestNext(q)) \/ RoomForgotten \/ UNCHANGED vars
  <2>1. UNCHANGED board /\ command' = command
    BY <1>2 DEF RequestNext, Ask, Read, Answer, AnswerRecap, Fail, RoomForgotten, vars
  <2> QED
    BY <2>1 DEF board, Store!vars, Reaches
<1>3. ASSUME NEW k \in Kinds, NEW saw, NEW i, NEW apply, Click(k, saw, i, apply)
      PROVE  [Store!Next]_(Store!vars) /\ Reaches'
  <2>1. UNCHANGED board
    BY <1>3 DEF Click
  <2>2. /\ DOMAIN command' = CommandFields
        /\ command'.groupOf = IF apply /\ k = "groups" THEN GroupOf ELSE <<>>
    BY <1>3 DEF Click, CommandFields
  <2>3. \A n \in DOMAIN GroupOf : n \in Notes /\ GroupOf[n] \in Groups
    BY DEF GroupOf, Store!NoteIn, Store!TypeOK, Store!NoteRow
  <2>4. \A n \in DOMAIN command'.groupOf : n \in Notes /\ command'.groupOf[n] \in Groups
    <3> HIDE DEF GroupOf
    <3>1. CASE apply /\ k = "groups"
      BY <2>2, <2>3, <3>1
    <3>2. CASE ~(apply /\ k = "groups")
      BY <2>2, <3>2
    <3> QED
      BY <3>1, <3>2
  <2> QED
    BY <2>1, <2>2, <2>4 DEF board, Store!vars, Reaches
<1>4. CASE TakeSuggestion \/ FindItem \/ TakeItem \/ NothingToTake \/ ApplyAction \/ SkipStep \/ End
  <2>1. UNCHANGED board
    BY <1>4 DEF TakeSuggestion, FindItem, TakeItem, NothingToTake, ApplyAction, SkipStep, End
  <2>2. command' = None \/ (command # None /\ DOMAIN command' = DOMAIN command
                             /\ command'.groupOf = command.groupOf)
    BY <1>4 DEF TakeSuggestion, FindItem, TakeItem, NothingToTake, ApplyAction, SkipStep, End,
         Take, StepDone, OneFurther, Applying, Reaches, CommandFields
  <2> QED
    BY <2>1, <2>2 DEF board, Store!vars, Reaches
<1>5. CASE Otherwise
  <2>1. (\E u \in Users : Store!NoteNext(Here, u)) \/ Store!RetroNext(Here)
    BY <1>5, SuggestionsAssumption DEF Otherwise, Store!NoteNext, Store!RetroNext
  <2>2. Reaches'
    BY <1>5 DEF Otherwise, Reaches
  <2> QED
    BY <2>1, <2>2, HereIsNext
<1> QED
  BY <1>1, <1>2, <1>3, <1>4, <1>5 DEF Next, CommandNext

\* The store's proofs speak of the next state too.
LEMMA SameTypesNext == (Board!TypeOK <=> Store!TypeOK)'
BY SameTypes, PTL

\* What the store starts from and each of its steps keeps its types.
LEMMA StoreTypes ==
  /\ Store!Init => Board!Init /\ Store!TypeOK
  /\ [Store!Next]_(Store!vars) => [Board!Next]_(Board!vars)
  /\ Store!TypeOK /\ [Store!Next]_(Store!vars) => Store!TypeOK'
<1>1. Store!Init => Board!Init
  BY DEF Store!Init, Board!Init, Store!NoVotes, Board!NoVotes
<1>2. Board!Init => Store!TypeOK
  BY BoardAssumptions, Board!InitTypeOK, SameTypes
<1>3. [Store!Next]_(Store!vars) => [Board!Next]_(Board!vars)
  <2>1. UNCHANGED Store!vars => UNCHANGED Board!vars
    BY DEF Store!vars, Board!vars
  <2> QED
    BY <2>1, SameSteps
<1>4. Board!TypeOK /\ [Board!Next]_(Board!vars) => Board!TypeOK'
  BY BoardAssumptions, Board!NextTypeOK
<1> QED
  BY <1>1, <1>2, <1>3, <1>4, SameTypes, SameTypesNext

\* The store has its types and commands reach for its groups, for ever.
LEMMA AlwaysReaches == Spec => [](Store!TypeOK /\ Reaches)
<1>1. Init => Store!TypeOK /\ Reaches
  BY StoreTypes DEF Init, Reaches
<1>2. Store!TypeOK /\ Reaches /\ [Next]_vars => (Store!TypeOK /\ Reaches)'
  BY NextIsStep, StoreTypes
<1> QED
  BY <1>1, <1>2, PTL DEF Spec

\* Asking for suggestions and applying them, whole or item by item, given up
\* half-way or late, is to the board a run of the store: every step is one of
\* the store's operations, refused where the store refuses it, or none.
THEOREM ApplyingIsCommands == Spec => Store!Spec
<1>1. Init => Store!Init
  BY DEF Init
<1>2. Store!TypeOK /\ Reaches /\ [Next]_vars => [Store!Next]_(Store!vars)
  BY NextIsStep
<1> QED
  BY <1>1, <1>2, AlwaysReaches, PTL DEF Spec, Store!Spec

\* So the board stays what Store.Check calls healthy under suggestions too:
\* AlwaysHealthy of the store's proofs holds of it.
THEOREM BoardStaysHealthy == Spec => []Store!Healthy
<1>1. Store!Spec => Board!Spec
  <2>1. Store!Init => Board!Init
    BY StoreTypes
  <2>2. [Store!Next]_(Store!vars) => [Board!Next]_(Board!vars)
    BY StoreTypes
  <2> QED
    BY <2>1, <2>2, PTL DEF Store!Spec, Board!Spec
<1>2. Board!Spec => []Board!Healthy
  BY BoardAssumptions, Board!AlwaysHealthy
<1> QED
  BY <1>1, <1>2, ApplyingIsCommands, SameHealth, PTL

\* Every row, request, command and table of the store has its type, for any
\* answers and any number of requests.
THEOREM SuggestionTypes == Spec => []TypeOK
<1> DEFINE Told == recap \in BOOLEAN
<1>1. Init => Told
  BY DEF Init
<1>2. Told /\ [Next]_vars => Told'
  BY DEF Next, RequestNext, CommandNext, vars, tables, Ask, Read, Answer, AnswerRecap, Fail,
     RoomForgotten, Click, TakeSuggestion, FindItem, TakeItem, NothingToTake, ApplyMove,
     ApplyTitle, ApplyName, ApplyAction, SkipStep, End, Otherwise
<1>3. Store!TypeOK /\ Told /\ Requested /\ Taking => TypeOK
  <2> SUFFICES ASSUME Store!TypeOK, Told, Requested, Taking
               PROVE  TypeOK
    OBVIOUS
  <2>1. left \in [Kinds -> SUBSET Item]
    <3>1. \A k \in Kinds : saved[k] # None => ToSet(saved[k].items) \subseteq Item
      BY DEF Taking, Rows, Row, ToSet
    <3> QED
      BY <3>1 DEF Taking, Views
  <2>2. busy \subseteq DOMAIN aiStage /\ request \in [Requests -> Request \cup {None}]
    BY KindsAsked DEF Requested
  <2> QED
    BY <2>1, <2>2 DEF TypeOK, Taking, Rows, Commands
<1> QED
  BY <1>1, <1>2, <1>3, AlwaysTaking, AlwaysReaches, PTL DEF Spec

---------------------------------------------------------------------------
(* Grouped as suggested *)

\* Items whose notes are two at least, and no note is in two places.
Apart(items) ==
  \A x \in ToSet(items) :
    /\ x.what \in Seq(Notes) /\ Len(x.what) > 1
    /\ \A y \in ToSet(items) : \A a \in DOMAIN x.what, b \in DOMAIN y.what :
         x.what[a] = y.what[b] => x = y /\ a = b

\* The groups that are suggested, and those a command has taken, are apart.
GroupsApart ==
  /\ saved["groups"] # None => Apart(saved["groups"].items)
  /\ (command # None /\ command.kind = "groups") =>
       Apart(command.items) /\ Distinctly(command.items)

\* While a command applies a suggestion the retro stays in its stage, and what
\* it has read of which note is in which group goes on being so: there is no
\* other command, and it keeps count of what it moves itself.
BoardAsRead ==
  (command # None /\ command.apply) =>
    /\ stage[Here] = aiStage[command.kind]
    /\ command.kind = "groups" => command.groupOf = GroupOf

\* A command begins with the first step of the first item, and as long as there
\* is a step to take it is one of its item's.
OnItsWay ==
  command # None =>
    /\ command.item \in Nat \ {0} /\ command.step \in Nat \ {0}
    /\ command.at # "apply" => command.item = 1 /\ command.step = 1
    /\ Applying => command.step <= Len(StepsNow)

\* The a-th note of item i is where the first is, if both are still there.
Joined(i, a) ==
  LET what == command.items[i].what
  IN Store!NoteIn(Here, what[1]) /\ Store!NoteIn(Here, what[a]) =>
       note[what[a]].group = note[what[1]].group

\* The steps for it are through: step a - 1 moves the a-th note.
Through(i, a) == i < command.item \/ (i = command.item /\ a <= command.step)

\* What the steps so far were to join is joined.
JoinedSoFar ==
  (command # None /\ command.at = "apply" /\ command.apply /\ command.kind = "groups") =>
    \A i \in DOMAIN command.items : \A a \in DOMAIN command.items[i].what :
      Through(i, a) => Joined(i, a)

Grouping == GroupsApart /\ BoardAsRead /\ OnItsWay /\ JoinedSoFar

\* The items of an answer that cleanGroups let through are apart.
LEMMA AnswerApart ==
  ASSUME NEW i \in Nat, NEW lists \in Seq(Seq(Notes)), ApartLists(lists)
  PROVE  Apart(ItemsOf(i, lists))
<1> DEFINE items == ItemsOf(i, lists)
<1>1. \A x \in ToSet(items) : \E n \in DOMAIN lists :
        x = [from |-> i, nth |-> n, what |-> lists[n]]
  BY DEF ItemsOf, ToSet
<1> SUFFICES ASSUME NEW x \in ToSet(items)
             PROVE  /\ x.what \in Seq(Notes) /\ Len(x.what) > 1
                    /\ \A y \in ToSet(items) : \A a \in DOMAIN x.what, b \in DOMAIN y.what :
                         x.what[a] = y.what[b] => x = y /\ a = b
  BY DEF Apart
<1> HIDE DEF items
<1>2. PICK m \in DOMAIN lists : x = [from |-> i, nth |-> m, what |-> lists[m]]
  BY <1>1
<1>3. x.what = lists[m] /\ lists[m] \in Seq(Notes) /\ Len(lists[m]) > 1
  BY <1>2 DEF ApartLists
<1>4. ASSUME NEW y \in ToSet(items), NEW a \in DOMAIN x.what, NEW b \in DOMAIN y.what,
             x.what[a] = y.what[b]
      PROVE  x = y /\ a = b
  <2>1. PICK n \in DOMAIN lists : y = [from |-> i, nth |-> n, what |-> lists[n]]
    BY <1>1
  <2>2. y.what = lists[n]
    BY <2>1
  <2>3. m = n /\ a = b
    BY <1>3, <1>4, <2>2 DEF ApartLists
  <2> QED
    BY <1>2, <2>1, <2>3
<1> QED
  BY <1>3, <1>4

\* Fewer items are still apart.
LEMMA FewerApart ==
  ASSUME NEW items, NEW rest, Apart(items), ToSet(rest) \subseteq ToSet(items)
  PROVE  Apart(rest)
BY DEF Apart

\* The steps of an item: those of a group move all notes but the first and give
\* the title, others have one.
LEMMA StepsOf ==
  ASSUME NEW k \in Kinds, NEW item
  PROVE  /\ (k = "groups" /\ item.what \in Seq(Notes)) =>
              /\ Len(Steps(k, item)) = Len(item.what)
              /\ \A s \in 1 .. Len(item.what) :
                   Steps(k, item)[s] =
                     IF s < Len(item.what)
                     THEN [do |-> "move", note |-> item.what[s + 1], with |-> item.what[1]]
                     ELSE [do |-> "title", with |-> item.what[1]]
         /\ k # "groups" =>
              /\ Len(Steps(k, item)) = 1
              /\ Steps(k, item)[1].do \in {"name", "add"}
<1>1. ASSUME k = "groups", item.what \in Seq(Notes)
      PROVE  /\ Len(Steps(k, item)) = Len(item.what)
             /\ \A s \in 1 .. Len(item.what) :
                  Steps(k, item)[s] =
                    IF s < Len(item.what)
                    THEN [do |-> "move", note |-> item.what[s + 1], with |-> item.what[1]]
                    ELSE [do |-> "title", with |-> item.what[1]]
  <2> DEFINE at(s) == IF s < Len(item.what)
                      THEN [do |-> "move", note |-> item.what[s + 1], with |-> item.what[1]]
                      ELSE [do |-> "title", with |-> item.what[1]]
  <2>1. Len(item.what) \in Nat
    BY <1>1
  <2>2. Steps(k, item) = [s \in 1 .. Len(item.what) |-> at(s)]
    BY <1>1 DEF Steps
  <2> HIDE DEF at
  <2>3. Len(Steps(k, item)) = Len(item.what)
    BY <2>1, <2>2
  <2>4. \A s \in 1 .. Len(item.what) : Steps(k, item)[s] = at(s)
    BY <2>2
  <2> QED
    BY <2>3, <2>4 DEF at
<1>2. CASE k = "names"
  BY <1>2 DEF Steps
<1>3. CASE k = "actions"
  BY <1>3 DEF Steps
<1> QED
  BY <1>1, <1>2, <1>3 DEF Kinds

\* An item always has a step to begin with.
LEMMA FirstStep ==
  ASSUME NEW k \in Kinds, NEW items \in Seq(Item), k = "groups" => Apart(items),
         NEW i \in 1 .. Len(items)
  PROVE  Len(Steps(k, items[i])) >= 1
<1>1. CASE k = "groups"
  <2>1. items[i] \in ToSet(items)
    BY DEF ToSet
  <2>2. items[i].what \in Seq(Notes) /\ Len(items[i].what) > 1
    BY <1>1, <2>1 DEF Apart
  <2> QED
    <3>1. Len(Steps(k, items[i])) = Len(items[i].what)
      BY <1>1, <2>2, StepsOf
    <3> QED
      BY <2>2, <3>1
<1>2. CASE k # "groups"
  <2>1. Len(Steps(k, items[i])) = 1
    BY <1>2, StepsOf
  <2> QED
    BY <2>1
<1> QED
  BY <1>1, <1>2

\* What OneFurther leaves of the command, and where it goes on.
LEMMA FurtherOn ==
  ASSUME Commands, command # None
  PROVE  /\ DOMAIN OneFurther = CommandFields
         /\ \A x \in CommandFields \ {"item", "step"} : OneFurther[x] = command[x]
         /\ command.step < Len(StepsNow) =>
              OneFurther.item = command.item /\ OneFurther.step = command.step + 1
         /\ ~(command.step < Len(StepsNow)) =>
              OneFurther.item = command.item + 1 /\ OneFurther.step = 1
BY DEF Commands, CommandFields, OneFurther

\* A step further is on its way as before.
LEMMA FurtherOnItsWay ==
  ASSUME Commands, OnItsWay, Applying, NEW next,
         \A x \in CommandFields \ {"groupOf"} : next[x] = OneFurther[x],
         command.kind = "groups" => Apart(command.items)
  PROVE  /\ next.item \in Nat \ {0} /\ next.step \in Nat \ {0}
         /\ next.item <= Len(command.items) =>
              next.step <= Len(Steps(command.kind, command.items[next.item]))
<1>1. /\ command # None /\ command.kind \in Kinds /\ command.items \in Seq(Item)
      /\ command.item \in Nat \ {0} /\ command.step \in Nat \ {0}
      /\ command.item <= Len(command.items) /\ command.step <= Len(StepsNow)
  BY DEF Applying, OnItsWay, Commands
<1>2. next.item = OneFurther.item /\ next.step = OneFurther.step
  BY DEF CommandFields
<1>3. CASE command.step < Len(StepsNow)
  <2>1. next.item = command.item /\ next.step = command.step + 1
    BY <1>1, <1>2, <1>3, FurtherOn
  <2>2. Len(StepsNow) \in Nat
    <3>1. command.item \in 1 .. Len(command.items)
      BY <1>1
    <3>2. command.kind = "groups" => command.items[command.item].what \in Seq(Notes)
      BY <3>1 DEF Apart, ToSet
    <3> QED
      BY <1>1, <3>2, StepsOf DEF StepsNow
  <2> QED
    BY <1>1, <1>3, <2>1, <2>2 DEF StepsNow
<1>4. CASE ~(command.step < Len(StepsNow))
  <2>1. next.item = command.item + 1 /\ next.step = 1
    BY <1>1, <1>2, <1>4, FurtherOn
  <2>2. next.item <= Len(command.items) => next.item \in 1 .. Len(command.items)
    BY <1>1, <2>1
  <2> QED
    BY <1>1, <2>1, <2>2, FirstStep
<1> QED
  BY <1>3, <1>4

\* The item whose steps are under way, and the next of them.
LEMMA ItemNow ==
  ASSUME Commands, Grouping, Applying, command.kind = "groups"
  PROVE  LET what == command.items[command.item].what
         IN /\ command.item \in DOMAIN command.items
            /\ what \in Seq(Notes) /\ Len(what) > 1 /\ Len(StepsNow) = Len(what)
            /\ command.step \in 1 .. Len(what)
            /\ Step = IF command.step < Len(what)
                      THEN [do |-> "move", note |-> what[command.step + 1], with |-> what[1]]
                      ELSE [do |-> "title", with |-> what[1]]
<1> DEFINE what == command.items[command.item].what
<1>1. /\ command # None /\ command.items \in Seq(Item) /\ Apart(command.items)
      /\ command.item \in Nat \ {0} /\ command.item <= Len(command.items)
      /\ command.step \in Nat \ {0} /\ command.step <= Len(StepsNow)
  BY DEF Commands, Grouping, GroupsApart, OnItsWay, Applying
<1>2. command.item \in DOMAIN command.items
  BY <1>1
<1>3. command.items[command.item] \in ToSet(command.items)
  BY <1>2 DEF ToSet
<1>4. what \in Seq(Notes) /\ Len(what) > 1
  BY <1>1, <1>3 DEF Apart
<1>5. /\ Len(StepsNow) = Len(what)
      /\ \A s \in 1 .. Len(what) :
           StepsNow[s] = IF s < Len(what)
                         THEN [do |-> "move", note |-> what[s + 1], with |-> what[1]]
                         ELSE [do |-> "title", with |-> what[1]]
  BY <1>4, StepsOf, ZenonT(30) DEF StepsNow, Kinds
<1>6. command.step \in 1 .. Len(what)
  BY <1>1, <1>4, <1>5
<1> HIDE DEF what
<1>7. Step = IF command.step < Len(what)
             THEN [do |-> "move", note |-> what[command.step + 1], with |-> what[1]]
             ELSE [do |-> "title", with |-> what[1]]
  BY <1>5, <1>6 DEF Step
<1> QED
  BY <1>2, <1>4, <1>5, <1>6, <1>7 DEF what

\* A note is in one place of one item.
LEMMA OnePlace ==
  ASSUME NEW items \in Seq(Item), Apart(items), Distinctly(items),
         NEW i \in DOMAIN items, NEW j \in DOMAIN items,
         NEW a \in DOMAIN items[i].what, NEW b \in DOMAIN items[j].what,
         items[i].what[a] = items[j].what[b]
  PROVE  i = j /\ a = b
<1>1. items[i] \in ToSet(items) /\ items[j] \in ToSet(items)
  BY DEF ToSet
<1>2. items[i] = items[j] /\ a = b
  BY <1>1 DEF Apart
<1> QED
  BY <1>2 DEF Distinctly

\* A step of a grouping keeps the invariant, if it leaves where they are all
\* that were joined, and joins the note it is for.
LEMMA StepGrouping ==
  ASSUME Commands, Grouping, Applying, command.kind = "groups",
         saved' = saved, stage' = stage,
         \A x \in CommandFields \ {"groupOf"} : command'[x] = OneFurther[x],
         command'.groupOf = GroupOf',
         \A i \in DOMAIN command.items : \A a \in DOMAIN command.items[i].what :
           Joined(i, a) \/ (i = command.item /\ a = command.step + 1) => Joined(i, a)'
  PROVE  Grouping'
<1> DEFINE what == command.items[command.item].what
<1>1. /\ command # None /\ command.items \in Seq(Item)
      /\ command.at = "apply" /\ command.apply /\ command.item <= Len(command.items)
  BY DEF Applying, Commands
<1>2. /\ command.item \in DOMAIN command.items /\ what \in Seq(Notes)
      /\ Len(StepsNow) = Len(what) /\ command.step \in 1 .. Len(what)
  BY ItemNow
<1>3. /\ command'.at = "apply" /\ command'.apply /\ command'.kind = "groups"
      /\ command'.items = command.items
  <2>1. \A x \in CommandFields \ {"item", "step", "groupOf"} : command'[x] = command[x]
    BY <1>1, FurtherOn
  <2> QED
    BY <1>1, <2>1 DEF CommandFields
<1>4. GroupsApart'
  BY <1>1, <1>3 DEF Grouping, GroupsApart
<1>5. BoardAsRead'
  BY <1>1, <1>3 DEF Grouping, BoardAsRead, aiStage
<1>6. OnItsWay'
  <2>1. /\ command'.item \in Nat \ {0} /\ command'.step \in Nat \ {0}
        /\ command'.item <= Len(command.items) =>
             command'.step <= Len(Steps(command.kind, command.items[command'.item]))
    BY <1>1, FurtherOnItsWay DEF Grouping, GroupsApart
  <2> QED
    BY <1>3, <2>1 DEF OnItsWay, Applying, StepsNow
<1>7. JoinedSoFar'
  <2> SUFFICES ASSUME NEW i \in DOMAIN command.items, NEW a \in DOMAIN command.items[i].what,
                      Through(i, a)'
               PROVE  Joined(i, a)'
    BY <1>3 DEF JoinedSoFar
  <2>1. command'.item = OneFurther.item /\ command'.step = OneFurther.step
    BY DEF CommandFields
  <2>2. command.items[i] \in ToSet(command.items)
    BY DEF ToSet
  <2>3. command.items[i].what \in Seq(Notes)
    BY <1>1, <2>2 DEF Grouping, GroupsApart, Apart
  <2>4. i \in Nat /\ a \in 1 .. Len(command.items[i].what) /\ command.item \in Nat
    BY <1>1, <1>2, <2>3
  <2>5. \/ Through(i, a)
        \/ i = command.item /\ a = command.step + 1 /\ command.step < Len(StepsNow)
        \/ a = 1
    <3>1. CASE command.step < Len(StepsNow)
      <4>1. command'.item = command.item /\ command'.step = command.step + 1
        BY <1>1, <2>1, <3>1, FurtherOn
      <4> QED
        BY <1>2, <2>4, <3>1, <4>1 DEF Through
    <3>2. CASE ~(command.step < Len(StepsNow))
      <4>1. command'.item = command.item + 1 /\ command'.step = 1
        BY <1>1, <2>1, <3>2, FurtherOn
      <4>2. command.step = Len(what)
        BY <1>2, <3>2
      <4> QED
        BY <1>2, <2>4, <4>1, <4>2 DEF Through
    <3> QED
      BY <3>1, <3>2
  <2>6. CASE a = 1
    BY <1>3, <2>6 DEF Joined
  <2>7. CASE i = command.item /\ a = command.step + 1 /\ command.step < Len(StepsNow)
    BY <2>7
  <2>8. CASE Through(i, a)
    BY <1>1, <2>8 DEF Grouping, JoinedSoFar
  <2> QED
    BY <2>5, <2>6, <2>7, <2>8
<1> QED
  BY <1>4, <1>5, <1>6, <1>7 DEF Grouping

\* Moving a note to where the first of its group is joins the two, and leaves
\* all that were joined: it is no other's first, nor in another group.
LEMMA MoveGrouping ==
  ASSUME Store!TypeOK, Commands, Grouping, ApplyMove
  PROVE  Grouping'
<1> DEFINE what == command.items[command.item].what
           n == Step.note
           to == command.groupOf[Step.with]
<1>1. Applying /\ Step.do = "move" /\ InReach(Step) /\ command # None
  BY DEF ApplyMove, Applying
<1>2. command.kind = "groups"
  <2>1. command.kind # "groups" => Step.do # "move"
    <3> SUFFICES ASSUME command.kind # "groups"
                 PROVE  Step.do # "move"
      OBVIOUS
    <3>1. command.kind \in Kinds /\ command.step \in Nat \ {0} /\ command.step <= Len(StepsNow)
      BY <1>1 DEF Commands, Grouping, OnItsWay
    <3>2. Len(StepsNow) = 1 /\ StepsNow[1].do \in {"name", "add"}
      BY <3>1, StepsOf DEF StepsNow
    <3>3. command.step = 1
      BY <3>1, <3>2
    <3> QED
      BY <3>2, <3>3 DEF Step
  <2> QED
    BY <1>1, <2>1
<1>3. /\ command.item \in DOMAIN command.items /\ what \in Seq(Notes) /\ Len(what) > 1
      /\ Len(StepsNow) = Len(what) /\ command.step \in 1 .. Len(what)
      /\ Step = IF command.step < Len(what)
                THEN [do |-> "move", note |-> what[command.step + 1], with |-> what[1]]
                ELSE [do |-> "title", with |-> what[1]]
  BY <1>1, <1>2, ItemNow
<1>4. /\ command.step < Len(what) /\ n = what[command.step + 1] /\ Step.with = what[1]
      /\ command.step + 1 \in DOMAIN what /\ 1 \in DOMAIN what
  <2> HIDE DEF what
  <2> QED
    BY <1>1, <1>3
<1>5. command.groupOf = GroupOf
  BY <1>1, <1>2 DEF Applying, Grouping, BoardAsRead
<1>6. /\ n \in Notes /\ Store!NoteIn(Here, n) /\ what[1] \in Notes /\ Store!NoteIn(Here, what[1])
      /\ to = note[what[1]].group
  BY <1>1, <1>4, <1>5 DEF InReach, GroupOf
<1>7. /\ note' = [note EXCEPT ![n].group = to] /\ stage' = stage /\ saved' = saved
      /\ command' = [OneFurther EXCEPT !.groupOf[n] = to]
  BY DEF ApplyMove, Store!MoveIntoGroup, Store!Rehome, tables
<1>8. note \in [Notes -> Store!NoteRow \cup {None}] /\ note[n] \in Store!NoteRow
  BY <1>6 DEF Store!TypeOK, Store!NoteIn
<1> HIDE DEF n, to, what
<1>9. /\ \A m \in Notes : note'[m] = IF m = n THEN [note[n] EXCEPT !.group = to] ELSE note[m]
      /\ note'[n] \in Store!NoteRow /\ note'[n].group = to /\ note'[n].retro = note[n].retro
  <2>1. \A m \in Notes : note'[m] = IF m = n THEN [note[n] EXCEPT !.group = to] ELSE note[m]
    BY <1>6, <1>7, <1>8
  <2>2. to \in Groups
    BY <1>6 DEF Store!TypeOK, Store!NoteIn, Store!NoteRow
  <2> QED
    BY <1>6, <1>8, <2>1, <2>2 DEF Store!NoteRow
<1>10. None \notin Store!NoteRow
  BY SuggestionsAssumption DEF Store!RowsAssumption
<1>11. \A m \in Notes : Store!NoteIn(Here, m)' <=> Store!NoteIn(Here, m)
  BY <1>6, <1>9, <1>10 DEF Store!NoteIn
<1>12. /\ \A x \in CommandFields \ {"groupOf"} : command'[x] = OneFurther[x]
       /\ command'.groupOf = [command.groupOf EXCEPT ![n] = to]
  <2>1. DOMAIN OneFurther = CommandFields /\ OneFurther.groupOf = command.groupOf
    BY <1>1, FurtherOn DEF CommandFields
  <2> QED
    BY <1>7, <2>1 DEF CommandFields
<1>13. command'.groupOf = GroupOf'
  <2>1. command'.groupOf = [[m \in {o \in Notes : Store!NoteIn(Here, o)} |-> note[m].group]
                              EXCEPT ![n] = to]
    BY <1>5, <1>12 DEF GroupOf
  <2>2. GroupOf' = [m \in {o \in Notes : Store!NoteIn(Here, o)'} |-> note'[m].group]
    BY DEF GroupOf
  <2>3. {o \in Notes : Store!NoteIn(Here, o)'} = {o \in Notes : Store!NoteIn(Here, o)}
    BY <1>11
  <2> QED
    BY <1>6, <1>9, <2>1, <2>2, <2>3
<1>14. command'.items = command.items /\ command.items \in Seq(Item)
       /\ Apart(command.items) /\ Distinctly(command.items)
  <2>1. command'.items = OneFurther.items /\ OneFurther.items = command.items
    BY <1>1, <1>12, FurtherOn DEF CommandFields
  <2> QED
    BY <1>1, <1>2, <2>1 DEF Commands, Grouping, GroupsApart
<1>15. ASSUME NEW i \in DOMAIN command.items, NEW a \in DOMAIN command.items[i].what,
              Joined(i, a), ~(i = command.item /\ a = command.step + 1)
       PROVE  Joined(i, a)'
  <2> DEFINE other == command.items[i].what
  <2>1. command.items[i] \in ToSet(command.items)
    BY DEF ToSet
  <2>2. other \in Seq(Notes) /\ Len(other) > 1
    BY <1>14, <2>1 DEF Apart
  <2>3. 1 \in DOMAIN other /\ other[1] \in Notes /\ other[a] \in Notes
    BY <2>2
  <2>4. other[a] # n
    BY <1>3, <1>4, <1>14, <1>15, OnePlace, SMTT(30) DEF what
  <2>5. other[1] # n
    <3>1. command.step + 1 # 1
      BY <1>3
    <3> QED
      BY <1>3, <1>4, <1>14, <2>3, <3>1, OnePlace DEF what
  <2>6. note'[other[a]] = note[other[a]] /\ note'[other[1]] = note[other[1]]
    BY <1>9, <2>3, <2>4, <2>5
  <2> QED
    BY <1>14, <1>15, <2>6 DEF Joined, Store!NoteIn
<1>16. ASSUME NEW i, NEW a, i = command.item, a = command.step + 1
       PROVE  Joined(i, a)'
  <2>1. command.items[i].what[a] = n /\ command.items[i].what[1] = what[1]
    BY <1>4, <1>16 DEF what
  <2>2. what[1] # n
    <3>1. command.step + 1 # 1
      BY <1>3
    <3> QED
      BY <1>3, <1>4, <1>14, <3>1, OnePlace DEF what
  <2>3. note'[n].group = note'[what[1]].group
    BY <1>6, <1>9, <2>2
  <2> QED
    BY <1>14, <2>1, <2>3 DEF Joined
<1> QED
  BY <1>1, <1>2, <1>7, <1>12, <1>13, <1>15, <1>16, StepGrouping

\* A step that moves no note keeps the invariant, if it is not for a note that
\* is to join: the title, what the other kinds do, or what is left out.
LEMMA StillGrouping ==
  ASSUME Commands, Grouping, Applying, StepDone, UNCHANGED <<saved, stage, note>>,
         (command.kind = "groups" /\ command.step < Len(StepsNow)) =>
            Joined(command.item, command.step + 1)
  PROVE  Grouping'
<1>1. command # None /\ command' = OneFurther
  BY DEF Applying, StepDone
<1>2. \A x \in CommandFields \ {"item", "step"} : command'[x] = command[x]
  BY <1>1, FurtherOn
<1>3. /\ command'.at = command.at /\ command'.apply = command.apply
      /\ command'.kind = command.kind /\ command'.items = command.items
      /\ command'.groupOf = command.groupOf
  BY <1>2 DEF CommandFields
<1>4. GroupOf' = GroupOf
  BY DEF GroupOf, Store!NoteIn
<1>5. \A i, a : Joined(i, a)' <=> Joined(i, a)
  BY <1>3 DEF Joined, Store!NoteIn
<1>6. CASE command.kind = "groups"
  <2>1. command'.groupOf = GroupOf'
    BY <1>3, <1>4, <1>6 DEF Applying, Grouping, BoardAsRead
  <2>2. \A x \in CommandFields \ {"groupOf"} : command'[x] = OneFurther[x]
    BY <1>1
  <2>3. ASSUME NEW i \in DOMAIN command.items, NEW a \in DOMAIN command.items[i].what,
               Joined(i, a) \/ (i = command.item /\ a = command.step + 1)
        PROVE  Joined(i, a)'
    <3>1. CASE i = command.item /\ a = command.step + 1
      <4>1. command.step < Len(StepsNow)
        BY <1>6, <3>1, ItemNow
      <4> QED
        BY <1>5, <1>6, <3>1, <4>1
    <3> QED
      BY <1>5, <2>3, <3>1
  <2> QED
    BY <1>6, <2>1, <2>2, <2>3, StepGrouping
<1>7. CASE command.kind # "groups"
  <2>1. GroupsApart' /\ BoardAsRead' /\ JoinedSoFar'
    BY <1>1, <1>3, <1>7 DEF Grouping, GroupsApart, BoardAsRead, JoinedSoFar
  <2>2. /\ command'.item \in Nat \ {0} /\ command'.step \in Nat \ {0}
        /\ command'.item <= Len(command.items) =>
             command'.step <= Len(Steps(command.kind, command.items[command'.item]))
    BY <1>1, <1>7, FurtherOnItsWay DEF Grouping
  <2>3. OnItsWay'
    BY <1>3, <2>2 DEF OnItsWay, Applying, StepsNow
  <2> QED
    BY <2>1, <2>3 DEF Grouping
<1> QED
  BY <1>6, <1>7

\* A move that is left out is one of a note that is gone, that was to join one
\* that is gone, or that is there already: a group with a note in it is.
LEMMA SkipGrouping ==
  ASSUME Store!Healthy, Commands, Grouping, SkipStep
  PROVE  Grouping'
<1>1. Applying /\ Outgrown /\ StepDone /\ UNCHANGED <<saved, stage, note>>
  BY DEF SkipStep, board, tables
<1>2. ASSUME command.kind = "groups", command.step < Len(StepsNow)
      PROVE  Joined(command.item, command.step + 1)
  <2> DEFINE what == command.items[command.item].what
             n == what[command.step + 1]
  <2>1. /\ what \in Seq(Notes) /\ Len(what) > 1 /\ Len(StepsNow) = Len(what)
        /\ command.step \in 1 .. Len(what)
        /\ Step = IF command.step < Len(what)
                  THEN [do |-> "move", note |-> what[command.step + 1], with |-> what[1]]
                  ELSE [do |-> "title", with |-> what[1]]
    BY <1>1, <1>2, ItemNow
  <2>2. /\ Step.do = "move" /\ Step.note = n /\ Step.with = what[1]
        /\ n \in Notes /\ what[1] \in Notes
    <3> HIDE DEF what
    <3>1. Step = [do |-> "move", note |-> what[command.step + 1], with |-> what[1]]
      BY <1>2, <2>1
    <3> QED
      BY <1>2, <2>1, <3>1
  <2>3. InReach(Step) => ~CanMove(n, command.groupOf[what[1]])
    BY <1>1, <2>2 DEF Outgrown
  <2>4. command.groupOf = GroupOf /\ stage[Here] = Store!Group
    BY <1>1, <1>2 DEF Applying, Grouping, BoardAsRead, aiStage
  <2> SUFFICES ASSUME Store!NoteIn(Here, what[1]), Store!NoteIn(Here, n)
               PROVE  note[n].group = note[what[1]].group
    BY DEF Joined
  <2> HIDE DEF what, n
  <2>5. InReach(Step) /\ command.groupOf[what[1]] = note[what[1]].group
    BY <2>2, <2>4 DEF InReach, GroupOf
  <2>6. Store!GroupIn(Here, note[what[1]].group)
    BY <2>2 DEF Store!Healthy, Store!NotesInGroups, Store!NoteIn
  <2> QED
    BY <2>3, <2>4, <2>5, <2>6 DEF CanMove
<1> QED
  BY <1>1, <1>2, StillGrouping

\* A title, a name or an action moves no note.
LEMMA TitleGrouping ==
  ASSUME Commands, Grouping, ApplyTitle \/ ApplyName \/ ApplyAction
  PROVE  Grouping'
<1>1. Applying /\ Step.do # "move" /\ StepDone /\ UNCHANGED <<saved, stage, note>>
  BY DEF ApplyTitle, ApplyName, ApplyAction, Store!NameGroup, board, tables
<1>2. ~(command.kind = "groups" /\ command.step < Len(StepsNow))
  <2> SUFFICES ASSUME command.kind = "groups", command.step < Len(StepsNow)
               PROVE  FALSE
    OBVIOUS
  <2> DEFINE what == command.items[command.item].what
  <2>1. /\ Len(StepsNow) = Len(what)
        /\ Step = IF command.step < Len(what)
                  THEN [do |-> "move", note |-> what[command.step + 1], with |-> what[1]]
                  ELSE [do |-> "title", with |-> what[1]]
    BY <1>1, ItemNow
  <2> HIDE DEF what
  <2>2. Step = [do |-> "move", note |-> what[command.step + 1], with |-> what[1]]
    BY <2>1
  <2> QED
    BY <1>1, <2>2
<1> QED
  BY <1>1, <1>2, StillGrouping

\* A command with all it took before it.
LEMMA TakeGrouping ==
  ASSUME Commands, Grouping, command # None, command.at # "apply",
         NEW items \in Seq(Item), Take(items), UNCHANGED board,
         command.kind = "groups" => Apart(items) /\ Distinctly(items),
         saved'["groups"] # None => Apart(saved'["groups"].items)
  PROVE  Grouping'
<1>1. /\ command'.at = "apply" /\ command'.items = items /\ command'.kind = command.kind
      /\ command'.apply = command.apply /\ command'.groupOf = command.groupOf
      /\ command'.item = 1 /\ command'.step = 1 /\ command.kind \in Kinds
  BY DEF Take, Commands, CommandFields, Grouping, OnItsWay
<1>2. GroupsApart'
  BY <1>1 DEF GroupsApart
<1>3. BoardAsRead'
  <2>1. GroupOf' = GroupOf /\ stage' = stage
    BY DEF GroupOf, Store!NoteIn, board
  <2> QED
    BY <1>1, <2>1 DEF Grouping, BoardAsRead
<1>4. OnItsWay'
  <2>1. 1 <= Len(items) => Len(Steps(command.kind, items[1])) >= 1
    <3>1. 1 <= Len(items) => 1 \in 1 .. Len(items)
      OBVIOUS
    <3> QED
      BY <1>1, <3>1, FirstStep
  <2>2. 1 <= Len(items) => 1 <= Len(Steps(command.kind, items[1]))
    <3>1. Len(items) \in Nat
      OBVIOUS
    <3>2. ASSUME 1 <= Len(items)
          PROVE  Len(Steps(command.kind, items[1])) \in Nat
      <4>1. items[1] \in ToSet(items)
        BY <3>1, <3>2 DEF ToSet
      <4>2. command.kind = "groups" => items[1].what \in Seq(Notes)
        BY <4>1 DEF Apart
      <4> QED
        BY <1>1, <4>2, StepsOf
    <3> QED
      BY <2>1, <3>2
  <2> QED
    BY <1>1, <2>2 DEF OnItsWay, Applying, StepsNow
<1>5. JoinedSoFar'
  <2> SUFFICES ASSUME command.kind = "groups",
                      NEW i \in DOMAIN items, NEW a \in DOMAIN items[i].what, Through(i, a)'
               PROVE  Joined(i, a)'
    BY <1>1 DEF JoinedSoFar
  <2>1. items[i] \in ToSet(items)
    BY DEF ToSet
  <2>2. items[i].what \in Seq(Notes)
    BY <2>1 DEF Apart
  <2>3. i \in 1 .. Len(items) /\ a \in 1 .. Len(items[i].what)
    BY <2>2
  <2>4. a = 1
    BY <1>1, <2>3 DEF Through
  <2> QED
    BY <1>1, <2>4 DEF Joined
<1> QED
  BY <1>2, <1>3, <1>4, <1>5 DEF Grouping

\* As a whole: what the row had.
LEMMA TakeSuggestionGrouping ==
  ASSUME Taking, Grouping, TakeSuggestion
  PROVE  Grouping'
<1>1. command # None /\ command.at = "take" /\ UNCHANGED board
  BY DEF TakeSuggestion
<1>2. PICK k \in RowOf(command.id) : Take(saved[k].items) /\ PutBack(k, <<>>)
  BY DEF TakeSuggestion
<1>3. k = command.kind /\ k \in Kinds /\ saved[k] # None /\ saved[k] \in Row
  BY <1>1, <1>2 DEF RowOf, Taking, Aims, Rows
<1>4. saved' = [saved EXCEPT ![k] = None]
  BY <1>2 DEF PutBack
<1>5. saved'["groups"] # None => Apart(saved'["groups"].items)
  BY <1>3, <1>4 DEF Taking, Rows, Grouping, GroupsApart, Kinds
<1>6. saved[k].items \in Seq(Item) /\ Distinctly(saved[k].items)
  BY <1>3 DEF Taking, Rows, Row
<1>7. k = "groups" => Apart(saved[k].items)
  BY <1>3 DEF Grouping, GroupsApart
<1> QED
  BY <1>1, <1>2, <1>3, <1>5, <1>6, <1>7, TakeGrouping DEF Taking

\* An item of it: the others stay apart.
LEMMA TakeItemGrouping ==
  ASSUME Taking, Grouping, TakeItem
  PROVE  Grouping'
<1> DEFINE item == command.items[command.nth]
           rest == RemoveAt(command.items, command.nth)
<1>1. /\ command # None /\ command.at = "remove" /\ UNCHANGED board
      /\ command.items \in Seq(Item) /\ command.nth \in DOMAIN command.items
      /\ command.kind \in Kinds
  BY DEF TakeItem, Taking, Commands, Removes
<1>2. Take(<<item>>) /\ Leave(rest)
  BY DEF TakeItem
<1>3. item \in Item /\ item \in ToSet(command.items)
  BY <1>1 DEF ToSet
<1>4. /\ <<item>> \in Seq(Item) /\ Distinctly(<<item>>) /\ ToSet(<<item>>) = {item}
  BY <1>3 DEF Distinctly, ToSet
<1>5. command.kind = "groups" => Apart(<<item>>)
  BY <1>1, <1>3, <1>4, FewerApart DEF Grouping, GroupsApart
<1>6. command.kind = "groups" => Apart(rest)
  BY <1>1, RemoveAtLeaves, FewerApart DEF Grouping, GroupsApart
<1>7. saved'["groups"] # None => Apart(saved'["groups"].items)
  <2> HIDE DEF rest
  <2>1. CASE UNCHANGED saved
    BY <2>1 DEF Grouping, GroupsApart
  <2>2. CASE PutBack(command.kind, rest)
    <3>1. \/ saved' = [saved EXCEPT ![command.kind] = None]
          \/ saved' = [saved EXCEPT ![command.kind] = [id |-> newID, items |-> rest]]
      BY <2>2 DEF PutBack
    <3> QED
      BY <1>1, <1>6, <3>1 DEF Taking, Rows, Grouping, GroupsApart, Kinds
  <2> QED
    BY <1>2, <2>1, <2>2 DEF Leave
<1> HIDE DEF item, rest
<1> QED
  BY <1>1, <1>2, <1>4, <1>5, <1>7, TakeGrouping DEF Taking

\* Somebody clicks: the board they see is the one there is.
LEMMA ClickGrouping ==
  ASSUME Grouping, NEW k \in Kinds, NEW saw, NEW i, NEW apply \in BOOLEAN,
         Click(k, saw, i, apply)
  PROVE  Grouping'
<1>1. /\ UNCHANGED <<saved, stage, note>>
      /\ command'.at = "take" /\ command'.kind = k /\ command'.apply = apply
      /\ command'.items = <<>> /\ command'.item = 1 /\ command'.step = 1
      /\ command'.groupOf = IF apply /\ k = "groups" THEN GroupOf ELSE <<>>
      /\ apply => stage[Here] = aiStage[k]
  BY DEF Click, board, tables
<1>2. GroupsApart'
  <2>1. Apart(<<>>) /\ Distinctly(<<>>)
    BY DEF Apart, Distinctly, ToSet
  <2> QED
    BY <1>1, <2>1 DEF Grouping, GroupsApart
<1>3. BoardAsRead'
  <2>1. GroupOf' = GroupOf
    BY <1>1 DEF GroupOf, Store!NoteIn
  <2> QED
    BY <1>1, <2>1 DEF BoardAsRead
<1> QED
  BY <1>1, <1>2, <1>3 DEF Grouping, OnItsWay, JoinedSoFar, Applying

\* The row is read to take an item of it.
LEMMA FindItemGrouping ==
  ASSUME Taking, Grouping, FindItem
  PROVE  Grouping'
<1>1. command # None /\ command.at = "take" /\ UNCHANGED <<saved, stage, note>>
  BY DEF FindItem, board, tables
<1>2. PICK k \in RowOf(command.id) :
        command' = [command EXCEPT !.at = "remove", !.items = saved[k].items]
  BY DEF FindItem
<1>3. k = command.kind /\ k \in Kinds /\ saved[k] # None
  BY <1>1, <1>2 DEF RowOf, Taking, Aims
<1>4. /\ command'.at = "remove" /\ command'.items = saved[k].items
      /\ \A x \in CommandFields \ {"at", "items"} : command'[x] = command[x]
  BY <1>1, <1>2 DEF Taking, Commands, CommandFields
<1>5. /\ command'.kind = command.kind /\ command'.apply = command.apply
      /\ command'.item = command.item /\ command'.step = command.step
      /\ command'.groupOf = command.groupOf
  BY <1>4 DEF CommandFields
<1>6. GroupsApart'
  BY <1>1, <1>3, <1>4, <1>5 DEF Taking, Rows, Grouping, GroupsApart
<1>7. BoardAsRead'
  <2>1. GroupOf' = GroupOf
    BY <1>1 DEF GroupOf, Store!NoteIn
  <2> QED
    BY <1>1, <1>5, <2>1 DEF Grouping, BoardAsRead
<1>8. OnItsWay' /\ JoinedSoFar'
  BY <1>1, <1>4, <1>5 DEF Grouping, OnItsWay, JoinedSoFar, Applying
<1> QED
  BY <1>6, <1>7, <1>8 DEF Grouping

\* An answer is saved, whatever command is under way.
LEMMA AnswerGrouping ==
  ASSUME Requested, Taking, Grouping,
         NEW q \in Requests, NEW raw \in Raw(request[q].kind), Answer(q, raw)
  PROVE  Grouping'
<1> DEFINE k == request[q].kind
           payload == Clean(k, raw, request[q].about)
           i == newID
<1>1. k \in Kinds
  BY KindsAsked DEF Answer, Requested, Request, Kinds, AskedKinds, Recap
<1>2. /\ saved' = [saved EXCEPT ![k] = [id |-> i, items |-> ItemsOf(i, payload)]]
      /\ UNCHANGED <<command, stage, note>>
  BY DEF Answer, SaveSuggestion, board
<1>3. i \in Nat
  BY NewIdIsNew DEF Taking, IsNew
<1>4. k = "groups" => payload \in Seq(Seq(Notes)) /\ ApartLists(payload)
  <2> SUFFICES ASSUME k = "groups"
               PROVE  payload \in Seq(Seq(Notes)) /\ ApartLists(payload)
    OBVIOUS
  <2>1. raw \in Seq(Seq(Notes)) /\ payload = CleanGroups(raw, request[q].about)
    BY SuggestionsAssumption DEF Raw, Clean
  <2> HIDE DEF payload
  <2>2. payload \in Seq(Seq(Notes \cap request[q].about)) /\ ApartLists(payload)
    BY <2>1, CleanGroupsApart
  <2>3. Seq(Seq(Notes \cap request[q].about)) \subseteq Seq(Seq(Notes))
    BY WiderLists
  <2> QED
    BY <2>2, <2>3
<1> HIDE DEF i, payload, k
<1>5. k = "groups" => Apart(ItemsOf(i, payload))
  BY <1>3, <1>4, AnswerApart
<1>6. GroupsApart'
  <2>1. saved'["groups"] # None => Apart(saved'["groups"].items)
    BY <1>1, <1>2, <1>5 DEF Taking, Rows, Grouping, GroupsApart, Kinds
  <2> QED
    BY <1>2, <2>1 DEF Grouping, GroupsApart
<1>7. BoardAsRead'
  <2>1. GroupOf' = GroupOf
    BY <1>2 DEF GroupOf, Store!NoteIn
  <2> QED
    BY <1>2, <2>1 DEF Grouping, BoardAsRead
<1>8. OnItsWay'
  BY <1>2 DEF Grouping, OnItsWay, Applying, StepsNow
<1>9. JoinedSoFar'
  <2>1. \A j, a : (Joined(j, a)' <=> Joined(j, a)) /\ (Through(j, a)' <=> Through(j, a))
    BY <1>2 DEF Joined, Through, Store!NoteIn
  <2> QED
    BY <1>2, <2>1 DEF Grouping, JoinedSoFar
<1> QED
  BY <1>6, <1>7, <1>8, <1>9 DEF Grouping

\* Every step keeps it, of a healthy store.
LEMMA NextGrouping ==
  Store!TypeOK /\ Store!Healthy /\ Requested /\ Taking /\ Grouping /\ [Next]_vars => Grouping'
<1> SUFFICES ASSUME Store!TypeOK, Store!Healthy, Requested, Taking, Grouping, [Next]_vars
             PROVE  Grouping'
  OBVIOUS
<1>1. CASE \E q \in Requests : request[q] # None /\ \E raw \in Raw(request[q].kind) : Answer(q, raw)
  BY <1>1, AnswerGrouping
<1>2. CASE \/ \E q \in Requests :
                (\E k \in DOMAIN aiStage : Ask(q, k)) \/ Read(q) \/ AnswerRecap(q) \/ Fail(q)
           \/ RoomForgotten \/ UNCHANGED vars
  <2>1. UNCHANGED <<saved, command, stage, note>>
    BY <1>2 DEF Ask, Read, AnswerRecap, Fail, RoomForgotten, board, tables, vars
  <2>2. GroupOf' = GroupOf
    BY <2>1 DEF GroupOf, Store!NoteIn
  <2>3. \A i, a : (Joined(i, a)' <=> Joined(i, a)) /\ (Through(i, a)' <=> Through(i, a))
    BY <2>1 DEF Joined, Through, Store!NoteIn
  <2>4. GroupsApart' /\ BoardAsRead' /\ OnItsWay'
    BY <2>1, <2>2 DEF Grouping, GroupsApart, BoardAsRead, OnItsWay, Applying, StepsNow
  <2>5. JoinedSoFar'
    BY <2>1, <2>3 DEF Grouping, JoinedSoFar
  <2> QED
    BY <2>4, <2>5 DEF Grouping
<1>3. CASE \E k \in Kinds : \E saw \in shown[k] :
             \E i \in {Whole} \cup DOMAIN saw, apply \in BOOLEAN : Click(k, saw, i, apply)
  BY <1>3, ClickGrouping
<1>4. CASE TakeSuggestion
  BY <1>4, TakeSuggestionGrouping
<1>5. CASE FindItem
  BY <1>5, FindItemGrouping
<1>6. CASE TakeItem
  BY <1>6, TakeItemGrouping
<1>7. CASE NothingToTake \/ End \/ Otherwise
  <2>1. command' = None /\ saved' = saved
    BY <1>7 DEF NothingToTake, End, Otherwise, tables
  <2> QED
    BY <2>1 DEF Grouping, GroupsApart, BoardAsRead, OnItsWay, JoinedSoFar
<1>8. CASE ApplyMove
  BY <1>8, MoveGrouping DEF Taking
<1>9. CASE ApplyTitle \/ ApplyName \/ ApplyAction
  BY <1>9, TitleGrouping DEF Taking
<1>10. CASE SkipStep
  BY <1>10, SkipGrouping DEF Taking
<1> QED
  BY <1>1, <1>2, <1>3, <1>4, <1>5, <1>6, <1>7, <1>8, <1>9, <1>10
     DEF Next, RequestNext, CommandNext

\* Nobody is at work at first.
LEMMA InitGrouping == Init => Grouping
BY DEF Init, Kinds, Grouping, GroupsApart, BoardAsRead, OnItsWay, JoinedSoFar

\* A suggested grouping, once all its steps are through, has put those of its
\* notes that are still there into one group with the first of them: for any
\* answer and any number of notes, whatever people did to the board between the
\* question and the click, and whichever steps the board had outgrown.
THEOREM SuggestionsGroup == Spec => []GroupedAsSuggested
<1>1. Taking /\ Grouping => GroupedAsSuggested
  <2> SUFFICES ASSUME Taking, Grouping, command # None, command.at = "apply", command.apply,
                      command.kind = "groups", ~Applying,
                      NEW item \in ToSet(command.items)
               PROVE  LET first == item.what[1]
                      IN Store!NoteIn(Here, first) =>
                           \A n \in ToSet(item.what) :
                             Store!NoteIn(Here, n) => note[n].group = note[first].group
    BY DEF GroupedAsSuggested
  <2>1. PICK i \in DOMAIN command.items : item = command.items[i]
    BY DEF ToSet
  <2>2. i \in Nat /\ i <= Len(command.items) /\ Len(command.items) \in Nat
        /\ command.item \in Nat /\ ~(command.item <= Len(command.items))
    BY DEF Taking, Commands, Grouping, OnItsWay, Applying
  <2>3. \A a \in DOMAIN item.what : Joined(i, a)
    BY <2>1, <2>2 DEF Grouping, JoinedSoFar, Through
  <2> QED
    BY <2>1, <2>3 DEF Joined, ToSet
<1>2. Init => Grouping
  BY InitGrouping
<1>3. Store!TypeOK /\ Store!Healthy /\ Requested /\ Taking /\ Grouping /\ [Next]_vars => Grouping'
  BY NextGrouping
<1> QED
  BY <1>1, <1>2, <1>3, AlwaysTaking, AlwaysReaches, BoardStaysHealthy, PTL DEF Spec
=============================================================================
