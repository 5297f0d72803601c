--------------------------- MODULE ActionsProofs ---------------------------
(***************************************************************************)
(* Proofs about Actions, for any retros, teams, actions and times, and     *)
(* about the ids that decide which of two retros of one moment is earlier. *)
(***************************************************************************)
EXTENDS Actions, TLAPS

\* Of actions that go back to the same one only the one in the last retro may
\* still be settled, ticked or not; that is why none of the others can be
\* carried over again or be open again.
LastIsUnsettled ==
  \A a, b \in Actions :
    (SameLine(a, b) /\ action[a].closed = None) =>
      action[b].closed # None /\ Earlier(action[b].retro, action[a].retro)

\* The first action of a line has been given its id, so a new action is a line
\* of its own.
LinesAreSpent ==
  /\ \A a \in Actions : action[a] # None => origin[a] \in spent
  /\ \A a \in Actions \ spent : origin[a] = a

Inv == TypeOK /\ NoReturn /\ CarriedForward /\ LastIsUnsettled /\ LinesAreSpent

---------------------------------------------------------------------------
\* Retros that exist are in a strict order: of any two one is earlier, and
\* what is earlier than an earlier one is earlier.
LEMMA EarlierOrders ==
  ASSUME TypeOK, NEW p \in Created, NEW q \in Created, NEW r \in Created
  PROVE  /\ ~Earlier(p, p)
         /\ p # q => Earlier(p, q) \/ Earlier(q, p)
         /\ Earlier(p, q) /\ Earlier(q, r) => Earlier(p, r)
<1>1. /\ createdAt[p] \in Nat /\ createdAt[q] \in Nat /\ createdAt[r] \in Nat
      /\ p \in Nat /\ q \in Nat /\ r \in Nat
  BY ActionsAssumption DEF TypeOK, Created
<1> QED
  BY <1>1 DEF Earlier

\* A row that is inserted is a row.
LEMMA InsertType ==
  ASSUME NEW r \in Retros, NEW what \in Texts, NEW from \in Actions \cup {None}
  PROVE  Insert(r, what, from) \in ActionRow /\ Insert(r, what, from) # None
<1>1. Insert(r, what, from) \in ActionRow
  BY DEF Insert, ActionRow
<1> QED
  BY <1>1, ActionsAssumption

\* Initially there is nothing.
LEMMA InitInv == Init => Inv
<1> SUFFICES ASSUME Init PROVE Inv
  OBVIOUS
<1>1. TypeOK
  BY DEF Init, TypeOK
<1>2. \A a \in Actions : action[a] = None
  BY DEF Init
<1>3. \A a \in Actions : origin[a] = a
  BY DEF Init
<1> QED
  BY <1>1, <1>2, <1>3
     DEF Inv, NoReturn, CarriedForward, LastIsUnsettled, LinesAreSpent, SameLine

\* What changes no row and forgets no retro keeps the invariant.
LEMMA RetrosGrowInv ==
  ASSUME Inv, TypeOK', action' = action, spent' = spent, origin' = origin,
         \A r \in Created : createdAt'[r] = createdAt[r]
  PROVE  Inv'
<1>1. \A a \in Actions : action[a] # None => action[a].retro \in Created
  BY DEF Inv, TypeOK
<1>2. \A q, r \in Created : Earlier(q, r)' <=> Earlier(q, r)
  BY DEF Earlier
<1>3. NoReturn'
  BY DEF Inv, NoReturn, SameLine
<1>4. CarriedForward'
  <2>1. \A a \in Actions : (action[a] # None /\ action[a].carriedFrom # None) =>
           action[a].carriedFrom \in Actions
    BY DEF Inv, TypeOK, ActionRow
  <2> QED
    BY <1>1, <1>2, <2>1 DEF Inv, CarriedForward
<1>5. LastIsUnsettled'
  BY <1>1, <1>2 DEF Inv, LastIsUnsettled, SameLine
<1>6. LinesAreSpent'
  BY DEF Inv, LinesAreSpent
<1> QED
  BY <1>3, <1>4, <1>5, <1>6 DEF Inv

\* Nor is it broken by what only deletes rows and changes texts and ticks, or
\* settles what was not settled.
LEMMA RowsStayInv ==
  ASSUME Inv, TypeOK', UNCHANGED <<createdAt, spent, origin>>,
         \A a \in Actions : action'[a] # None =>
           /\ action[a] # None
           /\ action'[a].retro = action[a].retro
           /\ action[a].closed # None => action'[a].closed = action[a].closed
           /\ action'[a].carriedFrom # None =>
                /\ action'[a].carriedFrom = action[a].carriedFrom
                /\ action'[action[a].carriedFrom] # None
  PROVE  Inv'
<1>1. \A q, r : Earlier(q, r)' <=> Earlier(q, r)
  BY DEF Earlier
<1>2. \A a, b \in Actions : SameLine(a, b)' => SameLine(a, b)
  BY DEF SameLine
<1>3. NoReturn'
  BY <1>2 DEF Inv, NoReturn, SameLine
<1>4. CarriedForward'
  <2> SUFFICES ASSUME NEW a \in Actions, action'[a] # None, action'[a].carriedFrom # None
               PROVE  LET from == action'[a].carriedFrom
                      IN /\ action'[from] # None /\ action'[from].closed = "carried"
                         /\ Earlier(action'[from].retro, action'[a].retro)
                         /\ \A b \in Actions \ {a} :
                              action'[b] # None => action'[b].carriedFrom # from
    BY <1>1 DEF CarriedForward
  <2> DEFINE from == action[a].carriedFrom
  <2>1. from \in Actions /\ action'[a].carriedFrom = from
    BY DEF Inv, TypeOK, ActionRow
  <2>2. /\ action[from].closed = "carried"
        /\ Earlier(action[from].retro, action[a].retro)
        /\ \A b \in Actions \ {a} : action[b] # None => action[b].carriedFrom # from
    BY <2>1 DEF Inv, CarriedForward
  <2>3. action'[from] # None /\ action'[from].closed = "carried"
    BY <2>1, <2>2, ActionsAssumption
  <2>4. \A b \in Actions \ {a} : action'[b] # None => action'[b].carriedFrom # from
    BY <2>1, <2>2
  <2> QED
    BY <2>1, <2>2, <2>3, <2>4
<1>5. LastIsUnsettled'
  <2> SUFFICES ASSUME NEW a \in Actions, NEW b \in Actions,
                      SameLine(a, b)', action'[a].closed = None
               PROVE  /\ action'[b].closed # None
                      /\ Earlier(action'[b].retro, action'[a].retro)
    BY <1>1 DEF LastIsUnsettled
  <2>1. SameLine(a, b) /\ action'[a] # None /\ action'[b] # None
    BY <1>2 DEF SameLine
  <2>2. action[a].closed = None
    BY <2>1
  <2> QED
    BY <2>1, <2>2 DEF Inv, LastIsUnsettled
<1>6. LinesAreSpent'
  BY DEF Inv, LinesAreSpent
<1> QED
  BY <1>3, <1>4, <1>5, <1>6 DEF Inv

---------------------------------------------------------------------------
\* What changes retros and teams only keeps their types.
LEMMA TeamNextTypeOK == TypeOK /\ TeamNext => TypeOK'
<1> SUFFICES ASSUME TypeOK, TeamNext PROVE TypeOK'
  OBVIOUS
<1> USE ActionsAssumption DEF TypeOK, Created, Tag
<1>1. ASSUME NEW r \in Retros, NEW s \in Seconds, NEW t \in Teams \cup {None},
             NEW tag \in BOOLEAN, CreateRetro(r, s, t, tag)
      PROVE  TypeOK'
  BY <1>1 DEF CreateRetro
<1>2. ASSUME NEW r \in Retros, NEW t \in Teams \cup {None}, NEW tag \in BOOLEAN,
             UpdateRetro(r, t, tag)
      PROVE  TypeOK'
  BY <1>2 DEF UpdateRetro
<1>3. ASSUME NEW t \in Teams, NEW fromTag \in BOOLEAN, CreateTeam(t, fromTag)
      PROVE  TypeOK'
  BY <1>3 DEF CreateTeam
<1> QED
  BY <1>1, <1>2, <1>3 DEF TeamNext

\* So what they change keeps the invariant.
LEMMA TeamNextInv == Inv /\ TeamNext => Inv'
<1> SUFFICES ASSUME Inv, TeamNext PROVE Inv'
  OBVIOUS
<1>1. TypeOK'
  BY TeamNextTypeOK DEF Inv
<1>2. action' = action /\ spent' = spent /\ origin' = origin
  BY DEF TeamNext, CreateRetro, UpdateRetro, CreateTeam
<1>3. \A r \in Created : createdAt'[r] = createdAt[r]
  BY DEF Inv, TypeOK, Created, TeamNext, CreateRetro, UpdateRetro, CreateTeam
<1> QED
  BY <1>1, <1>2, <1>3, RetrosGrowInv

\* A command on an action of r that does no more than change its row for
\* another row of the same retro keeps the types.
LEMMA RowChangeTypeOK ==
  ASSUME TypeOK, UNCHANGED <<retroVars, spent, origin>>,
         NEW a \in Actions, action[a] # None, NEW row \in ActionRow,
         row.retro = action[a].retro,
         action' = [action EXCEPT ![a] = row]
  PROVE  TypeOK'
BY ActionsAssumption DEF TypeOK, Created, retroVars

\* Changing what an action says, ticking it and settling it keep the invariant.
LEMMA RowChangeInv ==
  ASSUME Inv, UNCHANGED <<retroVars, spent, origin>>,
         NEW a \in Actions, action[a] # None, NEW row \in ActionRow,
         row.retro = action[a].retro,
         row.carriedFrom = action[a].carriedFrom,
         action[a].closed # None => row.closed = action[a].closed,
         action' = [action EXCEPT ![a] = row]
  PROVE  Inv'
<1>1. TypeOK'
  BY RowChangeTypeOK DEF Inv
<1>2. action'[a] = row /\ \A b \in Actions \ {a} : action'[b] = action[b]
  BY DEF Inv, TypeOK
<1>3. row # None
  BY ActionsAssumption
<1>4. \A b \in Actions : (action[b] # None /\ action[b].carriedFrom # None) =>
        action[b].carriedFrom \in Actions /\ action[action[b].carriedFrom] # None
  BY DEF Inv, TypeOK, ActionRow, CarriedForward
<1> QED
  BY <1>1, <1>2, <1>3, <1>4, RowsStayInv DEF retroVars

\* Deleting an action leaves its copy without a link.
LEMMA DeleteActionInv ==
  ASSUME Inv, NEW r \in Retros, NEW a \in Actions, DeleteAction(r, a)
  PROVE  Inv'
<1>1. action'[a] = None
  BY DEF DeleteAction
<1>2. ASSUME NEW b \in Actions, b # a, action[b] # None
      PROVE  /\ action'[b] \in ActionRow /\ action'[b] # None
             /\ action'[b].retro = action[b].retro
             /\ action'[b].closed = action[b].closed
             /\ action'[b].carriedFrom =
                  IF action[b].carriedFrom = a THEN None ELSE action[b].carriedFrom
  <2>1. action[b] \in ActionRow
    BY <1>2 DEF Inv, TypeOK
  <2>2. action'[b] = IF action[b].carriedFrom = a
                     THEN [action[b] EXCEPT !.carriedFrom = None] ELSE action[b]
    BY <1>2 DEF DeleteAction
  <2>3. action'[b] \in ActionRow
    BY <2>1, <2>2 DEF ActionRow
  <2> QED
    BY <2>1, <2>2, <2>3, ActionsAssumption DEF ActionRow
<1>3. \A b \in Actions : b # a /\ action[b] = None => action'[b] = None
  BY DEF DeleteAction
<1>4. TypeOK'
  <2>1. action' \in [Actions -> ActionRow \cup {None}]
    <3>1. \A b \in Actions : action'[b] \in ActionRow \cup {None}
      BY <1>1, <1>2, <1>3
    <3> QED
      BY <3>1 DEF DeleteAction
  <2>2. \A b \in Actions : action'[b] # None =>
           b \in spent' /\ action'[b].retro \in Created'
    BY <1>1, <1>2, <1>3 DEF Inv, TypeOK, DeleteAction, retroVars, Created
  <2> QED
    BY <2>1, <2>2 DEF Inv, TypeOK, DeleteAction, retroVars
<1>5. \A b \in Actions : (action[b] # None /\ action[b].carriedFrom # None) =>
        action[b].carriedFrom \in Actions /\ action[action[b].carriedFrom] # None
  BY DEF Inv, TypeOK, ActionRow, CarriedForward
<1>6. \A b \in Actions : action'[b] # None =>
        /\ action[b] # None
        /\ action'[b].retro = action[b].retro
        /\ action[b].closed # None => action'[b].closed = action[b].closed
        /\ action'[b].carriedFrom # None =>
             /\ action'[b].carriedFrom = action[b].carriedFrom
             /\ action'[action[b].carriedFrom] # None
  BY <1>1, <1>2, <1>3, <1>5
<1> QED
  BY <1>4, <1>6, RowsStayInv DEF DeleteAction, retroVars

\* A new action is a line of its own.
LEMMA AddActionInv ==
  ASSUME Inv, NEW r \in Retros, NEW a \in Actions, NEW what \in Texts,
         AddAction(r, a, what)
  PROVE  Inv'
<1> DEFINE new == Insert(r, what, None)
<1>1. /\ new \in ActionRow /\ new # None
      /\ new.retro = r /\ new.closed = None /\ new.carriedFrom = None
  BY InsertType DEF Insert
<1>2. /\ action[a] = None /\ a \notin spent /\ r \in Created /\ spent' = spent \cup {a}
      /\ origin' = origin /\ createdAt' = createdAt /\ team' = team
      /\ tagged' = tagged /\ teams' = teams
  BY DEF Inv, TypeOK, AddAction, retroVars
<1>3. action'[a] = new /\ \A b \in Actions \ {a} : action'[b] = action[b]
  BY DEF Inv, TypeOK, AddAction
<1>4. action' = [action EXCEPT ![a] = new]
  BY DEF AddAction
<1> HIDE DEF new
<1>5. TypeOK'
  BY <1>1, <1>2, <1>3, <1>4 DEF Inv, TypeOK, Created
<1>6. \A b, c \in Actions : SameLine(b, c)' => b # a /\ c # a /\ SameLine(b, c)
  BY <1>2, <1>3 DEF Inv, LinesAreSpent, SameLine
<1>7. \A q, s : Earlier(q, s)' <=> Earlier(q, s)
  BY <1>2 DEF Earlier
<1>8. NoReturn'
  BY <1>3, <1>6 DEF Inv, NoReturn
<1>9. LastIsUnsettled'
  BY <1>3, <1>6, <1>7 DEF Inv, LastIsUnsettled
<1>10. CarriedForward'
  <2>1. \A b \in Actions : (action[b] # None /\ action[b].carriedFrom # None) =>
          /\ action[b].carriedFrom \in Actions \ {a}
          /\ action[action[b].carriedFrom] # None
    BY <1>2 DEF Inv, TypeOK, ActionRow, CarriedForward
  <2> QED
    BY <1>1, <1>2, <1>3, <1>7, <2>1 DEF Inv, CarriedForward
<1>11. LinesAreSpent'
  BY <1>2, <1>3 DEF Inv, LinesAreSpent
<1> QED
  BY <1>5, <1>8, <1>9, <1>10, <1>11 DEF Inv

\* A copy is later than all the others of its line, as the original was the
\* last of them, and takes over from the original, which is settled.
LEMMA CarryOverInv ==
  ASSUME Inv, NEW r \in Retros, NEW a \in Actions, NEW copy \in Actions,
         CarryOver(r, a, copy)
  PROVE  Inv'
<1> DEFINE new == Insert(r, action[a].what, a)
           old == [action[a] EXCEPT !.closed = "carried"]
<1>1. /\ action[a] \in ActionRow /\ action[a] # None /\ action[a].closed = None
      /\ a \in spent /\ copy \notin spent /\ a # copy /\ action[copy] = None
      /\ r \in Created /\ action[a].retro \in Created
      /\ Earlier(action[a].retro, r)
  BY DEF Inv, TypeOK, CarryOver, FromLastTime, Open
<1>2. /\ new \in ActionRow /\ new # None
      /\ new.retro = r /\ new.closed = None /\ new.carriedFrom = a
  BY <1>1, InsertType DEF Insert, ActionRow
<1>3. /\ old \in ActionRow /\ old.retro = action[a].retro
      /\ old.closed = "carried" /\ old.carriedFrom = action[a].carriedFrom
  BY <1>1 DEF ActionRow
<1>4. old # None /\ "carried" # None
  BY <1>3, ActionsAssumption
<1>5. /\ spent' = spent \cup {copy} /\ origin' = [origin EXCEPT ![copy] = origin[a]]
      /\ createdAt' = createdAt /\ team' = team /\ tagged' = tagged /\ teams' = teams
  BY DEF CarryOver, retroVars
<1>6. /\ action' = [action EXCEPT ![a] = old, ![copy] = new]
      /\ action'[a] = old /\ action'[copy] = new
      /\ \A b \in Actions \ {a, copy} : action'[b] = action[b]
  BY <1>1 DEF Inv, TypeOK, CarryOver
<1>7. origin'[copy] = origin[a] /\ \A b \in Actions \ {copy} : origin'[b] = origin[b]
  BY <1>5 DEF Inv, TypeOK
<1> HIDE DEF new, old
<1>8. \A b \in Actions \ {copy} :
        /\ action'[b] # None <=> action[b] # None
        /\ action'[b].retro = action[b].retro
        /\ action'[b].carriedFrom = action[b].carriedFrom
        /\ action'[b].closed = IF b = a THEN "carried" ELSE action[b].closed
  <2> TAKE b \in Actions \ {copy}
  <2>1. CASE b = a
    <3>1. action'[b] = old /\ action[b] = action[a]
      BY <1>6, <2>1
    <3> QED
      BY <1>1, <1>3, <1>4, <2>1, <3>1
  <2>2. CASE b # a
    <3>1. action'[b] = action[b]
      BY <1>6, <2>2
    <3> QED
      BY <2>2, <3>1
  <2> QED
    BY <2>1, <2>2
<1>9. TypeOK'
  BY <1>1, <1>2, <1>3, <1>5, <1>6 DEF Inv, TypeOK, Created
<1>10. \A q, s : Earlier(q, s)' <=> Earlier(q, s)
  BY <1>5 DEF Earlier
<1>11. \A b, c \in Actions \ {copy} : SameLine(b, c)' => SameLine(b, c)
  BY <1>1, <1>6, <1>7 DEF SameLine
<1>12. \A b \in Actions :
         SameLine(copy, b)' \/ SameLine(b, copy)' =>
           /\ b # copy /\ (b = a \/ SameLine(a, b))
           /\ action'[b].closed # None /\ action'[b].retro # r
           /\ Earlier(action'[b].retro, r)
  <2> SUFFICES ASSUME NEW b \in Actions, SameLine(copy, b)' \/ SameLine(b, copy)'
               PROVE  /\ b # copy /\ (b = a \/ SameLine(a, b))
                      /\ action'[b].closed # None /\ action'[b].retro # r
                      /\ Earlier(action'[b].retro, r)
    OBVIOUS
  <2>1. b # copy /\ (b = a \/ SameLine(a, b))
    BY <1>1, <1>6, <1>7 DEF SameLine
  <2>2. /\ action'[b].closed # None
        /\ action'[b].retro \in Created /\ Earlier(action'[b].retro, r)
    <3>1. CASE b = a
      BY <1>1, <1>3, <1>4, <1>6, <3>1
    <3>2. CASE SameLine(a, b) /\ b # a
      <4>1. action'[b] = action[b] /\ action[b].retro \in Created
        BY <1>6, <2>1, <3>2 DEF SameLine, Inv, TypeOK
      <4>2. action[b].closed # None /\ Earlier(action[b].retro, action[a].retro)
        BY <1>1, <3>2 DEF Inv, LastIsUnsettled
      <4>3. TypeOK
        BY DEF Inv
      <4> QED
        BY <1>1, <4>1, <4>2, <4>3, EarlierOrders
    <3> QED
      BY <2>1, <3>1, <3>2 DEF SameLine
  <2>3. action'[b].retro # r
    BY <1>1, <2>2, EarlierOrders DEF Inv
  <2> QED
    BY <2>1, <2>2, <2>3
<1>13. NoReturn'
  <2> SUFFICES ASSUME NEW b \in Actions, NEW c \in Actions, SameLine(b, c)'
               PROVE  action'[b].retro # action'[c].retro
    BY DEF NoReturn
  <2>1. CASE b = copy \/ c = copy
    BY <1>2, <1>6, <1>12, <2>1
  <2>2. CASE b # copy /\ c # copy
    BY <1>8, <1>11, <2>2 DEF Inv, NoReturn
  <2> QED
    BY <2>1, <2>2
<1>14. LastIsUnsettled'
  <2> SUFFICES ASSUME NEW b \in Actions, NEW c \in Actions, SameLine(b, c)',
                      action'[b].closed = None
               PROVE  /\ action'[c].closed # None
                      /\ Earlier(action'[c].retro, action'[b].retro)
    BY <1>10 DEF LastIsUnsettled
  <2>1. CASE b = copy
    BY <1>2, <1>6, <1>12, <2>1
  <2>2. CASE c = copy
    BY <1>12, <2>2
  <2>3. CASE b # copy /\ c # copy
    <3>1. SameLine(b, c) /\ b # a /\ action[b].closed = None
      BY <1>4, <1>8, <1>11, <2>3
    <3>2. c # a
      BY <1>1, <3>1 DEF Inv, LastIsUnsettled
    <3> QED
      BY <1>8, <2>3, <3>1, <3>2 DEF Inv, LastIsUnsettled
  <2> QED
    BY <2>1, <2>2, <2>3
<1>15. CarriedForward'
  <2>1. \A b \in Actions : (action[b] # None /\ action[b].carriedFrom # None) =>
          LET from == action[b].carriedFrom
          IN /\ from \in Actions \ {a, copy} /\ action[from] # None
             /\ action[from].closed = "carried"
             /\ Earlier(action[from].retro, action[b].retro)
             /\ \A c \in Actions \ {b} : action[c] # None => action[c].carriedFrom # from
    BY <1>1, <1>4 DEF Inv, TypeOK, ActionRow, CarriedForward
  <2> SUFFICES ASSUME NEW b \in Actions, action'[b] # None, action'[b].carriedFrom # None
               PROVE  LET from == action'[b].carriedFrom
                      IN /\ action'[from] # None /\ action'[from].closed = "carried"
                         /\ Earlier(action'[from].retro, action'[b].retro)
                         /\ \A c \in Actions \ {b} :
                              action'[c] # None => action'[c].carriedFrom # from
    BY <1>10 DEF CarriedForward
  <2>2. CASE b = copy
    <3>1. action'[b].carriedFrom = a /\ action'[b].retro = r
      BY <1>2, <1>6, <2>2
    <3>2. /\ action'[a] # None /\ action'[a].closed = "carried"
          /\ action'[a].retro = action[a].retro
      BY <1>1, <1>8
    <3>3. \A c \in Actions \ {copy} : action'[c] # None => action'[c].carriedFrom # a
      <4>1. a # None
        BY ActionsAssumption
      <4> QED
        BY <1>8, <2>1, <4>1
    <3> QED
      BY <1>1, <2>2, <3>1, <3>2, <3>3
  <2>3. CASE b # copy
    <3> DEFINE from == action[b].carriedFrom
    <3>1. /\ action[b] # None /\ action'[b].carriedFrom = from
          /\ action'[b].retro = action[b].retro
      BY <1>8, <2>3
    <3>2. /\ from \in Actions \ {a, copy} /\ action[from] # None
          /\ action[from].closed = "carried"
          /\ Earlier(action[from].retro, action[b].retro)
          /\ \A c \in Actions \ {b} : action[c] # None => action[c].carriedFrom # from
      BY <2>1, <3>1
    <3>3. /\ action'[from] # None /\ action'[from].closed = "carried"
          /\ action'[from].retro = action[from].retro
      BY <1>8, <3>2
    <3>4. \A c \in Actions \ {b} : action'[c] # None => action'[c].carriedFrom # from
      BY ZenonT(30), <1>2, <1>6, <1>8, <3>2
    <3> QED
      BY <3>1, <3>2, <3>3, <3>4
  <2> QED
    BY <2>2, <2>3
<1>16. LinesAreSpent'
  <2>1. \A b \in Actions : action'[b] # None => origin'[b] \in spent'
    BY <1>1, <1>5, <1>7, <1>8 DEF Inv, LinesAreSpent
  <2>2. \A b \in Actions \ spent' : origin'[b] = b
    BY <1>5, <1>7 DEF Inv, LinesAreSpent
  <2> QED
    BY <2>1, <2>2 DEF LinesAreSpent
<1> QED
  BY <1>9, <1>13, <1>14, <1>15, <1>16 DEF Inv

\* Every command on actions keeps the invariant.
LEMMA ActionNextInv ==
  ASSUME Inv, NEW r \in Retros, NEW a \in Actions, ActionNext(r, a)
  PROVE  Inv'
<1>1. action[a] # None => action[a] \in ActionRow
  BY DEF Inv, TypeOK
<1>2. ASSUME NEW what \in Texts, AddAction(r, a, what)
      PROVE  Inv'
  BY <1>2, AddActionInv
<1>3. ASSUME NEW what \in Texts, UpdateAction(r, a, what)
      PROVE  Inv'
  <2> DEFINE row == [action[a] EXCEPT !.what = what]
  <2>1. action[a] # None /\ UNCHANGED <<retroVars, spent, origin>>
    BY <1>3 DEF UpdateAction, ActionIn
  <2>2. /\ row \in ActionRow /\ row.retro = action[a].retro
        /\ row.carriedFrom = action[a].carriedFrom /\ row.closed = action[a].closed
    BY <1>1, <2>1 DEF ActionRow
  <2>3. action' = [action EXCEPT ![a] = row]
    BY <1>3 DEF UpdateAction
  <2> HIDE DEF row
  <2> QED
    BY <2>1, <2>2, <2>3, RowChangeInv
<1>4. ASSUME NEW done \in BOOLEAN, SetActionDone(r, a, done)
      PROVE  Inv'
  <2> DEFINE row == [action[a] EXCEPT !.done = done]
  <2>1. action[a] # None /\ UNCHANGED <<retroVars, spent, origin>>
    BY <1>4 DEF SetActionDone, ActionIn
  <2>2. /\ row \in ActionRow /\ row.retro = action[a].retro
        /\ row.carriedFrom = action[a].carriedFrom /\ row.closed = action[a].closed
    BY <1>1, <2>1 DEF ActionRow
  <2>3. action' = [action EXCEPT ![a] = row]
    BY <1>4 DEF SetActionDone
  <2> HIDE DEF row
  <2> QED
    BY <2>1, <2>2, <2>3, RowChangeInv
<1>5. ASSUME DeleteAction(r, a)
      PROVE  Inv'
  BY <1>5, DeleteActionInv
<1>6. ASSUME DoneEarlier(r, a)
      PROVE  Inv'
  <2> DEFINE row == [action[a] EXCEPT !.done = TRUE]
  <2>1. action[a] # None /\ UNCHANGED <<retroVars, spent, origin>>
    BY <1>6 DEF DoneEarlier, FromLastTime, Open
  <2>2. /\ row \in ActionRow /\ row.retro = action[a].retro
        /\ row.carriedFrom = action[a].carriedFrom /\ row.closed = action[a].closed
    BY <1>1, <2>1 DEF ActionRow
  <2>3. action' = [action EXCEPT ![a] = row]
    BY <1>6 DEF DoneEarlier
  <2> HIDE DEF row
  <2> QED
    BY <2>1, <2>2, <2>3, RowChangeInv
<1>7. ASSUME DropEarlier(r, a)
      PROVE  Inv'
  <2> DEFINE row == [action[a] EXCEPT !.closed = "dropped"]
  <2>1. /\ action[a] # None /\ action[a].closed = None
        /\ UNCHANGED <<retroVars, spent, origin>>
    BY <1>7 DEF DropEarlier, FromLastTime, Open
  <2>2. /\ row \in ActionRow /\ row.retro = action[a].retro
        /\ row.carriedFrom = action[a].carriedFrom
    BY <1>1, <2>1 DEF ActionRow
  <2>3. action' = [action EXCEPT ![a] = row]
    BY <1>7 DEF DropEarlier
  <2> HIDE DEF row
  <2> QED
    BY <2>1, <2>2, <2>3, RowChangeInv
<1>8. ASSUME NEW copy \in Actions, CarryOver(r, a, copy)
      PROVE  Inv'
  BY <1>8, CarryOverInv
<1> QED
  BY <1>2, <1>3, <1>4, <1>5, <1>6, <1>7, <1>8 DEF ActionNext

\* So every step keeps it.
LEMMA NextInv == Inv /\ [Next]_vars => Inv'
<1> SUFFICES ASSUME Inv, [Next]_vars PROVE Inv'
  OBVIOUS
<1>1. CASE UNCHANGED vars
  <2>1. TypeOK'
    BY <1>1 DEF Inv, TypeOK, vars, Created
  <2> QED
    BY <1>1, <2>1, RetrosGrowInv DEF vars
<1>2. CASE TeamNext
  BY <1>2, TeamNextInv
<1>3. ASSUME NEW r \in Retros, NEW a \in Actions, ActionNext(r, a)
      PROVE  Inv'
  BY <1>3, ActionNextInv
<1> QED
  BY <1>1, <1>2, <1>3 DEF Next

\* Whatever is carried over, dropped, ticked, unticked and deleted, however
\* many retros there are, whatever teams they join and leave and whatever the
\* clock does, an action never shows up twice as open.
THEOREM NeverOpenTwice == Spec => []OpenOnce
<1>1. Init => Inv
  BY InitInv
<1>2. Inv /\ [Next]_vars => Inv'
  BY NextInv
<1>3. Inv => OpenOnce
  BY DEF Inv, OpenOnce, LastIsUnsettled, SameLine, Open
<1> QED
  BY <1>1, <1>2, <1>3, PTL DEF Spec

\* An action never comes back to a retro it has been in.
THEOREM NeverReturns == Spec => []NoReturn
<1>1. Init => Inv
  BY InitInv
<1>2. Inv /\ [Next]_vars => Inv'
  BY NextInv
<1>3. Inv => NoReturn
  BY DEF Inv
<1> QED
  BY <1>1, <1>2, <1>3, PTL DEF Spec

\* carried_from always leads to one original in an earlier retro that is
\* closed as carried, and no two copies lead to the same.
THEOREM LinksLeadBack == Spec => []CarriedForward
<1>1. Init => Inv
  BY InitInv
<1>2. Inv /\ [Next]_vars => Inv'
  BY NextInv
<1>3. Inv => CarriedForward
  BY DEF Inv
<1> QED
  BY <1>1, <1>2, <1>3, PTL DEF Spec

---------------------------------------------------------------------------
\* Every row has its type and refers to a retro and a team there are.
THEOREM RowsHaveTypes == Spec => []TypeOK
<1>1. Init => Inv
  BY InitInv
<1>2. Inv /\ [Next]_vars => Inv'
  BY NextInv
<1>3. Inv => TypeOK
  BY DEF Inv
<1> QED
  BY <1>1, <1>2, <1>3, PTL DEF Spec

\* An action stays in its retro until it is deleted, and what was carried or
\* dropped stays so.
THEOREM HistoryIsKept == Spec => HistoryStays
<1> DEFINE Kept == \A a \in Actions :
      (action[a] # None /\ action'[a] # None) =>
        /\ action'[a].retro = action[a].retro
        /\ action[a].closed # None => action'[a].closed = action[a].closed
<1>1. Init => Inv
  BY InitInv
<1>2. Inv /\ [Next]_vars => Inv'
  BY NextInv
<1>3. Inv /\ [Next]_vars => [Kept]_vars
  <2> SUFFICES ASSUME Inv, Next
               PROVE  Kept
    OBVIOUS
  <2> USE ActionsAssumption DEF ActionRow
  <2>0. TypeOK
    BY DEF Inv
  <2>1. CASE TeamNext
    BY <2>1 DEF TeamNext, CreateRetro, UpdateRetro, CreateTeam
  <2>2. ASSUME NEW r \in Retros, NEW a \in Actions, ActionNext(r, a)
        PROVE  Kept
    <3>1. CASE \E what \in Texts : AddAction(r, a, what)
      BY <2>0, <3>1 DEF AddAction, TypeOK
    <3>2. CASE \E what \in Texts : UpdateAction(r, a, what)
      BY <2>0, <3>2 DEF UpdateAction, TypeOK
    <3>3. CASE \E done \in BOOLEAN : SetActionDone(r, a, done)
      BY <2>0, <3>3 DEF SetActionDone, TypeOK
    <3>4. CASE DeleteAction(r, a)
      BY <2>0, <3>4 DEF DeleteAction, TypeOK
    <3>5. CASE DoneEarlier(r, a)
      BY <2>0, <3>5 DEF DoneEarlier, TypeOK
    <3>6. CASE DropEarlier(r, a)
      BY <2>0, <3>6 DEF DropEarlier, FromLastTime, Open, TypeOK
    <3>7. CASE \E copy \in Actions : CarryOver(r, a, copy)
      BY <2>0, <3>7 DEF CarryOver, FromLastTime, Open, TypeOK
    <3> QED
      BY <2>2, <3>1, <3>2, <3>3, <3>4, <3>5, <3>6, <3>7 DEF ActionNext
  <2> QED
    BY <2>1, <2>2 DEF Next
<1> QED
  BY <1>1, <1>2, <1>3, PTL DEF Spec, HistoryStays

---------------------------------------------------------------------------
(* Ids, which Earlier ends in *)

VARIABLES ms, seq

New == INSTANCE Ids

\* newID's two parts stay numbers that fit.
LEMMA FitsIsInductive ==
  New!Fits /\ [New!Next]_<<ms, seq>> => New!Fits'
<1> SUFFICES ASSUME New!Fits, [New!Next]_<<ms, seq>>
             PROVE  New!Fits'
  OBVIOUS
<1> USE DEF New!Fits, New!MaxSeq
<1>1. ASSUME NEW now \in Nat, New!NewID(now)
      PROVE  New!Fits'
  <2>1. CASE New!NewMillisecond(now)
    BY <2>1 DEF New!NewMillisecond
  <2>2. CASE New!SameMillisecond(now)
    BY <2>2 DEF New!SameMillisecond
  <2>3. CASE New!CounterRunsOut(now)
    BY <2>3 DEF New!CounterRunsOut
  <2> QED
    BY <1>1, <2>1, <2>2, <2>3 DEF New!NewID
<1>2. CASE UNCHANGED <<ms, seq>>
  BY <1>2
<1> QED
  BY <1>1, <1>2 DEF New!Next

\* newID keeps its counter within twelve bits, for any clock.
THEOREM IdsFit == New!Spec => []New!Fits
<1>1. New!Init => New!Fits
  BY DEF New!Init, New!Fits, New!MaxSeq
<1> QED
  BY <1>1, FitsIsInductive, PTL DEF New!Spec, New!vars

\* Ids increase, for any clock and any number of them in a millisecond.
THEOREM IdsIncrease == New!Spec => New!Increasing
<1>1. New!Fits /\ [New!Next]_<<ms, seq>> => [ms' > ms \/ (ms' = ms /\ seq' > seq)]_<<ms, seq>>
  <2> SUFFICES ASSUME New!Fits, NEW now \in Nat, New!NewID(now)
               PROVE  ms' > ms \/ (ms' = ms /\ seq' > seq)
    BY DEF New!Next
  <2>1. CASE New!NewMillisecond(now)
    BY <2>1 DEF New!NewMillisecond, New!Fits, New!MaxSeq
  <2>2. CASE New!SameMillisecond(now)
    BY <2>2 DEF New!SameMillisecond, New!Fits, New!MaxSeq
  <2>3. CASE New!CounterRunsOut(now)
    BY <2>3 DEF New!CounterRunsOut, New!Fits, New!MaxSeq
  <2> QED
    BY <2>1, <2>2, <2>3 DEF New!NewID
<1> QED
  BY <1>1, IdsFit, PTL DEF New!Spec, New!Increasing, New!vars
=============================================================================
