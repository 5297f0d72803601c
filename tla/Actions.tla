------------------------------ MODULE Actions ------------------------------
(***************************************************************************)
(* What people agree to do: the actions of retros, the teams retros belong *)
(* to, and "last time", through which a retro settles the open actions of  *)
(* earlier retros of its team: done, dropped, or carried over as a copy of *)
(* its own.  Each operation of the store is one transaction and one step.  *)
(*                                                                         *)
(* Retros come in the order of `earlier`, by the second they were created  *)
(* in and then by their ids.  An id and a time are taken before the        *)
(* transaction begins and the clock may be set back, so a retro may be     *)
(* created before one that is there already.  Ids are never used again.    *)
(***************************************************************************)
EXTENDS Integers

CONSTANTS
  Retros,   \* ids, numbers for their order
  Teams, Actions,
  Texts,    \* what there may be to do
  Seconds,  \* the times there are
  None

VARIABLES
  createdAt,  \* createdAt[r], None until retro r is created
  team,       \* team[r], the team of r or None
  tagged,     \* the retros that carry the tag that teams are made from
  teams,      \* the teams there are
  action,     \* action[a] is the row of action a, or None
  spent,      \* the ids of actions that have been given out
  origin      \* history: the action that a is a copy of, through all copies

vars == <<createdAt, team, tagged, teams, action, spent, origin>>

retroVars == <<createdAt, team, tagged, teams>>

ActionRow == [retro : Retros, what : Texts, done : BOOLEAN,
              closed : {None, "carried", "dropped"},
              carriedFrom : Actions \cup {None}]

ASSUME ActionsAssumption ==
  /\ Retros \subseteq Nat /\ Seconds \subseteq Nat
  /\ None \notin Seconds /\ None \notin Teams /\ None \notin Actions
  /\ None \notin {"carried", "dropped"} /\ None \notin ActionRow

Created == {r \in Retros : createdAt[r] # None}

\* Mutant: retros of the same second are earlier than each other.
BadEarlier(q, r) == createdAt[q] <= createdAt[r] /\ q # r

\* "Times are kept to the second, so a tie goes to the id."
Earlier(q, r) ==
  \/ createdAt[q] < createdAt[r]
  \/ createdAt[q] = createdAt[r] /\ q < r

\* done_at IS NULL AND closed IS NULL
Open(a) == action[a] # None /\ ~action[a].done /\ action[a].closed = None

\* earlierAction: an open action from an earlier retro in the same team.
FromLastTime(r, a) ==
  /\ r \in Created
  /\ team[r] # None
  /\ Open(a)
  /\ team[action[a].retro] = team[r]
  /\ Earlier(action[a].retro, r)

\* WHERE id = ? AND retro_id = ?
ActionIn(r, a) == action[a] # None /\ action[a].retro = r

\* INSERT INTO actions
Insert(r, what, from) ==
  [retro |-> r, what |-> what, done |-> FALSE, closed |-> None, carriedFrom |-> from]

---------------------------------------------------------------------------
Init ==
  /\ createdAt = [r \in Retros |-> None]
  /\ team = [r \in Retros |-> None]
  /\ tagged = {}
  /\ teams = {}
  /\ action = [a \in Actions |-> None]
  /\ spent = {}
  /\ origin = [a \in Actions |-> a]

\* replaceTags
Tag(r, tag) == tagged' = IF tag THEN tagged \cup {r} ELSE tagged \ {r}

CreateRetro(r, second, t, tag) ==
  /\ createdAt[r] = None
  /\ t \in teams \cup {None}
  /\ createdAt' = [createdAt EXCEPT ![r] = second]
  /\ team' = [team EXCEPT ![r] = t]
  /\ Tag(r, tag)
  /\ UNCHANGED <<teams, action, spent, origin>>

\* Mutant: no teamExists.
BadUpdateRetro(r, t, tag) ==
  /\ r \in Created
  /\ team' = [team EXCEPT ![r] = t]
  /\ Tag(r, tag)
  /\ UNCHANGED <<createdAt, teams, action, spent, origin>>

UpdateRetro(r, t, tag) ==
  /\ r \in Created
  /\ t \in teams \cup {None}
  /\ team' = [team EXCEPT ![r] = t]
  /\ Tag(r, tag)
  /\ UNCHANGED <<createdAt, teams, action, spent, origin>>

\* "With fromTag, every retro carrying that tag and not already in a team
\* joins it."
CreateTeam(t, fromTag) ==
  /\ t \notin teams
  /\ teams' = teams \cup {t}
  /\ team' = [r \in Retros |->
                IF fromTag /\ r \in tagged /\ team[r] = None THEN t ELSE team[r]]
  /\ UNCHANGED <<createdAt, tagged, action, spent, origin>>

---------------------------------------------------------------------------
AddAction(r, a, what) ==
  /\ r \in Created
  /\ a \notin spent
  /\ action' = [action EXCEPT ![a] = Insert(r, what, None)]
  /\ spent' = spent \cup {a}
  /\ UNCHANGED <<retroVars, origin>>

UpdateAction(r, a, what) ==
  /\ ActionIn(r, a)
  /\ action' = [action EXCEPT ![a].what = what]
  /\ UNCHANGED <<retroVars, spent, origin>>

\* Mutant: what is not done is open again.
BadSetActionDone(r, a, done) ==
  /\ ActionIn(r, a)
  /\ action' = [action EXCEPT ![a].done = done, ![a].closed = IF done THEN @ ELSE None]
  /\ UNCHANGED <<retroVars, spent, origin>>

SetActionDone(r, a, done) ==
  /\ ActionIn(r, a)
  /\ action' = [action EXCEPT ![a].done = done]
  /\ UNCHANGED <<retroVars, spent, origin>>

\* Mutant: nothing is done about the copy.
BadDeleteAction(r, a) ==
  /\ ActionIn(r, a)
  /\ action' = [action EXCEPT ![a] = None]
  /\ UNCHANGED <<retroVars, spent, origin>>

\* carried_from REFERENCES actions (id) ON DELETE SET NULL
DeleteAction(r, a) ==
  /\ ActionIn(r, a)
  /\ action' = [b \in Actions |->
                  IF b = a THEN None
                  ELSE IF action[b] # None /\ action[b].carriedFrom = a
                  THEN [action[b] EXCEPT !.carriedFrom = None]
                  ELSE action[b]]
  /\ UNCHANGED <<retroVars, spent, origin>>

---------------------------------------------------------------------------
(* CloseEarlier, from retro r, with each of its outcomes *)

DoneEarlier(r, a) ==
  /\ FromLastTime(r, a)
  /\ action' = [action EXCEPT ![a].done = TRUE]
  /\ UNCHANGED <<retroVars, spent, origin>>

DropEarlier(r, a) ==
  /\ FromLastTime(r, a)
  /\ action' = [action EXCEPT ![a].closed = "dropped"]
  /\ UNCHANGED <<retroVars, spent, origin>>

\* Mutant: the original stays open.
BadCarryOver(r, a, copy) ==
  /\ FromLastTime(r, a)
  /\ copy \notin spent
  /\ action' = [action EXCEPT ![copy] = Insert(r, action[a].what, a)]
  /\ spent' = spent \cup {copy}
  /\ origin' = [origin EXCEPT ![copy] = origin[a]]
  /\ UNCHANGED retroVars

CarryOver(r, a, copy) ==
  /\ FromLastTime(r, a)
  /\ copy \notin spent
  /\ action' = [action EXCEPT ![a].closed = "carried",
                              ![copy] = Insert(r, action[a].what, a)]
  /\ spent' = spent \cup {copy}
  /\ origin' = [origin EXCEPT ![copy] = origin[a]]
  /\ UNCHANGED retroVars

---------------------------------------------------------------------------
TeamNext ==
  \/ \E r \in Retros, s \in Seconds, t \in Teams \cup {None}, tag \in BOOLEAN :
       CreateRetro(r, s, t, tag)
  \/ \E r \in Retros, t \in Teams \cup {None}, tag \in BOOLEAN : UpdateRetro(r, t, tag)
  \/ \E t \in Teams, fromTag \in BOOLEAN : CreateTeam(t, fromTag)

ActionNext(r, a) ==
  \/ \E what \in Texts : AddAction(r, a, what)
  \/ \E what \in Texts : UpdateAction(r, a, what)
  \/ \E done \in BOOLEAN : SetActionDone(r, a, done)
  \/ DeleteAction(r, a)
  \/ DoneEarlier(r, a)
  \/ DropEarlier(r, a)
  \/ \E copy \in Actions : CarryOver(r, a, copy)

Next == TeamNext \/ \E r \in Retros, a \in Actions : ActionNext(r, a)

Spec == Init /\ [][Next]_vars

---------------------------------------------------------------------------
\* Rows have their types and refer to retros and teams that exist.
TypeOK ==
  /\ createdAt \in [Retros -> Seconds \cup {None}]
  /\ teams \subseteq Teams
  /\ team \in [Retros -> teams \cup {None}]
  /\ tagged \subseteq Retros
  /\ action \in [Actions -> ActionRow \cup {None}]
  /\ spent \subseteq Actions
  /\ origin \in [Actions -> Actions]
  /\ \A a \in Actions : action[a] # None => a \in spent /\ action[a].retro \in Created

\* Two actions that go back to the same one.
SameLine(a, b) ==
  a # b /\ action[a] # None /\ action[b] # None /\ origin[a] = origin[b]

\* "An action never shows up twice": of an action and all that was copied
\* from it, over however many retros, at most one is open, whatever is ticked
\* and unticked in the retros it has been in and however teams change.
OpenOnce == \A a, b \in Actions : SameLine(a, b) => ~(Open(a) /\ Open(b))

\* Nor does it come back to a retro it has been in: what a team carries over
\* only moves forward, although retros may share a second, the clock may have
\* been set back and retros join and leave teams.
NoReturn == \A a, b \in Actions : SameLine(a, b) => action[a].retro # action[b].retro

\* carried_from links a copy to an original, closed as carried, in an earlier
\* retro; and to no other's original.
CarriedForward ==
  \A a \in Actions :
    (action[a] # None /\ action[a].carriedFrom # None) =>
      LET from == action[a].carriedFrom
      IN /\ action[from] # None /\ action[from].closed = "carried"
         /\ Earlier(action[from].retro, action[a].retro)
         /\ \A b \in Actions \ {a} :
              action[b] # None => action[b].carriedFrom # from

\* "Its history stays where it was written": until it is deleted an action
\* belongs to its retro, and once carried or dropped it is not open again.
HistoryStays ==
  [][\A a \in Actions :
       (action[a] # None /\ action'[a] # None) =>
         /\ action'[a].retro = action[a].retro
         /\ action[a].closed # None => action'[a].closed = action[a].closed]_vars
=============================================================================
