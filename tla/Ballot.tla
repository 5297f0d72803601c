------------------------------ MODULE Ballot ------------------------------
(***************************************************************************)
(* What the store promises about voting, with no groups and no notes: each *)
(* person has a number of votes in use in each retro.  It goes up or down  *)
(* by one, by that person's own vote while the retro is voting and never   *)
(* past the limit of that moment.  While notes are still being arranged a  *)
(* note can be deleted and take votes with it.  Nothing else, moving notes *)
(* about in particular, makes a vote appear or vanish.                     *)
(***************************************************************************)
EXTENDS Integers

CONSTANTS Users, Retros, Notes, MaxVotesCap, DefaultVotes

VARIABLES
  phase,  \* phase[r]
  limit,  \* limit[r], how many votes a person may have in use
  used,   \* used[r][u], how many u has
  notes   \* notes[r], the notes there are to vote on

ballotVars == <<phase, limit, used, notes>>

Phases == {"none", "arranging", "voting", "discussing"}

Init ==
  /\ phase = [r \in Retros |-> "none"]
  /\ limit = [r \in Retros |-> DefaultVotes]
  /\ used = [r \in Retros |-> [u \in Users |-> 0]]
  /\ notes = [r \in Retros |-> {}]

Open(r) ==
  /\ phase[r] = "none"
  /\ phase' = [phase EXCEPT ![r] = "arranging"]
  /\ limit' = [limit EXCEPT ![r] = DefaultVotes]
  /\ UNCHANGED <<used, notes>>

SetLimit(r, n) ==
  /\ phase[r] # "none"
  /\ limit' = [limit EXCEPT ![r] = n]
  /\ UNCHANGED <<phase, used, notes>>

\* A retro reaches and leaves discussion by way of voting.
Turn(r, to) ==
  /\ {phase[r], to} \in {{"arranging", "voting"}, {"voting", "discussing"}}
  /\ phase' = [phase EXCEPT ![r] = to]
  /\ UNCHANGED <<limit, used, notes>>

Cast(r, u) ==
  /\ phase[r] = "voting"
  /\ used[r][u] < limit[r]
  /\ used' = [used EXCEPT ![r][u] = @ + 1]
  /\ UNCHANGED <<phase, limit, notes>>

TakeBack(r, u) ==
  /\ phase[r] = "voting"
  /\ used[r][u] > 0
  /\ used' = [used EXCEPT ![r][u] = @ - 1]
  /\ UNCHANGED <<phase, limit, notes>>

Write(r, n) ==
  /\ phase[r] = "arranging"
  /\ notes' = [notes EXCEPT ![r] = @ \cup {n}]
  /\ UNCHANGED <<phase, limit, used>>

Erase(r, n) ==
  /\ phase[r] = "arranging"
  /\ n \in notes[r]
  /\ notes' = [notes EXCEPT ![r] = @ \ {n}]
  /\ \E left \in [Users -> 0 .. MaxVotesCap] :
       /\ \A u \in Users : left[u] <= used[r][u]
       /\ used' = [used EXCEPT ![r] = left]
  /\ UNCHANGED <<phase, limit>>

Next ==
  \E r \in Retros :
    \/ Open(r)
    \/ \E n \in 1 .. MaxVotesCap : SetLimit(r, n)
    \/ \E to \in Phases : Turn(r, to)
    \/ \E u \in Users : Cast(r, u) \/ TakeBack(r, u)
    \/ \E n \in Notes : Write(r, n) \/ Erase(r, n)

Spec == Init /\ [][Next]_ballotVars

\* Nobody ever has more votes in use than the largest limit a retro can be
\* given (MaxVotesCap of retros.go), whatever limits it had in the meantime.
WithinCap == \A r \in Retros, u \in Users : used[r][u] <= MaxVotesCap
=============================================================================
