--------------------------- MODULE Facilitation ---------------------------
(***************************************************************************)
(* The facilitation state of one retro, internal/store/facilitation.go:    *)
(* the shared timer and who has said they are done with a stage.  The      *)
(* timer is kept as the database keeps it, either the second it ends at or *)
(* the seconds left of a paused one, and it is the clock that makes it run *)
(* out: nothing is written when it does.                                   *)
(* Times are whole seconds, as updateTimer truncates them.                 *)
(***************************************************************************)
EXTENDS Integers

CONSTANTS
  Users,
  None,        \* timer_ends_at is NULL
  MinTimer,    \* the shortest timer, 10 seconds in the code
  MaxTimer,    \* the longest, maxTimer
  Horizon      \* bound of the model: no time after this second is reached

VARIABLES
  now,     \* the clock
  endsAt,  \* timer_ends_at
  left,    \* timer_left, 0 for NULL
  stage,   \* the index of the stage in stages
  ready    \* the rows <<user, stage>> of the table ready

timer == <<endsAt, left>>
vars  == <<now, endsAt, left, stage, ready>>

ASSUME FacilitationAssumption ==
  /\ MinTimer \in Nat \ {0} /\ MaxTimer \in Nat /\ MinTimer <= MaxTimer
  /\ Horizon \in Nat
  /\ None \notin Nat

Stages == 0 .. 3

Running == endsAt # None
Paused  == left > 0

\* Least of two numbers, Go's built-in min.
Lesser(a, b) == IF a <= b THEN a ELSE b

\* What is left on the timer at this moment.
Remaining ==
  IF Running THEN (IF endsAt > now THEN endsAt - now ELSE 0) ELSE left

---------------------------------------------------------------------------
Init ==
  /\ now = 0
  /\ endsAt = None
  /\ left = 0
  /\ stage = 0
  /\ ready = {}

Tick ==
  /\ now < Horizon
  /\ now' = now + 1
  /\ UNCHANGED <<endsAt, left, stage, ready>>

\* updateTimer: both columns are written at once, from one reading of the
\* clock.
UpdateTimer(ends, secondsLeft) ==
  /\ ends \in (0 .. Horizon) \cup {None}
  /\ endsAt' = ends
  /\ left' = secondsLeft
  /\ UNCHANGED <<now, stage, ready>>

StartTimer(seconds) ==
  /\ seconds \in MinTimer .. MaxTimer
  /\ UpdateTimer(now + seconds, 0)

\* Mutant: adds to the present moment even while time is left.
BadAddToRunning(seconds) ==
  /\ Running
  /\ UpdateTimer(now + seconds, 0)

AddToRunning(seconds) ==
  /\ Running
  /\ UpdateTimer((IF endsAt < now THEN now ELSE endsAt) + seconds, 0)

AddToPaused(seconds) ==
  /\ ~Running /\ Paused
  /\ UpdateTimer(None, Lesser(left + seconds, MaxTimer))

AddToOff(seconds) ==
  /\ ~Running /\ ~Paused
  /\ UpdateTimer(now + seconds, 0)

AddTime(seconds) ==
  /\ seconds \in 1 .. MaxTimer
  /\ AddToRunning(seconds) \/ AddToPaused(seconds) \/ AddToOff(seconds)

\* Mutant: a timer that isn't running has nothing left to keep.
BadPauseTimer ==
  UpdateTimer(None, IF Running /\ endsAt > now THEN endsAt - now ELSE 0)

PauseTimer ==
  UpdateTimer(None, IF ~Running THEN left
                    ELSE IF endsAt > now THEN endsAt - now ELSE 0)

\* Mutant: what was left when it paused is not cleared.
BadResumeTimer ==
  IF Paused THEN UpdateTimer(now + left, left) ELSE UpdateTimer(endsAt, 0)

ResumeTimer ==
  IF Paused THEN UpdateTimer(now + left, 0) ELSE UpdateTimer(endsAt, 0)

ClearTimer == UpdateTimer(None, 0)

SetStage(to) ==
  /\ to - stage \in {1, -1}
  /\ stage' = to
  /\ UNCHANGED <<now, endsAt, left, ready>>

\* Mutant: taking it back takes it back for every stage.
BadSetReady(u, on) ==
  /\ ready' = IF on THEN ready \cup {<<u, stage>>} ELSE ready \ ({u} \X Stages)
  /\ UNCHANGED <<now, endsAt, left, stage>>

SetReady(u, on) ==
  /\ ready' = IF on THEN ready \cup {<<u, stage>>} ELSE ready \ {<<u, stage>>}
  /\ UNCHANGED <<now, endsAt, left, stage>>

Next ==
  \/ Tick
  \/ \E seconds \in 1 .. MaxTimer : StartTimer(seconds)
  \/ \E seconds \in 1 .. MaxTimer : AddTime(seconds)
  \/ PauseTimer
  \/ ResumeTimer
  \/ ClearTimer
  \/ \E to \in Stages : SetStage(to)
  \/ \E u \in Users, on \in BOOLEAN : SetReady(u, on)

Spec == Init /\ [][Next]_vars

---------------------------------------------------------------------------
\* The variables have their types, and the timer is running, paused or off:
\* "running when EndsAt is set, paused when Left is above zero, and off
\* otherwise" leaves no room for both.
TypeOK ==
  /\ now \in 0 .. Horizon
  /\ endsAt \in (0 .. Horizon) \cup {None}
  /\ left \in Nat
  /\ stage \in Stages
  /\ ready \subseteq Users \X Stages
  /\ ~(Running /\ Paused)

\* Pausing and resuming cost nobody any time: however often and in whatever
\* order the two are pressed, by one person or by two at once, what is left
\* on the timer is left on it still.
PausingKeepsTime ==
  [][PauseTimer \/ ResumeTimer => Remaining' = Remaining]_vars

\* A running timer is never brought nearer its end by anything but a fresh
\* one in its place: adding time adds to what is left, and an ended timer
\* given more time runs from now on.
RunningOnlyLengthens ==
  [][(Running /\ Running' /\ ~(\E s \in MinTimer .. MaxTimer : StartTimer(s)))
       => Remaining' >= Remaining - (now' - now)]_vars

\* "AddTime lengthens a running or paused timer, or starts one": at the very
\* least it never leaves less on it than there was.
AddTimeNeverShortens ==
  [][(\E s \in 1 .. MaxTimer : AddTime(s)) => Remaining' >= Remaining]_vars

\* "Kept per stage, so moving back shows who was done before": what people
\* said of a stage stays while the retro is in another.
ReadyKeptPerStage ==
  [][\A u \in Users, s \in Stages \ {stage} :
       (<<u, s>> \in ready') <=> (<<u, s>> \in ready)]_vars
=============================================================================
