------------------------ MODULE FacilitationProofs ------------------------
(***************************************************************************)
(* Proofs about Facilitation for any people, any shortest and longest      *)
(* timer and any bound on the clock.                                       *)
(***************************************************************************)
EXTENDS Facilitation, TLAPS

\* The timer starts off, in the first stage, with nobody done.
LEMMA InitTypeOK == Init => TypeOK
BY FacilitationAssumption DEF Init, TypeOK, Stages, Running, Paused

\* Every way the timer is written leaves it running, paused or off.
LEMMA NextTypeOK == TypeOK /\ [Next]_vars => TypeOK'
<1> SUFFICES ASSUME TypeOK, [Next]_vars
             PROVE  TypeOK'
  OBVIOUS
<1> USE FacilitationAssumption DEF TypeOK, Running, Paused, UpdateTimer
<1>1. CASE Tick
  BY <1>1 DEF Tick
<1>2. ASSUME NEW seconds \in 1 .. MaxTimer, StartTimer(seconds)
      PROVE  TypeOK'
  BY <1>2 DEF StartTimer
<1>3. ASSUME NEW seconds \in 1 .. MaxTimer, AddTime(seconds)
      PROVE  TypeOK'
  <2>1. CASE AddToRunning(seconds)
    BY <2>1 DEF AddToRunning
  <2>2. CASE AddToPaused(seconds)
    BY <2>2 DEF AddToPaused, Lesser
  <2>3. CASE AddToOff(seconds)
    BY <2>3 DEF AddToOff
  <2> QED
    BY <1>3, <2>1, <2>2, <2>3 DEF AddTime
<1>4. CASE PauseTimer
  BY <1>4 DEF PauseTimer
<1>5. CASE ResumeTimer
  BY <1>5 DEF ResumeTimer
<1>6. CASE ClearTimer
  BY <1>6 DEF ClearTimer
<1>7. ASSUME NEW to \in Stages, SetStage(to)
      PROVE  TypeOK'
  BY <1>7 DEF SetStage
<1>8. ASSUME NEW u \in Users, NEW on \in BOOLEAN, SetReady(u, on)
      PROVE  TypeOK'
  BY <1>8 DEF SetReady
<1>9. CASE UNCHANGED vars
  BY <1>9 DEF vars
<1> QED
  BY <1>1, <1>2, <1>3, <1>4, <1>5, <1>6, <1>7, <1>8, <1>9 DEF Next

\* The timer is always running, paused or off, never two of them: the two
\* columns of the table cannot come to contradict each other.
THEOREM TimerIsOneOfThree == Spec => []TypeOK
<1>1. Init => TypeOK
  BY InitTypeOK
<1>2. TypeOK /\ [Next]_vars => TypeOK'
  BY NextTypeOK
<1> QED
  BY <1>1, <1>2, PTL DEF Spec

\* However long timers may be, pausing and resuming keeps what is left.  It
\* takes TypeOK: resuming a timer that both ran and was paused would not.
THEOREM PausingKeeps == Spec => PausingKeepsTime
<1>1. TypeOK /\ [Next]_vars => [PauseTimer \/ ResumeTimer => Remaining' = Remaining]_vars
  <2> SUFFICES ASSUME TypeOK, PauseTimer \/ ResumeTimer
               PROVE  Remaining' = Remaining
    OBVIOUS
  <2> USE FacilitationAssumption DEF TypeOK, Running, Paused, Remaining, UpdateTimer
  <2>1. CASE PauseTimer
    BY <2>1 DEF PauseTimer
  <2>2. CASE ResumeTimer
    BY <2>2 DEF ResumeTimer
  <2> QED
    BY <2>1, <2>2
<1> QED
  BY <1>1, TimerIsOneOfThree, PTL DEF Spec, PausingKeepsTime

\* Nor does anything but a fresh timer bring a running one nearer its end.
THEOREM RunningLengthens == Spec => RunningOnlyLengthens
<1> DEFINE Fresh == \E s \in MinTimer .. MaxTimer : StartTimer(s)
<1>1. TypeOK /\ [Next]_vars =>
        [(Running /\ Running' /\ ~Fresh) => Remaining' >= Remaining - (now' - now)]_vars
  <2> SUFFICES ASSUME TypeOK, [Next]_vars, Running, Running', ~Fresh
               PROVE  Remaining' >= Remaining - (now' - now)
    OBVIOUS
  <2> USE FacilitationAssumption DEF TypeOK, Running, Paused, Remaining, UpdateTimer
  <2>1. CASE Tick
    BY <2>1 DEF Tick
  <2>2. ASSUME NEW seconds \in 1 .. MaxTimer, StartTimer(seconds)
        PROVE  FALSE
    BY <2>2 DEF StartTimer
  <2>3. ASSUME NEW seconds \in 1 .. MaxTimer, AddTime(seconds)
        PROVE  Remaining' >= Remaining - (now' - now)
    BY <2>3 DEF AddTime, AddToRunning, AddToPaused, AddToOff
  <2>4. CASE PauseTimer
    BY <2>4 DEF PauseTimer
  <2>5. CASE ResumeTimer
    BY <2>5 DEF ResumeTimer
  <2>6. CASE ClearTimer
    BY <2>6 DEF ClearTimer
  <2>7. ASSUME NEW to \in Stages, SetStage(to)
        PROVE  Remaining' >= Remaining - (now' - now)
    BY <2>7 DEF SetStage
  <2>8. ASSUME NEW u \in Users, NEW on \in BOOLEAN, SetReady(u, on)
        PROVE  Remaining' >= Remaining - (now' - now)
    BY <2>8 DEF SetReady
  <2>9. CASE UNCHANGED vars
    BY <2>9 DEF vars
  <2> QED
    BY <2>1, <2>2, <2>3, <2>4, <2>5, <2>6, <2>7, <2>8, <2>9 DEF Next
<1> QED
  BY <1>1, TimerIsOneOfThree, PTL DEF Spec, RunningOnlyLengthens

\* What people said of a stage stays while the retro is in another, for any
\* number of people and however often they change their minds.
THEOREM ReadyIsKept == Spec => ReadyKeptPerStage
<1> DEFINE Kept == \A u \in Users, s \in Stages \ {stage} :
                     (<<u, s>> \in ready') <=> (<<u, s>> \in ready)
<1>1. [Next]_vars => [Kept]_vars
  <2> SUFFICES ASSUME Next
               PROVE  Kept
    OBVIOUS
  <2>1. CASE \E u \in Users, on \in BOOLEAN : SetReady(u, on)
    <3>1. PICK v \in Users : ready' = ready \cup {<<v, stage>>} \/ ready' = ready \ {<<v, stage>>}
      BY <2>1 DEF SetReady
    <3> QED
      BY <3>1
  <2>2. CASE ~(\E u \in Users, on \in BOOLEAN : SetReady(u, on))
    <3>1. ready' = ready
      BY <2>2 DEF Next, Tick, StartTimer, AddTime, AddToRunning, AddToPaused, AddToOff,
         PauseTimer, ResumeTimer, ClearTimer, UpdateTimer, SetStage
    <3> QED
      BY <3>1
  <2> QED
    BY <2>1, <2>2
<1> QED
  BY <1>1, PTL DEF Spec, ReadyKeptPerStage
=============================================================================
