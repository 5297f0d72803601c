-------------------------------- MODULE Ids --------------------------------
(***************************************************************************)
(* newID of internal/store: an id is a time in milliseconds and a counter  *)
(* of twelve bits, for the ids of one millisecond.  "Which retro came      *)
(* first", the order Earlier of module Actions ends in, relies on ids that *)
(* increase, whatever the clock does and however many are asked for in one *)
(* millisecond.  Callers take turns (the lock in newID), so a call is one  *)
(* step; what is random in an id comes after both and decides no order.    *)
(***************************************************************************)
EXTENDS Integers

VARIABLES
  ms,    \* the time in the last id, 48 bits of it: enough until 10889
  seq    \* the counter in the last id

vars == <<ms, seq>>

MaxSeq == 4095

Init == ms = 0 /\ seq = 0

\* The clock is past the time of the last id.
NewMillisecond(now) ==
  /\ now > ms
  /\ ms' = now
  /\ seq' = 0

\* It is not, or was set back: one more of the same millisecond.
SameMillisecond(now) ==
  /\ now <= ms
  /\ seq < MaxSeq
  /\ seq' = seq + 1
  /\ ms' = ms

\* The counter has run out: the next millisecond is begun early.
CounterRunsOut(now) ==
  /\ now <= ms
  /\ seq = MaxSeq
  /\ ms' = ms + 1
  /\ seq' = 0

NewID(now) == NewMillisecond(now) \/ SameMillisecond(now) \/ CounterRunsOut(now)

Next == \E now \in Nat : NewID(now)

Spec == Init /\ [][Next]_vars

---------------------------------------------------------------------------
\* Both parts fit where newID writes them: the version bits above the counter
\* are never touched.
Fits == ms \in Nat /\ seq \in 0 .. MaxSeq

\* "a counter in the 12 bits after the version keeps them increasing": every id
\* is later than the one before, first by time and then by counter.
Increasing == [][ms' > ms \/ (ms' = ms /\ seq' > seq)]_vars
=============================================================================
