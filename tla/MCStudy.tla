------------------------------ MODULE MCStudy ------------------------------
\* Finite instances of Study for TLC.
EXTENDS Study, TLC

\* Requests that do the same are interchangeable; sound for safety only.
Symmetry == Permutations(Devices)

CONSTANTS d1, d2, w1, w2

\* The cards in one deck, or in a deck each.
HomeOne == [w \in Words |-> d1]
HomeTwo == [w \in Words |-> IF w = w1 THEN d1 ELSE d2]

\* The cards were added the day before the clock starts, a tick before it, or
\* as it starts.
AddedBefore == [w \in Words |-> FirstTick - TicksPerDay]
AddedToday == [w \in Words |-> FirstTick - 1]
AddedNow == [w \in Words |-> FirstTick]

\* A streak up to yesterday, and one that ended the day before.
Yesterday == {[streak |-> 1, last |-> DayOf(FirstTick) - 1]}
LongAgo == {[streak |-> 1, last |-> DayOf(FirstTick) - 2]}
NoHistories == {}
=============================================================================
