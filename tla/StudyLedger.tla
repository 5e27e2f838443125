---------------------------- MODULE StudyLedger ----------------------------
(***************************************************************************)
(* What studying promises a learner, with no request, row or lock in it:   *)
(* an answered card counts once in the card's own history and once in the  *)
(* day's total, it is paid for once, and a day is won the moment its total *)
(* reaches the goal - never a moment later, and never twice.  Study.tla    *)
(* implements this.                                                        *)
(***************************************************************************)
EXTENDS Integers

CONSTANTS
    Words,       \* the learner's cards
    Days,        \* calendar days
    Goal,        \* User.daily_goal; 0 means none
    Prizes,      \* what an answered card may be worth
    SessionPrize,
    GoalPrize

VARIABLES
    reviews,   \* reviews[w]: answers counted on card w
    totals,    \* totals[d]: answers counted on day d
    won,       \* the days won
    xp         \* experience points

vars == <<reviews, totals, won, xp>>

Init ==
    /\ reviews = [w \in Words |-> 0]
    /\ totals = [d \in Days |-> 0]
    /\ won \subseteq Days
    /\ xp = 0

\* The day's prize goes with the win.  Reaching the goal wins; clearing the
\* queue may win earlier.
Pay(d, points) ==
    /\ won' \in {won, won \cup {d}}
    /\ Goal > 0 /\ totals'[d] >= Goal => d \in won'
    /\ xp' = xp + points + (IF won' = won THEN 0 ELSE GoalPrize)

Review(w, d) ==
    /\ reviews' = [reviews EXCEPT ![w] = @ + 1]
    /\ totals' = [totals EXCEPT ![d] = @ + 1]
    /\ \E points \in Prizes : Pay(d, points)

FinishSession(d) ==
    /\ UNCHANGED <<reviews, totals>>
    /\ Pay(d, SessionPrize)

Next == \E d \in Days : FinishSession(d) \/ \E w \in Words : Review(w, d)

Spec == Init /\ [][Next]_vars
=============================================================================
