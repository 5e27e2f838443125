---------------------------- MODULE BuildLedger ----------------------------
(***************************************************************************)
(* What a deck build promises its reader, with no worker, claim, message   *)
(* or transaction in it: every word of the plan is open, ends as one card  *)
(* or as a failure, and the two progress numbers of the job row are exact  *)
(* at every moment somebody can look.  DeckBuild.tla implements this.      *)
(***************************************************************************)
EXTENDS Integers, FiniteSets

CONSTANT NumItems   \* words in the plan, numbered by template position

Items == 1..NumItems

VARIABLES
    outcome,   \* outcome[i]: "open", "ok" (a card was written) or "failed"
    cards,     \* cards[i]: how many cards of the deck were written for word i
    done,      \* the job row's items_done
    failed     \* the job row's items_failed

vars == <<outcome, cards, done, failed>>

Outcomes == {"open", "ok", "failed"}

Init ==
    /\ outcome = [i \in Items |-> "open"]
    /\ cards = [i \in Items |-> 0]
    /\ done = 0
    /\ failed = 0

\* One batch ends: the words of S get their card, those of T are given up.
\* Outcome, card and progress become visible together or not at all.
Settle(S, T) ==
    /\ S \cap T = {}
    /\ \A i \in S \cup T : outcome[i] = "open"
    /\ outcome' = [i \in Items |-> IF i \in S THEN "ok"
                                   ELSE IF i \in T THEN "failed" ELSE outcome[i]]
    /\ cards' = [i \in Items |-> IF i \in S THEN cards[i] + 1 ELSE cards[i]]
    /\ done' = done + Cardinality(S)
    /\ failed' = failed + Cardinality(T)

\* An admin puts failures back in the queue.
Reopen(R) ==
    /\ R # {}
    /\ \A i \in R : outcome[i] = "failed"
    /\ outcome' = [i \in Items |-> IF i \in R THEN "open" ELSE outcome[i]]
    /\ failed' = failed - Cardinality(R)
    /\ UNCHANGED <<cards, done>>

Next ==
    \/ \E S, T \in SUBSET Items : Settle(S, T)
    \/ \E R \in SUBSET Items : Reopen(R)

Spec == Init /\ [][Next]_vars
=============================================================================
