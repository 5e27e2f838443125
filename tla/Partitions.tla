----------------------------- MODULE Partitions -----------------------------
(***************************************************************************)
(* The review history, one partition a month: learners' reviews go where    *)
(* their month has a partition and to the catch-all where it has none, and  *)
(* a scheduled job creates the months ahead and drops the expired ones.     *)
(***************************************************************************)
EXTENDS Integers, FiniteSets

CONSTANTS
    Ahead,       \* REVIEW_HISTORY_PARTITION_LOOKAHEAD_MONTHS
    Initial,     \* INITIAL_MONTHS_AHEAD of the migration
    Retention,   \* REVIEW_HISTORY_RETENTION_MONTHS; 0 keeps everything
    LastMonth,   \* bound on the months that pass
    MaxRows

WindowAssumption ==
    /\ Ahead \in Nat \ {0} /\ Initial \in Nat \ {0} /\ Retention \in Nat
    /\ LastMonth \in Nat /\ MaxRows \in Nat

VARIABLES
    month,       \* this month
    partitions,  \* the months that have one
    reviews,     \* the months of the reviews in the partitions
    stray,       \* and of those in word_reviews_default
    job,         \* the maintenance: idle, or past its first transaction, with its month
    prune,       \* whether it deletes
    due,         \* the last month the job's last run is good for
    lapsed       \* the months that came later than that

vars == <<month, partitions, reviews, stray, job, prune, due, lapsed>>

Idle == [at |-> "idle"]

\* upgrade: the month of the deploy and the ones after it.
Init ==
    /\ month = 0
    /\ partitions = 0..(Initial - 1)
    /\ reviews = {} /\ stray = {}
    /\ job = Idle
    /\ prune \in BOOLEAN
    /\ due = Initial - 1 /\ lapsed = {}

-----------------------------------------------------------------------------
NextMonth ==
    /\ month < LastMonth
    /\ month' = month + 1
    /\ lapsed' = IF month' > due THEN lapsed \cup {month'} ELSE lapsed
    /\ UNCHANGED <<partitions, reviews, stray, job, prune, due>>

\* A graded card, of this month; the routing is the database's.
Review ==
    /\ Cardinality(reviews) + Cardinality(stray) < MaxRows
    /\ IF month \in partitions
       THEN reviews' = reviews \cup {month} /\ UNCHANGED stray
       ELSE stray' = stray \cup {month} /\ UNCHANGED reviews
    /\ UNCHANGED <<month, partitions, job, prune, due, lapsed>>

\* Mutant: the window without its last month.
ShortWindow(from) == from..(from + Ahead - 1)

\* This month and the window ahead.
Window(from) == from..(from + Ahead)

\* ensure_word_reviews_partition, for months that may have theirs.
Ensured(months) == partitions \cup months

\* One transaction creates them all.  The database refuses a partition whose
\* rows are in the default one, and the task is retried.
Create ==
    /\ job = Idle
    /\ (Window(month) \ partitions) \cap stray = {}
    /\ partitions' = Ensured(Window(month))
    /\ job' = [at |-> "created", since |-> month]
    /\ due' = IF due < month + Ahead THEN month + Ahead ELSE due
    /\ UNCHANGED <<month, reviews, stray, prune, lapsed>>

\* Mutant: the month the retention ends in goes, too.
IsExpiredOrEnds(m, from) == m <= from - Retention

IsExpired(m, from) == m < from - Retention

\* The second transaction, cut off by the month the job began in.
Prune ==
    /\ job.at = "created"
    /\ LET expired == IF Retention = 0 \/ ~prune THEN {}
                      ELSE {m \in partitions : IsExpired(m, job.since)}
       IN partitions' = partitions \ expired /\ reviews' = reviews \ expired
    /\ job' = Idle
    /\ UNCHANGED <<month, stray, prune, due, lapsed>>

\* A kill between the two, or a failed task; the job's work is idempotent.
Die ==
    /\ job # Idle /\ job' = Idle
    /\ UNCHANGED <<month, partitions, reviews, stray, prune, due, lapsed>>

\* What the error asks a human for.
MoveStray ==
    /\ job = Idle /\ stray # {}
    /\ partitions' = Ensured(stray)
    /\ reviews' = reviews \cup stray
    /\ stray' = {}
    /\ UNCHANGED <<month, job, prune, due, lapsed>>

Next == NextMonth \/ Review \/ Create \/ Prune \/ Die \/ MoveStray

Spec == Init /\ [][Next]_vars

-----------------------------------------------------------------------------
TypeOK ==
    /\ month \in Nat /\ due \in Nat /\ prune \in BOOLEAN
    /\ partitions \subseteq Nat /\ reviews \subseteq Nat
    /\ stray \subseteq Nat /\ lapsed \subseteq Nat
    /\ job \in {Idle} \cup [at : {"created"}, since : Nat]

(* A review goes to the catch-all only in a month the job has not run for    *)
(* longer than its window, the year of slack tasks/maintenance.py:20-23      *)
(* counts on; no kill between its transactions and no prune shortens it.     *)
StrayOnlyAfterALapse == stray \subseteq lapsed

(* No review inside the retention is deleted, and none at all unless the     *)
(* deployment prunes (partition_word_reviews.py:11-13), however long a job   *)
(* that began in an earlier month takes.                                     *)
HistoryKept ==
    [][\A m \in reviews \cup stray :
         (Retention = 0 \/ ~prune \/ m >= month - Retention) =>
             m \in reviews' \cup stray']_<<reviews, stray>>

(* Where a review goes and when it is deleted, together.                     *)
HistoryStands == []StrayOnlyAfterALapse /\ HistoryKept

(* Not what the code does: the job is refused as a whole while the default    *)
(* partition has a row of a month it creates, so the window stands still      *)
(* until an operator has moved the row.                                       *)
WindowMoves == (Window(month) \ partitions) \cap stray = {}
=============================================================================
