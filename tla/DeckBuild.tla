----------------------------- MODULE DeckBuild -----------------------------
(***************************************************************************)
(* The deck-build pipeline: one planned job, its items, and every process  *)
(* that touches them concurrently - Celery workers, a build run from the   *)
(* command line, and an admin's cancel / retry / override requests.        *)
(*                                                                         *)
(* The database is PostgreSQL at READ COMMITTED.  A worker's batch is one  *)
(* transaction except for the claim, which commits on its own; so the      *)
(* state is split into the committed rows (job, items, cards) and, per     *)
(* worker, what its open transaction holds (draft, dirty, fresh, put) plus *)
(* the row locks that follow from it.  Time is abstracted to one flag per  *)
(* item: `ready` says the item's backoff, or its holder's claim, has run   *)
(* out.                                                                    *)
(***************************************************************************)
EXTENDS Integers, FiniteSets

CONSTANTS
    NumItems,          \* words in the plan, numbered by template position
    Workers,           \* processes that can run a batch
    CliWorkers,        \* those started by hand (scripts/build_deck.py)
    Pinned,            \* items whose hint no confident strategy satisfies
    BatchSize,         \* settings.deck_build_batch_size
    MaxItemAttempts,   \* MAX_ITEM_ATTEMPTS
    FailureStreak,     \* PROVIDER_FAILURE_STREAK
    Overruns,          \* may a batch outlive deck_build_claim_timeout_seconds?
    MaxRuns,           \* bound: builds started by an operator
    MaxCrashes,        \* bound: workers killed
    MaxCancels,        \* bound: cancel requests
    MaxRetries,        \* bound: retry requests
    MaxOverrides       \* bound: override_sense requests

ASSUME NumItemsAssumption == NumItems \in Nat \ {0}
ASSUME WorkersAssumption == CliWorkers \subseteq Workers /\ "free" \notin Workers
ASSUME PinnedAssumption == Pinned \subseteq 1..NumItems
ASSUME SettingsAssumption ==
    /\ BatchSize \in Nat \ {0}
    /\ MaxItemAttempts \in Nat \ {0}
    /\ FailureStreak \in Nat \ {0}
    /\ Overruns \in BOOLEAN
ASSUME BoundsAssumption ==
    /\ MaxRuns \in Nat
    /\ MaxCrashes \in Nat
    /\ MaxCancels \in Nat
    /\ MaxRetries \in Nat
    /\ MaxOverrides \in Nat

Items == 1..NumItems

VARIABLES
    job,      \* committed deck_build_jobs row
    items,    \* committed deck_build_items rows
    cards,    \* committed words rows: how many were inserted for each item
    paid,     \* enrichment calls bought for each item; the provider's bill
    pc,       \* where each worker is in run_batch
    snap,     \* the job state run_batch read when it started
    batch,    \* claimed items the worker has not processed yet
    draft,    \* the worker's DeckBuildItem entities
    dirty,    \* items save_item wrote in the worker's open transaction
    fresh,    \* items whose card words.add inserted in that transaction
    put,      \* set_job_state in that transaction, or NoState
    streak,   \* consecutive provider failures of this batch
    more,     \* BatchOutcome.has_more
    jobLock,  \* the worker whose open transaction has updated the job row
    msgs,     \* build_deck messages waiting in the AI queue
    admin,    \* the admin request in progress
    used      \* how much of each bound has been used

txn == <<snap, batch, draft, dirty, fresh, put, streak, more>>
vars == <<job, items, cards, paid, pc, txn, jobLock, msgs, admin, used>>

(***************************************************************************)
(* Rows                                                                    *)
(***************************************************************************)
NoState == "no_state"
Free == "free"

ActiveStates == {"planned", "generating"}
TerminalStates == {"completed", "partial", "cancelled"}
JobStates == ActiveStates \cup TerminalStates

JobRow == [state : JobStates, done : Int, failed : Int]

\* "done" stands for both DONE and NEEDS_REVIEW: the two differ only in
\* whether a human is asked to look.
OpenStates == {"pending", "resolving"}
ItemStates == OpenStates \cup {"done", "failed"}

ItemRow ==
    [state : ItemStates, attempts : Nat, ready : BOOLEAN,
     enriched : BOOLEAN, word : BOOLEAN, pick : {"none", "auto", "manual"}]

NewItem ==
    [state |-> "pending", attempts |-> 0, ready |-> TRUE,
     enriched |-> FALSE, word |-> FALSE, pick |-> "none"]

\* The admin's request in progress: the items a retry's UPDATE has locked, or
\* the item an override read and the row it found.
Requests ==
    [op : {"none", "cancel", "retry", "override"}, reset : SUBSET Items,
     item : Items, row : ItemRow]

NoRequest == [op |-> "none", reset |-> {}, item |-> 1, row |-> NewItem]

\* What the environment does a bounded number of times.
Budgets == {"runs", "crashes", "cancels", "retries", "overrides"}

PCs == {"idle", "begin", "mark", "select", "claim", "resolve", "halt",
        "rest", "count", "tail_count", "complete", "fail_some", "commit",
        "requeue", "ack"}

(***************************************************************************)
(* Helpers                                                                 *)
(***************************************************************************)

\* Mutant: the claim ignores how old another worker's claim is.
EligibleAnyClaim(row) == row.state = "resolving" \/ (row.state = "pending" /\ row.ready)

\* The `eligible` predicate of claim_batch.
Eligible(row) == row.state \in OpenStates /\ row.ready

\* Mutant: one attempt too many.
ExhaustedLate(attempts) == attempts > MaxItemAttempts

\* DeckBuildItem.is_exhausted, after an attempt.
Exhausted(attempts) == attempts >= MaxItemAttempts

\* The n lowest positions of S: ORDER BY position LIMIT n.
Lowest(S, n) == {i \in S : Cardinality({j \in S : j < i}) < n}

\* run_batch walks the claimed rows in position order.
NextUp(w, i) == i \in batch[w] /\ \A j \in batch[w] : i <= j

\* The rows as worker w's own transaction sees them.
View(w) == [i \in Items |-> IF i \in dirty[w] THEN draft[w][i] ELSE items[i]]

\* Mutant: a claimed item no longer counts as open.
OpenPendingOnly(rows) == {i \in Items : rows[i].state = "pending"}

OpenIn(rows) == {i \in Items : rows[i].state \in OpenStates}
FailedIn(rows) == {i \in Items : rows[i].state = "failed"}
DoneIn(rows) == {i \in Items : rows[i].state = "done"}

\* What the code writes into a row: claim_batch's UPDATE, _materialise, a
\* recorded failure, reset_failed's UPDATE, override_sense.
Claimed(row) == [row EXCEPT !.state = "resolving", !.ready = FALSE]
Built(row, enriching) ==
    [row EXCEPT !.state = "done", !.ready = FALSE, !.word = TRUE, !.pick = "auto",
                !.enriched = @ \/ enriching]
Tried(row, spent) ==
    [row EXCEPT !.state = IF Exhausted(row.attempts + 1) THEN "failed" ELSE "pending",
                !.ready = FALSE, !.attempts = @ + 1, !.enriched = @ \/ spent]
Reopened(row) == [row EXCEPT !.state = "pending", !.attempts = 0, !.ready = TRUE]
Overridden(row) == [row EXCEPT !.state = "pending", !.ready = TRUE, !.pick = "manual"]

\* Time reaches the row's next_attempt_at, or its claimed_at plus the timeout.
Aged(row) == [row EXCEPT !.ready = TRUE]

\* Items worker w's uncommitted bump_counters calls have counted.
NewlyDone(w) == {i \in dirty[w] : draft[w][i].state = "done"}
\* Mutants: every recorded failure is counted; none is.
EveryFailure(w) == {i \in dirty[w] : draft[w][i].state # "done"}
NoFailureCounted(w) == {}

NewlyFailed(w) == {i \in dirty[w] : draft[w][i].state = "failed"}

\* Mutant: the claiming UPDATE does not re-assert the predicate.
AllCandidates(w) == batch[w]

\* Candidates whose claiming UPDATE still finds them eligible.
StillEligible(w) == {i \in batch[w] : Eligible(items[i])}

\* Worker w is between claiming item i and committing what became of it.
Holds(w, i) ==
    \/ pc[w] # "claim" /\ i \in batch[w]   \* before the claim: only candidates
    \/ i \in dirty[w]

\* Row locks.  An UPDATE waits for the transaction that wrote the row before.
ItemFree(i, w) ==
    /\ \A v \in Workers \ {w} : i \notin dirty[v]
    /\ i \notin admin.reset
JobFree(w) == jobLock \in {Free, w}

Goto(w, label) == pc' = [pc EXCEPT ![w] = label]

Init ==
    /\ job = [state |-> "planned", done |-> 0, failed |-> 0]
    /\ items = [i \in Items |-> NewItem]
    /\ cards = [i \in Items |-> 0]
    /\ paid = [i \in Items |-> 0]
    /\ pc = [w \in Workers |-> "idle"]
    /\ snap = [w \in Workers |-> "planned"]
    /\ batch = [w \in Workers |-> {}]
    /\ draft = [w \in Workers |-> [i \in Items |-> NewItem]]
    /\ dirty = [w \in Workers |-> {}]
    /\ fresh = [w \in Workers |-> {}]
    /\ put = [w \in Workers |-> NoState]
    /\ streak = [w \in Workers |-> 0]
    /\ more = [w \in Workers |-> FALSE]
    /\ jobLock = Free
    /\ msgs = 0
    /\ admin = NoRequest
    /\ used = [b \in Budgets |-> 0]

(***************************************************************************)
(* Drivers: a Celery message, or a build run at a terminal                 *)
(***************************************************************************)

Count(bound, max) == used[bound] < max /\ used' = [used EXCEPT ![bound] = @ + 1]

\* An operator queues a build (build --queue, or the admin's trigger).
Enqueue ==
    /\ Count("runs", MaxRuns)
    /\ msgs' = msgs + 1
    /\ UNCHANGED <<job, items, cards, paid, pc, txn, jobLock, admin>>

\* Mutant: a batch starts without a message.
ReceiveNothing(w) ==
    /\ w \notin CliWorkers
    /\ pc[w] = "idle"
    /\ msgs' = msgs - 1
    /\ Goto(w, "begin")
    /\ UNCHANGED <<job, items, cards, paid, txn, jobLock, admin, used>>

\* A Celery worker receives the message and opens a session.
Receive(w) ==
    /\ w \notin CliWorkers
    /\ pc[w] = "idle"
    /\ msgs > 0
    /\ msgs' = msgs - 1
    /\ Goto(w, "begin")
    /\ UNCHANGED <<job, items, cards, paid, txn, jobLock, admin, used>>

\* An operator runs the build inline.
StartCli(w) ==
    /\ w \in CliWorkers
    /\ pc[w] = "idle"
    /\ Count("runs", MaxRuns)
    /\ Goto(w, "begin")
    /\ UNCHANGED <<job, items, cards, paid, txn, jobLock, msgs, admin>>

(***************************************************************************)
(* run_batch                                                               *)
(***************************************************************************)

\* get_job, and the early return on a terminal job.
ReadJob(w) ==
    /\ pc[w] = "begin"
    /\ snap' = [snap EXCEPT ![w] = job.state]
    /\ Goto(w, CASE job.state \in TerminalStates -> "commit"
                 [] job.state = "planned" -> "mark"
                 [] OTHER -> "select")
    /\ UNCHANGED <<job, items, cards, paid, batch, draft, dirty, fresh, put, streak,
                   more, jobLock, msgs, admin, used>>

\* set_job_state(GENERATING): unconditional, and not committed yet.
MarkGenerating(w) ==
    /\ pc[w] = "mark"
    /\ JobFree(w)
    /\ jobLock' = w
    /\ put' = [put EXCEPT ![w] = "generating"]
    /\ Goto(w, "select")
    /\ UNCHANGED <<job, items, cards, paid, snap, batch, draft, dirty, fresh, streak,
                   more, msgs, admin, used>>

\* claim_batch's SELECT: eligible items in position order, up to the limit.
SelectBatch(w) ==
    /\ pc[w] = "select"
    /\ LET candidates == Lowest({i \in Items : Eligible(items[i])}, BatchSize) IN
       /\ batch' = [batch EXCEPT ![w] = candidates]
       /\ Goto(w, IF candidates = {} THEN "count" ELSE "claim")
    /\ UNCHANGED <<job, items, cards, paid, snap, draft, dirty, fresh, put, streak,
                   more, jobLock, msgs, admin, used>>

\* claim_batch's UPDATEs, which re-assert the predicate row by row, its commit
\* (with the job's new state, if it was marked) and the re-read of the rows.
ClaimBatch(w) ==
    /\ pc[w] = "claim"
    /\ \A i \in batch[w] : ItemFree(i, w)
    /\ LET claimed == StillEligible(w)
           rows == [i \in Items |-> IF i \in claimed THEN Claimed(items[i]) ELSE items[i]]
       IN IF claimed = {}
          THEN /\ batch' = [batch EXCEPT ![w] = {}]
               /\ Goto(w, "count")
               /\ UNCHANGED <<job, items, draft, put, jobLock>>
          ELSE /\ items' = rows
               /\ job' = [job EXCEPT !.state = IF put[w] = NoState THEN @ ELSE put[w]]
               /\ put' = [put EXCEPT ![w] = NoState]
               /\ jobLock' = IF jobLock = w THEN Free ELSE jobLock
               /\ batch' = [batch EXCEPT ![w] = claimed]
               /\ draft' = [draft EXCEPT ![w] =
                              [i \in Items |-> IF i \in claimed THEN rows[i] ELSE NewItem]]
               /\ Goto(w, "resolve")
    /\ UNCHANGED <<cards, paid, snap, dirty, fresh, streak, more, msgs, admin, used>>

\* _wants_enrichment, for an item whose hint no confident strategy satisfies.
WantsEnrichment(w, i) == i \in Pinned /\ ~draft[w][i].enriched

\* After an item: the next one, or the end of the loop.
AfterItem(w, i) == IF batch[w] = {i} THEN "rest" ELSE "resolve"

\* _materialise: the card a retried item already has is rewritten in place.
Materialised(w, i) ==
    IF draft[w][i].word THEN fresh ELSE [fresh EXCEPT ![w] = @ \cup {i}]

\* _resolve returned: look up or buy the word, enrich it if the deck asked for
\* more, choose a sense, _materialise the card, save_item, bump_counters.
ResolveItem(w, i) ==
    /\ pc[w] = "resolve"
    /\ NextUp(w, i)
    /\ ItemFree(i, w)
    /\ JobFree(w)
    /\ LET enriching == WantsEnrichment(w, i)
       IN /\ paid' = IF enriching THEN [paid EXCEPT ![i] = @ + 1] ELSE paid
          /\ draft' = [draft EXCEPT ![w][i] = Built(@, enriching)]
          /\ fresh' = Materialised(w, i)
          /\ dirty' = [dirty EXCEPT ![w] = @ \cup {i}]
          /\ batch' = [batch EXCEPT ![w] = @ \ {i}]
          /\ Goto(w, AfterItem(w, i))
    /\ jobLock' = w
    /\ streak' = [streak EXCEPT ![w] = 0]
    /\ UNCHANGED <<job, items, cards, snap, put, more, msgs, admin, used>>

\* _resolve raised: _record_failure, then the streak.  `provider` says whether
\* the failure was the provider's, `called` whether a call had been counted on
\* the job row before it, `spent` whether it came after the enrichment call.
FailItem(w, i, provider, called, spent) ==
    /\ pc[w] = "resolve"
    /\ NextUp(w, i)
    /\ ItemFree(i, w)
    /\ LET exhausted == Exhausted(draft[w][i].attempts + 1)
           bumps == called \/ exhausted
           run == IF provider THEN streak[w] + 1 ELSE streak[w]
           halting == run >= FailureStreak
       IN /\ bumps => JobFree(w)
          /\ spent => WantsEnrichment(w, i)
          /\ paid' = IF spent THEN [paid EXCEPT ![i] = @ + 1] ELSE paid
          /\ draft' = [draft EXCEPT ![w][i] = Tried(@, spent)]
          /\ dirty' = [dirty EXCEPT ![w] = @ \cup {i}]
          /\ streak' = [streak EXCEPT ![w] = run]
          /\ jobLock' = IF bumps THEN w ELSE jobLock
          /\ batch' = [batch EXCEPT ![w] = IF halting THEN {} ELSE @ \ {i}]
          /\ Goto(w, IF halting THEN "halt" ELSE AfterItem(w, i))
    /\ UNCHANGED <<job, items, cards, snap, fresh, put, more, msgs, admin, used>>

\* _halt: the rest of the claimed batch is left as it is.
Halt(w) ==
    /\ pc[w] = "halt"
    /\ JobFree(w)
    /\ jobLock' = w
    /\ put' = [put EXCEPT ![w] = "partial"]
    /\ Goto(w, "commit")
    /\ UNCHANGED <<job, items, cards, paid, snap, batch, draft, dirty, fresh, streak,
                   more, msgs, admin, used>>

\* has_open_items, after the last item of the batch.
AnyLeft(w) ==
    /\ pc[w] = "rest"
    /\ more' = [more EXCEPT ![w] = OpenIn(View(w)) # {}]
    /\ Goto(w, IF more'[w] THEN "commit" ELSE "tail_count")
    /\ UNCHANGED <<job, items, cards, paid, snap, batch, draft, dirty, fresh, put, streak,
                   jobLock, msgs, admin, used>>

\* _finalise reads count_by_state.  Called with nothing to claim it reports
\* has_more itself; called at the end of a batch its has_more is discarded.
CountItems(w) ==
    /\ pc[w] \in {"count", "tail_count"}
    /\ more' = [more EXCEPT ![w] = pc[w] = "count" /\ OpenIn(View(w)) # {}]
    /\ Goto(w, CASE OpenIn(View(w)) # {} -> "commit"
                 [] FailedIn(View(w)) # {} -> "fail_some"
                 [] OTHER -> "complete")
    /\ UNCHANGED <<job, items, cards, paid, snap, batch, draft, dirty, fresh, put, streak,
                   jobLock, msgs, admin, used>>

\* _finalise writes the state it decided on.
SettleJob(w) ==
    /\ pc[w] \in {"complete", "fail_some"}
    /\ JobFree(w)
    /\ jobLock' = w
    /\ put' = [put EXCEPT ![w] = IF pc[w] = "complete" THEN "completed" ELSE "partial"]
    /\ Goto(w, "commit")
    /\ UNCHANGED <<job, items, cards, paid, snap, batch, draft, dirty, fresh, streak,
                   more, msgs, admin, used>>

\* What the end of a transaction leaves of worker w's session.
ForgetTxn(w) ==
    /\ snap' = [snap EXCEPT ![w] = "planned"]
    /\ batch' = [batch EXCEPT ![w] = {}]
    /\ draft' = [draft EXCEPT ![w] = [i \in Items |-> NewItem]]
    /\ dirty' = [dirty EXCEPT ![w] = {}]
    /\ fresh' = [fresh EXCEPT ![w] = {}]
    /\ put' = [put EXCEPT ![w] = NoState]
    /\ streak' = [streak EXCEPT ![w] = 0]
    /\ more' = [more EXCEPT ![w] = FALSE]
    /\ jobLock' = IF jobLock = w THEN Free ELSE jobLock

\* What a driver does after its batch: the task queues the next one while work
\* remains; a terminal run goes on to it, unless this batch found nothing to
\* claim or the run has used up its --max-batches.
AfterBatch(w) ==
    IF w \in CliWorkers
    THEN IF more[w] /\ dirty[w] # {} THEN {"begin", "idle"} ELSE {"idle"}
    ELSE IF more[w] THEN {"requeue"} ELSE {"ack"}

\* The driver's commit: the batch's rows, cards and counters become visible.
CommitBatch(w) ==
    /\ pc[w] = "commit"
    /\ items' = View(w)
    /\ cards' = [i \in Items |-> IF i \in fresh[w] THEN cards[i] + 1 ELSE cards[i]]
    /\ job' = [state |-> IF put[w] = NoState THEN job.state ELSE put[w],
               done |-> job.done + Cardinality(NewlyDone(w)),
               failed |-> job.failed + Cardinality(NewlyFailed(w))]
    /\ \E label \in AfterBatch(w) : Goto(w, label)
    /\ ForgetTxn(w)
    /\ UNCHANGED <<paid, msgs, admin, used>>

\* build_deck.apply_async, after the batch is committed.
Requeue(w) ==
    /\ pc[w] = "requeue"
    /\ msgs' = msgs + 1
    /\ Goto(w, "ack")
    /\ UNCHANGED <<job, items, cards, paid, txn, jobLock, admin, used>>

\* task_acks_late: the message is gone only now.
Ack(w) ==
    /\ pc[w] = "ack"
    /\ Goto(w, "idle")
    /\ UNCHANGED <<job, items, cards, paid, txn, jobLock, msgs, admin, used>>

\* Mutant: the message is acknowledged when it is received.
CrashAckedEarly(w) ==
    /\ pc[w] # "idle"
    /\ Count("crashes", MaxCrashes)
    /\ Goto(w, "idle")
    /\ ForgetTxn(w)
    /\ UNCHANGED <<job, items, cards, paid, msgs, admin>>

\* The process dies, or its batch raises: the open transaction rolls back, and
\* a Celery message is delivered again.  Committed claims stay.
Crash(w) ==
    /\ pc[w] # "idle"
    /\ Count("crashes", MaxCrashes)
    /\ msgs' = IF w \in CliWorkers THEN msgs ELSE msgs + 1
    /\ Goto(w, "idle")
    /\ ForgetTxn(w)
    /\ UNCHANGED <<job, items, cards, paid, admin>>

(***************************************************************************)
(* Time                                                                    *)
(***************************************************************************)

BackoffElapses(i) ==
    /\ items[i].state = "pending" /\ ~items[i].ready
    /\ items' = [items EXCEPT ![i] = Aged(@)]
    /\ UNCHANGED <<job, cards, paid, pc, txn, jobLock, msgs, admin, used>>

\* Mutant: a live worker's claim ages out.
ClaimExpiresAnyway(i) ==
    /\ items[i].state = "resolving" /\ ~items[i].ready
    /\ items' = [items EXCEPT ![i] = Aged(@)]
    /\ UNCHANGED <<job, cards, paid, pc, txn, jobLock, msgs, admin, used>>

\* A Celery batch is killed at task_time_limit, which is the claim timeout, so
\* its claims never age out under it.  A terminal run has no such limit.
ClaimExpires(i) ==
    /\ items[i].state = "resolving" /\ ~items[i].ready
    /\ Overruns \/ \A w \in Workers : ~Holds(w, i)
    /\ items' = [items EXCEPT ![i] = Aged(@)]
    /\ UNCHANGED <<job, cards, paid, pc, txn, jobLock, msgs, admin, used>>

(***************************************************************************)
(* The admin's requests, each one HTTP transaction                         *)
(***************************************************************************)

\* cancel: get_job, early return on a terminal one.
CancelRead ==
    /\ admin.op = "none"
    /\ job.state \notin TerminalStates
    /\ Count("cancels", MaxCancels)
    /\ admin' = [admin EXCEPT !.op = "cancel"]
    /\ UNCHANGED <<job, items, cards, paid, pc, txn, jobLock, msgs>>

CancelWrite ==
    /\ admin.op = "cancel"
    /\ jobLock = Free
    /\ job' = [job EXCEPT !.state = "cancelled"]
    /\ admin' = NoRequest
    /\ UNCHANGED <<items, cards, paid, pc, txn, jobLock, msgs, used>>

\* retry_failed: reset_failed's UPDATE of the items takes their row locks ...
RetryReset ==
    /\ admin.op = "none"
    /\ FailedIn(items) # {}
    /\ \A i \in FailedIn(items), w \in Workers : i \notin dirty[w]
    /\ Count("retries", MaxRetries)
    /\ admin' = [admin EXCEPT !.op = "retry", !.reset = FailedIn(items)]
    /\ UNCHANGED <<job, items, cards, paid, pc, txn, jobLock, msgs>>

\* ... then the job row is updated twice, and the request commits.
RetryReopen ==
    /\ admin.op = "retry"
    /\ jobLock = Free
    /\ items' = [i \in Items |-> IF i \in admin.reset THEN Reopened(items[i]) ELSE items[i]]
    /\ job' = [job EXCEPT !.state = "generating",
                          !.failed = @ - Cardinality(admin.reset)]
    /\ admin' = NoRequest
    /\ UNCHANGED <<cards, paid, pc, txn, jobLock, msgs, used>>

\* override_sense reads the item ...
OverrideRead(i) ==
    /\ admin.op = "none"
    /\ Count("overrides", MaxOverrides)
    /\ admin' = [admin EXCEPT !.op = "override", !.item = i, !.row = items[i]]
    /\ UNCHANGED <<job, items, cards, paid, pc, txn, jobLock, msgs>>

\* ... and saves the whole row it read, with a human's choice in it.
OverrideWrite ==
    /\ admin.op = "override"
    /\ \A w \in Workers : admin.item \notin dirty[w]
    /\ items' = [items EXCEPT ![admin.item] = Overridden(admin.row)]
    /\ admin' = NoRequest
    /\ UNCHANGED <<job, cards, paid, pc, txn, jobLock, msgs, used>>

(***************************************************************************)
(* The system                                                              *)
(***************************************************************************)

BatchStep(w) ==
    \/ ReadJob(w)
    \/ MarkGenerating(w)
    \/ SelectBatch(w)
    \/ ClaimBatch(w)
    \/ \E i \in Items : ResolveItem(w, i)
    \/ \E i \in Items, provider, called, spent \in BOOLEAN :
          FailItem(w, i, provider, called, spent)
    \/ Halt(w)
    \/ AnyLeft(w)
    \/ CountItems(w)
    \/ SettleJob(w)
    \/ CommitBatch(w)
    \/ Requeue(w)
    \/ Ack(w)

Clock(i) == BackoffElapses(i) \/ ClaimExpires(i)

Admin ==
    \/ CancelRead \/ CancelWrite
    \/ RetryReset \/ RetryReopen
    \/ \E i \in Items : OverrideRead(i)
    \/ OverrideWrite

Next ==
    \/ Enqueue
    \/ \E w \in Workers : Receive(w) \/ StartCli(w) \/ BatchStep(w) \/ Crash(w)
    \/ \E i \in Items : Clock(i)
    \/ Admin

Spec == Init /\ [][Next]_vars

\* What the deployment keeps doing on its own: a Celery worker takes a message
\* that is there and goes on with its batch, the clock runs, an HTTP request
\* that started finishes.  Operators, admins and crashes owe nothing.
Fairness ==
    /\ \A w \in Workers : WF_vars(Receive(w)) /\ WF_vars(BatchStep(w))
    /\ \A i \in Items : WF_vars(Clock(i))
    /\ WF_vars(CancelWrite \/ RetryReopen \/ OverrideWrite)

FairSpec == Spec /\ Fairness

(***************************************************************************)
(* What must hold                                                          *)
(***************************************************************************)

\* Every variable keeps to its domain (models: the columns and the worker's
\* entities of deck_build_service.py).
TypeOK ==
    /\ job \in JobRow
    /\ items \in [Items -> ItemRow]
    /\ cards \in [Items -> Nat]
    /\ paid \in [Items -> Nat]
    /\ pc \in [Workers -> PCs]
    /\ snap \in [Workers -> JobStates]
    /\ batch \in [Workers -> SUBSET Items]
    /\ draft \in [Workers -> [Items -> ItemRow]]
    /\ dirty \in [Workers -> SUBSET Items]
    /\ fresh \in [Workers -> SUBSET Items]
    /\ put \in [Workers -> JobStates \cup {NoState}]
    /\ streak \in [Workers -> Nat]
    /\ more \in [Workers -> BOOLEAN]
    /\ jobLock \in Workers \cup {Free}
    /\ msgs \in Nat
    /\ admin \in Requests
    /\ used \in [Budgets -> Nat]

\* Two live workers never work on the same item, however messages are
\* duplicated and workers killed: what the conditional claim is for.
OneOwner ==
    \A i \in Items : \A v, w \in Workers : Holds(v, i) /\ Holds(w, i) => v = w

\* The progress an admin reads on the job row is exact after every commit,
\* crashes and retries included.
CountersExact ==
    /\ job.done = Cardinality(DoneIn(items))
    /\ job.failed = Cardinality(FailedIn(items))

\* A job reported complete has a card for every word of its template, also
\* when the last batches of two drivers and an admin's retry interleave.
CompletedMeansBuilt ==
    job.state = "completed" => \A i \in Items : items[i].state = "done"

\* A built item has exactly one card in the deck and an unbuilt one has none,
\* whichever worker was killed while it held the item.
OneCardPerItem ==
    \A i \in Items : cards[i] = IF items[i].state = "done" THEN 1 ELSE 0

\* No word is attempted more than MAX_ITEM_ATTEMPTS times between two retries
\* by an admin, across workers, crashes and redelivered messages.
AttemptsBounded == \A i \in Items : items[i].attempts <= MaxItemAttempts

\* Whatever overruns its claim and whatever an admin overrides meanwhile, the
\* job row never reports fewer words finished than are, and no finished word
\* is without a card.
NeverUnderReports ==
    /\ job.done >= Cardinality(DoneIn(items))
    /\ job.failed >= Cardinality(FailedIn(items))
    /\ \A i \in DoneIn(items) : cards[i] >= 1

\* What a reader of the job sees of an item.
Outcome(row) ==
    CASE row.state = "done" -> "ok"
      [] row.state = "failed" -> "failed"
      [] OTHER -> "open"

Ledger == INSTANCE BuildLedger WITH
    outcome <- [i \in Items |-> Outcome(items[i])],
    done <- job.done,
    failed <- job.failed

\* The pipeline implements the ledger a reader of the job can rely on: cards,
\* outcomes and both counters move together, a finished word stays finished
\* (models: what run_batch publishes and retry_failed takes back).
ImplementsLedger == Ledger!Spec

\* Some Celery message or batch is still driving the build.
Driven == msgs > 0 \/ \E w \in Workers \ CliWorkers : pc[w] # "idle"

\* A build that is being driven reaches a terminal state by itself: no crash,
\* backoff or abandoned claim leaves it generating for ever.
BuildSettles == Driven /\ job.state \in ActiveStates ~> job.state \in TerminalStates

(***************************************************************************)
(* What the code's own words say                                           *)
(***************************************************************************)

\* deck_build_service.py:469: "Marked spent on the item before the call, so a
\* failure mid-enrichment cannot turn into a second one on the retry. One paid
\* attempt per word per deck, whatever happens to it."
EnrichmentPaidOnce == \A i \in Items : paid[i] <= 1

\* deck_build_service.py:551: "Rewriting rather than inserting on a retry, so
\* an item resolved twice leaves one card rather than two."
NoSecondCard == \A i \in Items : cards[i] <= 1

\* deck_build_service.py:615: a halted job is left PARTIAL because
\* "reset_failed plus one more run picks up exactly where this stopped".  Only
\* a job with a failed item is reopened by it.
HaltIsResumable ==
    job.state = "partial" /\ OpenIn(items) # {} => FailedIn(items) # {}

\* deck_build_service.py:634: "Settle the job once no item is open."
SettledWhenFinished ==
    job.state \in {"completed", "partial"} => OpenIn(items) = {}

\* deck_build_service.py:659: "Cancelling stops new work".  Only a retry
\* brings a cancelled job back.
CancelSticks == [][job.state = "cancelled" => job'.state = "cancelled"]_vars

\* content_admin_service.py:145: an override "records SenseSelection.MANUAL,
\* which outranks every automatic strategy".
ManualChoiceKept ==
    [][\A i \in Items : items[i].pick = "manual" => items'[i].pick = "manual"]_vars

\* deck_build_service.py:20: "No transaction is ever held open across the
\* network."  A worker about to resolve an item is about to make its calls.
NoTransactionAcrossNetwork == \A w \in Workers : pc[w] = "resolve" => dirty[w] = {}

\* tasks/deck_build.py:73: "Resolve one batch of a build, then queue the next
\* while work remains."
QueuesWhileWorkRemains ==
    \A w \in Workers :
        pc[w] = "commit" /\ snap[w] \in ActiveStates /\ put[w] = NoState /\ ~more[w]
            => OpenIn(View(w)) = {}
=============================================================================
