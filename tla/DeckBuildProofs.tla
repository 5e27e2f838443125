-------------------------- MODULE DeckBuildProofs --------------------------
(***************************************************************************)
(* What holds of a deck build for every template, every set of workers,    *)
(* every batch size and every number of crashes, retries and cancels: as   *)
(* long as no batch outlives its claim and no admin overrides a sense, and *)
(* (NothingUnderReported) also when they do.                               *)
(***************************************************************************)
EXTENDS DeckBuild, FiniteSetTheorems, TLAPS

\* The two things the pipeline's safety rests on.
Undisturbed == ~Overruns /\ MaxOverrides = 0

\* Where a worker holds nothing, and where it has nothing left to process.
Empty == {"idle", "begin", "mark", "select", "requeue", "ack"}
Drained == {"halt", "rest", "count", "tail_count", "complete", "fail_some", "commit"}

\* A worker's entities agree with the place it has reached.
Session(w) ==
    /\ pc[w] \in Empty => batch[w] = {}
    /\ pc[w] \in Empty \cup {"claim"} => dirty[w] = {}
    /\ pc[w] \in Drained => batch[w] = {}
    /\ pc[w] = "resolve" => batch[w] \cap dirty[w] = {}
    /\ fresh[w] = NewlyDone(w)

\* A claimed item is marked so, unexpired, until its holder commits.
Held(w, i) ==
    /\ items[i].state = "resolving" /\ ~items[i].ready
    /\ draft[w][i].word <=> draft[w][i].state = "done"
    /\ draft[w][i].attempts <= MaxItemAttempts
    /\ draft[w][i].state \in OpenStates => draft[w][i].attempts < MaxItemAttempts
    /\ i \in batch[w] => draft[w][i].state = "resolving"
    /\ i \in dirty[w] => draft[w][i].state # "resolving"

\* A committed row agrees with the deck and with its own attempt count.
Row(i) ==
    /\ items[i].word <=> items[i].state = "done"
    /\ cards[i] = IF items[i].state = "done" THEN 1 ELSE 0
    /\ items[i].attempts <= MaxItemAttempts
    /\ items[i].state \in OpenStates => items[i].attempts < MaxItemAttempts

\* The rows a retry has locked are still the failed ones it found.
Request ==
    /\ admin.op # "override"
    /\ admin.op # "retry" => admin.reset = {}
    /\ \A i \in admin.reset : items[i].state = "failed"

IInv ==
    /\ TypeOK
    /\ \A w \in Workers : Session(w)
    /\ \A w \in Workers, i \in Items : Holds(w, i) => Held(w, i)
    /\ \A i \in Items : Row(i)
    /\ Request
    /\ OneOwner
    /\ CountersExact

-----------------------------------------------------------------------------
(***************************************************************************)
(* Counting                                                                *)
(***************************************************************************)

\* Every set of items can be counted.
LEMMA ItemSets ==
    ASSUME NEW S \in SUBSET Items
    PROVE  IsFiniteSet(S) /\ Cardinality(S) \in Nat
<1>1. IsFiniteSet(Items)
    BY NumItemsAssumption, FS_Interval DEF Items
<1>2. IsFiniteSet(S)
    BY <1>1, FS_Subset
<1> QED
    BY <1>2, FS_CardinalityType

\* Sets of items that do not overlap add up.
LEMMA DisjointUnion ==
    ASSUME NEW S \in SUBSET Items, NEW T \in SUBSET Items, S \cap T = {}
    PROVE  Cardinality(S \cup T) = Cardinality(S) + Cardinality(T)
<1>1. IsFiniteSet(S) /\ IsFiniteSet(T)
    BY ItemSets
<1>2. Cardinality(S \cup T) = Cardinality(S) + Cardinality(T) - Cardinality(S \cap T)
    BY <1>1, FS_Union
<1>3. Cardinality(S \cap T) = 0
    BY FS_EmptySet
<1>4. Cardinality(S) \in Nat /\ Cardinality(T) \in Nat
    BY ItemSets
<1> QED
    BY <1>2, <1>3, <1>4

-----------------------------------------------------------------------------
(***************************************************************************)
(* Types                                                                   *)
(***************************************************************************)

LEMMA InitTypeOK == Init => TypeOK
BY NumItemsAssumption DEF Init, TypeOK, JobRow, Budgets, Items, NewItem, NoRequest, Requests, ItemRow, PCs, JobStates,
   ActiveStates, TerminalStates, NoState, Free, ItemStates, OpenStates

\* The rows a worker sees are rows, and no set of items is too big to count.
LEMMA ViewType ==
    ASSUME TypeOK, NEW w \in Workers
    PROVE  /\ View(w) \in [Items -> ItemRow]
           /\ Cardinality(NewlyDone(w)) \in Nat
           /\ Cardinality(NewlyFailed(w)) \in Nat
<1>1. View(w) \in [Items -> ItemRow]
    BY DEF TypeOK, View
<1>2. dirty[w] \in SUBSET Items
    BY DEF TypeOK
<1>3. NewlyDone(w) \in SUBSET Items /\ NewlyFailed(w) \in SUBSET Items
    BY <1>2 DEF NewlyDone, NewlyFailed
<1> QED
    BY <1>1, <1>3, ItemSets

LEMMA NewItemType == NewItem \in ItemRow
BY DEF NewItem, ItemRow, ItemStates, OpenStates

\* Whatever the code writes into a row, it stays a row.
LEMMA Rewrites ==
    ASSUME NEW r \in ItemRow
    PROVE  /\ Claimed(r) \in ItemRow
           /\ Reopened(r) \in ItemRow
           /\ Overridden(r) \in ItemRow
           /\ Aged(r) \in ItemRow
BY DEF Claimed, Reopened, Overridden, Aged, ItemRow, ItemStates, OpenStates

LEMMA Outcomes ==
    ASSUME NEW r \in ItemRow, NEW extra \in BOOLEAN
    PROVE  Built(r, extra) \in ItemRow /\ Tried(r, extra) \in ItemRow
<1> DEFINE state == IF Exhausted(r.attempts + 1) THEN "failed" ELSE "pending"
           attempts == r.attempts + 1
           enriched == r.enriched \/ extra
<1>1. state \in ItemStates /\ attempts \in Nat /\ enriched \in BOOLEAN
    BY DEF ItemRow, ItemStates, OpenStates
<1> HIDE DEF state, attempts, enriched
<1>2. \A b \in BOOLEAN :
        [r EXCEPT !.state = "done", !.ready = FALSE, !.word = TRUE, !.pick = "auto",
                  !.enriched = b] \in ItemRow
    BY DEF ItemRow, ItemStates
<1>3. \A b \in BOOLEAN :
        [r EXCEPT !.state = state, !.ready = FALSE, !.attempts = attempts,
                  !.enriched = b] \in ItemRow
    BY <1>1 DEF ItemRow
<1> QED
    BY <1>1, <1>2, <1>3, Zenon DEF Built, Tried, state, attempts, enriched

\* A job row stays one when its state is set and its counters are bumped.
LEMMA JobUpdates ==
    ASSUME NEW j \in JobRow, NEW s \in JobStates
    PROVE  /\ [j EXCEPT !.state = s] \in JobRow
           /\ [j EXCEPT !.state = "cancelled"] \in JobRow
           /\ \A m, n \in Nat :
                /\ [state |-> s, done |-> j.done + m, failed |-> j.failed + n] \in JobRow
                /\ [j EXCEPT !.state = "generating", !.failed = @ - n] \in JobRow
<1>1. ASSUME NEW m \in Nat, NEW n \in Nat
      PROVE  /\ [state |-> s, done |-> j.done + m, failed |-> j.failed + n] \in JobRow
             /\ [j EXCEPT !.state = "generating", !.failed = @ - n] \in JobRow
  <2>1. j.done + m \in Int /\ j.failed + n \in Int /\ j.failed - n \in Int
      BY DEF JobRow
  <2> QED
      BY <2>1 DEF JobRow, JobStates, ActiveStates
<1>2. [j EXCEPT !.state = s] \in JobRow /\ [j EXCEPT !.state = "cancelled"] \in JobRow
    BY DEF JobRow, JobStates, TerminalStates
<1> QED
    BY <1>1, <1>2

\* What an admin starts is a request.
LEMMA NewRequests ==
    ASSUME NEW a \in Requests
    PROVE  /\ [a EXCEPT !.op = "cancel"] \in Requests
           /\ \A S \in SUBSET Items : [a EXCEPT !.op = "retry", !.reset = S] \in Requests
           /\ \A i \in Items, r \in ItemRow :
                [a EXCEPT !.op = "override", !.item = i, !.row = r] \in Requests
BY DEF Requests

\* Every step keeps every variable in its domain.
LEMMA NextTypeOK ==
    ASSUME TypeOK, Next
    PROVE  TypeOK'
<1> USE DEF TypeOK, JobRow, Count, Budgets, Goto, txn
<1>1. CASE Enqueue
    BY <1>1 DEF Enqueue
<1>2. ASSUME NEW w \in Workers, Receive(w) \/ StartCli(w)
      PROVE  TypeOK'
  <2>1. CASE Receive(w)
      BY <2>1 DEF Receive, PCs
  <2>2. CASE StartCli(w)
      BY <2>2 DEF StartCli, PCs
  <2> QED
      BY <1>2, <2>1, <2>2
<1>3. ASSUME NEW w \in Workers, BatchStep(w)
      PROVE  TypeOK'
  <2>1. CASE ReadJob(w)
    <3>1. job.state \in JobStates
        OBVIOUS
    <3>2. pc'[w] \in PCs
        BY <2>1, <3>1 DEF ReadJob, PCs
    <3> QED
        BY <2>1, <3>1, <3>2 DEF ReadJob
  <2>2. CASE MarkGenerating(w)
      BY <2>2 DEF MarkGenerating, PCs, JobStates, ActiveStates
  <2>3. CASE SelectBatch(w)
      BY <2>3 DEF SelectBatch, PCs, Lowest
  <2>4. CASE ClaimBatch(w)
    <3> DEFINE claimed == StillEligible(w)
               rows == [i \in Items |-> IF i \in claimed
                          THEN Claimed(items[i])
                          ELSE items[i]]
               held == [i \in Items |-> IF i \in claimed THEN rows[i] ELSE NewItem]
    <3>1. rows \in [Items -> ItemRow]
        BY Rewrites
    <3>2. held \in [Items -> ItemRow]
        BY <3>1, NewItemType
    <3>3. claimed \in SUBSET Items
        BY DEF StillEligible
    <3>4. CASE claimed = {}
        BY <2>4, <3>4 DEF ClaimBatch, PCs
    <3>5. CASE claimed # {}
      <4> HIDE DEF rows, claimed
      <4>1. /\ items' = rows
            /\ draft' = [draft EXCEPT ![w] = held]
            /\ job' = [job EXCEPT !.state = IF put[w] = NoState THEN @ ELSE put[w]]
            /\ put' = [put EXCEPT ![w] = NoState]
            /\ jobLock' = IF jobLock = w THEN Free ELSE jobLock
            /\ batch' = [batch EXCEPT ![w] = claimed]
            /\ pc' = [pc EXCEPT ![w] = "resolve"]
          BY <2>4, <3>5 DEF ClaimBatch, rows, claimed
      <4>2. job' \in JobRow
          BY <4>1 DEF NoState
      <4> HIDE DEF held
      <4> QED
          BY <2>4, <3>1, <3>2, <3>3, <4>1, <4>2 DEF ClaimBatch, PCs
    <3> QED
        BY <3>4, <3>5
  <2>5. ASSUME NEW i \in Items, ResolveItem(w, i)
        PROVE  TypeOK'
    <3>1. WantsEnrichment(w, i) \in BOOLEAN
        BY DEF WantsEnrichment
    <3>2. draft' \in [Workers -> [Items -> ItemRow]]
        BY <2>5, <3>1, Outcomes DEF ResolveItem, Materialised
    <3>3. pc'[w] \in PCs
        BY <2>5 DEF ResolveItem, Materialised, AfterItem, PCs
    <3> QED
        BY <2>5, <3>2, <3>3 DEF ResolveItem, Materialised
  <2>6. ASSUME NEW i \in Items, NEW provider \in BOOLEAN, NEW called \in BOOLEAN,
               NEW spent \in BOOLEAN, FailItem(w, i, provider, called, spent)
        PROVE  TypeOK'
    <3>1. draft' \in [Workers -> [Items -> ItemRow]]
        BY <2>6, Outcomes DEF FailItem
    <3>2. pc'[w] \in PCs
        BY <2>6 DEF FailItem, AfterItem, PCs
    <3> QED
        BY <2>6, <3>1, <3>2 DEF FailItem
  <2>7. CASE Halt(w)
      BY <2>7 DEF Halt, PCs, JobStates, TerminalStates
  <2>8. CASE AnyLeft(w)
      BY <2>8 DEF AnyLeft, PCs
  <2>9. CASE CountItems(w)
    <3>1. pc'[w] \in PCs
        BY <2>9 DEF CountItems, PCs
    <3> QED
        BY <2>9, <3>1 DEF CountItems
  <2>10. CASE SettleJob(w)
      BY <2>10 DEF SettleJob, PCs, JobStates, TerminalStates
  <2>11. CASE CommitBatch(w)
    <3>1. pc'[w] \in PCs
        BY <2>11 DEF CommitBatch, AfterBatch, Goto, PCs
    <3>2. job' \in JobRow
        BY <2>11, ViewType DEF CommitBatch
    <3>3. items' \in [Items -> ItemRow] /\ cards' \in [Items -> Nat]
        BY <2>11, ViewType DEF CommitBatch
    <3> QED
        BY <2>11, <3>1, <3>2, <3>3, NewItemType DEF CommitBatch, ForgetTxn, JobStates, ActiveStates
  <2>12. CASE Requeue(w)
      BY <2>12 DEF Requeue, PCs
  <2>13. CASE Ack(w)
      BY <2>13 DEF Ack, PCs
  <2> QED
      BY <1>3, <2>1, <2>2, <2>3, <2>4, <2>5, <2>6, <2>7, <2>8, <2>9, <2>10, <2>11, <2>12, <2>13
      DEF BatchStep
<1>4. ASSUME NEW w \in Workers, Crash(w)
      PROVE  TypeOK'
    BY <1>4, NewItemType DEF Crash, ForgetTxn, PCs, JobStates, ActiveStates
<1>5. ASSUME NEW i \in Items, Clock(i)
      PROVE  TypeOK'
  <2>1. Aged(items[i]) \in ItemRow
      BY Rewrites
  <2>2. items' = [items EXCEPT ![i] = Aged(items[i])]
      BY <1>5 DEF Clock, BackoffElapses, ClaimExpires
  <2>3. items' \in [Items -> ItemRow]
      BY <2>1, <2>2
  <2> QED
      BY <1>5, <2>3 DEF Clock, BackoffElapses, ClaimExpires
<1>6. CASE Admin
  <2>0. NoRequest \in Requests
      BY NewItemType, NumItemsAssumption DEF NoRequest, Requests, Items
  <2>1. CASE CancelRead
    <3>1. admin' \in Requests
        BY <2>1, NewRequests DEF CancelRead
    <3> QED
        BY <2>1, <3>1 DEF CancelRead
  <2>2. CASE CancelWrite
      BY <2>0, <2>2 DEF CancelWrite, JobStates, TerminalStates
  <2>3. CASE RetryReset
    <3>1. FailedIn(items) \in SUBSET Items
        BY DEF FailedIn
    <3>2. admin' \in Requests
        BY <2>3, <3>1, NewRequests DEF RetryReset
    <3> QED
        BY <2>3, <3>2 DEF RetryReset
  <2>4. CASE RetryReopen
    <3>1. Cardinality(admin.reset) \in Nat
        BY ItemSets DEF Requests
    <3>2. items' \in [Items -> ItemRow]
        BY <2>4, Rewrites DEF RetryReopen
    <3>3. job' \in JobRow
        BY <2>4, <3>1, JobUpdates DEF RetryReopen
    <3> QED
        BY <2>0, <2>4, <3>2, <3>3 DEF RetryReopen
  <2>5. ASSUME NEW i \in Items, OverrideRead(i)
        PROVE  TypeOK'
    <3>1. items[i] \in ItemRow /\ admin \in Requests
        OBVIOUS
    <3>2. admin' \in Requests
        BY <2>5, <3>1, NewRequests DEF OverrideRead
    <3> QED
        BY <2>5, <3>2 DEF OverrideRead
  <2>6. CASE OverrideWrite
    <3>1. Overridden(admin.row) \in ItemRow
        BY Rewrites DEF Requests
    <3> QED
        BY <2>0, <2>6, <3>1 DEF OverrideWrite
  <2> QED
      BY <1>6, <2>1, <2>2, <2>3, <2>4, <2>5, <2>6 DEF Admin
<1> QED
    BY <1>1, <1>2, <1>3, <1>4, <1>5, <1>6 DEF Next

\* The variables keep to their domains, for every value of the constants
\* (deck_build_service.py's rows and entities).
THEOREM TypeCorrect == Spec => []TypeOK
<1>1. Init => TypeOK
    BY InitTypeOK
<1>2. TypeOK /\ [Next]_vars => TypeOK'
  <2>1. CASE Next
      BY <2>1, NextTypeOK
  <2>2. CASE UNCHANGED vars
      BY <2>2 DEF vars, txn, TypeOK
  <2> QED
      BY <2>1, <2>2
<1> QED
    BY <1>1, <1>2, PTL DEF Spec

-----------------------------------------------------------------------------
(***************************************************************************)
(* Safety                                                                  *)
(*                                                                         *)
(* Most steps change one worker's session and nothing anybody else sees:   *)
(* LocalStep says what they have to show.  The five steps that write       *)
(* committed rows (claim, commit, clock, retry, cancel) are taken apart    *)
(* one by one.                                                             *)
(***************************************************************************)

\* The fields of a rewritten row the invariant reads.
LEMMA Fields ==
    ASSUME NEW r \in ItemRow
    PROVE  /\ Claimed(r).state = "resolving" /\ ~Claimed(r).ready
           /\ Claimed(r).attempts = r.attempts /\ (Claimed(r).word <=> r.word)
           /\ Reopened(r).state = "pending" /\ Reopened(r).attempts = 0
           /\ (Reopened(r).word <=> r.word)
           /\ Aged(r).state = r.state /\ Aged(r).attempts = r.attempts
           /\ (Aged(r).word <=> r.word)
           /\ \A extra : Built(r, extra).state = "done" /\ Built(r, extra).word
                         /\ Built(r, extra).attempts = r.attempts
           /\ \A extra : /\ Tried(r, extra).attempts = r.attempts + 1
                         /\ (Tried(r, extra).word <=> r.word)
                         /\ Tried(r, extra).state =
                              IF r.attempts + 1 >= MaxItemAttempts THEN "failed" ELSE "pending"
BY DEF Claimed, Reopened, Aged, Built, Tried, Exhausted, ItemRow

\* A step of worker w that leaves the committed rows alone.
LEMMA LocalStep ==
    ASSUME IInv, TypeOK', NEW w \in Workers,
           UNCHANGED <<items, cards, admin>>,
           job'.done = job.done, job'.failed = job.failed,
           \A v \in Workers \ {w} :
               /\ pc'[v] = pc[v] /\ batch'[v] = batch[v] /\ draft'[v] = draft[v]
               /\ dirty'[v] = dirty[v] /\ fresh'[v] = fresh[v],
           Session(w)',
           \A i \in Items : Holds(w, i)' => Holds(w, i) /\ Held(w, i)'
    PROVE  IInv'
<1>1. ASSUME NEW v \in Workers \ {w}
      PROVE  Session(v)' /\ \A i \in Items : (Holds(v, i)' <=> Holds(v, i)) /\ (Held(v, i) => Held(v, i)')
    BY DEF IInv, Session, NewlyDone, Holds, Held
<1>2. \A v \in Workers : Session(v)'
    BY <1>1
<1>3. \A v \in Workers, i \in Items : Holds(v, i)' => Held(v, i)'
    BY <1>1 DEF IInv
<1>4. OneOwner'
    BY <1>1 DEF IInv, OneOwner
<1>5. (\A i \in Items : Row(i)') /\ Request' /\ CountersExact'
    BY DEF IInv, Row, Request, CountersExact, DoneIn, FailedIn
<1> QED
    BY <1>2, <1>3, <1>4, <1>5 DEF IInv

\* Steps of a session that only move it along or take the job row's lock.
LEMMA MovingStep ==
    ASSUME IInv, TypeOK', NEW w \in Workers,
           \/ Receive(w) \/ StartCli(w) \/ ReadJob(w) \/ MarkGenerating(w) \/ SelectBatch(w)
           \/ Halt(w) \/ AnyLeft(w) \/ CountItems(w) \/ SettleJob(w) \/ Requeue(w) \/ Ack(w)
    PROVE  IInv'
<1>1. Session(w) /\ batch \in [Workers -> SUBSET Items] /\ pc \in [Workers -> PCs]
    BY DEF IInv, TypeOK
<1>2. /\ UNCHANGED <<items, cards, admin, draft, dirty, fresh>>
      /\ job' = job
      /\ \A v \in Workers \ {w} : pc'[v] = pc[v] /\ batch'[v] = batch[v]
    BY <1>1 DEF Receive, StartCli, ReadJob, MarkGenerating, SelectBatch, Halt, AnyLeft,
                CountItems, SettleJob, Requeue, Ack, Goto, txn
<1>3. NewlyDone(w)' = NewlyDone(w)
    BY <1>2 DEF NewlyDone
<1>4. Session(w)' /\ \A i \in Items : Holds(w, i)' => Holds(w, i)
  <2>1. CASE Receive(w) \/ StartCli(w) \/ ReadJob(w) \/ MarkGenerating(w)
    <3>1. /\ batch' = batch
          /\ pc[w] \in Empty /\ pc'[w] \in Empty \cup {"commit"}
        BY <2>1, <1>1 DEF Receive, StartCli, ReadJob, MarkGenerating, Goto, txn, Empty
    <3> QED
        BY <1>1, <1>2, <1>3, <3>1 DEF Session, Empty, Drained, Holds
  <2>2. CASE SelectBatch(w)
    <3> DEFINE candidates == Lowest({i \in Items : Eligible(items[i])}, BatchSize)
    <3>0. /\ pc[w] = "select"
          /\ batch' = [batch EXCEPT ![w] = candidates]
          /\ pc' = [pc EXCEPT ![w] = IF candidates = {} THEN "count" ELSE "claim"]
        BY <2>2 DEF SelectBatch, Goto
    <3> HIDE DEF candidates
    <3>1. pc[w] = "select" /\ (pc'[w] = "claim" \/ (pc'[w] = "count" /\ batch'[w] = {}))
      <4>1. pc'[w] = (IF candidates = {} THEN "count" ELSE "claim") /\ batch'[w] = candidates
          BY <3>0, <1>1
      <4> QED
          BY <3>0, <4>1
    <3> QED
        BY <1>1, <1>2, <1>3, <3>1 DEF Session, Empty, Drained, Holds
  <2>3. CASE Halt(w) \/ AnyLeft(w) \/ CountItems(w) \/ SettleJob(w)
    <3>1. batch' = batch /\ pc[w] \in Drained /\ pc'[w] \in Drained
        BY <2>3, <1>1 DEF Halt, AnyLeft, CountItems, SettleJob, Goto, Drained
    <3> QED
        BY <1>1, <1>2, <1>3, <3>1 DEF Session, Empty, Drained, Holds
  <2>4. CASE Requeue(w) \/ Ack(w)
    <3>1. batch' = batch /\ pc[w] \in Empty /\ pc'[w] \in Empty
        BY <2>4, <1>1 DEF Requeue, Ack, Goto, txn, Empty
    <3> QED
        BY <1>1, <1>2, <1>3, <3>1 DEF Session, Empty, Drained, Holds
  <2> QED
      BY <2>1, <2>2, <2>3, <2>4
<1>5. \A i \in Items : Holds(w, i)' => Held(w, i)'
  <2>1. ASSUME NEW i \in Items, Holds(w, i)'
        PROVE  Held(w, i)'
    <3>1. Held(w, i)
        BY <1>4, <2>1 DEF IInv
    <3>2. i \in batch'[w] => i \in batch[w]
      <4>1. CASE SelectBatch(w)
        <5>1. pc[w] = "select"
            BY <4>1 DEF SelectBatch
        <5> QED
            BY <5>1, <1>1, <1>4, <2>1 DEF Session, Empty, Holds
      <4>2. CASE ~SelectBatch(w)
          BY <4>2 DEF Receive, StartCli, ReadJob, MarkGenerating, Halt, AnyLeft,
                      CountItems, SettleJob, Requeue, Ack, txn
      <4> QED
          BY <4>1, <4>2
    <3> QED
        BY <1>2, <3>1, <3>2 DEF Held
  <2> QED
      BY <2>1
<1> QED
    BY <1>2, <1>4, <1>5, LocalStep

\* What the end of a session's transaction leaves behind.
LEMMA ForgottenTxn ==
    ASSUME TypeOK, NEW w \in Workers, ForgetTxn(w), Goto(w, "idle") \/ pc'[w] \in Empty
    PROVE  Session(w)' /\ \A i \in Items : ~Holds(w, i)'
<1>1. /\ pc'[w] \in Empty /\ batch'[w] = {} /\ dirty'[w] = {} /\ fresh'[w] = {}
    BY DEF TypeOK, ForgetTxn, Goto, Empty
<1> QED
    BY <1>1 DEF Session, Holds, NewlyDone, Empty, Drained

LEMMA CrashStep ==
    ASSUME IInv, TypeOK', NEW w \in Workers, Crash(w)
    PROVE  IInv'
<1>1. TypeOK
    BY DEF IInv
<1>2. Session(w)' /\ \A i \in Items : ~Holds(w, i)'
    BY <1>1, ForgottenTxn DEF Crash
<1>3. /\ UNCHANGED <<items, cards, admin>> /\ job' = job
      /\ \A v \in Workers \ {w} :
            /\ pc'[v] = pc[v] /\ batch'[v] = batch[v] /\ draft'[v] = draft[v]
            /\ dirty'[v] = dirty[v] /\ fresh'[v] = fresh[v]
    BY <1>1 DEF TypeOK, Crash, ForgetTxn, Goto
<1> QED
    BY <1>2, <1>3, LocalStep

\* An item is processed: it moves from the batch to the open transaction.
LEMMA ItemStep ==
    ASSUME IInv, TypeOK', NEW w \in Workers, NEW i \in Items,
           \/ ResolveItem(w, i)
           \/ \E provider, called, spent \in BOOLEAN : FailItem(w, i, provider, called, spent)
    PROVE  IInv'
<1>1. /\ Session(w) /\ pc[w] = "resolve" /\ i \in batch[w] /\ i \notin dirty[w]
      /\ fresh[w] = NewlyDone(w)
  <2>1. Session(w) /\ pc[w] = "resolve" /\ i \in batch[w]
      BY DEF IInv, ResolveItem, Materialised, FailItem, NextUp
  <2> QED
      BY <2>1 DEF Session
<1>2. /\ Held(w, i) /\ draft[w][i] \in ItemRow /\ draft[w][i].state = "resolving"
      /\ ~draft[w][i].word /\ draft[w][i].attempts < MaxItemAttempts
      /\ draft[w][i].attempts \in Nat
  <2>1. Held(w, i) /\ draft[w][i] \in ItemRow
      BY <1>1 DEF IInv, Holds, TypeOK
  <2> QED
      BY <1>1, <2>1 DEF Held, ItemRow, OpenStates
<1>3. UNCHANGED <<items, cards, admin>> /\ job' = job
    BY DEF ResolveItem, Materialised, FailItem
<1> DEFINE Becomes(row) ==
        /\ draft' = [draft EXCEPT ![w] = [draft[w] EXCEPT ![i] = row]]
        /\ row.state # "resolving"
        /\ row.word <=> row.state = "done"
        /\ row.attempts <= MaxItemAttempts
        /\ row.state \in OpenStates => row.attempts < MaxItemAttempts
        /\ fresh' = IF row.state = "done" THEN [fresh EXCEPT ![w] = @ \cup {i}] ELSE fresh
<1>4. \E row : Becomes(row)
  <2>1. CASE ResolveItem(w, i)
    <3> DEFINE row == Built(draft[w][i], WantsEnrichment(w, i))
    <3>1. draft' = [draft EXCEPT ![w] = [draft[w] EXCEPT ![i] = row]]
        BY <2>1 DEF ResolveItem, Materialised
    <3>2. row.state = "done" /\ row.word /\ row.attempts = draft[w][i].attempts
        BY <1>2, Fields
    <3>3. fresh' = [fresh EXCEPT ![w] = @ \cup {i}]
        BY <2>1, <1>2 DEF ResolveItem, Materialised
    <3> HIDE DEF row
    <3>4. Becomes(row)
        BY <1>2, <3>1, <3>2, <3>3, SettingsAssumption DEF OpenStates
    <3> QED
        BY <3>4
  <2>2. ASSUME NEW provider \in BOOLEAN, NEW called \in BOOLEAN, NEW spent \in BOOLEAN,
               FailItem(w, i, provider, called, spent)
        PROVE  \E row : Becomes(row)
    <3> DEFINE row == Tried(draft[w][i], spent)
    <3>1. draft' = [draft EXCEPT ![w] = [draft[w] EXCEPT ![i] = row]]
        BY <2>2 DEF FailItem
    <3>2. /\ row.attempts = draft[w][i].attempts + 1
          /\ ~row.word
          /\ row.state = IF draft[w][i].attempts + 1 >= MaxItemAttempts
                         THEN "failed" ELSE "pending"
        BY <1>2, Fields
    <3>3. fresh' = fresh
        BY <2>2 DEF FailItem
    <3> HIDE DEF row
    <3>4. Becomes(row)
        BY <1>2, <3>1, <3>2, <3>3, SettingsAssumption DEF OpenStates
    <3> QED
        BY <3>4
  <2> QED
      BY <2>1, <2>2
<1>5. PICK row : Becomes(row)
    BY <1>4
<1>6. /\ dirty' = [dirty EXCEPT ![w] = @ \cup {i}]
      /\ \/ batch' = [batch EXCEPT ![w] = @ \ {i}]
         \/ batch' = [batch EXCEPT ![w] = {}] /\ pc' = [pc EXCEPT ![w] = "halt"]
      /\ \/ pc' = [pc EXCEPT ![w] = "halt"] /\ batch' = [batch EXCEPT ![w] = {}]
         \/ pc' = [pc EXCEPT ![w] = AfterItem(w, i)]
    BY DEF ResolveItem, Materialised, FailItem, Goto
<1>7. /\ \A v \in Workers \ {w} :
            /\ pc'[v] = pc[v] /\ batch'[v] = batch[v] /\ draft'[v] = draft[v]
            /\ dirty'[v] = dirty[v] /\ fresh'[v] = fresh[v]
      /\ dirty'[w] = dirty[w] \cup {i}
      /\ batch'[w] \subseteq batch[w] \ {i}
      /\ draft'[w] = [draft[w] EXCEPT ![i] = row]
      /\ pc'[w] = "resolve" \/ (pc'[w] \in Drained /\ batch'[w] = {})
  <2>1. /\ pc \in [Workers -> PCs] /\ batch \in [Workers -> SUBSET Items]
        /\ draft \in [Workers -> [Items -> ItemRow]] /\ dirty \in [Workers -> SUBSET Items]
        /\ fresh \in [Workers -> SUBSET Items]
      BY DEF IInv, TypeOK
  <2> QED
      BY <1>5, <1>6, <2>1 DEF AfterItem, Drained
<1>8. draft'[w][i] = row /\ \A j \in Items \ {i} : draft'[w][j] = draft[w][j]
    BY <1>7 DEF IInv, TypeOK
<1>9. Session(w)'
  <2>1. NewlyDone(w)' = IF row.state = "done" THEN NewlyDone(w) \cup {i} ELSE NewlyDone(w)
    <3>1. dirty[w] \subseteq Items
        BY DEF IInv, TypeOK
    <3> QED
        BY <1>1, <1>7, <1>8, <3>1 DEF NewlyDone
  <2>2. fresh'[w] = IF row.state = "done" THEN fresh[w] \cup {i} ELSE fresh[w]
      BY <1>5 DEF IInv, TypeOK
  <2>3. batch'[w] \cap dirty'[w] = {}
      BY <1>1, <1>7 DEF Session
  <2> QED
      BY <1>1, <1>7, <2>1, <2>2, <2>3 DEF Session, Empty, Drained
<1>10. ASSUME NEW j \in Items, Holds(w, j)'
       PROVE  Holds(w, j) /\ Held(w, j)'
  <2>1. Holds(w, j)
      BY <1>1, <1>7, <1>10 DEF Holds
  <2>2. Held(w, j)
      BY <2>1 DEF IInv
  <2>3. CASE j = i
    <3>1. items'[i].state = "resolving" /\ ~items'[i].ready /\ i \notin batch'[w]
        BY <1>2, <1>3, <1>7 DEF Held
    <3>2. /\ draft'[w][i].word <=> draft'[w][i].state = "done"
          /\ draft'[w][i].state # "resolving"
          /\ draft'[w][i].attempts <= MaxItemAttempts
          /\ draft'[w][i].state \in OpenStates => draft'[w][i].attempts < MaxItemAttempts
        BY <1>5, <1>8
    <3> QED
        BY <2>1, <2>3, <3>1, <3>2 DEF Held
  <2>4. CASE j # i
    <3>1. items'[j] = items[j] /\ draft'[w][j] = draft[w][j]
        BY <1>3, <1>8, <2>4
    <3>2. (j \in batch'[w] => j \in batch[w]) /\ (j \in dirty'[w] => j \in dirty[w])
        BY <1>7, <2>4
    <3> QED
        BY <2>1, <2>2, <3>1, <3>2 DEF Held
  <2> QED
      BY <2>1, <2>3, <2>4
<1> QED
    BY <1>3, <1>7, <1>9, <1>10, LocalStep

\* What the batch claims was eligible when it was claimed, so nobody held it.
LEMMA ClaimStep ==
    ASSUME IInv, TypeOK', NEW w \in Workers, ClaimBatch(w)
    PROVE  IInv'
<1> DEFINE claimed == StillEligible(w)
           rows == [i \in Items |-> IF i \in claimed THEN Claimed(items[i]) ELSE items[i]]
           held == [i \in Items |-> IF i \in claimed THEN rows[i] ELSE NewItem]
<1>1. /\ TypeOK /\ Session(w) /\ pc[w] = "claim" /\ dirty[w] = {}
      /\ UNCHANGED <<cards, admin, dirty, fresh>>
  <2>1. TypeOK /\ Session(w) /\ pc[w] = "claim" /\ UNCHANGED <<cards, admin, dirty, fresh>>
      BY DEF IInv, ClaimBatch
  <2> QED
      BY <2>1 DEF Session
<1>2. /\ \A i \in claimed : i \in Items /\ items[i].state \in OpenStates /\ items[i].ready
      /\ claimed \subseteq batch[w]
    BY <1>1 DEF StillEligible, Eligible, TypeOK
<1>3. NewlyDone(w) = {} /\ NewlyDone(w)' = {}
    BY <1>1 DEF NewlyDone
<1>4. CASE claimed = {}
  <2>1. /\ UNCHANGED <<items, draft>> /\ job' = job
        /\ batch' = [batch EXCEPT ![w] = {}] /\ pc' = [pc EXCEPT ![w] = "count"]
      BY <1>4 DEF ClaimBatch, Goto
  <2>2. /\ batch'[w] = {} /\ pc'[w] = "count"
        /\ \A v \in Workers \ {w} : pc'[v] = pc[v] /\ batch'[v] = batch[v]
      BY <1>1, <2>1 DEF TypeOK
  <2>3. Session(w)'
      BY <1>1, <1>3, <2>2 DEF Session, Empty, Drained
  <2>4. \A i \in Items : ~Holds(w, i)'
      BY <1>1, <2>2 DEF Holds
  <2> QED
      BY <1>1, <2>1, <2>2, <2>3, <2>4, LocalStep
<1>5. CASE claimed # {}
  <2>1. /\ items' = rows
        /\ draft' = [draft EXCEPT ![w] = held]
        /\ job' = [job EXCEPT !.state = IF put[w] = NoState THEN @ ELSE put[w]]
        /\ batch' = [batch EXCEPT ![w] = claimed]
        /\ pc' = [pc EXCEPT ![w] = "resolve"]
      BY <1>5 DEF ClaimBatch, Goto
  <2>2. /\ batch'[w] = claimed /\ pc'[w] = "resolve" /\ draft'[w] = held
        /\ \A v \in Workers \ {w} :
              pc'[v] = pc[v] /\ batch'[v] = batch[v] /\ draft'[v] = draft[v]
        /\ job'.done = job.done /\ job'.failed = job.failed
      BY <1>1, <2>1 DEF TypeOK, JobRow
  <2>3. \A i \in Items \ claimed : items'[i] = items[i]
      BY <2>1
  <2>4. \A i \in claimed :
          /\ items'[i].state = "resolving" /\ ~items'[i].ready
          /\ items'[i].attempts = items[i].attempts
          /\ items'[i].word <=> items[i].word
          /\ draft'[w][i] = items'[i]
    <3>1. \A i \in claimed : items[i] \in ItemRow /\ items'[i] = Claimed(items[i])
        BY <1>1, <1>2, <2>1 DEF TypeOK
    <3>2. \A i \in claimed : draft'[w][i] = items'[i]
        BY <1>2, <2>1, <2>2
    <3> QED
        BY <3>1, <3>2, Fields
  <2>5. ASSUME NEW v \in Workers \ {w}, NEW i \in Items, Holds(v, i)
        PROVE  i \notin claimed
      BY <1>2, <2>5 DEF IInv, Held
  <2>6. ASSUME NEW v \in Workers \ {w}, NEW i \in Items
        PROVE  Holds(v, i)' <=> Holds(v, i)
      BY <1>1, <2>2 DEF Holds
  <2>7. ASSUME NEW i \in Items
        PROVE  Holds(w, i)' <=> i \in claimed
      BY <1>1, <2>2 DEF Holds
  <2> HIDE DEF claimed, rows, held
  <2>8. \A v \in Workers : Session(v)'
    <3>1. Session(w)'
        BY <1>1, <1>3, <2>2 DEF Session, Empty, Drained
    <3>2. ASSUME NEW v \in Workers \ {w}
          PROVE  Session(v)'
        BY <1>1, <2>2 DEF IInv, Session, NewlyDone
    <3> QED
        BY <3>1, <3>2
  <2>9. ASSUME NEW v \in Workers, NEW i \in Items, Holds(v, i)'
        PROVE  Held(v, i)'
    <3>1. CASE v = w
      <4>1. i \in claimed /\ i \notin dirty'[w]
          BY <1>1, <2>7, <2>9, <3>1
      <4>2. Row(i)
          BY DEF IInv
      <4>3. /\ items[i].attempts < MaxItemAttempts /\ items[i].attempts <= MaxItemAttempts
            /\ ~items[i].word
          BY <1>2, <4>1, <4>2 DEF Row, OpenStates
      <4> QED
          BY <2>4, <3>1, <4>1, <4>3 DEF Held
    <3>2. CASE v # w
      <4>1. Held(v, i) /\ items'[i] = items[i]
          BY <2>3, <2>5, <2>6, <2>9, <3>2 DEF IInv
      <4> QED
          BY <1>1, <2>2, <3>2, <4>1 DEF Held
    <3> QED
        BY <3>1, <3>2
  <2>10. OneOwner'
      BY <2>5, <2>6, <2>7 DEF IInv, OneOwner
  <2>11. \A i \in Items : Row(i)'
    <3>1. ASSUME NEW i \in Items
          PROVE  Row(i)'
      <4>1. Row(i) /\ cards'[i] = cards[i]
          BY <1>1 DEF IInv
      <4>2. CASE i \in claimed
        <5>1. items[i].state # "done" /\ items[i].attempts < MaxItemAttempts
            BY <1>2, <4>1, <4>2 DEF Row, OpenStates
        <5> QED
            BY <2>4, <4>1, <4>2, <5>1 DEF Row
      <4>3. CASE i \notin claimed
          BY <2>3, <4>1, <4>3 DEF Row
      <4> QED
          BY <4>2, <4>3
    <3> QED
        BY <3>1
  <2>12. Request'
    <3>1. \A i \in admin.reset : i \in Items /\ i \notin claimed
        BY <1>1, <1>2 DEF IInv, Request, OpenStates, TypeOK, Requests
    <3> QED
        BY <1>1, <2>3, <3>1 DEF IInv, Request
  <2>13. CountersExact'
    <3>1. DoneIn(items)' = DoneIn(items) /\ FailedIn(items)' = FailedIn(items)
        BY <1>2, <2>3, <2>4 DEF DoneIn, FailedIn, OpenStates
    <3> QED
        BY <2>2, <3>1 DEF IInv, CountersExact
  <2> QED
      BY <2>8, <2>9, <2>10, <2>11, <2>12, <2>13 DEF IInv
<1> QED
    BY <1>4, <1>5

\* A batch is published: its rows were nobody else's and still marked claimed,
\* so each outcome is counted once and no row written meanwhile is lost.
LEMMA CommitStep ==
    ASSUME IInv, TypeOK', NEW w \in Workers, CommitBatch(w)
    PROVE  IInv'
<1>1. /\ TypeOK /\ Session(w) /\ pc[w] = "commit" /\ batch[w] = {} /\ dirty[w] \subseteq Items
      /\ fresh[w] = NewlyDone(w) /\ admin' = admin
  <2>1. TypeOK /\ Session(w) /\ pc[w] = "commit" /\ admin' = admin
      BY DEF IInv, CommitBatch
  <2> QED
      BY <2>1 DEF Session, Drained, TypeOK
<1>2. ASSUME NEW i \in dirty[w]
      PROVE  /\ i \in Items
             /\ items[i].state = "resolving" /\ items'[i] = draft[w][i]
             /\ draft[w][i].word <=> draft[w][i].state = "done"
             /\ draft[w][i].state # "resolving"
             /\ draft[w][i].attempts <= MaxItemAttempts
             /\ draft[w][i].state \in OpenStates => draft[w][i].attempts < MaxItemAttempts
             /\ cards[i] = 0
             /\ cards'[i] = IF draft[w][i].state = "done" THEN 1 ELSE 0
  <2>1. i \in Items /\ Held(w, i) /\ Row(i)
      BY <1>1 DEF IInv, Holds
  <2>2. items'[i] = draft[w][i]
      BY <2>1 DEF CommitBatch, View
  <2>3. i \in fresh[w] <=> draft[w][i].state = "done"
      BY <1>1 DEF NewlyDone
  <2>4. cards'[i] = IF i \in fresh[w] THEN cards[i] + 1 ELSE cards[i]
      BY <2>1 DEF CommitBatch
  <2>5. cards[i] = 0
      BY <2>1 DEF Held, Row
  <2>6. cards'[i] = IF draft[w][i].state = "done" THEN 1 ELSE 0
      BY <2>3, <2>4, <2>5
  <2> QED
      BY <2>1, <2>2, <2>5, <2>6 DEF Held
<1>3. \A i \in Items \ dirty[w] : items'[i] = items[i] /\ cards'[i] = cards[i]
    BY <1>1 DEF CommitBatch, View, NewlyDone
<1>4. Session(w)' /\ \A i \in Items : ~Holds(w, i)'
  <2>1. pc'[w] \in Empty
      BY <1>1 DEF CommitBatch, AfterBatch, Goto, Empty, TypeOK
  <2> QED
      BY <1>1, <2>1, ForgottenTxn DEF CommitBatch
<1>5. ASSUME NEW v \in Workers \ {w}
      PROVE  /\ Session(v)'
             /\ \A i \in Items : (Holds(v, i)' <=> Holds(v, i)) /\ (Holds(v, i) => Held(v, i)')
  <2>1. /\ pc'[v] = pc[v] /\ batch'[v] = batch[v] /\ draft'[v] = draft[v]
        /\ dirty'[v] = dirty[v] /\ fresh'[v] = fresh[v]
      BY <1>1 DEF CommitBatch, ForgetTxn, Goto, TypeOK
  <2>2. ASSUME NEW i \in Items, Holds(v, i)
        PROVE  Held(v, i)'
    <3>1. i \notin dirty[w]
        BY <2>2 DEF IInv, OneOwner, Holds
    <3>2. Held(v, i) /\ items'[i] = items[i]
        BY <1>3, <2>2, <3>1 DEF IInv
    <3> QED
        BY <2>1, <3>2 DEF Held
  <2> QED
      BY <2>1, <2>2 DEF IInv, Session, NewlyDone, Holds
<1>6. OneOwner'
    BY <1>4, <1>5 DEF IInv, OneOwner
<1>7. \A i \in Items : Row(i)'
  <2>1. ASSUME NEW i \in Items
        PROVE  Row(i)'
    <3>1. CASE i \in dirty[w]
        BY <1>2, <3>1 DEF Row
    <3>2. CASE i \notin dirty[w]
        BY <1>3, <3>2 DEF IInv, Row
    <3> QED
        BY <3>1, <3>2
  <2> QED
      BY <2>1
<1>8. Request'
  <2>1. \A i \in admin.reset : i \in Items \ dirty[w]
      BY <1>1, <1>2 DEF IInv, Request, TypeOK, Requests
  <2> QED
      BY <1>1, <1>3, <2>1 DEF IInv, Request
<1>9. CountersExact'
  <2>1. /\ DoneIn(items)' = DoneIn(items) \cup NewlyDone(w)
        /\ FailedIn(items)' = FailedIn(items) \cup NewlyFailed(w)
      BY <1>2, <1>3 DEF DoneIn, FailedIn, NewlyDone, NewlyFailed
  <2>2. DoneIn(items) \cap NewlyDone(w) = {} /\ FailedIn(items) \cap NewlyFailed(w) = {}
      BY <1>2 DEF DoneIn, FailedIn, NewlyDone, NewlyFailed
  <2>3. /\ DoneIn(items) \in SUBSET Items /\ NewlyDone(w) \in SUBSET Items
        /\ FailedIn(items) \in SUBSET Items /\ NewlyFailed(w) \in SUBSET Items
      BY <1>1 DEF DoneIn, FailedIn, NewlyDone, NewlyFailed
  <2>4. /\ Cardinality(DoneIn(items)') = Cardinality(DoneIn(items)) + Cardinality(NewlyDone(w))
        /\ Cardinality(FailedIn(items)') =
             Cardinality(FailedIn(items)) + Cardinality(NewlyFailed(w))
      BY <2>1, <2>2, <2>3, DisjointUnion
  <2>5. /\ job'.done = job.done + Cardinality(NewlyDone(w))
        /\ job'.failed = job.failed + Cardinality(NewlyFailed(w))
      BY DEF CommitBatch
  <2> QED
      BY <2>4, <2>5 DEF IInv, CountersExact
<1> QED
    BY <1>4, <1>5, <1>6, <1>7, <1>8, <1>9 DEF IInv

\* Time passes over no row that somebody holds.
LEMMA ClockStep ==
    ASSUME IInv, TypeOK', ~Overruns, NEW i \in Items, Clock(i)
    PROVE  IInv'
<1>1. /\ TypeOK /\ items[i] \in ItemRow
      /\ items' = [items EXCEPT ![i] = Aged(items[i])]
      /\ UNCHANGED <<job, cards, pc, batch, draft, dirty, fresh, admin>>
    BY DEF IInv, TypeOK, Clock, BackoffElapses, ClaimExpires, txn
<1>2. \A w \in Workers : ~Holds(w, i)
  <2>1. CASE BackoffElapses(i)
      BY <2>1 DEF BackoffElapses, IInv, Held
  <2>2. CASE ClaimExpires(i)
      BY <2>2 DEF ClaimExpires
  <2> QED
      BY <2>1, <2>2 DEF Clock
<1>3. /\ \A j \in Items \ {i} : items'[j] = items[j]
      /\ items'[i].state = items[i].state /\ items'[i].attempts = items[i].attempts
      /\ items'[i].word <=> items[i].word
  <2>1. items'[i] = Aged(items[i]) /\ \A j \in Items \ {i} : items'[j] = items[j]
      BY <1>1 DEF TypeOK
  <2> QED
      BY <1>1, <2>1, Fields
<1>4. \A w \in Workers : Session(w)' /\ \A j \in Items : Holds(w, j)' <=> Holds(w, j)
    BY <1>1 DEF IInv, Session, NewlyDone, Holds
<1>5. ASSUME NEW w \in Workers, NEW j \in Items, Holds(w, j)'
      PROVE  Held(w, j)'
  <2>1. Held(w, j) /\ items'[j] = items[j]
      BY <1>2, <1>3, <1>4, <1>5 DEF IInv
  <2> QED
      BY <1>1, <2>1 DEF Held
<1>6. \A j \in Items : Row(j)'
  <2>1. ASSUME NEW j \in Items
        PROVE  Row(j)'
    <3>1. /\ items'[j].state = items[j].state /\ items'[j].attempts = items[j].attempts
          /\ items'[j].word <=> items[j].word
        BY <1>3
    <3> QED
        BY <1>1, <3>1 DEF IInv, Row
  <2> QED
      BY <2>1
<1>7. \A j \in Items : items'[j].state = items[j].state
    BY <1>3
<1>8. Request'
  <2>1. admin.reset \subseteq Items
      BY <1>1 DEF TypeOK, Requests
  <2> QED
      BY <1>1, <1>7, <2>1 DEF IInv, Request
<1>9. OneOwner' /\ CountersExact'
    BY <1>1, <1>4, <1>7 DEF IInv, OneOwner, CountersExact, DoneIn, FailedIn
<1> QED
    BY <1>4, <1>5, <1>6, <1>8, <1>9 DEF IInv

\* An admin's step writes only the job row and failed items, which nobody holds.
LEMMA AdminStep ==
    ASSUME IInv, TypeOK', MaxOverrides = 0, Admin
    PROVE  IInv'
<1>1. TypeOK /\ admin.reset \subseteq Items
    BY DEF IInv, TypeOK, Requests
<1>2. UNCHANGED <<cards, pc, batch, draft, dirty, fresh>>
    BY DEF Admin, CancelRead, CancelWrite, RetryReset, RetryReopen, OverrideRead,
           OverrideWrite, txn
<1>3. \A w \in Workers : Session(w)' /\ \A i \in Items : Holds(w, i)' <=> Holds(w, i)
    BY <1>2 DEF IInv, Session, NewlyDone, Holds
<1>4. OneOwner'
    BY <1>3 DEF IInv, OneOwner
<1>5. CASE CancelRead \/ CancelWrite \/ RetryReset
  <2>1. items' = items /\ job'.done = job.done /\ job'.failed = job.failed
      BY <1>1, <1>5 DEF CancelRead, CancelWrite, RetryReset, TypeOK, JobRow
  <2>2. Request'
    <3>1. CASE CancelRead
        BY <1>1, <2>1, <3>1 DEF IInv, Request, CancelRead, TypeOK, Requests
    <3>2. CASE CancelWrite
        BY <2>1, <3>2 DEF Request, CancelWrite, NoRequest
    <3>3. CASE RetryReset
        BY <1>1, <2>1, <3>3 DEF Request, RetryReset, FailedIn, TypeOK, Requests
    <3> QED
        BY <1>5, <3>1, <3>2, <3>3
  <2>3. \A w \in Workers, i \in Items : Holds(w, i)' => Held(w, i)'
      BY <1>2, <1>3, <2>1 DEF IInv, Held
  <2>4. (\A i \in Items : Row(i)') /\ CountersExact'
      BY <1>2, <2>1 DEF IInv, Row, CountersExact, DoneIn, FailedIn
  <2> QED
      BY <1>3, <1>4, <2>2, <2>3, <2>4 DEF IInv
<1>6. CASE RetryReopen
  <2>1. \A i \in admin.reset : items[i].state = "failed" /\ items[i] \in ItemRow
      BY <1>1 DEF IInv, Request, TypeOK
  <2>2. /\ \A i \in Items \ admin.reset : items'[i] = items[i]
        /\ \A i \in admin.reset : /\ items'[i].state = "pending" /\ items'[i].attempts = 0
                                  /\ items'[i].word <=> items[i].word
      BY <1>1, <1>6, <2>1, Fields DEF RetryReopen
  <2>3. Request'
      BY <1>6 DEF Request, RetryReopen, NoRequest
  <2>4. ASSUME NEW w \in Workers, NEW i \in Items, Holds(w, i)'
        PROVE  Held(w, i)'
    <3>1. Held(w, i)
        BY <1>3, <2>4 DEF IInv
    <3>2. items'[i] = items[i]
        BY <2>1, <2>2, <3>1 DEF Held
    <3> QED
        BY <1>2, <3>1, <3>2 DEF Held
  <2>5. ASSUME NEW i \in Items
        PROVE  Row(i)'
    <3>1. Row(i) /\ cards'[i] = cards[i]
        BY <1>2 DEF IInv
    <3>2. CASE i \in admin.reset
        BY <2>1, <2>2, <3>1, <3>2, SettingsAssumption DEF Row, OpenStates
    <3>3. CASE i \notin admin.reset
        BY <2>2, <3>1, <3>3 DEF Row
    <3> QED
        BY <3>2, <3>3
  <2>6. CountersExact'
    <3>1. DoneIn(items)' = DoneIn(items) /\ FailedIn(items)' = FailedIn(items) \ admin.reset
        BY <1>1, <2>1, <2>2 DEF DoneIn, FailedIn
    <3>2. admin.reset \subseteq FailedIn(items)
        BY <1>1, <2>1 DEF FailedIn
    <3>3. FailedIn(items)' \in SUBSET Items
        BY DEF FailedIn
    <3>4. FailedIn(items) = FailedIn(items)' \cup admin.reset /\ FailedIn(items)' \cap admin.reset = {}
        BY <3>1, <3>2
    <3>5. /\ Cardinality(FailedIn(items)) =
               Cardinality(FailedIn(items)') + Cardinality(admin.reset)
          /\ Cardinality(FailedIn(items)') \in Nat /\ Cardinality(admin.reset) \in Nat
        BY <1>1, <3>3, <3>4, DisjointUnion, ItemSets
    <3>6. job'.done = job.done /\ job'.failed = job.failed - Cardinality(admin.reset)
        BY <1>1, <1>6 DEF RetryReopen, TypeOK, JobRow
    <3> QED
        BY <3>1, <3>5, <3>6 DEF IInv, CountersExact
  <2> QED
      BY <1>3, <1>4, <2>3, <2>4, <2>5, <2>6 DEF IInv
<1>7. ~OverrideWrite /\ \A i \in Items : ~OverrideRead(i)
  <2>1. used["overrides"] \in Nat
      BY <1>1 DEF TypeOK, Budgets
  <2>2. \A i \in Items : ~OverrideRead(i)
      BY <2>1 DEF OverrideRead, Count
  <2>3. ~OverrideWrite
      BY DEF IInv, Request, OverrideWrite
  <2> QED
      BY <2>2, <2>3
<1> QED
    BY <1>5, <1>6, <1>7 DEF Admin

LEMMA InitIInv == Init => IInv
<1> SUFFICES ASSUME Init
             PROVE  IInv
    OBVIOUS
<1>1. TypeOK
    BY InitTypeOK
<1>2. \A w \in Workers : Session(w) /\ \A i \in Items : ~Holds(w, i)
    BY DEF Init, Session, Holds, NewlyDone, Empty, Drained
<1>3. \A i \in Items : Row(i)
    BY SettingsAssumption DEF Init, Row, NewItem
<1>4. Request
    BY DEF Init, Request, NoRequest
<1>5. CountersExact
  <2>1. DoneIn(items) = {} /\ FailedIn(items) = {}
      BY DEF Init, DoneIn, FailedIn, NewItem
  <2> QED
      BY <2>1, FS_EmptySet DEF Init, CountersExact
<1> QED
    BY <1>1, <1>2, <1>3, <1>4, <1>5 DEF IInv, OneOwner

LEMMA NextIInv == Undisturbed /\ IInv /\ [Next]_vars => IInv'
<1> SUFFICES ASSUME Undisturbed, IInv, [Next]_vars
             PROVE  IInv'
    OBVIOUS
<1>1. CASE Next
  <2>1. TypeOK'
      BY <1>1, NextTypeOK DEF IInv
  <2>2. CASE Enqueue
    <3>1. UNCHANGED <<job, items, cards, pc, batch, draft, dirty, fresh, admin>>
        BY <2>2 DEF Enqueue, txn
    <3> QED
        BY <2>1, <3>1 DEF IInv, Session, NewlyDone, Holds, Held, Row, Request, OneOwner,
                          CountersExact, DoneIn, FailedIn
  <2>3. ASSUME NEW w \in Workers, Receive(w) \/ StartCli(w) \/ BatchStep(w) \/ Crash(w)
        PROVE  IInv'
      BY <2>1, <2>3, MovingStep, ClaimStep, ItemStep, CommitStep, CrashStep DEF BatchStep
  <2>4. ASSUME NEW i \in Items, Clock(i)
        PROVE  IInv'
      BY <2>1, <2>4, ClockStep DEF Undisturbed
  <2>5. CASE Admin
      BY <2>1, <2>5, AdminStep DEF Undisturbed
  <2> QED
      BY <1>1, <2>2, <2>3, <2>4, <2>5 DEF Next
<1>2. CASE UNCHANGED vars
    BY <1>2 DEF vars, txn, IInv, TypeOK, Session, NewlyDone, Holds, Held, Row, Request, OneOwner,
                CountersExact, DoneIn, FailedIn
<1> QED
    BY <1>1, <1>2

\* The invariant the safety of the pipeline rests on, for every template,
\* every set of workers and every number of crashes and requests (the whole of
\* run_batch, claim_batch and retry_failed).
THEOREM Safety ==
    ASSUME Undisturbed
    PROVE  Spec => []IInv
<1>1. Init => IInv
    BY InitIInv
<1>2. IInv /\ [Next]_vars => IInv'
    BY NextIInv
<1> QED
    BY <1>1, <1>2, PTL DEF Spec

\* Two live workers never work on the same item (the conditional claim of
\* deck_build_repository.claim_batch).
THEOREM ExclusiveClaims ==
    ASSUME Undisturbed
    PROVE  Spec => []OneOwner
<1>1. IInv => OneOwner
    BY DEF IInv
<1> QED
    BY <1>1, Safety, PTL

\* The job row's progress is exact after every commit (bump_counters, and the
\* decrement of retry_failed).
THEOREM ExactProgress ==
    ASSUME Undisturbed
    PROVE  Spec => []CountersExact
<1>1. IInv => CountersExact
    BY DEF IInv
<1> QED
    BY <1>1, Safety, PTL

\* A built item has exactly one card, an unbuilt one none (_materialise).
THEOREM ExactlyOneCard ==
    ASSUME Undisturbed
    PROVE  Spec => []OneCardPerItem
<1>1. IInv => OneCardPerItem
    BY DEF IInv, Row, OneCardPerItem
<1> QED
    BY <1>1, Safety, PTL

\* No word is attempted more than MAX_ITEM_ATTEMPTS times (_record_failure).
THEOREM BoundedAttempts ==
    ASSUME Undisturbed
    PROVE  Spec => []AttemptsBounded
<1>1. IInv => AttemptsBounded
    BY DEF IInv, Row, AttemptsBounded
<1> QED
    BY <1>1, Safety, PTL

-----------------------------------------------------------------------------
(***************************************************************************)
(* Refinement                                                              *)
(*                                                                         *)
(* Of all the steps only two are visible in the ledger: the commit of a    *)
(* batch settles the words it finished, and a retry reopens the failures.  *)
(***************************************************************************)

\* A step that changes no outcome, no card and no counter is not visible.
LEMMA Stutter ==
    ASSUME \A i \in Items : Outcome(items'[i]) = Outcome(items[i]),
           cards' = cards, job'.done = job.done, job'.failed = job.failed
    PROVE  UNCHANGED Ledger!vars
BY DEF Ledger!vars

\* The ledger counts as FiniteSets does.
LEMMA SameCount == ASSUME NEW S PROVE Ledger!Cardinality(S) = Cardinality(S)
BY DEF Ledger!Cardinality, Cardinality

\* The commit of a batch settles what it finished.
LEMMA CommitSettles ==
    ASSUME IInv, NEW w \in Workers, CommitBatch(w)
    PROVE  Ledger!Settle(NewlyDone(w), NewlyFailed(w))
<1>1. TypeOK /\ fresh[w] = NewlyDone(w) /\ dirty[w] \subseteq Items
    BY DEF IInv, Session, TypeOK
<1>2. NewlyDone(w) \cap NewlyFailed(w) = {}
    BY DEF NewlyDone, NewlyFailed
<1>3. ASSUME NEW i \in dirty[w]
      PROVE  /\ i \in Items /\ items[i].state = "resolving" /\ items'[i] = draft[w][i]
             /\ draft[w][i].state # "resolving"
  <2>1. i \in Items /\ Held(w, i)
      BY <1>1 DEF IInv, Holds
  <2> QED
      BY <2>1 DEF CommitBatch, View, Held
<1>4. \A i \in NewlyDone(w) \cup NewlyFailed(w) :
        [j \in Items |-> Outcome(items[j])][i] = "open"
    BY <1>3 DEF NewlyDone, NewlyFailed, Outcome
<1>5. ASSUME NEW i \in Items
      PROVE  Outcome(items'[i]) = IF i \in NewlyDone(w) THEN "ok"
                                  ELSE IF i \in NewlyFailed(w) THEN "failed"
                                  ELSE Outcome(items[i])
  <2>1. CASE i \in dirty[w]
      BY <1>3, <2>1 DEF NewlyDone, NewlyFailed, Outcome
  <2>2. CASE i \notin dirty[w]
    <3>1. items'[i] = items[i]
        BY <2>2 DEF CommitBatch, View
    <3> QED
        BY <2>2, <3>1 DEF NewlyDone, NewlyFailed
  <2> QED
      BY <2>1, <2>2
<1>6. /\ cards' = [i \in Items |-> IF i \in NewlyDone(w) THEN cards[i] + 1 ELSE cards[i]]
      /\ job'.done = job.done + Cardinality(NewlyDone(w))
      /\ job'.failed = job.failed + Cardinality(NewlyFailed(w))
    BY <1>1 DEF CommitBatch
<1>7. [i \in Items |-> Outcome(items'[i])] =
        [i \in Items |-> IF i \in NewlyDone(w) THEN "ok"
                         ELSE IF i \in NewlyFailed(w) THEN "failed"
                         ELSE [j \in Items |-> Outcome(items[j])][i]]
    BY <1>5
<1> QED
    BY <1>2, <1>4, <1>6, <1>7, SameCount DEF Ledger!Settle, Ledger!Items, Items

\* A retry reopens the failures it found.
LEMMA RetryReopens ==
    ASSUME IInv, RetryReopen, admin.reset # {}
    PROVE  Ledger!Reopen(admin.reset)
<1>1. /\ TypeOK /\ admin.reset \subseteq Items
      /\ \A i \in admin.reset : items[i].state = "failed" /\ items[i] \in ItemRow
    BY DEF IInv, Request, TypeOK, Requests
<1>2. \A i \in admin.reset : [j \in Items |-> Outcome(items[j])][i] = "failed"
    BY <1>1 DEF Outcome
<1>3. ASSUME NEW i \in Items
      PROVE  Outcome(items'[i]) = IF i \in admin.reset THEN "open" ELSE Outcome(items[i])
  <2>1. CASE i \in admin.reset
    <3>1. items'[i].state = "pending"
        BY <1>1, <2>1, Fields DEF RetryReopen
    <3> QED
        BY <2>1, <3>1 DEF Outcome
  <2>2. CASE i \notin admin.reset
      BY <2>2 DEF RetryReopen
  <2> QED
      BY <2>1, <2>2
<1>4. [i \in Items |-> Outcome(items'[i])] =
        [i \in Items |-> IF i \in admin.reset THEN "open"
                         ELSE [j \in Items |-> Outcome(items[j])][i]]
    BY <1>3
<1>5. /\ cards' = cards /\ job'.done = job.done
      /\ job'.failed = job.failed - Cardinality(admin.reset)
    BY <1>1 DEF RetryReopen, TypeOK, JobRow
<1> QED
    BY <1>2, <1>4, <1>5, SameCount DEF Ledger!Reopen, Ledger!Items, Items

LEMMA StepImplements ==
    ASSUME Undisturbed, IInv, [Next]_vars
    PROVE  [Ledger!Next]_(Ledger!vars)
<1>0. TypeOK
    BY DEF IInv
<1>1. CASE UNCHANGED vars
    BY <1>1, Stutter DEF vars
<1>2. CASE Enqueue
    BY <1>2, Stutter DEF Enqueue
<1>3. ASSUME NEW w \in Workers, Receive(w) \/ StartCli(w) \/ BatchStep(w) \/ Crash(w)
      PROVE  [Ledger!Next]_(Ledger!vars)
  <2>1. CASE CommitBatch(w)
    <3>1. NewlyDone(w) \in SUBSET Ledger!Items /\ NewlyFailed(w) \in SUBSET Ledger!Items
        BY <1>0 DEF NewlyDone, NewlyFailed, TypeOK, Ledger!Items, Items
    <3> QED
        BY <2>1, <3>1, CommitSettles DEF Ledger!Next
  <2>2. CASE ClaimBatch(w)
    <3>1. \A i \in Items : items'[i] = items[i] \/
                           (Eligible(items[i]) /\ items'[i] = Claimed(items[i]))
        BY <2>2 DEF ClaimBatch, StillEligible
    <3>2. \A i \in Items : Outcome(items'[i]) = Outcome(items[i])
      <4>1. ASSUME NEW i \in Items, Eligible(items[i]), items'[i] = Claimed(items[i])
            PROVE  Outcome(items'[i]) = Outcome(items[i])
        <5>1. items'[i].state = "resolving" /\ items[i].state \in OpenStates
            BY <1>0, <4>1, Fields DEF TypeOK, Eligible
        <5> QED
            BY <5>1 DEF Outcome, OpenStates
      <4> QED
          BY <3>1, <4>1
    <3>3. cards' = cards /\ job'.done = job.done /\ job'.failed = job.failed
        BY <1>0, <2>2 DEF ClaimBatch, TypeOK, JobRow
    <3> QED
        BY <3>2, <3>3, Stutter
  <2>3. CASE ~CommitBatch(w) /\ ~ClaimBatch(w)
    <3>1. UNCHANGED <<job, items, cards>>
        BY <1>3, <2>3 DEF Receive, StartCli, BatchStep, ReadJob, MarkGenerating, SelectBatch,
                          ResolveItem, Materialised, FailItem, Halt, AnyLeft, CountItems, SettleJob, Requeue,
                          Ack, Crash
    <3> QED
        BY <3>1, Stutter
  <2> QED
      BY <2>1, <2>2, <2>3
<1>4. ASSUME NEW i \in Items, Clock(i)
      PROVE  [Ledger!Next]_(Ledger!vars)
  <2>1. /\ items' = [items EXCEPT ![i] = Aged(items[i])] /\ cards' = cards /\ job' = job
      BY <1>4 DEF Clock, BackoffElapses, ClaimExpires
  <2>2. \A j \in Items : Outcome(items'[j]) = Outcome(items[j])
    <3>1. \A j \in Items : items'[j].state = items[j].state
        BY <1>0, <2>1, Fields DEF TypeOK
    <3> QED
        BY <3>1 DEF Outcome
  <2> QED
      BY <2>1, <2>2, Stutter
<1>5. CASE Admin
  <2>1. CASE CancelRead \/ CancelWrite \/ RetryReset
    <3>1. items' = items /\ cards' = cards /\ job'.done = job.done /\ job'.failed = job.failed
        BY <1>0, <2>1 DEF CancelRead, CancelWrite, RetryReset, TypeOK, JobRow
    <3> QED
        BY <3>1, Stutter
  <2>2. CASE RetryReopen
    <3>1. admin.reset \in SUBSET Ledger!Items
        BY <1>0 DEF TypeOK, Requests, Ledger!Items, Items
    <3>2. CASE admin.reset # {}
        BY <2>2, <3>1, <3>2, RetryReopens DEF Ledger!Next
    <3>3. CASE admin.reset = {}
      <4>1. Cardinality(admin.reset) = 0
          BY <3>3, FS_EmptySet
      <4>2. \A i \in Items : items'[i] = items[i]
          BY <2>2, <3>3 DEF RetryReopen
      <4>3. cards' = cards /\ job'.done = job.done /\ job'.failed = job.failed
          BY <1>0, <2>2, <4>1 DEF RetryReopen, TypeOK, JobRow
      <4> QED
          BY <4>2, <4>3, Stutter
    <3> QED
        BY <3>2, <3>3
  <2>3. ~OverrideWrite /\ \A i \in Items : ~OverrideRead(i)
    <3>1. used["overrides"] \in Nat /\ MaxOverrides = 0
        BY <1>0 DEF TypeOK, Budgets, Undisturbed
    <3>2. \A i \in Items : ~OverrideRead(i)
        BY <3>1 DEF OverrideRead, Count
    <3> QED
        BY <3>2 DEF IInv, Request, OverrideWrite
  <2> QED
      BY <1>5, <2>1, <2>2, <2>3 DEF Admin
<1> QED
    BY <1>1, <1>2, <1>3, <1>4, <1>5 DEF Next

\* The build pipeline implements the ledger: whatever its workers, crashes and
\* retries do, outcome, card and progress change together.
THEOREM Implementation ==
    ASSUME Undisturbed
    PROVE  Spec => ImplementsLedger
<1>1. Init => Ledger!Init
    BY DEF Init, NewItem, Outcome, Ledger!Init, Ledger!Items, Items
<1>2. IInv /\ [Next]_vars => [Ledger!Next]_(Ledger!vars)
    BY StepImplements
<1> QED
    BY <1>1, <1>2, Safety, PTL DEF Spec, ImplementsLedger, Ledger!Spec

-----------------------------------------------------------------------------
(***************************************************************************)
(* Completion                                                              *)
(*                                                                         *)
(* A worker decides "completed" on what its own transaction sees, and the  *)
(* decision is published some steps later.  It is still right then: a word *)
(* once built is never unbuilt.                                            *)
(***************************************************************************)

AllBuilt(rows) == \A i \in Items : rows[i].state = "done"

Completion ==
    /\ job.state = "completed" => AllBuilt(items)
    /\ \A w \in Workers : put[w] = "completed" => pc[w] = "commit"
    /\ \A w \in Workers : pc[w] = "complete" \/ put[w] = "completed" => AllBuilt(View(w))

\* No step takes a built word back.
LEMMA BuiltStays ==
    ASSUME Undisturbed, IInv, [Next]_vars, NEW i \in Items, items[i].state = "done"
    PROVE  items'[i].state = "done"
<1>1. [Ledger!Next]_(Ledger!vars)
    BY StepImplements
<1>2. Outcome(items[i]) = "ok"
    BY DEF Outcome
<1>3. Outcome(items'[i]) = "ok"
  <2>1. CASE UNCHANGED Ledger!vars
    <3>1. [j \in Items |-> Outcome(items'[j])] = [j \in Items |-> Outcome(items[j])]
        BY <2>1 DEF Ledger!vars
    <3>2. [j \in Items |-> Outcome(items'[j])][i] = [j \in Items |-> Outcome(items[j])][i]
        BY <3>1
    <3> QED
        BY <1>2, <3>2
  <2>2. ASSUME NEW S \in SUBSET Items, NEW T \in SUBSET Items, Ledger!Settle(S, T)
        PROVE  Outcome(items'[i]) = "ok"
    <3>1. \A j \in S \cup T : [k \in Items |-> Outcome(items[k])][j] = "open"
        BY <2>2 DEF Ledger!Settle
    <3>2. i \notin S \cup T
        BY <1>2, <3>1
    <3>3. [j \in Items |-> Outcome(items'[j])] =
            [j \in Items |-> IF j \in S THEN "ok" ELSE IF j \in T THEN "failed"
                             ELSE [k \in Items |-> Outcome(items[k])][j]]
        BY <2>2 DEF Ledger!Settle, Ledger!Items, Items
    <3>4. [j \in Items |-> Outcome(items'[j])][i] = Outcome(items[i])
        BY <3>2, <3>3
    <3> QED
        BY <1>2, <3>4
  <2>3. ASSUME NEW R \in SUBSET Items, Ledger!Reopen(R)
        PROVE  Outcome(items'[i]) = "ok"
    <3>1. \A j \in R : [k \in Items |-> Outcome(items[k])][j] = "failed"
        BY <2>3 DEF Ledger!Reopen
    <3>2. i \notin R
        BY <1>2, <3>1
    <3>3. [j \in Items |-> Outcome(items'[j])] =
            [j \in Items |-> IF j \in R THEN "open"
                             ELSE [k \in Items |-> Outcome(items[k])][j]]
        BY <2>3 DEF Ledger!Reopen, Ledger!Items, Items
    <3>4. [j \in Items |-> Outcome(items'[j])][i] = Outcome(items[i])
        BY <3>2, <3>3
    <3> QED
        BY <1>2, <3>4
  <2> QED
      BY <1>1, <2>1, <2>2, <2>3 DEF Ledger!Next, Ledger!Items, Items
<1> QED
    BY <1>3 DEF Outcome

\* What a worker sees as built, it goes on seeing as built while it settles.
LEMMA ViewStays ==
    ASSUME Undisturbed, IInv, [Next]_vars, NEW w \in Workers, AllBuilt(View(w)),
           dirty'[w] = dirty[w], draft'[w] = draft[w]
    PROVE  AllBuilt(View(w))'
<1>1. ASSUME NEW i \in Items
      PROVE  View(w)'[i].state = "done"
  <2>1. View(w)[i].state = "done"
      BY DEF AllBuilt
  <2>2. CASE i \in dirty[w]
      BY <2>1, <2>2 DEF View
  <2>3. CASE i \notin dirty[w]
    <3>1. items[i].state = "done"
        BY <2>1, <2>3 DEF View
    <3>2. items'[i].state = "done"
        BY <3>1, BuiltStays
    <3> QED
        BY <2>3, <3>2 DEF View
  <2> QED
      BY <2>2, <2>3
<1> QED
    BY <1>1 DEF AllBuilt

\* A step that neither decides nor publishes a job state.
LEMMA UndecidedStep ==
    ASSUME Undisturbed, IInv, Completion, [Next]_vars,
           job'.state = "completed" => job.state = "completed",
           \A w \in Workers :
              \/ /\ dirty'[w] = dirty[w] /\ draft'[w] = draft[w] /\ put'[w] = put[w]
                 /\ pc'[w] = pc[w]
              \/ put'[w] # "completed" /\ pc'[w] # "complete"
    PROVE  Completion'
<1>1. job'.state = "completed" => AllBuilt(items')
    BY BuiltStays DEF Completion, AllBuilt
<1>2. \A w \in Workers : put'[w] = "completed" => pc'[w] = "commit"
    BY DEF Completion
<1>3. \A w \in Workers : pc'[w] = "complete" \/ put'[w] = "completed" => AllBuilt(View(w))'
    BY ViewStays DEF Completion
<1> QED
    BY <1>1, <1>2, <1>3 DEF Completion, AllBuilt

\* The decision to complete a job, its publication, and everything else a
\* worker does.
LEMMA WorkerCompletion ==
    ASSUME Undisturbed, IInv, Completion, [Next]_vars, NEW w \in Workers,
           Receive(w) \/ StartCli(w) \/ BatchStep(w) \/ Crash(w)
    PROVE  Completion'
<1>0. TypeOK
    BY DEF IInv
<1>1. CASE CountItems(w)
  <2>1. /\ UNCHANGED <<job, items, draft, dirty, put>>
        /\ pc[w] \in {"count", "tail_count"} /\ \A v \in Workers \ {w} : pc'[v] = pc[v]
      BY <1>0, <1>1 DEF CountItems, Goto, TypeOK
  <2>2. \A v \in Workers : View(v)' = View(v)
      BY <2>1 DEF View
  <2>3. pc'[w] = "complete" => AllBuilt(View(w))
    <3>1. ASSUME pc'[w] = "complete", NEW i \in Items
          PROVE  View(w)[i].state = "done"
      <4>1. pc'[w] = CASE OpenIn(View(w)) # {} -> "commit"
                       [] FailedIn(View(w)) # {} -> "fail_some"
                       [] OTHER -> "complete"
          BY <1>0, <1>1 DEF CountItems, Goto, TypeOK
      <4>2. OpenIn(View(w)) = {} /\ FailedIn(View(w)) = {}
          BY <3>1, <4>1
      <4>3. View(w)[i].state \in ItemStates
          BY <1>0, ViewType DEF ItemRow
      <4> QED
          BY <4>2, <4>3 DEF OpenIn, FailedIn, ItemStates, OpenStates
    <3> QED
        BY <3>1 DEF AllBuilt
  <2> QED
      BY <2>1, <2>2, <2>3 DEF Completion, AllBuilt
<1>2. CASE SettleJob(w)
  <2>1. /\ UNCHANGED <<job, items, draft, dirty>>
        /\ pc[w] \in {"complete", "fail_some"} /\ pc'[w] = "commit"
        /\ put'[w] = (IF pc[w] = "complete" THEN "completed" ELSE "partial")
        /\ \A v \in Workers \ {w} : pc'[v] = pc[v] /\ put'[v] = put[v]
      BY <1>0, <1>2 DEF SettleJob, Goto, TypeOK
  <2>2. \A v \in Workers : View(v)' = View(v)
      BY <2>1 DEF View
  <2> QED
      BY <2>1, <2>2 DEF Completion, AllBuilt
<1>3. CASE CommitBatch(w)
  <2>1. /\ pc'[w] # "complete" /\ put'[w] = NoState
        /\ items' = View(w) /\ job'.state = IF put[w] = NoState THEN job.state ELSE put[w]
        /\ \A v \in Workers \ {w} : /\ dirty'[v] = dirty[v] /\ draft'[v] = draft[v]
                                    /\ put'[v] = put[v] /\ pc'[v] = pc[v]
      BY <1>0, <1>3 DEF CommitBatch, AfterBatch, ForgetTxn, Goto, TypeOK
  <2>2. CASE put[w] = "completed"
    <3>1. AllBuilt(items')
        BY <2>1, <2>2 DEF Completion
    <3>2. \A v \in Workers \ {w} :
            pc'[v] = "complete" \/ put'[v] = "completed" => AllBuilt(View(v))'
        BY <2>1, ViewStays DEF Completion
    <3> QED
        BY <2>1, <3>1, <3>2 DEF Completion, AllBuilt, NoState
  <2>3. CASE put[w] # "completed"
    <3>1. job'.state = "completed" => job.state = "completed"
        BY <2>1, <2>3
    <3> QED
        BY <2>1, <3>1, UndecidedStep DEF NoState
  <2> QED
      BY <2>2, <2>3
<1>4. CASE ClaimBatch(w)
  <2>1. /\ pc[w] = "claim" /\ pc'[w] # "complete"
        /\ put'[w] = put[w] \/ put'[w] = NoState
        /\ job'.state = job.state \/ job'.state = put[w]
        /\ dirty' = dirty
        /\ \A v \in Workers \ {w} : /\ draft'[v] = draft[v]
                                    /\ put'[v] = put[v] /\ pc'[v] = pc[v]
      BY <1>0, <1>4 DEF ClaimBatch, Goto, TypeOK, JobRow
  <2>2. put[w] # "completed"
      BY <2>1 DEF Completion
  <2> QED
      BY <2>1, <2>2, UndecidedStep DEF NoState
<1>5. CASE Crash(w)
  <2>1. /\ pc'[w] # "complete" /\ put'[w] = NoState /\ job' = job
        /\ \A v \in Workers \ {w} : /\ dirty'[v] = dirty[v] /\ draft'[v] = draft[v]
                                    /\ put'[v] = put[v] /\ pc'[v] = pc[v]
      BY <1>0, <1>5 DEF Crash, ForgetTxn, Goto, TypeOK
  <2> QED
      BY <2>1, UndecidedStep DEF NoState
<1>6. CASE \/ Receive(w) \/ StartCli(w) \/ ReadJob(w) \/ MarkGenerating(w) \/ SelectBatch(w)
           \/ (\E i \in Items : ResolveItem(w, i))
           \/ (\E i \in Items, provider, called, spent \in BOOLEAN :
                 FailItem(w, i, provider, called, spent))
           \/ Halt(w) \/ AnyLeft(w) \/ Requeue(w) \/ Ack(w)
  <2> DEFINE Undecided ==
        /\ pc[w] # "commit" /\ pc'[w] # "complete" /\ job' = job
        /\ put'[w] = put[w] \/ put'[w] = "generating" \/ put'[w] = "partial"
        /\ \A v \in Workers \ {w} : /\ dirty'[v] = dirty[v] /\ draft'[v] = draft[v]
                                    /\ put'[v] = put[v] /\ pc'[v] = pc[v]
  <2>1. Undecided
    <3>1. CASE Receive(w) \/ StartCli(w) \/ ReadJob(w) \/ Requeue(w) \/ Ack(w)
        BY <1>0, <3>1 DEF Receive, StartCli, ReadJob, Requeue, Ack, Goto, txn, TypeOK
    <3>2. CASE MarkGenerating(w) \/ SelectBatch(w) \/ Halt(w) \/ AnyLeft(w)
        BY <1>0, <3>2 DEF MarkGenerating, SelectBatch, Halt, AnyLeft, Goto, TypeOK
    <3>3. ASSUME NEW i \in Items, ResolveItem(w, i)
          PROVE  Undecided
        BY <1>0, <3>3 DEF ResolveItem, Materialised, AfterItem, Goto, TypeOK
    <3>4. ASSUME NEW i \in Items, NEW provider \in BOOLEAN, NEW called \in BOOLEAN,
                 NEW spent \in BOOLEAN, FailItem(w, i, provider, called, spent)
          PROVE  Undecided
        BY <1>0, <3>4 DEF FailItem, AfterItem, Goto, TypeOK
    <3> HIDE DEF Undecided
    <3> QED
        BY <1>6, <3>1, <3>2, <3>3, <3>4
  <2>2. put'[w] # "completed"
      BY <2>1 DEF Completion
  <2> QED
      BY <2>1, <2>2, UndecidedStep
<1> QED
    BY <1>1, <1>2, <1>3, <1>4, <1>5, <1>6 DEF BatchStep

LEMMA NextCompletion ==
    ASSUME Undisturbed, IInv, Completion, [Next]_vars
    PROVE  Completion'
<1>0. TypeOK
    BY DEF IInv
<1>1. CASE UNCHANGED vars
    BY <1>1, UndecidedStep DEF vars, txn
<1>2. CASE Enqueue
    BY <1>2, UndecidedStep DEF Enqueue, txn
<1>3. ASSUME NEW i \in Items, Clock(i)
      PROVE  Completion'
    BY <1>3, UndecidedStep DEF Clock, BackoffElapses, ClaimExpires, txn
<1>4. CASE Admin
  <2>1. job'.state = "completed" => job.state = "completed"
      BY <1>0, <1>4 DEF Admin, CancelRead, CancelWrite, RetryReset, RetryReopen, OverrideRead,
                        OverrideWrite, TypeOK, JobRow
  <2>2. UNCHANGED <<pc, dirty, draft, put>>
      BY <1>4 DEF Admin, CancelRead, CancelWrite, RetryReset, RetryReopen, OverrideRead,
                  OverrideWrite, txn
  <2> QED
      BY <2>1, <2>2, UndecidedStep
<1> QED
    BY <1>1, <1>2, <1>3, <1>4, WorkerCompletion DEF Next

\* A job reported complete has every word of its template built (_finalise,
\* also when two drivers and a retry interleave).
THEOREM CompleteIsComplete ==
    ASSUME Undisturbed
    PROVE  Spec => []CompletedMeansBuilt
<1>1. Init => IInv /\ Completion
  <2>1. Init => Completion
      BY DEF Init, Completion, NoState
  <2> QED
      BY <2>1, InitIInv
<1>2. IInv /\ Completion /\ [Next]_vars => (IInv /\ Completion)'
    BY NextIInv, NextCompletion
<1>3. IInv /\ Completion => CompletedMeansBuilt
    BY DEF Completion, AllBuilt, CompletedMeansBuilt
<1> QED
    BY <1>1, <1>2, <1>3, PTL DEF Spec
-----------------------------------------------------------------------------
(***************************************************************************)
(* What survives overruns and overrides                                    *)
(*                                                                         *)
(* Two workers may hold the same item here, and an override may reopen a   *)
(* word that was finished meanwhile, so nothing above applies.  What is    *)
(* left is that every step adds to a counter at least what it adds to the  *)
(* rows counted by it, and that a row knowing of a card never outlives it. *)
(***************************************************************************)

\* A row that knows of a card, or calls the word finished, has one behind it.
Carded(row, i) == row.word \/ row.state = "done" => cards[i] >= 1

\* The counters bound the rows; every row that can be committed - in the table,
\* in a session, in an override's hand - is backed by a card, or comes with
\* one; what a retry has locked nobody is about to change.
Floor ==
    /\ TypeOK
    /\ job.done >= Cardinality(DoneIn(items))
    /\ job.failed >= Cardinality(FailedIn(items))
    /\ \A i \in Items : Carded(items[i], i)
    /\ \A w \in Workers, i \in Items : i \notin fresh[w] => Carded(draft[w][i], i)
    /\ Carded(admin.row, admin.item)
    /\ admin.op # "retry" => admin.reset = {}
    /\ \A i \in admin.reset : items[i].state = "failed" /\ \A w \in Workers : i \notin dirty[w]

\* A smaller set of items counts for less.
LEMMA SubsetCount ==
    ASSUME NEW T \in SUBSET Items, NEW S \in SUBSET T
    PROVE  Cardinality(S) \in Nat /\ Cardinality(T) \in Nat /\ Cardinality(S) <= Cardinality(T)
<1>1. IsFiniteSet(T)
    BY ItemSets
<1>2. Cardinality(S) <= Cardinality(T)
    BY <1>1, FS_Subset
<1> QED
    BY <1>2, ItemSets

\* A step that changes no row, card or counter and recalls no card, and after
\* which every session row is one that was there before.
LEMMA FloorStands ==
    ASSUME Floor, TypeOK', UNCHANGED <<items, cards, admin>>,
           job'.done = job.done, job'.failed = job.failed,
           \A w \in Workers, i \in Items :
               /\ i \notin fresh'[w] =>
                     draft'[w][i] = NewItem \/ (i \notin fresh[w] /\ draft'[w][i] = draft[w][i])
               /\ i \in dirty'[w] /\ i \notin dirty[w] => i \notin admin.reset
    PROVE  Floor'
<1>1. ASSUME NEW w \in Workers, NEW i \in Items, i \notin fresh'[w]
      PROVE  Carded(draft[w][i], i)' /\ Carded(draft'[w][i], i)
    BY <1>1 DEF Floor, Carded, NewItem
<1>2. \A i \in admin.reset : i \in Items
    BY DEF Floor, TypeOK, Requests
<1>3. \A i \in admin.reset : \A w \in Workers : i \notin dirty'[w]
    BY <1>2 DEF Floor
<1>4. DoneIn(items)' = DoneIn(items) /\ FailedIn(items)' = FailedIn(items)
    BY DEF DoneIn, FailedIn
<1> QED
    BY <1>1, <1>3, <1>4 DEF Floor, Carded

\* An item is processed: a card is written for it, unless its row has one.
LEMMA FloorItem ==
    ASSUME Floor, TypeOK', NEW w \in Workers, NEW i \in Items,
           \/ ResolveItem(w, i)
           \/ \E provider, called, spent \in BOOLEAN : FailItem(w, i, provider, called, spent)
    PROVE  Floor'
<1>1. /\ draft \in [Workers -> [Items -> ItemRow]] /\ fresh \in [Workers -> SUBSET Items]
      /\ dirty \in [Workers -> SUBSET Items] /\ draft[w][i] \in ItemRow
    BY DEF Floor, TypeOK
<1>2. /\ UNCHANGED <<items, cards, admin>> /\ job' = job
      /\ i \notin admin.reset
      /\ dirty' = [dirty EXCEPT ![w] = @ \cup {i}]
    BY DEF ResolveItem, FailItem, ItemFree
<1>3. \A v \in Workers \ {w} : draft'[v] = draft[v] /\ fresh'[v] = fresh[v] /\ dirty'[v] = dirty[v]
    BY <1>1 DEF ResolveItem, FailItem, Materialised
<1>4. \A j \in Items \ {i} : draft'[w][j] = draft[w][j]
    BY <1>1 DEF ResolveItem, FailItem
<1>5. fresh[w] \subseteq fresh'[w]
    BY <1>1 DEF ResolveItem, FailItem, Materialised
<1>6. i \notin fresh'[w] => Carded(draft'[w][i], i)
  <2>1. CASE ResolveItem(w, i)
    <3>1. i \notin fresh'[w] => i \notin fresh[w] /\ draft[w][i].word
        BY <2>1, <1>1 DEF ResolveItem, Materialised
    <3> QED
        BY <3>1 DEF Floor, Carded
  <2>2. ASSUME NEW provider \in BOOLEAN, NEW called \in BOOLEAN, NEW spent \in BOOLEAN,
               FailItem(w, i, provider, called, spent)
        PROVE  i \notin fresh'[w] => Carded(draft'[w][i], i)
    <3>1. fresh' = fresh /\ draft'[w][i] = Tried(draft[w][i], spent)
        BY <2>2, <1>1 DEF FailItem
    <3>2. (draft'[w][i].word <=> draft[w][i].word) /\ draft'[w][i].state # "done"
        BY <3>1, <1>1, Fields
    <3> QED
        BY <3>1, <3>2 DEF Floor, Carded
  <2> QED
      BY <2>1, <2>2
<1>7. \A v \in Workers, j \in Items : j \notin fresh'[v] => Carded(draft'[v][j], j)
    BY <1>3, <1>4, <1>5, <1>6 DEF Floor
<1>8. \A j \in admin.reset : \A v \in Workers : j \notin dirty'[v]
    BY <1>1, <1>2 DEF Floor
<1>9. DoneIn(items)' = DoneIn(items) /\ FailedIn(items)' = FailedIn(items)
    BY <1>2 DEF DoneIn, FailedIn
<1> QED
    BY <1>2, <1>7, <1>8, <1>9 DEF Floor, Carded

\* What a batch claims it takes over as it is; a claimed row is an open one.
LEMMA FloorClaim ==
    ASSUME Floor, TypeOK', NEW w \in Workers, ClaimBatch(w)
    PROVE  Floor'
<1> DEFINE claimed == StillEligible(w)
           rows == [i \in Items |-> IF i \in claimed THEN Claimed(items[i]) ELSE items[i]]
           held == [i \in Items |-> IF i \in claimed THEN rows[i] ELSE NewItem]
<1>1. /\ items \in [Items -> ItemRow] /\ draft \in [Workers -> [Items -> ItemRow]]
      /\ UNCHANGED <<cards, admin, dirty, fresh>>
    BY DEF Floor, TypeOK, ClaimBatch
<1>2. CASE claimed = {}
  <2>1. UNCHANGED <<items, draft>> /\ job' = job
      BY <1>2 DEF ClaimBatch
  <2> QED
      BY <1>1, <2>1, FloorStands
<1>3. CASE claimed # {}
  <2>1. /\ items' = rows /\ draft' = [draft EXCEPT ![w] = held]
        /\ job' = [job EXCEPT !.state = IF put[w] = NoState THEN @ ELSE put[w]]
      BY <1>3 DEF ClaimBatch
  <2>2. job'.done = job.done /\ job'.failed = job.failed
      BY <2>1 DEF Floor, TypeOK, JobRow
  <2>3. ASSUME NEW i \in Items
        PROVE  /\ items'[i].word <=> items[i].word
               /\ items'[i].state = items[i].state \/ (i \in claimed /\ items'[i].state = "resolving")
      BY <1>1, <2>1, Fields
  <2>4. \A i \in claimed : items[i].state \in OpenStates
      BY DEF StillEligible, Eligible
  <2>5. DoneIn(items)' = DoneIn(items) /\ FailedIn(items)' = FailedIn(items)
      BY <2>3, <2>4 DEF DoneIn, FailedIn, OpenStates
  <2>6. \A i \in Items : Carded(items'[i], i)
      BY <2>3 DEF Floor, Carded
  <2>7. ASSUME NEW v \in Workers, NEW i \in Items, i \notin fresh[v]
        PROVE  Carded(draft'[v][i], i)
    <3>1. CASE v = w
      <4>1. draft'[w][i] = items'[i] \/ draft'[w][i] = NewItem
          BY <1>1, <2>1
      <4> QED
          BY <3>1, <4>1, <2>6 DEF Carded, NewItem
    <3>2. CASE v # w
        BY <1>1, <2>1, <2>7, <3>2 DEF Floor
    <3> QED
        BY <3>1, <3>2
  <2>8. ASSUME NEW i \in admin.reset
        PROVE  items'[i].state = "failed"
    <3>1. i \in Items /\ items[i].state = "failed"
        BY DEF Floor, TypeOK, Requests
    <3> QED
        BY <3>1, <2>3, <2>4 DEF OpenStates
  <2> HIDE DEF claimed, rows, held
  <2> QED
      BY <1>1, <2>2, <2>5, <2>6, <2>7, <2>8 DEF Floor, Carded
<1> QED
    BY <1>2, <1>3

\* A commit publishes at most as many finished and failed words as it counts,
\* and the cards that go with them.
LEMMA FloorCommit ==
    ASSUME Floor, TypeOK', NEW w \in Workers, CommitBatch(w)
    PROVE  Floor'
<1>1. /\ items' = View(w) /\ UNCHANGED admin /\ dirty[w] \subseteq Items
      /\ cards' = [i \in Items |-> IF i \in fresh[w] THEN cards[i] + 1 ELSE cards[i]]
      /\ job'.done = job.done + Cardinality(NewlyDone(w))
      /\ job'.failed = job.failed + Cardinality(NewlyFailed(w))
    BY DEF Floor, TypeOK, CommitBatch
<1>2. \A i \in Items : /\ cards[i] \in Nat /\ cards'[i] \in Nat /\ cards'[i] >= cards[i]
                       /\ i \in fresh[w] => cards'[i] >= 1
    BY <1>1 DEF Floor, TypeOK
<1>3. \A i \in Items : items'[i] = IF i \in dirty[w] THEN draft[w][i] ELSE items[i]
    BY <1>1 DEF View
<1>4. \A i \in Items : Carded(items[i], i)'
    BY <1>2, <1>3 DEF Floor, Carded
<1>5. ASSUME NEW v \in Workers, NEW i \in Items, i \notin fresh'[v]
      PROVE  Carded(draft[v][i], i)'
  <2>1. CASE v = w
    <3>1. draft'[w][i] = NewItem
        BY DEF Floor, TypeOK, CommitBatch, ForgetTxn
    <3> QED
        BY <2>1, <3>1 DEF Carded, NewItem
  <2>2. CASE v # w
    <3>1. draft'[v] = draft[v] /\ fresh'[v] = fresh[v]
        BY <2>2 DEF Floor, TypeOK, CommitBatch, ForgetTxn
    <3> QED
        BY <1>2, <1>5, <3>1 DEF Floor, Carded
  <2> QED
      BY <2>1, <2>2
<1>6. Carded(admin.row, admin.item)'
  <2>1. admin.item \in Items
      BY DEF Floor, TypeOK, Requests
  <2> QED
      BY <1>1, <1>2, <2>1 DEF Floor, Carded
<1>7. ASSUME NEW i \in admin.reset
      PROVE  items'[i].state = "failed" /\ \A v \in Workers : i \notin dirty'[v]
  <2>1. i \in Items /\ items[i].state = "failed" /\ \A v \in Workers : i \notin dirty[v]
      BY DEF Floor, TypeOK, Requests
  <2>2. \A v \in Workers : dirty'[v] \subseteq dirty[v]
      BY DEF Floor, TypeOK, CommitBatch, ForgetTxn
  <2> QED
      BY <1>3, <2>1, <2>2
<1>8. job'.done >= Cardinality(DoneIn(items'))
  <2> DEFINE rest == DoneIn(items) \ NewlyDone(w)
  <2>1. /\ DoneIn(items) \in SUBSET Items /\ NewlyDone(w) \in SUBSET Items
        /\ rest \cup NewlyDone(w) \in SUBSET Items
        /\ DoneIn(items') \in SUBSET (rest \cup NewlyDone(w))
        /\ rest \in SUBSET DoneIn(items) /\ rest \cap NewlyDone(w) = {}
      BY <1>1, <1>3 DEF DoneIn, NewlyDone
  <2> HIDE DEF rest
  <2>2. Cardinality(rest \cup NewlyDone(w)) = Cardinality(rest) + Cardinality(NewlyDone(w))
      BY <2>1, DisjointUnion
  <2>3. /\ Cardinality(rest) <= Cardinality(DoneIn(items))
        /\ Cardinality(rest) \in Nat /\ Cardinality(DoneIn(items)) \in Nat
      BY <2>1, SubsetCount
  <2>4. /\ Cardinality(DoneIn(items')) <= Cardinality(rest \cup NewlyDone(w))
        /\ Cardinality(DoneIn(items')) \in Nat
      BY <2>1, SubsetCount
  <2>5. Cardinality(NewlyDone(w)) \in Nat /\ job.done \in Int
      BY <2>1, ItemSets DEF Floor, TypeOK, JobRow
  <2> QED
      BY <1>1, <2>2, <2>3, <2>4, <2>5 DEF Floor
<1>9. job'.failed >= Cardinality(FailedIn(items'))
  <2> DEFINE rest == FailedIn(items) \ NewlyFailed(w)
  <2>1. /\ FailedIn(items) \in SUBSET Items /\ NewlyFailed(w) \in SUBSET Items
        /\ rest \cup NewlyFailed(w) \in SUBSET Items
        /\ FailedIn(items') \in SUBSET (rest \cup NewlyFailed(w))
        /\ rest \in SUBSET FailedIn(items) /\ rest \cap NewlyFailed(w) = {}
      BY <1>1, <1>3 DEF FailedIn, NewlyFailed
  <2> HIDE DEF rest
  <2>2. Cardinality(rest \cup NewlyFailed(w)) = Cardinality(rest) + Cardinality(NewlyFailed(w))
      BY <2>1, DisjointUnion
  <2>3. /\ Cardinality(rest) <= Cardinality(FailedIn(items))
        /\ Cardinality(rest) \in Nat /\ Cardinality(FailedIn(items)) \in Nat
      BY <2>1, SubsetCount
  <2>4. /\ Cardinality(FailedIn(items')) <= Cardinality(rest \cup NewlyFailed(w))
        /\ Cardinality(FailedIn(items')) \in Nat
      BY <2>1, SubsetCount
  <2>5. Cardinality(NewlyFailed(w)) \in Nat /\ job.failed \in Int
      BY <2>1, ItemSets DEF Floor, TypeOK, JobRow
  <2> QED
      BY <1>1, <2>2, <2>3, <2>4, <2>5 DEF Floor
<1> QED
    BY <1>1, <1>4, <1>5, <1>6, <1>7, <1>8, <1>9 DEF Floor

\* Time changes nothing a counter or a card depends on.
LEMMA FloorClock ==
    ASSUME Floor, TypeOK', NEW i \in Items, Clock(i)
    PROVE  Floor'
<1>1. /\ items' = [items EXCEPT ![i] = Aged(items[i])]
      /\ UNCHANGED <<job, cards, draft, fresh, dirty, admin>>
    BY DEF Clock, BackoffElapses, ClaimExpires, txn
<1>2. ASSUME NEW j \in Items
      PROVE  items'[j].state = items[j].state /\ (items'[j].word <=> items[j].word)
    BY <1>1, Fields DEF Floor, TypeOK
<1>3. DoneIn(items)' = DoneIn(items) /\ FailedIn(items)' = FailedIn(items)
    BY <1>2 DEF DoneIn, FailedIn
<1>4. \A j \in admin.reset : j \in Items
    BY DEF Floor, TypeOK, Requests
<1> QED
    BY <1>1, <1>2, <1>3, <1>4 DEF Floor, Carded

\* An override leaves an open row, with the card the row it read knew of; a
\* retry takes off the counter exactly the failures it locked.
LEMMA FloorAdmin ==
    ASSUME Floor, TypeOK', Admin
    PROVE  Floor'
<1>0. /\ UNCHANGED <<cards, draft, fresh, dirty>> /\ admin \in Requests
      /\ items \in [Items -> ItemRow] /\ job \in JobRow
    BY DEF Admin, CancelRead, CancelWrite, RetryReset, RetryReopen, OverrideRead, OverrideWrite,
           txn, Floor, TypeOK
<1>1. Carded(NoRequest.row, NoRequest.item) /\ NoRequest.reset = {} /\ NoRequest.op = "none"
    BY DEF Carded, NoRequest, NewItem
<1>2. CASE CancelRead \/ (\E i \in Items : OverrideRead(i)) \/ RetryReset
  <2>1. UNCHANGED <<items, job>> /\ admin.reset = {}
      BY <1>2 DEF CancelRead, OverrideRead, RetryReset, Floor
  <2>2. Carded(admin'.row, admin'.item)
    <3>1. CASE CancelRead \/ RetryReset
      <4>1. admin'.row = admin.row /\ admin'.item = admin.item
          BY <1>0, <3>1 DEF CancelRead, RetryReset, Requests
      <4> QED
          BY <4>1 DEF Floor
    <3>2. ASSUME NEW i \in Items, OverrideRead(i)
          PROVE  Carded(admin'.row, admin'.item)
      <4>1. admin'.row = items[i] /\ admin'.item = i
          BY <1>0, <3>2 DEF OverrideRead, Requests
      <4> QED
          BY <4>1 DEF Floor
    <3> QED
        BY <1>2, <3>1, <3>2
  <2>3. /\ admin'.op # "retry" => admin'.reset = {}
        /\ \A i \in admin'.reset : items[i].state = "failed" /\ \A w \in Workers : i \notin dirty[w]
    <3>1. CASE CancelRead \/ \E i \in Items : OverrideRead(i)
      <4>1. admin'.reset = admin.reset
          BY <1>0, <3>1 DEF CancelRead, OverrideRead, Requests
      <4> QED
          BY <2>1, <4>1
    <3>2. CASE RetryReset
      <4>1. admin'.op = "retry" /\ admin'.reset = FailedIn(items)
          BY <1>0, <3>2 DEF RetryReset, Requests
      <4> QED
          BY <3>2, <4>1 DEF RetryReset, FailedIn
    <3> QED
        BY <1>2, <3>1, <3>2
  <2>4. DoneIn(items)' = DoneIn(items) /\ FailedIn(items)' = FailedIn(items)
      BY <2>1 DEF DoneIn, FailedIn
  <2> QED
      BY <1>0, <2>1, <2>2, <2>3, <2>4 DEF Floor, Carded
<1>3. CASE CancelWrite
  <2>1. job'.done = job.done /\ job'.failed = job.failed /\ items' = items /\ admin' = NoRequest
      BY <1>0, <1>3 DEF CancelWrite, JobRow
  <2>2. DoneIn(items)' = DoneIn(items) /\ FailedIn(items)' = FailedIn(items)
      BY <2>1 DEF DoneIn, FailedIn
  <2> QED
      BY <1>0, <1>1, <2>1, <2>2 DEF Floor, Carded
<1>4. CASE RetryReopen
  <2>1. /\ items' = [i \in Items |-> IF i \in admin.reset THEN Reopened(items[i]) ELSE items[i]]
        /\ job'.done = job.done /\ job'.failed = job.failed - Cardinality(admin.reset)
        /\ admin' = NoRequest
      BY <1>0, <1>4 DEF RetryReopen, JobRow
  <2>2. ASSUME NEW i \in Items
        PROVE  /\ items'[i].word <=> items[i].word
               /\ items'[i].state = IF i \in admin.reset THEN "pending" ELSE items[i].state
      BY <1>0, <2>1, Fields
  <2>3. admin.reset \subseteq FailedIn(items)
      BY <1>0 DEF Floor, FailedIn, Requests
  <2>4. DoneIn(items') = DoneIn(items) /\ FailedIn(items') = FailedIn(items) \ admin.reset
      BY <2>2, <2>3 DEF DoneIn, FailedIn
  <2>5. Cardinality(FailedIn(items)) = Cardinality(FailedIn(items')) + Cardinality(admin.reset)
    <3>1. /\ FailedIn(items) = FailedIn(items') \cup admin.reset
          /\ FailedIn(items') \cap admin.reset = {}
          /\ FailedIn(items') \in SUBSET Items /\ admin.reset \in SUBSET Items
        BY <1>0, <2>3, <2>4 DEF FailedIn, Requests
    <3> QED
        BY <3>1, DisjointUnion
  <2>6. /\ Cardinality(FailedIn(items)) \in Nat /\ Cardinality(FailedIn(items')) \in Nat
        /\ Cardinality(admin.reset) \in Nat /\ job.failed \in Int
    <3>1. /\ FailedIn(items) \in SUBSET Items /\ FailedIn(items') \in SUBSET Items
          /\ admin.reset \in SUBSET Items
        BY <1>0 DEF FailedIn, Requests
    <3> QED
        BY <1>0, <3>1, ItemSets DEF JobRow
  <2>7. job'.done >= Cardinality(DoneIn(items'))
      BY <2>1, <2>4 DEF Floor
  <2>8. job'.failed >= Cardinality(FailedIn(items'))
    <3>1. job.failed >= Cardinality(FailedIn(items))
        BY DEF Floor
    <3> QED
        BY <2>1, <2>5, <2>6, <3>1
  <2>9. \A i \in Items : Carded(items[i], i)'
      BY <1>0, <2>2 DEF Floor, Carded
  <2> QED
      BY <1>0, <1>1, <2>1, <2>7, <2>8, <2>9 DEF Floor, Carded
<1>5. CASE OverrideWrite
  <2>1. /\ items' = [items EXCEPT ![admin.item] = Overridden(admin.row)]
        /\ job' = job /\ admin' = NoRequest /\ admin.reset = {}
        /\ admin.item \in Items /\ admin.row \in ItemRow
      BY <1>0, <1>5 DEF OverrideWrite, Floor, Requests
  <2>2. Overridden(admin.row).state = "pending" /\ (Overridden(admin.row).word <=> admin.row.word)
      BY <2>1 DEF Overridden, ItemRow
  <2>3. /\ items'[admin.item] = Overridden(admin.row)
        /\ \A i \in Items \ {admin.item} : items'[i] = items[i]
      BY <1>0, <2>1
  <2>4. \A i \in Items : Carded(items[i], i)'
      BY <1>0, <2>2, <2>3 DEF Floor, Carded
  <2>5. /\ DoneIn(items') \in SUBSET DoneIn(items) /\ DoneIn(items) \in SUBSET Items
        /\ FailedIn(items') \in SUBSET FailedIn(items) /\ FailedIn(items) \in SUBSET Items
      BY <2>2, <2>3 DEF DoneIn, FailedIn
  <2>6. /\ Cardinality(DoneIn(items')) <= Cardinality(DoneIn(items))
        /\ Cardinality(FailedIn(items')) <= Cardinality(FailedIn(items))
        /\ Cardinality(DoneIn(items')) \in Nat /\ Cardinality(DoneIn(items)) \in Nat
        /\ Cardinality(FailedIn(items')) \in Nat /\ Cardinality(FailedIn(items)) \in Nat
      BY <2>5, SubsetCount
  <2>7. job'.done >= Cardinality(DoneIn(items')) /\ job'.failed >= Cardinality(FailedIn(items'))
      BY <1>0, <2>1, <2>6 DEF Floor, JobRow
  <2> QED
      BY <1>0, <1>1, <2>1, <2>4, <2>7 DEF Floor, Carded
<1> QED
    BY <1>2, <1>3, <1>4, <1>5 DEF Admin

LEMMA InitFloor == Init => Floor
<1> SUFFICES ASSUME Init
             PROVE  Floor
    OBVIOUS
<1>1. TypeOK
    BY InitTypeOK
<1>2. \A i \in Items : items[i].state = "pending" /\ ~items[i].word
    BY DEF Init, NewItem
<1>3. DoneIn(items) = {} /\ FailedIn(items) = {}
    BY <1>2 DEF DoneIn, FailedIn
<1>4. job.done >= Cardinality(DoneIn(items)) /\ job.failed >= Cardinality(FailedIn(items))
  <2>1. Cardinality(DoneIn(items)) = 0 /\ Cardinality(FailedIn(items)) = 0
      BY <1>3, FS_EmptySet
  <2>2. job.done = 0 /\ job.failed = 0
      BY DEF Init
  <2> QED
      BY <2>1, <2>2
<1>5. /\ \A i \in Items : Carded(items[i], i)
      /\ \A w \in Workers, i \in Items : Carded(draft[w][i], i)
      /\ Carded(admin.row, admin.item)
    BY <1>2 DEF Init, Carded, NewItem, NoRequest
<1> QED
    BY <1>1, <1>4, <1>5 DEF Floor, Init, NoRequest

LEMMA NextFloor == Floor /\ [Next]_vars => Floor'
<1> SUFFICES ASSUME Floor, [Next]_vars
             PROVE  Floor'
    OBVIOUS
<1>1. TypeOK'
    BY NextTypeOK DEF Floor, vars, txn, TypeOK
<1>2. CASE Enqueue \/ UNCHANGED vars
  <2>1. UNCHANGED <<items, cards, admin, draft, fresh, dirty, job>>
      BY <1>2 DEF Enqueue, vars, txn
  <2> QED
      BY <1>1, <2>1, FloorStands
<1>3. ASSUME NEW w \in Workers, Receive(w) \/ StartCli(w) \/ BatchStep(w) \/ Crash(w)
      PROVE  Floor'
  <2>1. CASE \/ Receive(w) \/ StartCli(w) \/ ReadJob(w) \/ MarkGenerating(w) \/ SelectBatch(w)
             \/ Halt(w) \/ AnyLeft(w) \/ CountItems(w) \/ SettleJob(w) \/ Requeue(w) \/ Ack(w)
    <3>1. UNCHANGED <<items, cards, admin, draft, fresh, dirty, job>>
        BY <2>1 DEF Receive, StartCli, ReadJob, MarkGenerating, SelectBatch, Halt, AnyLeft,
                    CountItems, SettleJob, Requeue, Ack, txn
    <3> QED
        BY <1>1, <3>1, FloorStands
  <2>2. CASE Crash(w)
    <3>1. /\ UNCHANGED <<items, cards, admin, job>>
          /\ \A i \in Items : draft'[w][i] = NewItem
          /\ dirty'[w] = {}
          /\ \A v \in Workers \ {w} :
                draft'[v] = draft[v] /\ fresh'[v] = fresh[v] /\ dirty'[v] = dirty[v]
        BY <2>2 DEF Crash, ForgetTxn, Floor, TypeOK
    <3> QED
        BY <1>1, <3>1, FloorStands
  <2> QED
      BY <1>1, <1>3, <2>1, <2>2, FloorClaim, FloorItem, FloorCommit DEF BatchStep
<1>4. ASSUME NEW i \in Items, Clock(i)
      PROVE  Floor'
    BY <1>1, <1>4, FloorClock
<1> QED
    BY <1>1, <1>2, <1>3, <1>4, FloorAdmin DEF Next

\* Whatever outlives its claim and whatever is overridden or retried meanwhile,
\* the job row never reports less than is finished, and no finished word lacks
\* its card (bump_counters inside the batch's transaction, save_item's whole
\* row, retry_failed's decrement).  Nothing is assumed of the constants.
THEOREM NothingUnderReported == Spec => []NeverUnderReports
<1>1. Init => Floor
    BY InitFloor
<1>2. Floor /\ [Next]_vars => Floor'
    BY NextFloor
<1>3. Floor => NeverUnderReports
    BY DEF Floor, NeverUnderReports, Carded, DoneIn
<1> QED
    BY <1>1, <1>2, <1>3, PTL DEF Spec
=============================================================================
