----------------------------- MODULE Dictionary -----------------------------
(***************************************************************************)
(* The dictionary the deployment asks for a word's pronunciation: its       *)
(* cache of hits and misses, the learners' lookups that fill it, and the    *)
(* daily task that gives the cards without a transcription theirs.  A task  *)
(* runs on an event loop of its own in a long-lived worker process, so the  *)
(* clients a process memoizes have to be released with every loop.          *)
(***************************************************************************)
EXTENDS Naturals, Sequences, FiniteSets

CONSTANTS
    Terms,
    Workers,    \* processes that run background tasks
    BatchSize,  \* terms a task takes up
    MaxFaults,  \* outages, kills, failures and time limits, together
    None

DictionaryAssumption == BatchSize \in Nat \ {0} /\ MaxFaults \in Nat

\* What the dictionary has of a term: an entry with a transcription, one
\* without, or no entry.  The first two are what the column holds, too.
Transcriptions == {"ipa", ""}
Coverage == [Terms -> Transcriptions \cup {"absent"}]

\* The keys in Redis, with their terms: nothing, a miss, or the entry's transcription.
CacheTable == [Terms -> Transcriptions \cup {"miss", None}]

\* The clients that processes memoize: none, one that works, or one whose loop
\* is gone.
Clients == [Workers -> {None, "open", "orphan"}]

VARIABLES
    covers,    \* what the dictionary would answer of each term
    up,        \* whether it answers
    cached,    \* the cache of the answers
    phonetic,  \* the column of the cards of each term: None, or a transcription
    client,    \* of each worker
    task,      \* what each worker is doing
    faults

vars == <<covers, up, cached, phonetic, client, task, faults>>

Idle == [at |-> "idle"]

\* What is left of a batch, and what its terms are to be given.
Tasks ==
    {Idle} \cup [at : {"asking", "releasing"}, todo : Seq(Terms),
                 wrote : [Terms -> Transcriptions \cup {None}]]

TypeOK ==
    /\ covers \in Coverage
    /\ up \in BOOLEAN
    /\ cached \in CacheTable
    /\ phonetic \in [Terms -> Transcriptions \cup {None}]
    /\ client \in Clients
    /\ task \in [Workers -> Tasks]
    /\ faults \in 0..MaxFaults

Init ==
    /\ covers \in Coverage
    /\ up \in BOOLEAN
    /\ cached = [t \in Terms |-> None]
    /\ phonetic = [t \in Terms |-> None]
    /\ client = [w \in Workers |-> None]
    /\ task = [w \in Workers |-> Idle]
    /\ faults = 0

-----------------------------------------------------------------------------
(* The adapter.  A lookup answers with the transcription of an entry, or    *)
(* None for no answer: nothing tells a miss from an outage.                 *)

\* Mutant: a word the dictionary did not answer for has no transcription.
FetchedOrBlank(t) == IF up /\ covers[t] # "absent" THEN covers[t] ELSE ""

\* A rate limit, a 502 and a timeout are an outage, and no entry.
Fetched(t) == IF up /\ covers[t] # "absent" THEN covers[t] ELSE None

LookedUp(t) ==
    IF cached[t] = None THEN Fetched(t)
    ELSE IF cached[t] = "miss" THEN None ELSE cached[t]

\* What the cache holds after a lookup of t: a read that misses is written
\* through, an outage as a miss.
Remembered(t) ==
    [cached EXCEPT ![t] = IF @ # None THEN @ ELSE IF Fetched(t) = None THEN "miss" ELSE Fetched(t)]

\* A key's time to live ends.
Expire(t) ==
    /\ cached[t] # None
    /\ cached' = [cached EXCEPT ![t] = None]
    /\ UNCHANGED <<covers, up, phonetic, client, task, faults>>

\* A learner looks the word up.  Redis may be down: the answer stands without it.
LearnerLooksUp(t) ==
    /\ cached[t] = None
    /\ cached' = Remembered(t)
    /\ UNCHANGED <<covers, up, phonetic, client, task, faults>>

Fault == faults < MaxFaults /\ faults' = faults + 1

Outage == up /\ Fault /\ up' = FALSE /\ UNCHANGED <<covers, cached, phonetic, client, task>>
Recovery == ~up /\ up' = TRUE /\ UNCHANGED <<covers, cached, phonetic, client, task, faults>>

-----------------------------------------------------------------------------
(* The backfill, run in the worker processes. *)

Missing == {t \in Terms : phonetic[t] = None}

\* A batch is any of the missing terms, in any order: a stable order would
\* let words the dictionary does not have take every batch.
Batches ==
    {s \in UNION {[1..n -> Missing] : n \in 1..Cardinality(Missing)} :
        /\ \A i, j \in DOMAIN s : s[i] = s[j] => i = j
        /\ Len(s) = IF Cardinality(Missing) < BatchSize THEN Cardinality(Missing) ELSE BatchSize}

\* The process builds its client at the first task that needs one.
Begin(w, batch) ==
    /\ task[w].at = "idle"
    /\ task' = [task EXCEPT ![w] =
           [at |-> "asking", todo |-> batch, wrote |-> [t \in Terms |-> None]]]
    /\ client' = [client EXCEPT ![w] = IF @ = None THEN "open" ELSE @]
    /\ UNCHANGED <<covers, up, cached, phonetic, faults>>

\* A client of a dead loop raises, which is no answer.
Ask(w) ==
    /\ task[w].at = "asking" /\ task[w].todo # <<>>
    /\ LET t == Head(task[w].todo)
           orphan == client[w] = "orphan"
       IN /\ cached' = IF orphan THEN cached ELSE Remembered(t)
          /\ task' = [task EXCEPT ![w].todo = Tail(@),
                                  ![w].wrote[t] = IF orphan THEN None ELSE LookedUp(t)]
    /\ UNCHANGED <<covers, up, phonetic, client, faults>>

\* One commit for the batch, whose updates touch only cards that have none.
Commit(w) ==
    /\ task[w].at = "asking" /\ task[w].todo = <<>>
    /\ phonetic' = [t \in Terms |->
           IF phonetic[t] = None THEN task[w].wrote[t] ELSE phonetic[t]]
    /\ task' = [task EXCEPT ![w].at = "releasing"]
    /\ UNCHANGED <<covers, up, cached, client, faults>>

\* Mutant: the client stays memoized after its loop is gone.
Kept(w) == IF client[w] = None THEN None ELSE "orphan"

Released(w) == None

\* Every pool is closed and forgotten before the loop goes, also where
\* closing it fails.
Release(w) ==
    /\ task[w].at = "releasing"
    /\ client' = [client EXCEPT ![w] = Released(w)]
    /\ task' = [task EXCEPT ![w] = Idle]
    /\ UNCHANGED <<covers, up, cached, phonetic, faults>>

\* The database ends the transaction, as it does one of two tasks that wait
\* for each other's rows; what the task holds is released, and it is retried.
Fail(w) ==
    /\ Fault
    /\ task[w].at = "asking"
    /\ task' = [task EXCEPT ![w].at = "releasing"]
    /\ UNCHANGED <<covers, up, cached, phonetic, client>>

\* The soft time limit is an exception in whatever runs.  In a lookup it is
\* taken for no answer, and in the release, which begins with the database's
\* pool, it leaves the clients after it in place.
TimeLimit(w) ==
    /\ Fault
    /\ \/ /\ task[w].at = "asking" /\ task[w].todo # <<>>
          /\ task' = [task EXCEPT ![w].todo = Tail(@)]
          /\ UNCHANGED client
       \/ /\ task[w].at = "releasing"
          /\ client' = [client EXCEPT ![w] = Kept(w)]
          /\ task' = [task EXCEPT ![w] = Idle]
    /\ UNCHANGED <<covers, up, cached, phonetic>>

\* The process dies, and its transaction and client with it.
Kill(w) ==
    /\ Fault
    /\ task[w].at # "idle"
    /\ client' = [client EXCEPT ![w] = None]
    /\ task' = [task EXCEPT ![w] = Idle]
    /\ UNCHANGED <<covers, up, cached, phonetic>>

Next ==
    \/ \E t \in Terms : Expire(t) \/ LearnerLooksUp(t)
    \/ Outage \/ Recovery
    \/ \E w \in Workers :
         \/ \E batch \in Batches : Begin(w, batch)
         \/ Ask(w) \/ Commit(w) \/ Release(w)
         \/ Fail(w) \/ TimeLimit(w) \/ Kill(w)

\* The dictionary comes back; a task is scheduled every day, on whichever
\* worker is free, and sampling gives every term its turn while it misses a
\* transcription.
BeginWith(t) == \E w \in Workers, batch \in Batches : Begin(w, batch) /\ batch[1] = t

Fairness ==
    /\ WF_vars(Recovery)
    /\ \A w \in Workers : WF_vars(Ask(w) \/ Commit(w) \/ Release(w))
    /\ \A t \in Terms : SF_vars(BeginWith(t)) /\ WF_vars(Expire(t))

Spec == Init /\ [][Next]_vars /\ Fairness

-----------------------------------------------------------------------------
(* An outage never marks a word: what a card holds is what the dictionary   *)
(* has of its term, so that "" is the word's and never the weather's        *)
(* (phonetic_backfill_service.py:110-113, "must not be recorded as this     *)
(* word has no pronunciation").                                             *)
OnlyWhatIsCovered == \A t \in Terms : phonetic[t] \in {None, covers[t]}

(* Every word the dictionary covers is spoken in the end: no word it lacks  *)
(* keeps the others from their turn, no miss cached in an outage outlives   *)
(* it, and no dead client keeps a worker silent past the task it was left   *)
(* to (word_repository.py:92-103, runtime.py:13-15).                        *)
EveryCoveredTermSpoken == <>(\A t \in Missing : covers[t] = "absent")

(* Every pool is released at the end of every task run (runtime.py:13-15):  *)
(* an idle worker holds no client.  Not what the code does when the time    *)
(* limit falls in the release.                                              *)
IdleHoldsNothing == \A w \in Workers : task[w].at = "idle" => client[w] = None
=============================================================================
