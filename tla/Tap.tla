-------------------------------- MODULE Tap ---------------------------------
(***************************************************************************)
(* A learner taps a word in a sentence: the lookup of its senses runs as a *)
(* task of its own (the chain of Lookup behind a Redis cache), the request *)
(* meanwhile recalls what the word means in this sentence and, when nobody *)
(* has asked before and the senses do not say so in time, asks the model.  *)
(* One word and one sentence, of a stored book or not.                     *)
(*                                                                         *)
(* The stages that end in "Db" have a statement under way in the request's *)
(* database session, the stages that end in "Redis" wait for Redis.        *)
(***************************************************************************)
EXTENDS Naturals, FiniteSets

CONSTANTS
    Taps,      \* taps that may be under way at once
    MaxTaps    \* bound: taps begun

TapsAssumption == MaxTaps \in Nat

\* What ReaderHotCache keeps: the senses of the word, its meaning here.
HotKeys == {"lookup", "meaning"}

VARIABLES
    tap,        \* tap[p]: the stages of p's two tasks and what they found
    hot,        \* the HotKeys that Redis has
    durable,    \* the row in sentence_meanings is there
    off,        \* one strike: Redis is not asked again
    decisive,   \* choose_locally finds a sense for this sentence
    begun

vars == <<tap, hot, durable, off, decisive, begun>>

Idle == [at |-> "idle"]
Begun(book) == [at |-> "begun", book |-> book, main |-> "recall", look |-> "lookupRedis",
                asking |-> "none", meaning |-> FALSE, fails |-> FALSE]
Active(p) == tap[p].at = "begun"
Main(p, stage) == Active(p) /\ tap[p].main = stage
Looking(p, stage) == Active(p) /\ tap[p].look = stage
Asking(p, stage) == Active(p) /\ tap[p].asking = stage

Init ==
    /\ tap = [p \in Taps |-> Idle]
    /\ hot = {} /\ durable = FALSE /\ off = FALSE
    /\ decisive \in BOOLEAN
    /\ begun = 0

Begin(p) ==
    /\ ~Active(p) /\ begun < MaxTaps
    /\ begun' = begun + 1
    /\ \E book \in BOOLEAN : tap' = [tap EXCEPT ![p] = Begun(book)]
    /\ UNCHANGED <<hot, durable, off, decisive>>

\* _call: what Redis has under the key, or nothing and one strike.
Recalled(key, found) ==
    \/ found = (~off /\ key \in hot) /\ UNCHANGED off
    \/ ~found /\ off' = TRUE

Stored(key) ==
    \/ ~off /\ hot' = hot \cup {key} /\ UNCHANGED off
    \/ off' = TRUE /\ UNCHANGED hot

(***************************************************************************)
(* The lookup                                                              *)
(***************************************************************************)

Look(p, stage) == tap' = [tap EXCEPT ![p].look = stage]

\* HotCachingAIService: Redis, then the chain, which reads the database.
LookInRedis(p) ==
    /\ Looking(p, "lookupRedis")
    /\ \E found \in BOOLEAN :
         Recalled("lookup", found) /\ Look(p, IF found THEN "done" ELSE "chainDb")
    /\ UNCHANGED <<hot, durable, decisive, begun>>

\* The cache or the lexicon has it, or the provider is asked.
Chain(p) ==
    /\ Looking(p, "chainDb")
    /\ Look(p, "putRedis") \/ Look(p, "provider")
    /\ UNCHANGED <<hot, durable, off, decisive, begun>>

\* It answers, and the answer is recorded; or no gateway does.
Provider(p) ==
    /\ Looking(p, "provider")
    /\ Look(p, "recordDb") \/ Look(p, "failed")
    /\ UNCHANGED <<hot, durable, off, decisive, begun>>

RecordLookup(p) ==
    /\ Looking(p, "recordDb") /\ Look(p, "putRedis")
    /\ UNCHANGED <<hot, durable, off, decisive, begun>>

PutLookup(p) ==
    /\ Looking(p, "putRedis") /\ Stored("lookup") /\ Look(p, "done")
    /\ UNCHANGED <<durable, decisive, begun>>

(***************************************************************************)
(* The meaning in this sentence                                            *)
(***************************************************************************)

\* _remembered_meaning: the row if the sentence is a book's ...
Recall(p) ==
    /\ Main(p, "recall")
    /\ tap' = [tap EXCEPT ![p].main = IF tap[p].book THEN "recallDb" ELSE "recallRedis"]
    /\ UNCHANGED <<hot, durable, off, decisive, begun>>

\* ... which a failing database does not give ...
RecallRow(p) ==
    /\ Main(p, "recallDb")
    /\ \E found \in {FALSE, durable} :
         tap' = [tap EXCEPT ![p].main = IF found THEN "join" ELSE "recallRedis", ![p].meaning = found]
    /\ UNCHANGED <<hot, durable, off, decisive, begun>>

\* ... then the memo.
RecallMemo(p) ==
    /\ Main(p, "recallRedis")
    /\ \E found \in BOOLEAN :
         /\ Recalled("meaning", found)
         /\ tap' = [tap EXCEPT ![p].main = IF found THEN "join" ELSE "wait", ![p].meaning = found]
    /\ UNCHANGED <<hot, durable, decisive, begun>>

\* What the learner is shown, and whether the model failed to answer.
View(selection, fails) == [at |-> "shown", selection |-> selection, fails |-> fails]

Shown(p, selection) == tap' = [tap EXCEPT ![p] = View(selection, @.fails)]

\* The request and its session are gone; a task still running is cancelled.
Failed(p) == tap' = [tap EXCEPT ![p] = [at |-> "failed", look |-> tap[p].look]]

\* choose_locally: the senses are there and the sentence tells them apart.
DecidedLocally(p) == Looking(p, "done") /\ decisive

\* The lookup is there within WARM_LOOKUP_WAIT_SECONDS and says enough ...
WarmEnough(p) ==
    /\ Main(p, "wait") /\ DecidedLocally(p)
    /\ Shown(p, "local")
    /\ UNCHANGED <<hot, durable, off, decisive, begun>>

\* ... or not, or the time is up: the model is asked.
Ask(p) ==
    /\ Main(p, "wait") /\ tap[p].look # "failed"
    /\ ~DecidedLocally(p)
    /\ tap' = [tap EXCEPT ![p].main = "join", ![p].asking = "model"]
    /\ UNCHANGED <<hot, durable, off, decisive, begun>>

\* Mutant: the error is not caught.
FailsTheTap(p) == Failed(p)

\* _ask_meaning: no answer is no meaning.
NoMeaning(p) == tap' = [tap EXCEPT ![p].asking = "done", ![p].fails = TRUE]

Explain(p) ==
    /\ Asking(p, "model")
    /\ tap' = [tap EXCEPT ![p].asking = "memoRedis", ![p].meaning = TRUE] \/ NoMeaning(p)
    /\ UNCHANGED <<hot, durable, off, decisive, begun>>

PutMeaning(p) ==
    /\ Asking(p, "memoRedis") /\ Stored("meaning")
    /\ tap' = [tap EXCEPT ![p].asking = IF tap[p].book THEN "keepDb" ELSE "done"]
    /\ UNCHANGED <<durable, decisive, begun>>

\* A write that fails is served unstored.
KeepMeaning(p) ==
    /\ Asking(p, "keepDb")
    /\ durable' \in {durable, TRUE}
    /\ tap' = [tap EXCEPT ![p].asking = "done"]
    /\ UNCHANGED <<hot, off, decisive, begun>>

(***************************************************************************)
(* The answer                                                              *)
(***************************************************************************)

\* Mutant: a meaning, when there is one, is shown first.
MeaningFirst(meaning) ==
    IF meaning THEN {"matched", "contextual"} ELSE IF decisive THEN {"local"} ELSE {"first"}

\* _choose: the sentence's own words, else the meaning as one of the senses or
\* as it is, else the first sense.
Choices(meaning) ==
    IF decisive THEN {"local"} ELSE IF meaning THEN {"matched", "contextual"} ELSE {"first"}

Join(p) ==
    /\ Main(p, "join") /\ Looking(p, "done") /\ tap[p].asking \in {"none", "done"}
    /\ \E selection \in Choices(tap[p].meaning) : Shown(p, selection)
    /\ UNCHANGED <<hot, durable, off, decisive, begun>>

\* Mutant: the error is only seen where the answer is awaited.
Awaited(p) == Main(p, "join")

\* lookup.result() raises too.
Noticed(p) == Main(p, "wait") \/ Main(p, "join")

\* The lookup's error is the answer; the question that still runs is cancelled.
Raise(p) ==
    /\ Looking(p, "failed") /\ Noticed(p)
    /\ Failed(p)
    /\ UNCHANGED <<hot, durable, off, decisive, begun>>

(***************************************************************************)
(* Specification                                                           *)
(***************************************************************************)

LookStep(p) == LookInRedis(p) \/ Chain(p) \/ Provider(p) \/ RecordLookup(p) \/ PutLookup(p)

AskStep(p) == Explain(p) \/ PutMeaning(p) \/ KeepMeaning(p)

MainStep(p) ==
    Recall(p) \/ RecallRow(p) \/ RecallMemo(p) \/ WarmEnough(p) \/ Ask(p) \/ Join(p) \/ Raise(p)

Next == \E p \in Taps : Begin(p) \/ LookStep(p) \/ AskStep(p) \/ MainStep(p)

\* The event loop resumes what can go on; gateways answer or fail.  A task has
\* finitely many steps, so none needs a fairness of its own.
Fairness == WF_vars(\E p \in Taps : LookStep(p) \/ AskStep(p) \/ MainStep(p))

Spec == Init /\ [][Next]_vars /\ Fairness

(***************************************************************************)
(* Properties                                                              *)
(***************************************************************************)

\* ReaderService.look_up: which of its two answers comes first, whether anybody
\* has tapped before and what Redis does make no difference to the sense that
\* the learner is shown, when the sentence decides it; and a sense is a guess
\* only when the model did not answer.
SameSenseEitherWay ==
    \A p \in Taps : tap[p].at = "shown" =>
        /\ (tap[p].selection = "local") <=> decisive
        /\ tap[p].selection = "first" => tap[p].fails

\* The question is an addition: only the lookup's own failure fails a tap.
OnlyLookupFails == \A p \in Taps : tap[p].at = "failed" => tap[p].look = "failed"

\* Every tap gets its answer or its error.
TapsEnd == \A p \in Taps : Active(p) ~> ~Active(p)

\* tasks/books.py: "a session cannot run two statements at once".
InDatabase(stage) == stage \in {"recallDb", "chainDb", "recordDb", "keepDb"}

OneStatementAtATime ==
    \A p \in Taps : Active(p) =>
        Cardinality({w \in {"main", "look", "asking"} : InDatabase(tap[p][w])}) <= 1
=============================================================================
