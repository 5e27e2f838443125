------------------------------- MODULE Lookup -------------------------------
(***************************************************************************)
(* Looking a word up: the cache of answers in front of the lexicon, the    *)
(* claim that keeps two lookups from buying one answer, and the writers of *)
(* the lexicon, which are lookups, deck builds and people who review it.   *)
(* One headword, which a learner may also reach by a misspelling.          *)
(*                                                                         *)
(* A lookup reads the cache and the lexicon, waits for the provider (the   *)
(* matter of Failover), reads the lexicon again and, in its commit, writes *)
(* what is not there yet: rows are inserted or, where a unique key is      *)
(* taken, skipped.                                                         *)
(***************************************************************************)
EXTENDS Naturals, FiniteSets

CONSTANTS
    Lookups,      \* lookups and enrichments under way at once
    MaxLookups,   \* bound: lookups and enrichments started
    MaxUpsets,    \* bound: claims that outlive their lease, and edits by a person
    Keys,         \* sense keys
    MaxIds,       \* bound: senses ever inserted
    MaxSenses,    \* MAX_SENSES_PER_LEXEME
    Inputs,       \* what learners type
    Headword,     \* the input that is the lemma
    Langs,        \* native languages
    None

LookupAssumption ==
    /\ MaxLookups \in Nat /\ MaxUpsets \in Nat /\ MaxIds \in Nat /\ MaxSenses \in Nat \ {0}
    /\ IsFiniteSet(Keys) /\ Headword \in Inputs /\ None \notin Lookups

\* "auto" stands for "needs_review" too, which is served like it.
Statuses == {"auto", "approved", "rejected"}
Ids == 1..MaxIds
Asked == Inputs \X Langs

\* A sense of the one lexeme; langs are the languages it has a headline in.
SenseRow == [key : Keys, position : Nat, status : Statuses, langs : SUBSET Langs]
RowsAssumption == None \notin SenseRow

\* The cached answer of the headword in a language: {} if there is none.
EntryTable == [Langs -> SUBSET Keys]

\* What is known of an input: nothing, the entry, or a verdict that may expire.
AliasTable == [Asked -> {"none", "ok", "unsupported", "expired"}]

\* The keys in Redis: who holds the claim to ask for an input.
ClaimTable == [Asked -> Lookups \cup {None}]

VARIABLES
    senses,    \* senses[i]: the row, or None; the lexeme is there if any is
    entries,   \* the EntryTable
    aliases,   \* the AliasTable
    claims,    \* the ClaimTable
    disabled,  \* single flight has given up in this process
    lookup,    \* lookup[p]: how far p is and what it has read
    started, expiries, reviews

vars == <<senses, entries, aliases, claims, disabled, lookup, started, expiries, reviews>>
cache == <<entries, aliases>>
flight == <<claims, disabled, expiries, reviews>>

Idle == [at |-> "idle"]
Stored == {i \in Ids : senses[i] # None}
KeysOf(rows) == {senses[i].key : i \in rows}

\* A deck build may have been there before.
Init ==
    /\ \/ senses = [i \in Ids |-> None]
       \/ \E k \in Keys, l \in Langs :
            senses = [[i \in Ids |-> None] EXCEPT
                ![1] = [key |-> k, position |-> 0, status |-> "auto", langs |-> {l}]]
    /\ entries = [l \in Langs |-> {}]
    /\ aliases = [a \in Asked |-> "none"]
    /\ claims = [a \in Asked |-> None]
    /\ disabled = FALSE
    /\ lookup = [p \in Lookups |-> Idle]
    /\ started = 0
    /\ expiries = 0
    /\ reviews = 0

At(p, stage) == lookup[p].at = stage
Asks(p) == <<lookup[p].input, lookup[p].lang>>

Move(p, stage) == lookup' = [lookup EXCEPT ![p].at = stage]

End(p) == lookup' = [lookup EXCEPT ![p] = Idle]

(***************************************************************************)
(* Reading                                                                 *)
(***************************************************************************)

Begin(p, input, lang) ==
    /\ At(p, "idle") /\ started < MaxLookups
    /\ started' = started + 1
    /\ lookup' = [lookup EXCEPT ![p] = [at |-> "cache", input |-> input, lang |-> lang]]
    /\ UNCHANGED <<senses, entries, aliases, flight>>

\* CachingAIService: an alias that has not expired, and its entry.
ReadCache(p) ==
    /\ At(p, "cache")
    /\ IF aliases[Asks(p)] \in {"ok", "unsupported"} THEN End(p) ELSE Move(p, "lexicon")
    /\ UNCHANGED <<senses, cache, flight, started>>

\* as_lookup_result: the senses that are not rejected and have a headline in
\* the language, at most MaxSenses of them; none is a miss.
Servable(lang) == {i \in Stored : senses[i].status # "rejected" /\ lang \in senses[i].langs}

Firsts(rows) == {i \in rows : Cardinality({j \in rows : senses[j].position < senses[i].position}) < MaxSenses}

InLexicon(p) == IF lookup[p].input = Headword THEN Servable(lookup[p].lang) ELSE {}

\* A hit is the answer, and goes into the cache on the way out.
Hit(p) ==
    /\ InLexicon(p) # {}
    /\ lookup' = [lookup EXCEPT ![p] = [at |-> "put", input |-> @.input, lang |-> @.lang,
                                        answer |-> KeysOf(Firsts(InLexicon(p)))]]
    /\ UNCHANGED <<senses, cache, flight, started>>

ReadLexicon(p) ==
    /\ At(p, "lexicon")
    /\ \/ Hit(p)
       \/ InLexicon(p) = {} /\ Move(p, "claim") /\ UNCHANGED <<senses, cache, flight, started>>

(***************************************************************************)
(* Single flight                                                           *)
(***************************************************************************)

Asking(p, owns) ==
    lookup' = [lookup EXCEPT ![p] = [at |-> "ask", input |-> @.input, lang |-> @.lang, owns |-> owns]]

\* Mutant: SET without NX.
TakenBy(p, a) == TRUE

\* SET NX: the claim is free.
Free(p, a) == claims[a] = None

Acquire(p) ==
    /\ At(p, "claim") /\ ~disabled
    /\ IF Free(p, Asks(p))
       THEN Asking(p, TRUE) /\ claims' = [claims EXCEPT ![Asks(p)] = p]
       ELSE Move(p, "wait") /\ UNCHANGED claims
    /\ UNCHANGED <<senses, cache, disabled, started, expiries, reviews>>

\* Redis does not answer in time, or has not before: every lookup owns.
AcquireFails(p) ==
    /\ At(p, "claim")
    /\ disabled' = TRUE /\ Asking(p, TRUE)
    /\ UNCHANGED <<senses, cache, claims, started, expiries, reviews>>

\* wait_for_result finds the other's answer ...
Poll(p) == At(p, "wait") /\ Hit(p)

\* Mutant: no deadline for the wait.
WaitsOn(p) == FALSE

\* ... or the time is up.
MayStopWaiting(p) == At(p, "wait")

WaitOver(p) ==
    /\ MayStopWaiting(p) /\ Asking(p, FALSE)
    /\ UNCHANGED <<senses, cache, flight, started>>

\* The lease runs out while its holder still asks.
Expire(a) ==
    /\ claims[a] # None /\ expiries + reviews < MaxUpsets
    /\ claims' = [claims EXCEPT ![a] = None]
    /\ expiries' = expiries + 1
    /\ UNCHANGED <<senses, cache, disabled, lookup, started, reviews>>

\* DEL, whoever's claim it is by now; or Redis does not answer.
Release(p) ==
    IF ~lookup[p].owns \/ disabled THEN UNCHANGED <<claims, disabled>>
    ELSE \/ claims' = [claims EXCEPT ![Asks(p)] = None] /\ UNCHANGED disabled
         \/ disabled' = TRUE /\ UNCHANGED claims

(***************************************************************************)
(* The provider                                                            *)
(***************************************************************************)

\* An answer with senses is for the headword, whatever was typed.
Answer(p) ==
    /\ At(p, "ask") /\ Release(p)
    /\ \E answer \in SUBSET Keys :
         /\ Cardinality(answer) <= MaxSenses
         /\ lookup' = [lookup EXCEPT
              ![p] = [at |-> IF answer = {} THEN "put" ELSE "record", input |-> @.input,
                      lang |-> @.lang, answer |-> answer]]
    /\ UNCHANGED <<senses, cache, started, expiries, reviews>>

\* Every gateway fails: the error is the answer.
Unavailable(p) ==
    /\ At(p, "ask") /\ Release(p)
    /\ End(p)
    /\ UNCHANGED <<senses, cache, started, expiries, reviews>>

(***************************************************************************)
(* Writing the lexicon                                                     *)
(***************************************************************************)

NextPosition == IF Stored = {} THEN 0
    ELSE 1 + (CHOOSE n \in {senses[i].position : i \in Stored} :
                \A i \in Stored : senses[i].position <= n)

\* upsert reads the lexeme: which senses there are, and where the next goes.
Read(row, stage) ==
    [at |-> stage, input |-> row.input, lang |-> row.lang, answer |-> row.answer,
     known |-> [i \in Stored |-> senses[i].key], position |-> NextPosition]

Record(p) ==
    /\ At(p, "record")
    /\ lookup' = [lookup EXCEPT ![p] = Read(@, "write")]
    /\ UNCHANGED <<senses, cache, flight, started>>

\* A deck build that lacks a sense reads the lexeme before it asks.
BeginEnrich(p, lang) ==
    /\ At(p, "idle") /\ started < MaxLookups /\ Stored # {}
    /\ started' = started + 1
    /\ \E answer \in SUBSET Keys \ {{}} :
         lookup' = [lookup EXCEPT
           ![p] = Read([input |-> Headword, lang |-> lang, answer |-> answer], "enrich")]
    /\ UNCHANGED <<senses, cache, flight>>

\* Mutant: a row that is there is written again.
Overwritten(row, lang) == [row EXCEPT !.status = "auto", !.langs = @ \cup {lang}]

\* A headline is added where the language has none.
ToppedUp(row, lang) == [row EXCEPT !.langs = @ \cup {lang}]

\* The senses a write may add: in the answer, not seen before, within the room
\* there was; fewer when a write fails part of the way.
Added(row) ==
    LET seen == {row.known[i] : i \in DOMAIN row.known}
    IN  {new \in SUBSET (row.answer \ seen) :
            Cardinality(new) <= MaxSenses - Cardinality(seen)}

\* Mutant: the unique key is not there.
AllNew(new) == new

\* ON CONFLICT DO NOTHING.
Fresh(new) == new \ KeysOf(Stored)

\* add_senses: a key somebody has inserted meanwhile only gets the headline,
\* as do the senses in `topped`.
Append(row, new, topped) ==
    LET fresh == Fresh(new)
        n == Cardinality(Stored)
    IN  \E key \in [n + 1..n + Cardinality(fresh) -> fresh] :
          /\ n + Cardinality(fresh) <= MaxIds
          /\ \A i, j \in DOMAIN key : i # j => key[i] # key[j]
          /\ senses' = [i \in Ids |->
               CASE i \in DOMAIN key ->
                      [key |-> key[i], position |-> row.position + (i - n - 1),
                       status |-> "auto", langs |-> {row.lang}]
                 [] i \in Stored /\ (i \in topped \/ senses[i].key \in new) ->
                      ToppedUp(senses[i], row.lang)
                 [] OTHER -> senses[i]]

\* append_senses.
CommitEnrich(p) ==
    /\ At(p, "enrich")
    /\ \E new \in Added(lookup[p]) : Append(lookup[p], new, {})
    /\ End(p)
    /\ UNCHANGED <<cache, flight, started>>

\* record: headlines for the senses it has read, whatever they are called now.
Topped(row) == {i \in DOMAIN row.known : row.known[i] \in row.answer}

AliasIn(table, a, answer) ==
    [table EXCEPT ![a] = IF @ # "none" THEN @ ELSE IF answer = {} THEN "unsupported" ELSE "ok"]

\* Mutant: only the lookup that typed the headword leaves an entry.
PutOwn(input, lang, answer) ==
    /\ entries' = [entries EXCEPT ![lang] = IF @ = {} /\ input = Headword THEN answer ELSE @]
    /\ aliases' = AliasIn(aliases, <<input, lang>>, answer)

\* _ensure_entry and _ensure_alias: neither replaces what is there.
Put(input, lang, answer) ==
    /\ entries' = [entries EXCEPT ![lang] = IF @ = {} THEN answer ELSE @]
    /\ aliases' = AliasIn(aliases, <<input, lang>>, answer)

\* The lexicon, the cache, and the commit of the request.
CommitLookup(p) ==
    /\ At(p, "write")
    /\ \E new \in Added(lookup[p]) : Append(lookup[p], new, Topped(lookup[p]))
    /\ Put(lookup[p].input, lookup[p].lang, lookup[p].answer)
    /\ End(p)
    /\ UNCHANGED <<flight, started>>

CommitPut(p) ==
    /\ At(p, "put")
    /\ Put(lookup[p].input, lookup[p].lang, lookup[p].answer)
    /\ End(p)
    /\ UNCHANGED <<senses, flight, started>>

\* Seven days pass for an "unsupported".
Forget(a) ==
    /\ aliases[a] = "unsupported"
    /\ aliases' = [aliases EXCEPT ![a] = "expired"]
    /\ UNCHANGED <<senses, entries, flight, lookup, started>>

\* update_sense: a person's verdict, another label, a headline.  A label whose
\* key is taken is refused by the unique key.
Review(i) ==
    /\ i \in Stored /\ expiries + reviews < MaxUpsets
    /\ reviews' = reviews + 1
    /\ \E status \in Statuses, key \in Keys, lang \in Langs :
         /\ \A j \in Stored \ {i} : senses[j].key # key
         /\ senses' = [senses EXCEPT ![i] =
              [ToppedUp(@, lang) EXCEPT !.status = status, !.key = key]]
    /\ UNCHANGED <<cache, claims, disabled, expiries, lookup, started>>

\* The process dies; a claim it holds stays until its lease is over.
Die(p) ==
    /\ ~At(p, "idle")
    /\ End(p)
    /\ UNCHANGED <<senses, cache, flight, started>>

(***************************************************************************)
(* Specification                                                           *)
(***************************************************************************)

Step(p) ==
    \/ ReadCache(p) \/ ReadLexicon(p) \/ Acquire(p) \/ AcquireFails(p) \/ Poll(p) \/ WaitOver(p)
    \/ Answer(p) \/ Unavailable(p) \/ Record(p) \/ CommitLookup(p) \/ CommitPut(p) \/ CommitEnrich(p)

Next ==
    \/ \E p \in Lookups :
         \/ \E l \in Langs : BeginEnrich(p, l) \/ (\E i \in Inputs : Begin(p, i, l))
         \/ Step(p) \/ Die(p)
    \/ \E a \in Asked : Expire(a) \/ Forget(a)
    \/ \E i \in Ids : Review(i)

\* The event loop gets to every lookup, and the provider answers or fails
\* (Failover!OperationsEnd).
Fairness == \A p \in Lookups : WF_vars(Step(p))

Spec == Init /\ [][Next]_vars /\ Fairness

(***************************************************************************)
(* Properties                                                              *)
(***************************************************************************)

\* Rows have their columns and no two senses have one key.
TypeOK ==
    /\ senses \in [Ids -> SenseRow \cup {None}]
    /\ \A i, j \in Stored : i # j => senses[i].key # senses[j].key
    /\ entries \in EntryTable
    /\ aliases \in AliasTable
    /\ claims \in ClaimTable
    /\ disabled \in BOOLEAN /\ started \in 0..MaxLookups /\ expiries \in 0..MaxUpsets /\ reviews \in 0..MaxUpsets

\* LookupCacheRepository: whoever wins the race for the entry or the alias, an
\* input that is known leads to senses in its language.
AliasResolves == \A a \in Asked : aliases[a] = "ok" => entries[a[2]] # {}

\* LexiconService: no lookup and no build changes what is in the lexicon, which
\* a person may have approved since it was read; it only adds.
AppendOnly ==
    [][lookup' # lookup => \A i \in Stored :
        /\ senses'[i] # None
        /\ senses'[i] = [senses[i] EXCEPT !.langs = senses'[i].langs]
        /\ senses[i].langs \subseteq senses'[i].langs]_vars

Owners(a) == {p \in Lookups : At(p, "ask") /\ lookup[p].owns /\ Asks(p) = a}

\* SingleFlight: a claim deleted by somebody who no longer holds it lets one
\* more lookup in, and no matter how many follow, never two more.
FewOwners == ~disabled => \A a \in Asked : Cardinality(Owners(a)) <= 1 + expiries

\* "It can never block a learner": every lookup ends, although holders die,
\* claims are lost and answers never come.
EveryLookupEnds ==
    \A p \in Lookups : ~At(p, "idle") ~> At(p, "idle")

\* docs/prebuilt-deck-pipeline.md: a rejected sense is "never served".
RejectedNotServed ==
    [][\A p \in Lookups : ReadCache(p) /\ aliases[Asks(p)] = "ok" =>
        \A i \in Stored : senses[i].status = "rejected" =>
            senses[i].key \notin entries[lookup[p].lang]]_vars

\* ai_cache_unsupported_ttl_seconds: a verdict that has just been bought is
\* remembered, so that trying again costs nothing.
VerdictRemembered ==
    [][\A p \in Lookups : CommitPut(p) => aliases'[Asks(p)] # "expired"]_vars

\* next_position: "Existing positions are never reused".
PositionsDiffer == \A i, j \in Stored : i # j => senses[i].position # senses[j].position
=============================================================================
