---------------------------- MODULE ServiceProofs ----------------------------
(***************************************************************************)
(* Looking a word up: the cache of lookups, for any number of lookups,     *)
(* inputs and languages, by itself and in its scene of the service.        *)
(***************************************************************************)
EXTENDS MCService, FiniteSetTheorems, SequenceTheorems, WellFoundedInduction, TLAPS

\* The cache is keyed by input and language; an entry may be any set.
CacheType ==
    /\ entries = [l \in Langs |-> entries[l]]
    /\ aliases \in [L!Asked -> {"none", "ok", "unsupported", "expired"}]

Reading == [at : {"cache", "lexicon", "claim", "wait"}, input : Inputs, lang : Langs]

\* Past reading, a lookup keeps what it was asked, and an answer without
\* senses does not get as far as the lexicon.
Working(row) ==
    /\ row.at \in {"ask", "record", "write", "put", "enrich"}
    /\ row.input \in Inputs /\ row.lang \in Langs
    /\ row.at \in {"record", "write"} => row.answer # {}

LookupType ==
    /\ lookup = [p \in Lookups |-> lookup[p]]
    /\ \A p \in Lookups : lookup[p] = L!Idle \/ lookup[p] \in Reading \/ Working(lookup[p])

IInv == CacheType /\ LookupType /\ L!AliasResolves

\* One lookup moves on, and the cache stays.
LEMMA RowStep ==
    ASSUME IInv, NEW p \in Lookups, NEW row,
           row = L!Idle \/ row \in Reading \/ Working(row),
           lookup' = [lookup EXCEPT ![p] = row], UNCHANGED L!cache
    PROVE  IInv'
<1>1. LookupType'
  BY DEF IInv, LookupType, L!Idle, Reading, Working
<1> QED BY <1>1 DEF IInv, CacheType, L!AliasResolves, L!cache

LEMMA MoveStep ==
    ASSUME IInv, NEW p \in Lookups, NEW stage \in {"lexicon", "claim", "wait"},
           lookup[p] \in Reading, L!Move(p, stage), UNCHANGED L!cache
    PROVE  IInv'
<1>1. [lookup[p] EXCEPT !.at = stage] \in Reading
  BY DEF Reading
<1>2. lookup' = [lookup EXCEPT ![p] = [lookup[p] EXCEPT !.at = stage]]
  BY DEF L!Move
<1> QED BY <1>1, <1>2, RowStep

\* Whoever wins the race for the entry or for the alias, an alias that says
\* there are senses is written with or after an entry that has some.
LEMMA PutStep ==
    ASSUME IInv, NEW input \in Inputs, NEW lang \in Langs, NEW says, L!Put(input, lang, says)
    PROVE  CacheType' /\ L!AliasResolves'
<1>1. CacheType'
  BY DEF IInv, CacheType, L!Put, L!AliasIn, L!Asked
<1>2. ASSUME NEW i \in Inputs, NEW l \in Langs, aliases'[<<i, l>>] = "ok"
      PROVE  entries'[l] # {}
  <2>1. entries'[l] = IF l = lang /\ entries[l] = {} THEN says ELSE entries[l]
    BY DEF IInv, CacheType, L!Put
  <2>2. CASE aliases[<<i, l>>] = "ok"
    <3>1. entries[l] # {}
      BY <2>2 DEF IInv, L!AliasResolves, L!Asked
    <3> QED BY <2>1, <3>1
  <2>3. CASE aliases[<<i, l>>] # "ok"
    <3>1. <<i, l>> = <<input, lang>> /\ says # {}
      BY <1>2, <2>3 DEF IInv, CacheType, L!Put, L!AliasIn, L!Asked
    <3> QED BY <2>1, <3>1
  <2> QED BY <2>2, <2>3
<1> QED BY <1>1, <1>2 DEF L!AliasResolves, L!Asked

\* The row of a lookup at a stage that has read nothing of the lexicon yet.
LEMMA RowAt ==
    ASSUME IInv, NEW p \in Lookups
    PROVE  /\ L!At(p, "cache") \/ L!At(p, "lexicon") \/ L!At(p, "claim") \/ L!At(p, "wait")
                => lookup[p] \in Reading
           /\ L!At(p, "ask") \/ L!At(p, "record") \/ L!At(p, "write") \/ L!At(p, "put") => Working(lookup[p])
BY DEF IInv, LookupType, L!At, L!Idle, Reading, Working

LEMMA HitStep ==
    ASSUME IInv, NEW p \in Lookups, lookup[p] \in Reading, L!Hit(p) PROVE IInv'
<1> DEFINE row == [at |-> "put", input |-> lookup[p].input, lang |-> lookup[p].lang,
                   answer |-> L!KeysOf(L!Firsts(L!InLexicon(p)))]
<1>1. lookup' = [lookup EXCEPT ![p] = row] /\ UNCHANGED L!cache
  BY DEF L!Hit
<1>2. Working(row)
  BY DEF Working, Reading
<1> QED BY <1>1, <1>2, RowStep

LEMMA AskingStep ==
    ASSUME IInv, NEW p \in Lookups, lookup[p] \in Reading, NEW owns, L!Asking(p, owns), UNCHANGED L!cache
    PROVE  IInv'
<1> DEFINE row == [at |-> "ask", input |-> lookup[p].input, lang |-> lookup[p].lang, owns |-> owns]
<1>1. lookup' = [lookup EXCEPT ![p] = row]
  BY DEF L!Asking
<1>2. Working(row)
  BY DEF Working, Reading
<1> QED BY <1>1, <1>2, RowStep

LEMMA EndStep ==
    ASSUME IInv, NEW p \in Lookups, L!End(p), UNCHANGED L!cache PROVE IInv'
BY RowStep DEF L!End

LEMMA BeginStep ==
    ASSUME IInv, NEW p \in Lookups, NEW l \in Langs, NEW i \in Inputs, L!Begin(p, i, l) PROVE IInv'
<1> DEFINE row == [at |-> "cache", input |-> i, lang |-> l]
<1>1. lookup' = [lookup EXCEPT ![p] = row] /\ UNCHANGED L!cache
  BY DEF L!Begin, L!cache
<1>2. row \in Reading
  BY DEF Reading
<1> QED BY <1>1, <1>2, RowStep

LEMMA BeginEnrichStep ==
    ASSUME IInv, Headword \in Inputs, NEW p \in Lookups, NEW l \in Langs, L!BeginEnrich(p, l)
    PROVE  IInv'
<1>1. PICK says : lookup' = [lookup EXCEPT
        ![p] = L!Read([input |-> Headword, lang |-> l, answer |-> says], "enrich")]
  BY DEF L!BeginEnrich
<1>2. Working(L!Read([input |-> Headword, lang |-> l, answer |-> says], "enrich"))
  BY DEF Working, L!Read
<1>3. UNCHANGED L!cache
  BY DEF L!BeginEnrich, L!cache
<1> QED BY <1>1, <1>2, <1>3, RowStep

LEMMA AnswerStep ==
    ASSUME IInv, NEW p \in Lookups, L!Answer(p) PROVE IInv'
<1>1. PICK says : lookup' = [lookup EXCEPT
        ![p] = [at |-> IF says = {} THEN "put" ELSE "record", input |-> lookup[p].input,
                lang |-> lookup[p].lang, answer |-> says]]
  BY DEF L!Answer
<1>2. Working([at |-> IF says = {} THEN "put" ELSE "record", input |-> lookup[p].input,
               lang |-> lookup[p].lang, answer |-> says])
  BY RowAt DEF L!Answer, Working
<1>3. UNCHANGED L!cache
  BY DEF L!Answer
<1> QED BY <1>1, <1>2, <1>3, RowStep

LEMMA RecordStep ==
    ASSUME IInv, NEW p \in Lookups, L!Record(p) PROVE IInv'
<1>1. lookup' = [lookup EXCEPT ![p] = L!Read(lookup[p], "write")] /\ UNCHANGED L!cache
  BY DEF L!Record
<1>2. lookup[p].at = "record" /\ Working(lookup[p])
  BY RowAt DEF L!Record, L!At
<1>3. Working(L!Read(lookup[p], "write"))
  BY <1>2 DEF Working, L!Read
<1> QED BY <1>1, <1>3, RowStep

LEMMA CommitStep ==
    ASSUME IInv, NEW p \in Lookups, L!CommitLookup(p) \/ L!CommitPut(p) PROVE IInv'
<1>1. lookup[p].input \in Inputs /\ lookup[p].lang \in Langs
  BY RowAt DEF L!CommitLookup, L!CommitPut, Working
<1>2. CacheType' /\ L!AliasResolves'
  BY <1>1, PutStep DEF L!CommitLookup, L!CommitPut
<1>3. LookupType'
  BY DEF L!CommitLookup, L!CommitPut, L!End, IInv, LookupType, L!Idle, Reading, Working
<1> QED BY <1>2, <1>3 DEF IInv

LEMMA StepKeeps ==
    ASSUME IInv, NEW p \in Lookups, L!Step(p) PROVE IInv'
<1>1. CASE L!ReadCache(p)
  <2>1. lookup[p] \in Reading
    BY <1>1, RowAt DEF L!ReadCache
  <2> QED BY <1>1, <2>1, EndStep, MoveStep DEF L!ReadCache
<1>2. CASE L!ReadLexicon(p)
  <2>1. lookup[p] \in Reading
    BY <1>2, RowAt DEF L!ReadLexicon
  <2> QED BY <1>2, <2>1, HitStep, MoveStep DEF L!ReadLexicon
<1>3. CASE L!Acquire(p)
  <2>1. lookup[p] \in Reading
    BY <1>3, RowAt DEF L!Acquire
  <2> QED BY <1>3, <2>1, AskingStep, MoveStep DEF L!Acquire
<1>4. CASE L!AcquireFails(p)
  <2>1. lookup[p] \in Reading
    BY <1>4, RowAt DEF L!AcquireFails
  <2> QED BY <1>4, <2>1, AskingStep DEF L!AcquireFails
<1>5. CASE L!Poll(p)
  <2>1. lookup[p] \in Reading
    BY <1>5, RowAt DEF L!Poll
  <2> QED BY <1>5, <2>1, HitStep DEF L!Poll
<1>6. CASE L!WaitOver(p)
  <2>1. lookup[p] \in Reading
    BY <1>6, RowAt DEF L!WaitOver, L!MayStopWaiting
  <2> QED BY <1>6, <2>1, AskingStep DEF L!WaitOver
<1>7. CASE L!Answer(p)
  BY <1>7, AnswerStep
<1>8. CASE L!Unavailable(p)
  BY <1>8, EndStep DEF L!Unavailable
<1>9. CASE L!Record(p)
  BY <1>9, RecordStep
<1>10. CASE L!CommitLookup(p) \/ L!CommitPut(p)
  BY <1>10, CommitStep
<1>11. CASE L!CommitEnrich(p)
  BY <1>11, EndStep DEF L!CommitEnrich
<1> QED BY <1>1, <1>2, <1>3, <1>4, <1>5, <1>6, <1>7, <1>8, <1>9, <1>10, <1>11 DEF L!Step

\* A verdict is forgotten, and no entry with it.
LEMMA ForgetStep ==
    ASSUME IInv, NEW a \in L!Asked, L!Forget(a) PROVE IInv'
<1>1. CacheType' /\ LookupType'
  BY DEF L!Forget, IInv, CacheType, LookupType, L!Idle, Reading, Working
<1>2. L!AliasResolves'
  BY DEF L!Forget, IInv, CacheType, L!AliasResolves
<1> QED BY <1>1, <1>2 DEF IInv

LEMMA NextKeeps ==
    ASSUME L!LookupAssumption, IInv, [L!Next]_L!vars PROVE IInv'
<1>1. CASE \E p \in Lookups, l \in Langs :
             L!BeginEnrich(p, l) \/ (\E i \in Inputs : L!Begin(p, i, l))
  BY <1>1, BeginEnrichStep, BeginStep DEF L!LookupAssumption
<1>2. CASE \E p \in Lookups : L!Step(p)
  BY <1>2, StepKeeps
<1>3. CASE \E p \in Lookups : L!Die(p)
  BY <1>3, EndStep DEF L!Die
<1>4. CASE \E a \in L!Asked : L!Forget(a)
  BY <1>4, ForgetStep
<1>5. CASE (\E a \in L!Asked : L!Expire(a)) \/ (\E i \in L!Ids : L!Review(i)) \/ UNCHANGED L!vars
  <2>1. UNCHANGED <<entries, aliases, lookup>>
    BY <1>5 DEF L!Expire, L!Review, L!cache, L!vars
  <2> QED BY <2>1 DEF IInv, CacheType, LookupType, L!AliasResolves, L!Idle, Reading, Working
<1> QED BY <1>1, <1>2, <1>3, <1>4, <1>5 DEF L!Next

\* LookupCacheRepository: whatever lookups race, die, lose their claims or
\* write half of what they meant to, an input the cache calls known leads to
\* an entry with senses.
THEOREM SpecAliasResolves ==
    ASSUME L!LookupAssumption PROVE L!Spec => []L!AliasResolves
<1>1. L!Init => IInv
  BY DEF L!Init, IInv, CacheType, LookupType, L!AliasResolves, L!Asked
<1>2. IInv /\ [L!Next]_L!vars => IInv'
  BY NextKeeps
<1>3. IInv => L!AliasResolves
  BY DEF IInv
<1> QED BY <1>1, <1>2, <1>3, PTL DEF L!Spec

\* The same for the service, whose other parts leave the cache alone.
THEOREM ServiceAliasResolves == MCSpec => []AliasResolves
<1> DEFINE Inv == scene = "lookup" => IInv
<1>1. MCInit => Inv
  BY DEF MCInit, L!Init, IInv, CacheType, LookupType, L!AliasResolves, L!Asked
<1>2. ASSUME Inv, [MCNext]_allVars PROVE Inv'
  <2> SUFFICES ASSUME scene' = "lookup" PROVE IInv'
    OBVIOUS
  <2>1. scene' = scene
    BY <1>2 DEF MCNext, allVars
  <2>2. [L!Next]_L!vars
    BY <1>2, <2>1 DEF MCNext, allVars, lookupVars, L!vars
  <2> QED BY <1>2, <2>1, <2>2, NextKeeps, LookupsAssumption
<1>3. Inv => AliasResolves
  BY DEF AliasResolves, IInv
<1> QED BY <1>1, <1>2, <1>3, PTL DEF MCSpec

-----------------------------------------------------------------------------
(* The lexicon: rows that stay, and the claims of single flight. *)

\* Ids are drawn one after the other, and one of the senses is the last.
SensesInv ==
    /\ senses \in [L!Ids -> L!SenseRow \cup {None}]
    /\ \E n \in 0..MaxIds : L!Stored = 1..n
    /\ L!Stored # {} => \E j \in L!Stored : \A i \in L!Stored : senses[i].position <= senses[j].position

\* What a lookup is about to write, and whether it holds a claim.
Held(row) ==
    /\ row.at = "ask" => row.owns \in BOOLEAN
    /\ row.at \in {"record", "write", "enrich"} => row.answer \subseteq Keys /\ row.lang \in Langs
    /\ row.at \in {"write", "enrich"} => row.position \in Nat

RowsHeld == \A p \in Lookups : Held(lookup[p])

\* Of the lookups that own a question, one may hold its claim; each of the
\* others has lost it to the lease.
Bound(a) == expiries + (IF claims[a] = None THEN 0 ELSE 1)

ClaimsInv ==
    /\ claims \in [L!Asked -> Lookups \cup {None}]
    /\ expiries \in Nat /\ disabled \in BOOLEAN
    /\ \A a \in L!Asked :
         /\ IsFiniteSet(L!Owners(a))
         /\ ~disabled => Cardinality(L!Owners(a)) <= Bound(a)

LexInv == SensesInv /\ RowsHeld /\ ClaimsInv

\* What a lookup or a build may do to a sense that is there.
Grown ==
    \A i \in L!Stored :
        /\ senses'[i] # None
        /\ senses'[i] = [senses[i] EXCEPT !.langs = senses'[i].langs]
        /\ senses[i].langs \subseteq senses'[i].langs

LEMMA SensesStand == ASSUME SensesInv, UNCHANGED senses PROVE SensesInv' /\ Grown
<1>1. SensesInv'
  BY DEF SensesInv, L!Stored
<1>2. ASSUME NEW i \in L!Stored PROVE senses[i] \in L!SenseRow /\ senses[i] # None
  BY DEF SensesInv, L!Stored
<1> QED BY <1>1, <1>2 DEF Grown, L!SenseRow

\* A set is finite, and counted, in Lookup as it is here.
LEMMA SameCount == ASSUME NEW S PROVE L!Cardinality(S) = Cardinality(S)
BY DEF L!Cardinality, Cardinality

LEMMA SameFinite == ASSUME NEW S PROVE L!IsFiniteSet(S) <=> IsFiniteSet(S)
BY DEF L!IsFiniteSet, IsFiniteSet

LEMMA StoredCount ==
    ASSUME L!LookupAssumption, SensesInv
    PROVE  \E n \in 0..MaxIds : L!Stored = 1..n /\ Cardinality(L!Stored) = n
<1>1. PICK n \in 0..MaxIds : L!Stored = 1..n
  BY DEF SensesInv
<1>2. n \in Int /\ n >= 0
  BY <1>1 DEF L!LookupAssumption
<1>3. Cardinality(1..n) = IF 1 > n THEN 0 ELSE n - 1 + 1
  BY <1>2, FS_Interval
<1> QED BY <1>1, <1>2, <1>3

\* The next position comes after one that is taken.
LEMMA NextPositionIs == ASSUME SensesInv PROVE L!NextPosition \in Nat
<1>1. \A i \in L!Stored : senses[i].position \in Nat
  BY DEF SensesInv, L!Stored, L!SenseRow
<1>2. CASE L!Stored = {}
  BY <1>2 DEF L!NextPosition
<1>3. CASE L!Stored # {}
  <2> DEFINE positions == {senses[i].position : i \in L!Stored}
             top == CHOOSE n \in positions : \A i \in L!Stored : senses[i].position <= n
  <2>1. \E n \in positions : \A i \in L!Stored : senses[i].position <= n
    BY <1>3 DEF SensesInv
  <2>2. top \in positions
    BY <2>1
  <2>3. top \in Nat
    BY <1>1, <2>2
  <2> HIDE DEF top
  <2>4. 1 + top \in Nat
    BY <2>3
  <2> QED BY <1>3, <2>4 DEF L!NextPosition, top
<1> QED BY <1>2, <1>3

\* Senses are added after those that are there, which at most get a headline.
LEMMA AppendStep ==
    ASSUME L!LookupAssumption, L!RowsAssumption, SensesInv, NEW row,
           row.position \in Nat, row.lang \in Langs, NEW new \in SUBSET Keys, NEW topped,
           L!Append(row, new, topped)
    PROVE  SensesInv' /\ Grown
<1> DEFINE fresh == L!Fresh(new)
           n == L!Cardinality(L!Stored)
           c == L!Cardinality(fresh)
           Added == n + 1..n + c
           Row(key, i) == [key |-> key[i], position |-> row.position + (i - n - 1),
                           status |-> "auto", langs |-> {row.lang}]
<1>1. n \in 0..MaxIds /\ L!Stored = 1..n
  <2> HIDE DEF n
  <2>1. n = Cardinality(L!Stored)
    BY SameCount DEF n
  <2> QED BY <2>1, StoredCount
<1>2. fresh \subseteq Keys
  BY DEF L!Fresh
<1>3. Cardinality(fresh) \in Nat
  <2> HIDE DEF fresh
  <2>1. fresh \in SUBSET Keys /\ IsFiniteSet(Keys)
    BY <1>2, SameFinite DEF L!LookupAssumption
  <2>2. IsFiniteSet(fresh)
    BY <2>1, FS_Subset
  <2> QED BY <2>2, FS_CardinalityType
<1>4. PICK key \in [Added -> fresh] :
        /\ n + c <= MaxIds
        /\ senses' = [i \in L!Ids |->
             CASE i \in DOMAIN key -> Row(key, i)
               [] i \in L!Stored /\ (i \in topped \/ senses[i].key \in new) ->
                    L!ToppedUp(senses[i], row.lang)
               [] OTHER -> senses[i]]
  BY Zenon DEF L!Append
<1>count. c \in Nat
  <2> HIDE DEF fresh
  <2> QED BY <1>3, SameCount
<1> HIDE DEF fresh, n, c
<1>5. L!Ids = 1..MaxIds /\ MaxIds \in Nat /\ n \in Nat
  BY <1>1 DEF L!Ids, L!LookupAssumption
<1>6. DOMAIN key = Added
  BY <1>4
<1>7. ASSUME NEW i \in Added PROVE senses'[i] = Row(key, i) /\ Row(key, i) \in L!SenseRow
  <2>1. i \in L!Ids /\ i \in DOMAIN key
    BY <1>count, <1>4, <1>5, <1>6, <1>7
  <2>2. senses'[i] = Row(key, i)
    <3>1. i \notin L!Stored
      BY <1>1, <1>5, <1>count, <1>7
    <3> HIDE DEF Row, Added
    <3> QED BY <1>4, <2>1, <3>1
  <2>3. key[i] \in Keys
    BY <1>2, <1>4, <1>7
  <2>4. row.position + (i - n - 1) \in Nat
    BY <1>count, <1>5, <1>7
  <2> QED BY <2>2, <2>3, <2>4 DEF L!SenseRow, L!Statuses
<1>8. ASSUME NEW i \in L!Stored
      PROVE  /\ senses[i] \in L!SenseRow
             /\ senses'[i] = senses[i] \/ senses'[i] = L!ToppedUp(senses[i], row.lang)
  <2>1. i \in L!Ids /\ i \notin Added
    BY <1>1, <1>count, <1>5, <1>8
  <2>2. senses[i] \in L!SenseRow
    BY <1>8 DEF SensesInv, L!Stored
  <2>3. senses'[i] = IF i \in topped \/ senses[i].key \in new
                     THEN L!ToppedUp(senses[i], row.lang) ELSE senses[i]
    BY <1>4, <1>6, <1>8, <2>1
  <2> QED BY <2>2, <2>3
<1>9. ASSUME NEW i \in L!Stored
      PROVE  /\ senses'[i] \in L!SenseRow /\ senses'[i].position = senses[i].position
             /\ senses'[i] = [senses[i] EXCEPT !.langs = senses'[i].langs]
             /\ senses[i].langs \subseteq senses'[i].langs
  <2>1. CASE senses'[i] = senses[i]
    BY <1>8, <2>1 DEF L!SenseRow
  <2>2. CASE senses'[i] = L!ToppedUp(senses[i], row.lang)
    BY <1>8, <2>2 DEF L!ToppedUp, L!SenseRow
  <2> QED BY <1>8, <2>1, <2>2
<1>10. ASSUME NEW i \in L!Ids, i \notin Added, i \notin L!Stored PROVE senses'[i] = None
  <2>1. senses'[i] = senses[i]
    BY <1>4, <1>6, <1>10
  <2> QED BY <1>10, <2>1 DEF L!Stored
<1>11. senses' \in [L!Ids -> L!SenseRow \cup {None}]
  <2>1. senses' = [i \in L!Ids |-> senses'[i]]
    BY <1>4
  <2>2. \A i \in L!Ids : senses'[i] \in L!SenseRow \cup {None}
    BY <1>7, <1>9, <1>10
  <2> QED BY <2>1, <2>2
<1>12. L!Stored' = 1..n + c
  <2>1. \A i \in L!Ids : senses'[i] # None <=> i \in Added \/ i \in L!Stored
    BY <1>7, <1>9, <1>10 DEF L!RowsAssumption
  <2>2. \A i : i \in Added \/ i \in 1..n <=> i \in 1..n + c
    BY <1>count, <1>5
  <2>3. 1..n + c \subseteq L!Ids
    BY <1>count, <1>4, <1>5
  <2> QED BY <1>1, <2>1, <2>2, <2>3 DEF L!Stored
<1>13. L!Stored' # {} =>
         \E j \in L!Stored' : \A i \in L!Stored' : senses'[i].position <= senses'[j].position
  <2>1. \A i \in L!Stored : senses[i].position \in Nat
    BY <1>8 DEF L!SenseRow
  <2>2. \A i \in Added : senses'[i].position = row.position + (i - n - 1)
    <3> SUFFICES ASSUME NEW i \in Added PROVE senses'[i].position = row.position + (i - n - 1)
      OBVIOUS
    <3>1. Row(key, i).position = row.position + (i - n - 1)
      OBVIOUS
    <3> QED BY <1>7, <3>1
  <2>3. CASE c = 0
    <3>1. L!Stored' = L!Stored
      BY <1>1, <1>5, <1>12, <2>3
    <3> QED BY <1>9, <3>1 DEF SensesInv
  <2>4. CASE c # 0
    <3>1. n + c \in Added /\ n + c \in L!Stored' /\ \A i \in Added : i <= n + c
      BY <1>count, <1>5, <1>12, <2>4
    <3>2. \A i \in Added : senses'[i].position <= senses'[n + c].position
      BY <1>count, <1>5, <2>2, <3>1
    <3>3. \A i \in L!Stored' : i \in Added \/ i \in L!Stored
      BY <1>1, <1>count, <1>5, <1>12
    <3>4. senses'[n + c].position \in Nat
      BY <1>7, <3>1 DEF L!SenseRow
    <3>5. CASE L!Stored = {}
      BY <3>1, <3>2, <3>3, <3>5
    <3>6. CASE L!Stored # {}
      <4>1. PICK j \in L!Stored : \A i \in L!Stored : senses[i].position <= senses[j].position
        BY <3>6 DEF SensesInv
      <4>2. j \in L!Stored'
        BY <1>1, <1>count, <1>5, <1>12, <4>1
      <4>3. CASE senses[j].position <= senses'[n + c].position
        <5>1. \A i \in L!Stored : senses'[i].position <= senses'[n + c].position
          <6> SUFFICES ASSUME NEW i \in L!Stored PROVE senses'[i].position <= senses'[n + c].position
            OBVIOUS
          <6>1. /\ senses[i].position \in Nat /\ senses[j].position \in Nat
                /\ senses[i].position <= senses[j].position
            BY <2>1, <4>1
          <6>2. senses'[i].position = senses[i].position
            BY <1>9
          <6> QED BY <3>4, <4>3, <6>1, <6>2
        <5> QED BY <3>1, <3>2, <3>3, <5>1
      <4>4. CASE senses'[n + c].position < senses[j].position
        <5>1. \A i \in L!Stored : senses'[i].position <= senses'[j].position
          BY <1>9, <4>1
        <5>2. \A i \in Added : senses'[i].position <= senses'[j].position
          <6> SUFFICES ASSUME NEW i \in Added PROVE senses'[i].position <= senses'[j].position
            OBVIOUS
          <6>1. senses'[i].position \in Nat
            BY <1>7 DEF L!SenseRow
          <6>2. senses'[i].position <= senses'[n + c].position
            BY <3>2
          <6>3. senses'[j].position = senses[j].position /\ senses[j].position \in Nat
            BY <1>9, <2>1, <4>1
          <6> QED BY <3>4, <4>4, <6>1, <6>2, <6>3
        <5> QED BY <3>3, <4>2, <5>1, <5>2
      <4> QED BY <2>1, <3>4, <4>1, <4>3, <4>4
    <3> QED BY <3>5, <3>6
  <2> QED BY <2>3, <2>4
<1>14. n + c \in 0..MaxIds
  BY <1>count, <1>4, <1>5
<1>15. SensesInv'
  BY <1>11, <1>12, <1>13, <1>14 DEF SensesInv
<1>16. Grown
  BY <1>9 DEF Grown, L!RowsAssumption
<1> QED BY <1>15, <1>16

Owning(row) == row.at = "ask" /\ row.owns = TRUE

\* A lookup that moves on joins the owners of what it asks, or leaves them.
LEMMA OwnersStep ==
    ASSUME IInv, RowsHeld, NEW p \in Lookups, NEW row, Held(row), NEW a,
           lookup' = [lookup EXCEPT ![p] = row]
    PROVE  L!Owners(a)' = IF Owning(row) /\ <<row.input, row.lang>> = a
                          THEN L!Owners(a) \cup {p} ELSE L!Owners(a) \ {p}
<1>1. lookup'[p] = row /\ \A q \in Lookups \ {p} : lookup'[q] = lookup[q]
  BY DEF IInv, LookupType
<1>2. \A q \in Lookups : q \in L!Owners(a) <=>
        /\ lookup[q].at = "ask" /\ lookup[q].owns
        /\ <<lookup[q].input, lookup[q].lang>> = a
  BY DEF L!Owners, L!At, L!Asks
<1>3. \A q \in Lookups : q \in L!Owners(a)' <=>
        /\ lookup'[q].at = "ask" /\ lookup'[q].owns
        /\ <<lookup'[q].input, lookup'[q].lang>> = a
  BY DEF L!Owners, L!At, L!Asks
<1>4. L!Owners(a) \subseteq Lookups /\ L!Owners(a)' \subseteq Lookups
  BY DEF L!Owners
<1>5. p \in L!Owners(a)' <=> Owning(row) /\ <<row.input, row.lang>> = a
  BY <1>1, <1>3 DEF Owning, Held
<1>6. \A q \in Lookups \ {p} : q \in L!Owners(a)' <=> q \in L!Owners(a)
  BY <1>1, <1>2, <1>3
<1> QED BY <1>4, <1>5, <1>6

LEMMA RowsStep ==
    ASSUME IInv, RowsHeld, NEW p \in Lookups, NEW row, Held(row),
           lookup' = [lookup EXCEPT ![p] = row]
    PROVE  RowsHeld'
<1>1. lookup'[p] = row /\ \A q \in Lookups \ {p} : lookup'[q] = lookup[q]
  BY DEF IInv, LookupType
<1> SUFFICES ASSUME NEW q \in Lookups PROVE Held(lookup'[q])
  BY DEF RowsHeld, Held
<1>2. CASE q = p
  BY <1>1, <1>2
<1>3. CASE q # p
  BY <1>1, <1>3 DEF RowsHeld
<1> QED BY <1>2, <1>3

\* A lookup that owns nothing after its step is an owner less, if it was one.
LEMMA LeaveStep ==
    ASSUME IInv, RowsHeld, ClaimsInv, NEW p \in Lookups, NEW row, Held(row), ~Owning(row),
           lookup' = [lookup EXCEPT ![p] = row], NEW a \in L!Asked
    PROVE  /\ IsFiniteSet(L!Owners(a)')
           /\ Cardinality(L!Owners(a)) \in Nat /\ Cardinality(L!Owners(a)') \in Nat
           /\ Cardinality(L!Owners(a)') =
                IF p \in L!Owners(a) THEN Cardinality(L!Owners(a)) - 1 ELSE Cardinality(L!Owners(a))
<1>1. L!Owners(a)' = L!Owners(a) \ {p}
  BY OwnersStep
<1>2. IsFiniteSet(L!Owners(a))
  BY DEF ClaimsInv
<1>3. /\ IsFiniteSet(L!Owners(a) \ {p})
      /\ Cardinality(L!Owners(a) \ {p}) =
           IF p \in L!Owners(a) THEN Cardinality(L!Owners(a)) - 1 ELSE Cardinality(L!Owners(a))
  <2> DEFINE old == L!Owners(a)
  <2> HIDE DEF old
  <2>1. IsFiniteSet(old)
    BY <1>2 DEF old
  <2>2. /\ IsFiniteSet(old \ {p})
        /\ Cardinality(old \ {p}) = IF p \in old THEN Cardinality(old) - 1 ELSE Cardinality(old)
    BY <2>1, FS_RemoveElement
  <2> QED BY <2>2 DEF old
<1>4. Cardinality(L!Owners(a)) \in Nat
  BY <1>2, FS_CardinalityType
<1>5. Cardinality(L!Owners(a)') \in Nat
  BY <1>1, <1>3, FS_CardinalityType
<1> QED BY <1>1, <1>3, <1>4, <1>5

\* Claims and owners stay as they are, but for a lookup that leaves.
LEMMA StillStep ==
    ASSUME IInv, RowsHeld, ClaimsInv, NEW p \in Lookups, NEW row, Held(row), ~Owning(row),
           lookup' = [lookup EXCEPT ![p] = row], UNCHANGED <<claims, disabled, expiries>>
    PROVE  RowsHeld' /\ ClaimsInv'
<1>1. RowsHeld'
  BY RowsStep
<1>2. ASSUME NEW a \in L!Asked
      PROVE  /\ IsFiniteSet(L!Owners(a)')
             /\ ~disabled => Cardinality(L!Owners(a)') <= Bound(a)
  <2>1. Bound(a) \in Int
    BY DEF Bound, ClaimsInv
  <2>2. ~disabled => Cardinality(L!Owners(a)) <= Bound(a)
    BY DEF ClaimsInv
  <2> DEFINE old == Cardinality(L!Owners(a))
             new == Cardinality(L!Owners(a)')
  <2>3. IsFiniteSet(L!Owners(a)') /\ old \in Nat /\ new \in Nat /\ (new = old \/ new = old - 1)
    BY LeaveStep
  <2> HIDE DEF old, new
  <2>4. ~disabled => old <= Bound(a)
    BY <2>2 DEF old
  <2>5. ~disabled => new <= Bound(a)
    BY <2>1, <2>3, <2>4
  <2> QED BY <2>3, <2>5 DEF new
<1>3. \A a : Bound(a)' = Bound(a)
  BY DEF Bound
<1> QED BY <1>1, <1>2, <1>3 DEF ClaimsInv

\* The claim of a lookup goes with it, if it is still there.
LEMMA ReleaseStep ==
    ASSUME IInv, RowsHeld, ClaimsInv, NEW p \in Lookups, NEW row, Held(row), ~Owning(row),
           L!At(p, "ask"), lookup' = [lookup EXCEPT ![p] = row], L!Release(p), UNCHANGED expiries
    PROVE  RowsHeld' /\ ClaimsInv'
<1>1. CASE UNCHANGED <<claims, disabled>>
  BY <1>1, StillStep
<1>2. CASE lookup[p].owns /\ ~disabled /\ claims' = [claims EXCEPT ![L!Asks(p)] = None] /\ UNCHANGED disabled
  <2>1. L!Asks(p) \in L!Asked /\ p \in L!Owners(L!Asks(p))
    BY <1>2, RowAt DEF L!Asks, L!Asked, L!Owners, Working
  <2>2. claims' \in [L!Asked -> Lookups \cup {None}]
    BY <1>2 DEF ClaimsInv
  <2>3. ASSUME NEW a \in L!Asked
        PROVE  IsFiniteSet(L!Owners(a)') /\ Cardinality(L!Owners(a)') <= Bound(a)'
    <3> DEFINE old == Cardinality(L!Owners(a))
               new == Cardinality(L!Owners(a)')
    <3>1. old <= Bound(a) /\ expiries \in Nat
      BY <1>2 DEF ClaimsInv
    <3>4. /\ IsFiniteSet(L!Owners(a)') /\ old \in Nat /\ new \in Nat
          /\ new = (IF p \in L!Owners(a) THEN old - 1 ELSE old)
      BY LeaveStep
    <3> HIDE DEF old, new
    <3>2. CASE a = L!Asks(p)
      <4>1. Bound(a)' = expiries
        BY <1>2, <2>1, <3>2 DEF Bound, ClaimsInv
      <4>2. Bound(a) <= expiries + 1
        BY <3>1 DEF Bound
      <4>3. Bound(a) \in Int
        BY <3>1 DEF Bound
      <4>4. p \in L!Owners(a)
        BY <2>1, <3>2
      <4>5. new <= Bound(a)'
        BY <3>1, <3>4, <4>1, <4>2, <4>3, <4>4
      <4> QED BY <3>4, <4>5 DEF new
    <3>3. CASE a # L!Asks(p)
      <4>1. Bound(a)' = Bound(a) /\ Bound(a) \in Int
        BY <1>2, <3>1, <3>3 DEF Bound, ClaimsInv
      <4>2. new <= Bound(a)'
        BY <3>1, <3>4, <4>1
      <4> QED BY <3>4, <4>2 DEF new
    <3> QED BY <3>2, <3>3
  <2>4. RowsHeld'
    BY RowsStep
  <2> QED BY <1>2, <2>2, <2>3, <2>4 DEF ClaimsInv
<1>3. CASE disabled' = TRUE /\ UNCHANGED claims
  <2>1. RowsHeld'
    BY RowsStep
  <2>2. \A a \in L!Asked : IsFiniteSet(L!Owners(a)')
    BY LeaveStep
  <2> QED BY <1>3, <2>1, <2>2 DEF ClaimsInv
<1> QED BY <1>1, <1>2, <1>3 DEF L!Release

\* An owner more for what it asks.
LEMMA JoinStep ==
    ASSUME IInv, RowsHeld, ClaimsInv, NEW p \in Lookups, NEW row, Held(row), Owning(row),
           lookup' = [lookup EXCEPT ![p] = row], NEW a \in L!Asked
    PROVE  /\ IsFiniteSet(L!Owners(a)')
           /\ Cardinality(L!Owners(a)) \in Nat /\ Cardinality(L!Owners(a)') \in Nat
           /\ Cardinality(L!Owners(a)') <= Cardinality(L!Owners(a)) + 1
           /\ a # <<row.input, row.lang>> => Cardinality(L!Owners(a)') <= Cardinality(L!Owners(a))
<1> DEFINE old == L!Owners(a)
<1>1. L!Owners(a)' = IF <<row.input, row.lang>> = a THEN old \cup {p} ELSE old \ {p}
  BY OwnersStep
<1>2. IsFiniteSet(old)
  BY DEF ClaimsInv
<1> HIDE DEF old
<1>3. IsFiniteSet(old \ {p}) /\ Cardinality(old \ {p}) = IF p \in old THEN Cardinality(old) - 1 ELSE Cardinality(old)
  BY <1>2, FS_RemoveElement
<1>4. IsFiniteSet(old \cup {p}) /\ Cardinality(old \cup {p}) = IF p \in old THEN Cardinality(old) ELSE Cardinality(old) + 1
  BY <1>2, FS_AddElement
<1>5. Cardinality(old) \in Nat /\ Cardinality(old \ {p}) \in Nat /\ Cardinality(old \cup {p}) \in Nat
  BY <1>2, <1>3, <1>4, FS_CardinalityType
<1>6. CASE <<row.input, row.lang>> = a
  <2>1. L!Owners(a)' = old \cup {p}
    BY <1>1, <1>6
  <2>2. /\ IsFiniteSet(L!Owners(a)') /\ Cardinality(L!Owners(a)') \in Nat
        /\ Cardinality(L!Owners(a)') <= Cardinality(old) + 1
    BY <1>4, <1>5, <2>1
  <2> QED BY <1>5, <1>6, <2>2 DEF old
<1>7. CASE <<row.input, row.lang>> # a
  <2>1. L!Owners(a)' = old \ {p}
    BY <1>1, <1>7
  <2>2. /\ IsFiniteSet(L!Owners(a)') /\ Cardinality(L!Owners(a)') \in Nat
        /\ Cardinality(L!Owners(a)') <= Cardinality(old)
    BY <1>3, <1>5, <2>1
  <2>3. Cardinality(L!Owners(a)') <= Cardinality(old) + 1
    BY <1>5, <2>2
  <2> QED BY <1>5, <2>2, <2>3 DEF old
<1> QED BY <1>6, <1>7

Assumed == L!LookupAssumption /\ L!RowsAssumption

\* The lookups that read, wait and end leave lexicon and claims alone.
LEMMA QuietStep ==
    ASSUME IInv, LexInv, NEW p \in Lookups, NEW row, Held(row), ~Owning(row),
           lookup' = [lookup EXCEPT ![p] = row], UNCHANGED <<senses, L!flight>>
    PROVE  LexInv' /\ Grown
<1>1. UNCHANGED <<claims, disabled, expiries>>
  BY DEF L!flight
<1>2. RowsHeld' /\ ClaimsInv'
  BY <1>1, StillStep DEF LexInv
<1>3. SensesInv' /\ Grown
  BY SensesStand DEF LexInv
<1> QED BY <1>2, <1>3 DEF LexInv

LEMMA QuietEnd ==
    ASSUME IInv, LexInv, NEW p \in Lookups, L!End(p), UNCHANGED <<senses, L!flight>>
    PROVE  LexInv' /\ Grown
<1>1. Held(L!Idle) /\ ~Owning(L!Idle)
  BY DEF Held, Owning, L!Idle
<1> QED BY <1>1, QuietStep DEF L!End

LEMMA QuietMove ==
    ASSUME IInv, LexInv, NEW p \in Lookups, NEW stage \in {"lexicon", "claim", "wait"},
           lookup[p] \in Reading, L!Move(p, stage), UNCHANGED <<senses, L!flight>>
    PROVE  LexInv' /\ Grown
<1>1. [lookup[p] EXCEPT !.at = stage] \in Reading
  BY DEF Reading
<1>2. lookup' = [lookup EXCEPT ![p] = [lookup[p] EXCEPT !.at = stage]]
  BY DEF L!Move
<1> DEFINE row == [lookup[p] EXCEPT !.at = stage]
<1>3. row.at \notin {"ask", "record", "write", "enrich"}
  BY <1>1 DEF Reading
<1> HIDE DEF row
<1>4. Held(row) /\ ~Owning(row)
  BY <1>3 DEF Held, Owning
<1>5. lookup' = [lookup EXCEPT ![p] = row]
  BY <1>2 DEF row
<1> QED BY <1>4, <1>5, QuietStep

LEMMA QuietHit ==
    ASSUME IInv, LexInv, NEW p \in Lookups, L!Hit(p) PROVE LexInv' /\ Grown
<1> DEFINE row == [at |-> "put", input |-> lookup[p].input, lang |-> lookup[p].lang,
                   answer |-> L!KeysOf(L!Firsts(L!InLexicon(p)))]
<1>1. lookup' = [lookup EXCEPT ![p] = row] /\ UNCHANGED <<senses, L!flight>>
  BY DEF L!Hit
<1>2. Held(row) /\ ~Owning(row)
  BY DEF Held, Owning
<1> HIDE DEF row
<1> QED BY <1>1, <1>2, QuietStep

LEMMA QuietBegin ==
    ASSUME IInv, LexInv, NEW p \in Lookups, NEW l \in Langs, NEW i \in Inputs, L!Begin(p, i, l)
    PROVE  LexInv' /\ Grown
<1> DEFINE row == [at |-> "cache", input |-> i, lang |-> l]
<1>1. lookup' = [lookup EXCEPT ![p] = row] /\ UNCHANGED <<senses, L!flight>>
  BY DEF L!Begin
<1>2. Held(row) /\ ~Owning(row)
  BY DEF Held, Owning
<1> HIDE DEF row
<1> QED BY <1>1, <1>2, QuietStep

\* What is read of the lexicon: the keys of the senses and the next position.
LEMMA ReadHeld ==
    ASSUME SensesInv, NEW row, row.answer \subseteq Keys, row.lang \in Langs,
           NEW stage \in {"write", "enrich"}
    PROVE  Held(L!Read(row, stage)) /\ ~Owning(L!Read(row, stage))
BY NextPositionIs DEF Held, Owning, L!Read

LEMMA QuietRecord ==
    ASSUME IInv, LexInv, NEW p \in Lookups, L!Record(p) PROVE LexInv' /\ Grown
<1>1. lookup[p].answer \subseteq Keys /\ lookup[p].lang \in Langs
  BY DEF LexInv, RowsHeld, Held, L!Record, L!At
<1>2. Held(L!Read(lookup[p], "write")) /\ ~Owning(L!Read(lookup[p], "write"))
  BY <1>1, ReadHeld DEF LexInv
<1>3. lookup' = [lookup EXCEPT ![p] = L!Read(lookup[p], "write")] /\ UNCHANGED <<senses, L!flight>>
  BY DEF L!Record
<1> QED BY <1>2, <1>3, QuietStep

LEMMA QuietEnrich ==
    ASSUME IInv, LexInv, NEW p \in Lookups, NEW l \in Langs, L!BeginEnrich(p, l)
    PROVE  LexInv' /\ Grown
<1>1. PICK says \in SUBSET Keys : lookup' = [lookup EXCEPT
        ![p] = L!Read([input |-> Headword, lang |-> l, answer |-> says], "enrich")]
  BY DEF L!BeginEnrich
<1> DEFINE row == L!Read([input |-> Headword, lang |-> l, answer |-> says], "enrich")
<1>2. Held(row) /\ ~Owning(row)
  BY ReadHeld DEF LexInv
<1>3. UNCHANGED <<senses, L!flight>>
  BY DEF L!BeginEnrich
<1> HIDE DEF row
<1>4. lookup' = [lookup EXCEPT ![p] = row]
  BY <1>1 DEF row
<1> QED BY <1>2, <1>3, <1>4, QuietStep

\* A claim that is free is taken; a lookup that Redis does not answer asks
\* without, and from then on nobody counts.
LEMMA AcquireStep ==
    ASSUME Assumed, IInv, LexInv, NEW p \in Lookups, L!Acquire(p) PROVE LexInv' /\ Grown
<1>1. lookup[p] \in Reading
  BY RowAt DEF L!Acquire
<1>2. CASE claims[L!Asks(p)] # None
  BY <1>1, <1>2, QuietMove DEF L!Acquire, L!Free, L!flight
<1>3. CASE claims[L!Asks(p)] = None
  <2> DEFINE row == [at |-> "ask", input |-> lookup[p].input, lang |-> lookup[p].lang, owns |-> TRUE]
             asked == L!Asks(p)
  <2>1. /\ lookup' = [lookup EXCEPT ![p] = row] /\ claims' = [claims EXCEPT ![asked] = p]
        /\ UNCHANGED <<senses, disabled, expiries>> /\ ~disabled
    BY <1>3 DEF L!Acquire, L!Free, L!Asking
  <2>2. Held(row) /\ Owning(row) /\ <<row.input, row.lang>> = asked
    BY DEF Held, Owning, L!Asks
  <2>3. asked \in L!Asked
    BY <1>1 DEF L!Asks, L!Asked, Reading
  <2>8. claims[asked] = None
    BY <1>3
  <2> HIDE DEF row, asked
  <2>4. claims' \in [L!Asked -> Lookups \cup {None}]
    BY <2>1 DEF LexInv, ClaimsInv
  <2>5. ASSUME NEW a \in L!Asked
        PROVE  IsFiniteSet(L!Owners(a)') /\ Cardinality(L!Owners(a)') <= Bound(a)'
    <3> DEFINE old == Cardinality(L!Owners(a))
               new == Cardinality(L!Owners(a)')
    <3>1. old <= Bound(a) /\ expiries \in Nat
      BY <2>1 DEF LexInv, ClaimsInv
    <3>2. /\ IsFiniteSet(L!Owners(a)') /\ old \in Nat /\ new \in Nat /\ new <= old + 1
          /\ a # asked => new <= old
      BY <2>1, <2>2, JoinStep DEF LexInv
    <3> HIDE DEF old, new
    <3>3. CASE a = asked
      <4>1. Bound(a) = expiries
        BY <2>8, <3>1, <3>3 DEF Bound
      <4>2. Bound(a)' = expiries + 1
        BY <2>1, <2>3, <3>1, <3>3 DEF Bound, Assumed, L!LookupAssumption, LexInv, ClaimsInv
      <4>3. new <= Bound(a)'
        BY <3>1, <3>2, <4>1, <4>2
      <4> QED BY <3>2, <4>3 DEF new
    <3>4. CASE a # asked
      <4>1. Bound(a)' = Bound(a) /\ Bound(a) \in Int
        BY <2>1, <3>1, <3>4 DEF Bound, LexInv, ClaimsInv
      <4>2. new <= Bound(a)'
        BY <3>1, <3>2, <3>4, <4>1
      <4> QED BY <3>2, <4>2 DEF new
    <3> QED BY <3>3, <3>4
  <2>6. ClaimsInv'
    BY <2>1, <2>4, <2>5 DEF ClaimsInv, LexInv
  <2>7. RowsHeld' /\ SensesInv' /\ Grown
    BY <2>1, <2>2, RowsStep, SensesStand DEF LexInv
  <2> QED BY <2>6, <2>7 DEF LexInv
<1> QED BY <1>2, <1>3

LEMMA AcquireFailsStep ==
    ASSUME IInv, LexInv, NEW p \in Lookups, L!AcquireFails(p) PROVE LexInv' /\ Grown
<1> DEFINE row == [at |-> "ask", input |-> lookup[p].input, lang |-> lookup[p].lang, owns |-> TRUE]
<1>1. lookup' = [lookup EXCEPT ![p] = row] /\ UNCHANGED <<senses, claims, expiries>> /\ disabled' = TRUE
  BY DEF L!AcquireFails, L!Asking
<1>2. Held(row) /\ Owning(row)
  BY DEF Held, Owning
<1> HIDE DEF row
<1>3. \A a \in L!Asked : IsFiniteSet(L!Owners(a)')
  BY <1>1, <1>2, JoinStep DEF LexInv
<1>4. ClaimsInv'
  BY <1>1, <1>3 DEF ClaimsInv, LexInv
<1>5. RowsHeld' /\ SensesInv' /\ Grown
  BY <1>1, <1>2, RowsStep, SensesStand DEF LexInv
<1> QED BY <1>4, <1>5 DEF LexInv

LEMMA WaitOverStep ==
    ASSUME IInv, LexInv, NEW p \in Lookups, L!WaitOver(p) PROVE LexInv' /\ Grown
<1> DEFINE row == [at |-> "ask", input |-> lookup[p].input, lang |-> lookup[p].lang, owns |-> FALSE]
<1>1. lookup' = [lookup EXCEPT ![p] = row] /\ UNCHANGED <<senses, L!flight>>
  BY DEF L!WaitOver, L!Asking
<1>2. Held(row) /\ ~Owning(row)
  BY DEF Held, Owning
<1> HIDE DEF row
<1> QED BY <1>1, <1>2, QuietStep

\* The answer has come, or the error that stands for it, and the claim goes.
LEMMA AnswerCounts ==
    ASSUME IInv, LexInv, NEW p \in Lookups, L!Answer(p) PROVE LexInv' /\ Grown
<1>1. PICK says \in SUBSET Keys : lookup' = [lookup EXCEPT
        ![p] = [at |-> IF says = {} THEN "put" ELSE "record", input |-> lookup[p].input,
                lang |-> lookup[p].lang, answer |-> says]]
  BY DEF L!Answer
<1> DEFINE row == [at |-> IF says = {} THEN "put" ELSE "record", input |-> lookup[p].input,
                   lang |-> lookup[p].lang, answer |-> says]
<1>2. lookup[p].lang \in Langs
  BY RowAt DEF L!Answer, Working
<1>3. Held(row) /\ ~Owning(row)
  BY <1>2 DEF Held, Owning
<1> HIDE DEF row
<1>4. lookup' = [lookup EXCEPT ![p] = row]
  BY <1>1 DEF row
<1>5. L!At(p, "ask") /\ L!Release(p) /\ UNCHANGED <<senses, expiries>>
  BY DEF L!Answer
<1>6. RowsHeld' /\ ClaimsInv'
  BY <1>3, <1>4, <1>5, ReleaseStep DEF LexInv
<1>7. SensesInv' /\ Grown
  BY <1>5, SensesStand DEF LexInv
<1> QED BY <1>6, <1>7 DEF LexInv

LEMMA UnavailableCounts ==
    ASSUME IInv, LexInv, NEW p \in Lookups, L!Unavailable(p) PROVE LexInv' /\ Grown
<1>1. Held(L!Idle) /\ ~Owning(L!Idle)
  BY DEF Held, Owning, L!Idle
<1>2. /\ L!At(p, "ask") /\ L!Release(p) /\ UNCHANGED <<senses, expiries>>
      /\ lookup' = [lookup EXCEPT ![p] = L!Idle]
  BY DEF L!Unavailable, L!End
<1>3. RowsHeld' /\ ClaimsInv'
  BY <1>1, <1>2, ReleaseStep DEF LexInv
<1>4. SensesInv' /\ Grown
  BY <1>2, SensesStand DEF LexInv
<1> QED BY <1>3, <1>4 DEF LexInv

\* Both commits append what they have read, whatever was inserted since.
LEMMA CommitGrows ==
    ASSUME Assumed, IInv, LexInv, NEW p \in Lookups, L!CommitLookup(p) \/ L!CommitEnrich(p)
    PROVE  LexInv' /\ Grown
<1>1. lookup[p].at \in {"write", "enrich"}
  BY DEF L!CommitLookup, L!CommitEnrich, L!At
<1>2. /\ lookup[p].answer \subseteq Keys /\ lookup[p].lang \in Langs
      /\ lookup[p].position \in Nat
  BY <1>1 DEF LexInv, RowsHeld, Held
<1>3. PICK new \in L!Added(lookup[p]) : \E topped : L!Append(lookup[p], new, topped)
  BY DEF L!CommitLookup, L!CommitEnrich
<1>4. new \in SUBSET Keys
  BY <1>2, <1>3 DEF L!Added
<1>5. SensesInv' /\ Grown
  <2>1. PICK topped : L!Append(lookup[p], new, topped)
    BY <1>3
  <2> QED BY <1>2, <1>4, <2>1, AppendStep DEF Assumed, LexInv
<1>6. Held(L!Idle) /\ ~Owning(L!Idle)
  BY DEF Held, Owning, L!Idle
<1>7. lookup' = [lookup EXCEPT ![p] = L!Idle] /\ UNCHANGED <<claims, disabled, expiries>>
  BY DEF L!CommitLookup, L!CommitEnrich, L!End, L!flight
<1>8. RowsHeld' /\ ClaimsInv'
  BY <1>6, <1>7, StillStep DEF LexInv
<1> QED BY <1>5, <1>8 DEF LexInv

LEMMA LexStep ==
    ASSUME Assumed, IInv, LexInv, NEW p \in Lookups, L!Step(p) PROVE LexInv' /\ Grown
<1>1. CASE L!ReadCache(p)
  <2>1. lookup[p] \in Reading /\ UNCHANGED <<senses, L!flight>>
    BY <1>1, RowAt DEF L!ReadCache
  <2> QED BY <1>1, <2>1, QuietEnd, QuietMove DEF L!ReadCache
<1>2. CASE L!ReadLexicon(p)
  <2>1. lookup[p] \in Reading
    BY <1>2, RowAt DEF L!ReadLexicon
  <2> QED BY <1>2, <2>1, QuietHit, QuietMove DEF L!ReadLexicon
<1>3. CASE L!Acquire(p)
  BY <1>3, AcquireStep
<1>4. CASE L!AcquireFails(p)
  BY <1>4, AcquireFailsStep
<1>5. CASE L!Poll(p)
  BY <1>5, QuietHit DEF L!Poll
<1>6. CASE L!WaitOver(p)
  BY <1>6, WaitOverStep
<1>7. CASE L!Answer(p)
  BY <1>7, AnswerCounts
<1>8. CASE L!Unavailable(p)
  BY <1>8, UnavailableCounts
<1>9. CASE L!Record(p)
  BY <1>9, QuietRecord
<1>10. CASE L!CommitLookup(p) \/ L!CommitEnrich(p)
  BY <1>10, CommitGrows
<1>11. CASE L!CommitPut(p)
  <2>1. L!End(p) /\ UNCHANGED <<senses, L!flight>>
    BY <1>11 DEF L!CommitPut
  <2> QED BY <2>1, QuietEnd
<1> QED BY <1>1, <1>2, <1>3, <1>4, <1>5, <1>6, <1>7, <1>8, <1>9, <1>10, <1>11 DEF L!Step

\* A lease that runs out is counted before its holder can be told from a thief.
LEMMA ExpireCounts ==
    ASSUME LexInv, NEW b \in L!Asked, L!Expire(b) PROVE LexInv'
<1>1. /\ claims[b] # None /\ claims' = [claims EXCEPT ![b] = None] /\ expiries' = expiries + 1
      /\ UNCHANGED <<senses, lookup, disabled>>
  BY DEF L!Expire
<1>2. claims' \in [L!Asked -> Lookups \cup {None}] /\ expiries' \in Nat
  BY <1>1 DEF LexInv, ClaimsInv
<1>3. ASSUME NEW a \in L!Asked
      PROVE  IsFiniteSet(L!Owners(a)') /\ (~disabled => Cardinality(L!Owners(a)') <= Bound(a)')
  <2>1. L!Owners(a)' = L!Owners(a)
    BY <1>1 DEF L!Owners, L!At, L!Asks
  <2>2. IsFiniteSet(L!Owners(a)) /\ (~disabled => Cardinality(L!Owners(a)) <= Bound(a)) /\ expiries \in Nat
    BY DEF LexInv, ClaimsInv
  <2>3. Cardinality(L!Owners(a)) \in Nat
    BY <2>2, FS_CardinalityType
  <2>4. Bound(a) \in Int /\ Bound(a)' \in Int /\ Bound(a) <= Bound(a)'
    BY <1>1, <2>2 DEF Bound, LexInv, ClaimsInv
  <2> DEFINE old == Cardinality(L!Owners(a))
  <2> HIDE DEF old
  <2>5. ~disabled => old <= Bound(a)'
    BY <2>2, <2>3, <2>4 DEF old
  <2> QED BY <2>1, <2>2, <2>5 DEF old
<1>4. ClaimsInv'
  BY <1>1, <1>2, <1>3 DEF ClaimsInv, LexInv
<1>5. SensesInv' /\ RowsHeld'
  BY <1>1 DEF LexInv, SensesInv, RowsHeld, L!Stored, Held
<1> QED BY <1>4, <1>5 DEF LexInv

\* A person's edit leaves the sense in its place.
LEMMA ReviewCounts ==
    ASSUME Assumed, LexInv, NEW i \in L!Ids, L!Review(i) PROVE LexInv'
<1>1. PICK status \in L!Statuses, key \in Keys, lang \in Langs :
        senses' = [senses EXCEPT ![i] =
          [L!ToppedUp(senses[i], lang) EXCEPT !.status = status, !.key = key]]
  BY DEF L!Review
<1>2. i \in L!Stored /\ UNCHANGED <<claims, disabled, expiries, lookup>>
  BY DEF L!Review
<1>3. senses[i] \in L!SenseRow
  BY <1>2 DEF LexInv, SensesInv, L!Stored
<1> DEFINE row == [L!ToppedUp(senses[i], lang) EXCEPT !.status = status, !.key = key]
<1>4. row \in L!SenseRow /\ row.position = senses[i].position
  BY <1>3 DEF L!SenseRow, L!ToppedUp
<1>5. senses' = [senses EXCEPT ![i] = row]
  BY <1>1
<1> HIDE DEF row
<1>6. senses' \in [L!Ids -> L!SenseRow \cup {None}] /\ DOMAIN senses = L!Ids
  BY <1>4, <1>5 DEF LexInv, SensesInv
<1>7. \A j \in L!Ids : senses'[j] = IF j = i THEN row ELSE senses[j]
  BY <1>5, <1>6
<1>8. L!Stored' = L!Stored
  BY <1>2, <1>4, <1>7 DEF L!Stored, Assumed, L!RowsAssumption
<1>9. \A j \in L!Stored : senses'[j].position = senses[j].position
  BY <1>4, <1>7 DEF L!Stored
<1>10. SensesInv'
  BY <1>6, <1>8, <1>9 DEF LexInv, SensesInv
<1>11. \A a \in L!Asked : L!Owners(a)' = L!Owners(a) /\ Bound(a)' = Bound(a)
  BY <1>2 DEF L!Owners, L!At, L!Asks, Bound
<1>12. RowsHeld' /\ ClaimsInv'
  BY <1>2, <1>11 DEF LexInv, RowsHeld, Held, ClaimsInv
<1> QED BY <1>10, <1>12 DEF LexInv

LEMMA StillLex == ASSUME LexInv, UNCHANGED <<senses, lookup, claims, disabled, expiries>> PROVE LexInv'
<1>1. \A a \in L!Asked : L!Owners(a)' = L!Owners(a) /\ Bound(a)' = Bound(a)
  BY DEF L!Owners, L!At, L!Asks, Bound
<1>2. RowsHeld' /\ ClaimsInv' /\ SensesInv'
  BY <1>1 DEF LexInv, RowsHeld, Held, ClaimsInv, SensesInv, L!Stored
<1> QED BY <1>2 DEF LexInv

LEMMA LexNext ==
    ASSUME Assumed, IInv, LexInv, [L!Next]_L!vars
    PROVE  LexInv' /\ (lookup' # lookup => Grown)
<1>1. CASE \E p \in Lookups, l \in Langs :
             L!BeginEnrich(p, l) \/ (\E i \in Inputs : L!Begin(p, i, l))
  BY <1>1, QuietEnrich, QuietBegin
<1>2. CASE \E p \in Lookups : L!Step(p)
  BY <1>2, LexStep
<1>3. CASE \E p \in Lookups : L!Die(p)
  <2>1. PICK p \in Lookups : L!End(p) /\ UNCHANGED <<senses, L!flight>>
    BY <1>3 DEF L!Die
  <2> QED BY <2>1, QuietEnd
<1>4. CASE \E a \in L!Asked : L!Forget(a)
  <2>1. UNCHANGED <<senses, lookup, claims, disabled, expiries>>
    BY <1>4 DEF L!Forget, L!flight
  <2> QED BY <2>1, StillLex
<1>5. CASE \E a \in L!Asked : L!Expire(a)
  <2>1. UNCHANGED lookup
    BY <1>5 DEF L!Expire
  <2> QED BY <1>5, <2>1, ExpireCounts
<1>6. CASE \E i \in L!Ids : L!Review(i)
  <2>1. UNCHANGED lookup
    BY <1>6 DEF L!Review
  <2> QED BY <1>6, <2>1, ReviewCounts
<1>7. CASE UNCHANGED L!vars
  BY <1>7, StillLex DEF L!vars
<1> QED BY <1>1, <1>2, <1>3, <1>4, <1>5, <1>6, <1>7 DEF L!Next

LEMMA LexStart == ASSUME Assumed, L!Init PROVE LexInv
<1>1. SensesInv
  <2>1. CASE senses = [i \in L!Ids |-> None]
    <3>1. L!Stored = {}
      BY <2>1 DEF L!Stored
    <3>2. 0 \in 0..MaxIds /\ 1..0 = {}
      BY DEF Assumed, L!LookupAssumption
    <3> QED BY <2>1, <3>1, <3>2 DEF SensesInv
  <2>2. ASSUME NEW k \in Keys, NEW l \in Langs,
               senses = [[i \in L!Ids |-> None] EXCEPT
                 ![1] = [key |-> k, position |-> 0, status |-> "auto", langs |-> {l}]]
        PROVE  SensesInv
    <3> DEFINE row == [key |-> k, position |-> 0, status |-> "auto", langs |-> {l}]
    <3>1. row \in L!SenseRow /\ row # None
      BY DEF L!SenseRow, L!Statuses, Assumed, L!RowsAssumption
    <3>2. senses = [[i \in L!Ids |-> None] EXCEPT ![1] = row]
      BY <2>2
    <3> HIDE DEF row
    <3>3. senses \in [L!Ids -> L!SenseRow \cup {None}]
      BY <3>1, <3>2
    <3>4. CASE MaxIds = 0
      <4>1. L!Stored = {} /\ 1..0 = {} /\ 0 \in 0..MaxIds
        BY <3>4 DEF L!Stored, L!Ids
      <4> QED BY <3>3, <4>1 DEF SensesInv
    <3>5. CASE MaxIds # 0
      <4>1. MaxIds \in Nat /\ 1 \in L!Ids /\ 1 \in 0..MaxIds
        BY <3>5 DEF Assumed, L!LookupAssumption, L!Ids
      <4>2. L!Stored = 1..1
        BY <3>1, <3>2, <4>1 DEF L!Stored, L!Ids
      <4>3. senses[1].position <= senses[1].position
        BY <3>1, <3>2, <4>1 DEF L!SenseRow
      <4>4. \A i \in L!Stored : i = 1
        BY <4>2
      <4> QED BY <3>3, <4>1, <4>2, <4>3, <4>4 DEF SensesInv
    <3> QED BY <3>4, <3>5
  <2> QED BY <2>1, <2>2 DEF L!Init
<1>2. RowsHeld
  BY DEF L!Init, RowsHeld, Held, L!Idle
<1>3. ASSUME NEW a \in L!Asked
      PROVE  IsFiniteSet(L!Owners(a)) /\ Cardinality(L!Owners(a)) <= Bound(a)
  <2>1. L!Owners(a) = {}
    BY DEF L!Init, L!Owners, L!At, L!Idle
  <2>2. Bound(a) = 0
    BY <1>3 DEF L!Init, Bound
  <2> QED BY <2>1, <2>2, FS_EmptySet
<1>4. ClaimsInv
  BY <1>3 DEF L!Init, ClaimsInv
<1> QED BY <1>1, <1>2, <1>4 DEF LexInv

\* A claim that its lease has outlived lets one more lookup ask, never two.
LEMMA FewOwnersHold == ASSUME LexInv PROVE L!FewOwners
<1> SUFFICES ASSUME ~disabled, NEW a \in L!Asked
             PROVE  L!Cardinality(L!Owners(a)) <= 1 + expiries
  BY DEF L!FewOwners
<1>1. IsFiniteSet(L!Owners(a)) /\ Cardinality(L!Owners(a)) <= Bound(a) /\ expiries \in Nat
  BY DEF LexInv, ClaimsInv
<1>2. Cardinality(L!Owners(a)) \in Nat
  BY <1>1, FS_CardinalityType
<1>3. Bound(a) \in Int /\ Bound(a) <= 1 + expiries
  BY <1>1 DEF Bound
<1>4. L!Cardinality(L!Owners(a)) = Cardinality(L!Owners(a))
  BY SameCount
<1> DEFINE count == Cardinality(L!Owners(a))
<1> HIDE DEF count
<1>5. count <= 1 + expiries
  BY <1>1, <1>2, <1>3 DEF count
<1> QED BY <1>4, <1>5 DEF count

\* LexiconService and SingleFlight: in the scene of the lookups, a lookup or a
\* build only ever adds to the lexicon, whoever wrote or reviewed it since they
\* read it, and as many lookups ask for one input as claims have been lost,
\* and one more.
THEOREM LexiconStands == MCSpec => LexiconHolds
<1> DEFINE Inv == scene = "lookup" => IInv /\ LexInv
           Adds == lookup' # lookup => Grown
<1>0. Assumed
  BY LookupsAssumption DEF Assumed
<1>1. MCInit => Inv
  <2> SUFFICES ASSUME MCInit PROVE IInv /\ LexInv
    OBVIOUS
  <2>1. L!Init
    BY DEF MCInit
  <2> QED BY <1>0, <2>1, LexStart DEF L!Init, IInv, CacheType, LookupType, L!AliasResolves, L!Asked
<1>2. ASSUME Inv, [MCNext]_allVars PROVE Inv' /\ [Adds]_L!vars
  <2>1. scene' = scene
    BY <1>2 DEF MCNext, allVars
  <2>2. CASE scene = "lookup"
    <3>1. [L!Next]_L!vars
      BY <1>2, <2>2 DEF MCNext, allVars, lookupVars, L!vars
    <3>2. IInv' /\ LexInv' /\ Adds
      BY <1>0, <1>2, <2>2, <3>1, NextKeeps, LexNext DEF Assumed
    <3> QED BY <2>1, <3>2
  <2>3. CASE scene # "lookup"
    <3>1. UNCHANGED L!vars
      BY <1>2, <2>3 DEF MCNext, allVars, lookupVars, L!vars
    <3> QED BY <2>1, <2>3, <3>1
  <2> QED BY <2>2, <2>3
<1>3. Inv => (scene = "lookup" => L!FewOwners)
  BY FewOwnersHold
<1>4. [Adds]_L!vars => [lookup' # lookup => \A i \in L!Stored :
        /\ senses'[i] # None
        /\ senses'[i] = [senses[i] EXCEPT !.langs = senses'[i].langs]
        /\ senses[i].langs \subseteq senses'[i].langs]_L!vars
  BY DEF Grown
<1> QED BY <1>1, <1>2, <1>3, <1>4, PTL DEF MCSpec, LexiconHolds, L!AppendOnly
-----------------------------------------------------------------------------
(* Cards of a dictionary's senses.  Induction is by the least number that a  *)
(* fact fails for.                                                           *)

LEMMA LeastNat ==
    ASSUME NEW S, S \subseteq Nat, S # {}
    PROVE  \E x \in S : \A y \in S : x <= y
<1>1. PICK x \in S : \A y \in S : <<y, x>> \notin OpToRel(<, Nat)
  <2>1. IsWellFoundedOn(OpToRel(<, Nat), Nat)
    BY NatLessThanWellFounded
  <2> QED BY <2>1, WFMin
<1>2. \A y \in S : ~(y < x)
  BY <1>1 DEF OpToRel
<1> QED BY <1>2

\* f is the function that the recursion asks for, up to n.
Sifts(f, s, P, n) ==
    f = [i \in 0..n |-> IF i = 0 THEN <<>>
                        ELSE IF i \in P THEN Append(f[i - 1], s[i]) ELSE f[i - 1]]

LEMMA SiftsExist ==
    ASSUME NEW s, NEW P, NEW n \in Nat
    PROVE  \E f : Sifts(f, s, P, n)
<1> DEFINE Bad == {k \in Nat : ~ \E f : Sifts(f, s, P, k)}
<1>1. SUFFICES ASSUME Bad # {} PROVE FALSE
  OBVIOUS
<1>2. PICK k \in Bad : \A j \in Bad : k <= j
  <2>1. Bad \subseteq Nat
    OBVIOUS
  <2> HIDE DEF Bad
  <2> QED BY <1>1, <2>1, LeastNat
<1>3. CASE k = 0
  <2>1. Sifts([i \in 0..0 |-> <<>>], s, P, 0)
    BY DEF Sifts
  <2> QED BY <1>3, <2>1
<1>4. CASE k # 0
  <2>1. PICK f : Sifts(f, s, P, k - 1)
    BY <1>2, <1>4
  <2> DEFINE last(i) == IF i \in P THEN Append(f[i - 1], s[i]) ELSE f[i - 1]
             g == [i \in 0..k |-> IF i = k THEN last(k) ELSE f[i]]
  <2>2. \A i \in 0..k - 1 : f[i] = IF i = 0 THEN <<>> ELSE last(i)
    BY <2>1 DEF Sifts
  <2>3. ASSUME NEW i \in 0..k
        PROVE  g[i] = IF i = 0 THEN <<>>
                      ELSE IF i \in P THEN Append(g[i - 1], s[i]) ELSE g[i - 1]
    <3>1. CASE i = k
      BY <1>2, <1>4, <3>1
    <3>2. CASE i # k
      BY <1>2, <1>4, <2>2, <3>2
    <3> QED BY <3>1, <3>2
  <2>4. Sifts(g, s, P, k)
    BY <2>3 DEF Sifts
  <2> QED BY <2>4
<1> QED BY <1>3, <1>4

\* p has of the first n of s what is at the positions of P, each at most once.
PickOf(p, s, P, n) ==
    \E g \in [1..Len(p) -> P \cap 1..n] :
        /\ \A k \in 1..Len(p) : p[k] = s[g[k]]
        /\ \A k, l \in 1..Len(p) : g[k] = g[l] => k = l

LEMMA PickGrows ==
    ASSUME NEW S, NEW s \in Seq(S), NEW P, NEW n \in 1..Len(s), NEW p \in Seq(S),
           PickOf(p, s, P, n - 1)
    PROVE  /\ PickOf(p, s, P, n)
           /\ n \in P => Append(p, s[n]) \in Seq(S) /\ PickOf(Append(p, s[n]), s, P, n)
<1>1. PICK g \in [1..Len(p) -> P \cap 1..n - 1] :
        /\ \A k \in 1..Len(p) : p[k] = s[g[k]]
        /\ \A k, l \in 1..Len(p) : g[k] = g[l] => k = l
  BY DEF PickOf
<1>2. \A k \in 1..Len(p) : g[k] \in P /\ g[k] \in 1..n /\ g[k] < n
  BY <1>1
<1>3. PickOf(p, s, P, n)
  <2>1. g \in [1..Len(p) -> P \cap 1..n]
    BY <1>1, <1>2
  <2> QED BY <1>1, <2>1 DEF PickOf
<1>4. ASSUME n \in P PROVE Append(p, s[n]) \in Seq(S) /\ PickOf(Append(p, s[n]), s, P, n)
  <2> DEFINE q == Append(p, s[n])
             m == Len(p) + 1
             h == [k \in 1..m |-> IF k = m THEN n ELSE g[k]]
  <2>1. q \in Seq(S) /\ Len(q) = m /\ q[m] = s[n] /\ \A k \in 1..Len(p) : q[k] = p[k]
    OBVIOUS
  <2>2. Len(p) \in Nat
    OBVIOUS
  <2>3. h \in [1..m -> P \cap 1..n]
    BY <1>2, <1>4, <2>2
  <2>4. ASSUME NEW k \in 1..m PROVE q[k] = s[h[k]]
    BY <1>1, <2>1, <2>2
  <2>5. ASSUME NEW k \in 1..m, NEW l \in 1..m, h[k] = h[l] PROVE k = l
    BY <1>1, <1>2, <2>2, <2>5
  <2> HIDE DEF q, m, h
  <2>6. PickOf(q, s, P, n)
    <3>1. h \in [1..Len(q) -> P \cap 1..n] /\ \A k \in 1..Len(q) : q[k] = s[h[k]]
      BY <2>1, <2>3, <2>4
    <3>2. \A k, l \in 1..Len(q) : h[k] = h[l] => k = l
      BY <2>1, <2>5
    <3> QED BY <3>1, <3>2 DEF PickOf
  <2> QED BY <2>1, <2>6 DEF q
<1> QED BY <1>3, <1>4

LEMMA PickedIs ==
    ASSUME NEW S, NEW s \in Seq(S), NEW P
    PROVE  G!Picked(s, P) \in Seq(S) /\ PickOf(G!Picked(s, P), s, P, Len(s))
<1> DEFINE f == CHOOSE f : Sifts(f, s, P, Len(s))
           Bad == {i \in 0..Len(s) : ~(f[i] \in Seq(S) /\ PickOf(f[i], s, P, i))}
<1>1. Len(s) \in Nat
  OBVIOUS
<1>2. Sifts(f, s, P, Len(s))
  BY <1>1, SiftsExist
<1>3. G!Picked(s, P) = f[Len(s)]
  BY DEF G!Picked, Sifts
<1> HIDE DEF f
<1>4. \A i \in 0..Len(s) : f[i] = IF i = 0 THEN <<>>
                                  ELSE IF i \in P THEN Append(f[i - 1], s[i]) ELSE f[i - 1]
  BY <1>2 DEF Sifts
<1>5. SUFFICES ASSUME Bad # {} PROVE FALSE
  BY <1>1, <1>3
<1>6. PICK k \in Bad : \A j \in Bad : k <= j
  <2>1. Bad \subseteq Nat
    OBVIOUS
  <2> HIDE DEF Bad
  <2> QED BY <1>5, <2>1, LeastNat
<1>7. CASE k = 0
  <2>1. f[0] = <<>>
    BY <1>1, <1>4
  <2>2. <<>> \in Seq(S) /\ PickOf(<<>>, s, P, 0)
    <3>1. 1..Len(<<>>) = {} /\ <<>> \in Seq(S)
      OBVIOUS
    <3>2. [x \in {} |-> x] \in [{} -> P \cap 1..0]
      OBVIOUS
    <3> QED BY <3>1, <3>2 DEF PickOf
  <2> QED BY <1>6, <1>7, <2>1, <2>2
<1>8. CASE k # 0
  <2>1. k \in 1..Len(s) /\ k - 1 \in 0..Len(s)
    BY <1>1, <1>6, <1>8
  <2>2. k - 1 \notin Bad
    BY <1>6, <2>1
  <2>3. f[k - 1] \in Seq(S) /\ PickOf(f[k - 1], s, P, k - 1)
    BY <2>1, <2>2
  <2>4. f[k] = IF k \in P THEN Append(f[k - 1], s[k]) ELSE f[k - 1]
    BY <1>4, <1>8, <2>1
  <2>5. f[k] \in Seq(S) /\ PickOf(f[k], s, P, k)
    BY <2>1, <2>3, <2>4, PickGrows
  <2> QED BY <1>6, <2>5
<1> QED BY <1>7, <1>8

LEMMA UpToIs ==
    ASSUME NEW S, NEW s \in Seq(S), NEW n \in Nat
    PROVE  /\ G!UpTo(n, s) \in Seq(S) /\ Len(G!UpTo(n, s)) = (IF Len(s) < n THEN Len(s) ELSE n)
           /\ \A i \in 1..Len(G!UpTo(n, s)) : i \in 1..Len(s) /\ G!UpTo(n, s)[i] = s[i]
<1> DEFINE m == IF Len(s) < n THEN Len(s) ELSE n
<1>1. m \in 0..Len(s) /\ Len(s) \in Nat
  OBVIOUS
<1> HIDE DEF m
<1>2. SubSeq(s, 1, m) \in Seq(S) /\ Len(SubSeq(s, 1, m)) = m
      /\ \A i \in 1..m : SubSeq(s, 1, m)[i] = s[i]
  BY <1>1
<1>3. G!UpTo(n, s) = SubSeq(s, 1, m)
  BY DEF G!UpTo, m
<1> QED BY <1>1, <1>2, <1>3 DEF m

-----------------------------------------------------------------------------
DictionarySenses == [definition : STRING, example : BOOLEAN]
Said == [index : Int, says : STRING]

Replied ==
    /\ entry = None \/ entry \in Seq(DictionarySenses)
    /\ reply = None \/ reply \in Seq(Said)

GroundInv == Replied /\ G!HeadlinesKeepTheirSense

\* What is asked of the cards that the dictionary gave.
Paired(cs, top, ent, rep) ==
    \E chosen \in [DOMAIN cs -> DOMAIN rep] : \A c \in DOMAIN cs :
        /\ rep[chosen[c]].says = cs[c].says
        /\ rep[chosen[c]].index \in 0..(Len(top) - 1)
        /\ top[rep[chosen[c]].index + 1].definition = cs[c].definition
        /\ \E i \in DOMAIN ent : ent[i] = top[rep[chosen[c]].index + 1]
        /\ \A d \in DOMAIN cs : rep[chosen[d]].index = rep[chosen[c]].index => d = c

Kept(cs, top, ent, rep, rewritten) ==
    /\ cs # <<>> /\ Len(cs) <= MaxCards
    /\ \A c \in DOMAIN cs : G!Complete(cs[c])
    /\ ~rewritten => Paired(cs, top, ent, rep)

LEMMA KeptIs ==
    /\ G!HeadlinesKeepTheirSense <=>
         (source = "dictionary" => Kept(cards, G!Top, entry, reply, rewrites))
    /\ G!HeadlinesKeepTheirSense' <=>
         (source' = "dictionary" => Kept(cards', G!Top', entry', reply', rewrites'))
<1>1. G!HeadlinesKeepTheirSense <=>
         (source = "dictionary" => Kept(cards, G!Top, entry, reply, rewrites))
  BY DEF G!HeadlinesKeepTheirSense, Kept, Paired
<1>2. G!HeadlinesKeepTheirSense' <=>
         (source' = "dictionary" => Kept(cards', G!Top', entry', reply', rewrites'))
  BY DEF G!HeadlinesKeepTheirSense, Kept, Paired
<1> QED BY <1>1, <1>2

\* The candidates are senses of the dictionary.
LEMMA TopIs ==
    ASSUME entry \in Seq(DictionarySenses)
    PROVE  /\ G!Top \in Seq(DictionarySenses)
           /\ \A k \in 1..Len(G!Top) : \E i \in DOMAIN entry : entry[i] = G!Top[k]
<1> DEFINE p == G!Picked(entry, G!Illustrated)
           q == G!Picked(entry, G!Bare)
<1>1. /\ p \in Seq(DictionarySenses) /\ \A k \in 1..Len(p) : \E i \in DOMAIN entry : entry[i] = p[k]
      /\ q \in Seq(DictionarySenses) /\ \A k \in 1..Len(q) : \E i \in DOMAIN entry : entry[i] = q[k]
  <2>1. ASSUME NEW P
        PROVE  /\ G!Picked(entry, P) \in Seq(DictionarySenses)
               /\ \A k \in 1..Len(G!Picked(entry, P)) : \E i \in DOMAIN entry : entry[i] = G!Picked(entry, P)[k]
    <3>1. G!Picked(entry, P) \in Seq(DictionarySenses) /\ PickOf(G!Picked(entry, P), entry, P, Len(entry))
      BY PickedIs
    <3> QED BY <3>1 DEF PickOf
  <2> QED BY <2>1
<1> HIDE DEF p, q
<1> DEFINE r == p \o q
<1>2. r \in Seq(DictionarySenses)
  BY <1>1
<1>3. ASSUME NEW k \in 1..Len(r) PROVE \E i \in DOMAIN entry : entry[i] = r[k]
  <2>1. Len(r) = Len(p) + Len(q) /\ Len(p) \in Nat /\ Len(q) \in Nat
    BY <1>1
  <2>2. CASE k <= Len(p)
    <3>1. k \in 1..Len(p) /\ r[k] = p[k]
      BY <1>1, <2>1, <2>2
    <3> QED BY <1>1, <3>1
  <2>3. CASE ~(k <= Len(p))
    <3>1. k - Len(p) \in 1..Len(q) /\ r[k] = q[k - Len(p)]
      BY <1>1, <2>1, <2>3
    <3> QED BY <1>1, <3>1
  <2> QED BY <2>2, <2>3
<1>4. G!Top = G!UpTo(Candidates, r) /\ Candidates \in Nat
  BY SensesAssumption DEF G!Top, G!GroundingAssumption, r, p, q
<1> HIDE DEF r
<1> QED BY <1>2, <1>3, <1>4, UpToIs

\* What is joined keeps the number it was said for, and no number twice.
LEMMA JoinIs ==
    ASSUME reply \in Seq(Said)
    PROVE  /\ DOMAIN G!Join = 1..Len(G!Join) /\ Len(G!Join) \in Nat
           /\ \E g \in [1..Len(G!Join) -> DOMAIN reply] :
                /\ \A k \in 1..Len(G!Join) :
                     /\ G!Join[k].says = reply[g[k]].says
                     /\ reply[g[k]].index \in 0..(Len(G!Top) - 1)
                     /\ G!Join[k].definition = G!Top[reply[g[k]].index + 1].definition
                /\ \A k, l \in 1..Len(G!Join) : reply[g[k]].index = reply[g[l]].index => k = l
<1> DEFINE t == G!Translations
           kept == G!Picked(t, G!Joinable)
<1>1. /\ t \in Seq(Said)
      /\ \A i \in 1..Len(t) : i \in 1..Len(reply) /\ t[i] = reply[i]
  BY UpToIs, SensesAssumption DEF G!Translations, G!GroundingAssumption
<1>2. kept \in Seq(Said) /\ PickOf(kept, t, G!Joinable, Len(t))
  BY <1>1, PickedIs
<1>3. G!Join = [i \in DOMAIN kept |-> [definition |-> G!JoinedTo(kept[i]), says |-> kept[i].says]]
  BY DEF G!Join
<1>4. G!Joinable = {i \in DOMAIN t : G!IsUsable(t[i].index)
                       /\ \A j \in 1..(i - 1) : t[j].index # t[i].index}
  BY DEF G!Joinable, G!FirstOfItsSense
<1> HIDE DEF t, kept
<1>5. DOMAIN G!Join = 1..Len(kept) /\ Len(kept) \in Nat /\ Len(G!Join) = Len(kept)
  <2>1. DOMAIN kept = 1..Len(kept) /\ Len(kept) \in Nat
    BY <1>2
  <2> QED BY <1>3, <2>1
<1>6. PICK g \in [1..Len(kept) -> G!Joinable \cap 1..Len(t)] :
        /\ \A k \in 1..Len(kept) : kept[k] = t[g[k]]
        /\ \A k, l \in 1..Len(kept) : g[k] = g[l] => k = l
  BY <1>2 DEF PickOf
<1>7. ASSUME NEW k \in 1..Len(kept)
      PROVE  /\ g[k] \in DOMAIN reply /\ kept[k] = reply[g[k]]
             /\ G!Join[k].says = reply[g[k]].says
             /\ reply[g[k]].index \in 0..(Len(G!Top) - 1)
             /\ G!Join[k].definition = G!Top[reply[g[k]].index + 1].definition
  <2>1. g[k] \in G!Joinable /\ g[k] \in 1..Len(t) /\ kept[k] = t[g[k]]
    BY <1>6
  <2>2. g[k] \in DOMAIN reply /\ kept[k] = reply[g[k]]
    BY <1>1, <2>1
  <2>3. G!IsUsable(kept[k].index)
    BY <1>4, <2>1
  <2>4. G!Join[k] = [definition |-> G!JoinedTo(kept[k]), says |-> kept[k].says]
    BY <1>3, <1>5
  <2> QED BY <2>2, <2>3, <2>4 DEF G!IsUsable, G!JoinedTo
<1>8. ASSUME NEW k \in 1..Len(kept), NEW l \in 1..Len(kept), reply[g[k]].index = reply[g[l]].index
      PROVE  k = l
  <2>1. g[k] \in G!Joinable /\ g[l] \in G!Joinable /\ g[k] \in 1..Len(t) /\ g[l] \in 1..Len(t)
    BY <1>6
  <2>2. t[g[k]].index = t[g[l]].index
    BY <1>1, <2>1, <1>8
  <2>3. ~(g[k] < g[l]) /\ ~(g[l] < g[k])
    <3>1. \A j \in 1..(g[k] - 1) : t[j].index # t[g[k]].index
      BY <1>4, <2>1
    <3>2. \A j \in 1..(g[l] - 1) : t[j].index # t[g[l]].index
      BY <1>4, <2>1
    <3>3. g[k] < g[l] => g[k] \in 1..(g[l] - 1)
      BY <2>1
    <3>4. g[l] < g[k] => g[l] \in 1..(g[k] - 1)
      BY <2>1
    <3> QED BY <2>2, <3>1, <3>2, <3>3, <3>4
  <2>4. g[k] = g[l]
    BY <2>1, <2>3
  <2> QED BY <1>6, <2>4
<1>9. g \in [1..Len(G!Join) -> DOMAIN reply]
  BY <1>5, <1>6, <1>7
<1>10. \A k \in 1..Len(G!Join) :
         /\ G!Join[k].says = reply[g[k]].says
         /\ reply[g[k]].index \in 0..(Len(G!Top) - 1)
         /\ G!Join[k].definition = G!Top[reply[g[k]].index + 1].definition
  BY <1>5, <1>7
<1>11. \A k, l \in 1..Len(G!Join) : reply[g[k]].index = reply[g[l]].index => k = l
  BY <1>5, <1>8
<1>12. DOMAIN G!Join = 1..Len(G!Join) /\ Len(G!Join) \in Nat
  BY <1>5
<1> QED BY <1>9, <1>10, <1>11, <1>12, Zenon

LEMMA TopStays == ASSUME UNCHANGED entry PROVE G!Top' = G!Top
<1>1. \A P : G!Picked(entry, P)' = G!Picked(entry, P)
  BY DEF G!Picked
<1>2. G!Illustrated' = G!Illustrated /\ G!Bare' = G!Bare
  BY DEF G!Illustrated, G!Bare
<1> QED BY <1>1, <1>2 DEF G!Top, G!UpTo, G!Picked

LEMMA CardsKeepTheirSense ==
    ASSUME Replied, entry # None, reply # None, G!Usable # <<>>,
           cards' = G!UpTo(MaxCards, G!Usable), UNCHANGED <<entry, reply, rewrites>>
    PROVE  G!HeadlinesKeepTheirSense'
<1> DEFINE built == IF rewrites THEN G!Rewritten ELSE G!Join
           full == {i \in DOMAIN built : G!Complete(built[i])}
           R0 == {built[i] : i \in DOMAIN built}
<1>1. entry \in Seq(DictionarySenses) /\ reply \in Seq(Said) /\ MaxCards \in Nat \ {0}
  BY SensesAssumption DEF Replied, G!GroundingAssumption
<1>2. built \in Seq(R0) /\ DOMAIN built = 1..Len(built)
  <2>1. \E n \in Nat : DOMAIN built = 1..n /\ built = [i \in 1..n |-> built[i]]
    <3>1. CASE rewrites
      <4>1. G!Translations \in Seq(Said)
        BY <1>1, UpToIs DEF G!Translations
      <4>2. DOMAIN G!Translations = 1..Len(G!Translations) /\ Len(G!Translations) \in Nat
        BY <4>1
      <4> QED BY <3>1, <4>2 DEF G!Rewritten
    <3>2. CASE ~rewrites
      <4>1. DOMAIN G!Join = 1..Len(G!Join) /\ Len(G!Join) \in Nat
        BY <1>1, JoinIs
      <4>2. G!Join = [i \in DOMAIN G!Join |-> G!Join[i]]
        BY DEF G!Join
      <4> QED BY <3>2, <4>1, <4>2
    <3> QED BY <3>1, <3>2
  <2> HIDE DEF built
  <2> QED BY <2>1
<1>3. G!Usable = G!Picked(built, full)
  BY DEF G!Usable
<1> HIDE DEF built, full
<1>4. G!Usable \in Seq(R0) /\ PickOf(G!Usable, built, full, Len(built))
  BY <1>2, <1>3, PickedIs
<1> DEFINE u == G!Usable
<1> HIDE DEF u
<1>5. PICK g \in [1..Len(u) -> full \cap 1..Len(built)] :
        /\ \A k \in 1..Len(u) : u[k] = built[g[k]]
        /\ \A k, l \in 1..Len(u) : g[k] = g[l] => k = l
  BY <1>4 DEF PickOf, u
<1>6. /\ cards' \in Seq(R0) /\ Len(cards') = (IF Len(u) < MaxCards THEN Len(u) ELSE MaxCards)
      /\ \A i \in 1..Len(cards') : i \in 1..Len(u) /\ cards'[i] = u[i]
  BY <1>1, <1>4, UpToIs DEF u
<1>7. Len(u) \in Nat \ {0}
  BY <1>4 DEF u
<1>8. Len(cards') \in Nat \ {0} /\ Len(cards') <= MaxCards /\ DOMAIN cards' = 1..Len(cards')
  BY <1>1, <1>6, <1>7
<1>9. \A c \in DOMAIN cards' : G!Complete(cards'[c])
  <2>1. ASSUME NEW c \in 1..Len(cards') PROVE G!Complete(cards'[c])
    <3>1. c \in 1..Len(u) /\ cards'[c] = built[g[c]] /\ g[c] \in full
      BY <1>5, <1>6
    <3> QED BY <3>1 DEF full
  <2> QED BY <1>8, <2>1
<1>10. ASSUME ~rewrites
       PROVE  Paired(cards', G!Top, entry, reply)
  <2>1. built = G!Join
    BY <1>10 DEF built
  <2>2. PICK h \in [1..Len(built) -> DOMAIN reply] :
          /\ \A k \in 1..Len(built) :
               /\ built[k].says = reply[h[k]].says
               /\ reply[h[k]].index \in 0..(Len(G!Top) - 1)
               /\ built[k].definition = G!Top[reply[h[k]].index + 1].definition
          /\ \A k, l \in 1..Len(built) : reply[h[k]].index = reply[h[l]].index => k = l
    BY <1>1, <2>1, JoinIs
  <2>3. \A k \in 1..Len(G!Top) : \E i \in DOMAIN entry : entry[i] = G!Top[k]
    BY <1>1, TopIs
  <2>4. Len(G!Top) \in Nat
    BY <1>1, TopIs
  <2> DEFINE chosen == [c \in DOMAIN cards' |-> h[g[c]]]
  <2>5. ASSUME NEW c \in DOMAIN cards'
        PROVE  g[c] \in 1..Len(built) /\ c \in 1..Len(u) /\ cards'[c] = built[g[c]]
    BY <1>5, <1>6, <1>8
  <2>6. chosen \in [DOMAIN cards' -> DOMAIN reply] /\ \A c \in DOMAIN cards' : chosen[c] = h[g[c]]
    BY <2>2, <2>5
  <2> HIDE DEF chosen
  <2>7. ASSUME NEW c \in DOMAIN cards'
        PROVE  /\ reply[chosen[c]].says = cards'[c].says
               /\ reply[chosen[c]].index \in 0..(Len(G!Top) - 1)
               /\ G!Top[reply[chosen[c]].index + 1].definition = cards'[c].definition
               /\ \E i \in DOMAIN entry : entry[i] = G!Top[reply[chosen[c]].index + 1]
               /\ \A d \in DOMAIN cards' : reply[chosen[d]].index = reply[chosen[c]].index => d = c
    <3>1. /\ reply[chosen[c]].says = cards'[c].says
          /\ reply[chosen[c]].index \in 0..(Len(G!Top) - 1)
          /\ G!Top[reply[chosen[c]].index + 1].definition = cards'[c].definition
      BY <2>2, <2>5, <2>6
    <3>2. reply[chosen[c]].index + 1 \in 1..Len(G!Top)
      BY <2>4, <3>1
    <3>3. ASSUME NEW d \in DOMAIN cards', reply[chosen[d]].index = reply[chosen[c]].index
          PROVE  d = c
      <4>1. g[d] = g[c]
        BY <2>2, <2>5, <2>6, <3>3
      <4> QED BY <1>5, <2>5, <4>1
    <3> QED BY <2>3, <3>1, <3>2, <3>3
  <2> QED BY <2>6, <2>7 DEF Paired
<1>11. G!Top' = G!Top
  BY TopStays
<1>12. cards' # <<>>
  BY <1>6, <1>8
<1>13. Len(cards') <= MaxCards
  BY <1>8
<1>14. rewrites' = rewrites /\ entry' = entry /\ reply' = reply
  OBVIOUS
<1>15. Kept(cards', G!Top, entry, reply, rewrites)
  BY <1>9, <1>10, <1>12, <1>13 DEF Kept
<1> QED BY <1>11, <1>14, <1>15, KeptIs

LEMMA GroundInit == MCInit => GroundInv
<1> SUFFICES ASSUME MCInit PROVE GroundInv
  OBVIOUS
<1>1. source = None
  BY DEF MCInit, G!Init
<1>2. None # "dictionary"
  BY SensesAssumption DEF G!GroundingAssumption
<1>3. Replied
  BY SensesAssumption DEF MCInit, G!Init, Replied, G!GroundingAssumption, DictionarySenses, Said
<1> QED BY <1>1, <1>2, <1>3 DEF GroundInv, G!HeadlinesKeepTheirSense

LEMMA GroundStays ==
    ASSUME GroundInv, UNCHANGED groundVars PROVE GroundInv'
<1>1. G!Top' = G!Top
  BY TopStays DEF groundVars
<1>2. /\ entry' = entry /\ reply' = reply /\ rewrites' = rewrites
      /\ source' = source /\ cards' = cards
  BY DEF groundVars
<1>3. G!HeadlinesKeepTheirSense'
  BY <1>1, <1>2, KeptIs DEF GroundInv
<1> QED BY <1>2, <1>3 DEF GroundInv, Replied

LEMMA GroundNext ==
    ASSUME GroundInv, [MCNext]_allVars PROVE GroundInv'
<1>1. ASSUME G!LookUp PROVE GroundInv'
  <2>1. UNCHANGED <<entry, reply, rewrites>>
    BY <1>1 DEF G!LookUp
  <2>2. Replied'
    BY <2>1 DEF GroundInv, Replied
  <2>3. CASE G!Consulted /\ reply # None /\ G!Usable # <<>>
    <3>1. cards' = G!UpTo(MaxCards, G!Usable) /\ entry # None
      BY <1>1, <2>3 DEF G!LookUp, G!Consulted
    <3> QED BY <2>1, <2>2, <2>3, <3>1, CardsKeepTheirSense DEF GroundInv
  <2>4. CASE ~(G!Consulted /\ reply # None /\ G!Usable # <<>>)
    BY <1>1, <2>2, <2>4 DEF G!LookUp, GroundInv, G!HeadlinesKeepTheirSense
  <2> QED BY <2>3, <2>4
<1> QED BY <1>1, GroundStays DEF MCNext, allVars, G!Next

\* GroundedAIService: no headline is joined to another sense than it was said for,
\* no sense is on two cards, and none is blank or invented, whatever the dictionary
\* has and the model answers.
THEOREM HeadlinesStayPaired == MCSpec => []HeadlinesKeepTheirSense
<1>1. GroundInv => HeadlinesKeepTheirSense
  BY DEF GroundInv, HeadlinesKeepTheirSense
<1> QED BY <1>1, GroundInit, GroundNext, PTL DEF MCSpec
=============================================================================
