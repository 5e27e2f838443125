------------------------- MODULE DictionaryProofs -------------------------
(***************************************************************************)
(* What cards hold of the dictionary, for every set of terms and workers,   *)
(* every batch size and any number of faults.                               *)
(***************************************************************************)
EXTENDS MCService, Sequences, TLAPS

USE DEF D!Coverage, D!CacheTable, D!Clients

\* A cache entry is a miss or the term's own, and so is what a task is about
\* to commit: neither an outage nor a dead client leaves anything else.
CacheTells == \A t \in Terms : cached[t] \in {None, "miss", covers[t]}
TasksTell ==
    \A w \in Workers : task[w] # D!Idle =>
        \A t \in Terms : task[w].wrote[t] \in {None, covers[t]}

IInv == D!TypeOK /\ CacheTells /\ TasksTell /\ D!OnlyWhatIsCovered

\* The cards start without a transcription.
LEMMA InitIInv ==
    ASSUME D!DictionaryAssumption PROVE D!Init => IInv
BY DEF D!DictionaryAssumption, D!Init, IInv, D!TypeOK, D!Tasks, CacheTells, TasksTell, D!OnlyWhatIsCovered

\* A lookup tells what the dictionary has, or nothing.
LEMMA LookupTells ==
    ASSUME D!TypeOK, CacheTells, NEW t \in Terms
    PROVE  /\ D!LookedUp(t) \in {None} \cup D!Transcriptions
           /\ D!LookedUp(t) \in {None, covers[t]}
           /\ D!Remembered(t) \in [Terms -> D!Transcriptions \cup {"miss", None}]
           /\ \A s \in Terms : D!Remembered(t)[s] \in {None, "miss", covers[s]}
<1>1. /\ covers[t] \in D!Transcriptions \cup {"absent"}
      /\ cached[t] \in D!Transcriptions \cup {"miss", None}
      /\ cached[t] \in {None, "miss", covers[t]}
  BY DEF D!TypeOK, CacheTells
<1>2. D!Fetched(t) \in {None} \cup D!Transcriptions /\ D!Fetched(t) \in {None, covers[t]}
  BY <1>1 DEF D!Fetched
<1>3. D!LookedUp(t) \in {None} \cup D!Transcriptions /\ D!LookedUp(t) \in {None, covers[t]}
  BY <1>1, <1>2 DEF D!LookedUp, D!Transcriptions
<1>4. D!Remembered(t) \in [Terms -> D!Transcriptions \cup {"miss", None}]
  BY <1>1, <1>2 DEF D!Remembered, D!TypeOK
<1>5. \A s \in Terms : D!Remembered(t)[s] \in {None, "miss", covers[s]}
  BY <1>1, <1>2 DEF D!Remembered, D!TypeOK, CacheTells
<1> QED BY <1>3, <1>4, <1>5

\* Faults are counted.
LEMMA FaultCounted ==
    ASSUME D!DictionaryAssumption, D!TypeOK, D!Fault PROVE faults' \in 0..MaxFaults
BY DEF D!DictionaryAssumption, D!TypeOK, D!Fault

\* A worker that is not idle holds a task; giving it another field keeps the
\* shape.
LEMMA BusyTask ==
    ASSUME D!TypeOK, NEW w \in Workers, task[w].at # "idle"
    PROVE  task[w] \in [at : {"asking", "releasing"}, todo : Seq(Terms),
                        wrote : [Terms -> D!Transcriptions \cup {None}]]
BY DEF D!TypeOK, D!Tasks, D!Idle

LEMMA NextIInv ==
    ASSUME D!DictionaryAssumption, IInv, [D!Next]_(D!vars) PROVE IInv'
<1> USE DEF IInv
<1>1. ASSUME NEW t \in Terms, D!Expire(t) PROVE IInv'
  BY <1>1 DEF D!Expire, D!TypeOK, CacheTells, TasksTell, D!OnlyWhatIsCovered
<1>2. ASSUME NEW t \in Terms, D!LearnerLooksUp(t) PROVE IInv'
  BY <1>2, LookupTells DEF D!LearnerLooksUp, D!TypeOK, CacheTells, TasksTell, D!OnlyWhatIsCovered
<1>3. CASE D!Outage \/ D!Recovery
  BY <1>3, FaultCounted DEF D!Outage, D!Recovery, D!TypeOK, CacheTells, TasksTell, D!OnlyWhatIsCovered
<1>4. ASSUME NEW w \in Workers, NEW batch \in D!Batches, D!Begin(w, batch) PROVE IInv'
  <2>1. batch \in Seq(Terms)
    BY DEF D!Batches, D!Missing
  <2>2. [at |-> "asking", todo |-> batch, wrote |-> [t \in Terms |-> None]] \in D!Tasks
    BY <2>1 DEF D!Tasks
  <2>3. D!TypeOK'
    BY <1>4, <2>2 DEF D!Begin, D!TypeOK
  <2>4. TasksTell'
    BY <1>4 DEF D!Begin, TasksTell, D!TypeOK
  <2> QED BY <1>4, <2>3, <2>4 DEF D!Begin, CacheTells, D!OnlyWhatIsCovered
<1>5. ASSUME NEW w \in Workers, D!Ask(w) PROVE IInv'
  <2> DEFINE t == Head(task[w].todo)
             told == IF client[w] = "orphan" THEN None ELSE D!LookedUp(t)
             new == [task[w] EXCEPT !.todo = Tail(@), !.wrote[t] = told]
  <2>1. task[w] \in [at : {"asking", "releasing"}, todo : Seq(Terms),
                     wrote : [Terms -> D!Transcriptions \cup {None}]]
    BY <1>5, BusyTask DEF D!Ask
  <2>2. t \in Terms /\ Tail(task[w].todo) \in Seq(Terms)
    BY <1>5, <2>1 DEF D!Ask
  <2>3. told \in D!Transcriptions \cup {None} /\ told \in {None, covers[t]}
    BY <2>2, LookupTells
  <2>4. new \in D!Tasks
    BY <2>1, <2>2, <2>3 DEF D!Tasks
  <2>5. task' = [task EXCEPT ![w] = new]
    BY <1>5 DEF D!Ask
  <2>6. /\ cached' \in [Terms -> D!Transcriptions \cup {"miss", None}]
        /\ \A s \in Terms : cached'[s] \in {None, "miss", covers[s]}
    BY <1>5, <2>2, LookupTells DEF D!Ask, D!TypeOK, CacheTells
  <2>7. D!TypeOK'
    BY <1>5, <2>4, <2>5, <2>6 DEF D!Ask, D!TypeOK
  <2>8. \A s \in Terms : new.wrote[s] \in {None, covers[s]}
    <3>1. task[w] # D!Idle
      BY <1>5 DEF D!Ask, D!Idle
    <3> QED BY <2>1, <2>2, <2>3, <3>1 DEF TasksTell
  <2>9. TasksTell'
    BY <1>5, <2>5, <2>8 DEF D!Ask, TasksTell, D!TypeOK
  <2> QED BY <1>5, <2>6, <2>7, <2>9 DEF D!Ask, CacheTells, D!OnlyWhatIsCovered
<1>6. ASSUME NEW w \in Workers, D!Commit(w) PROVE IInv'
  <2>1. task[w] \in [at : {"asking", "releasing"}, todo : Seq(Terms),
                     wrote : [Terms -> D!Transcriptions \cup {None}]]
    BY <1>6, BusyTask DEF D!Commit
  <2>2. \A t \in Terms : task[w].wrote[t] \in {None, covers[t]}
    BY <1>6 DEF D!Commit, TasksTell, D!Idle
  <2>3. [task[w] EXCEPT !.at = "releasing"] \in D!Tasks
    BY <2>1 DEF D!Tasks
  <2>4. phonetic' \in [Terms -> D!Transcriptions \cup {None}]
    BY <1>6, <2>1 DEF D!Commit, D!TypeOK
  <2>5. D!TypeOK'
    BY <1>6, <2>3, <2>4 DEF D!Commit, D!TypeOK
  <2>6. TasksTell'
    BY <1>6, <2>1, <2>2 DEF D!Commit, TasksTell, D!TypeOK
  <2>7. D!OnlyWhatIsCovered'
    BY <1>6, <2>2 DEF D!Commit, D!OnlyWhatIsCovered, D!TypeOK
  <2> QED BY <1>6, <2>5, <2>6, <2>7 DEF D!Commit, CacheTells
<1>7. ASSUME NEW w \in Workers, D!Release(w) \/ D!Kill(w) PROVE IInv'
  <2>1. D!TypeOK'
    BY <1>7, FaultCounted DEF D!Release, D!Released, D!Kill, D!TypeOK, D!Tasks
  <2>2. TasksTell'
    BY <1>7 DEF D!Release, D!Kill, TasksTell, D!TypeOK
  <2> QED BY <1>7, <2>1, <2>2 DEF D!Release, D!Kill, CacheTells, D!OnlyWhatIsCovered
<1>8. ASSUME NEW w \in Workers, D!Fail(w) \/ D!TimeLimit(w) PROVE IInv'
  <2>1. task[w] \in [at : {"asking", "releasing"}, todo : Seq(Terms),
                     wrote : [Terms -> D!Transcriptions \cup {None}]]
    BY <1>8, BusyTask DEF D!Fail, D!TimeLimit
  <2>2. faults' \in 0..MaxFaults
    BY <1>8, FaultCounted DEF D!Fail, D!TimeLimit
  <2>3. \/ task' = [task EXCEPT ![w] = D!Idle]
        \/ task' = [task EXCEPT ![w] = [task[w] EXCEPT !.at = "releasing"]]
        \/ task[w].todo # <<>> /\ task' = [task EXCEPT ![w] = [task[w] EXCEPT !.todo = Tail(@)]]
    BY <1>8 DEF D!Fail, D!TimeLimit
  <2> DEFINE late == [task[w] EXCEPT !.at = "releasing"]
             shorter == [task[w] EXCEPT !.todo = Tail(@)]
  <2>4. task' \in [Workers -> D!Tasks]
    <3>1. late \in D!Tasks /\ D!Idle \in D!Tasks
      BY <2>1 DEF D!Tasks
    <3>2. ASSUME task[w].todo # <<>> PROVE shorter \in D!Tasks
      <4>1. Tail(task[w].todo) \in Seq(Terms)
        BY <2>1, <3>2
      <4> QED BY <2>1, <4>1 DEF D!Tasks
    <3> HIDE DEF late, shorter
    <3> QED BY <2>3, <3>1, <3>2 DEF D!TypeOK, late, shorter
  <2>5. TasksTell'
    <3>1. task[w] # D!Idle
      BY <1>8 DEF D!Fail, D!TimeLimit, D!Idle
    <3>2. late.wrote = task[w].wrote /\ shorter.wrote = task[w].wrote
      BY <2>1
    <3>3. \A v \in Workers : task'[v] # D!Idle => task[v] # D!Idle /\ task'[v].wrote = task[v].wrote
      BY <2>3, <3>1, <3>2 DEF D!TypeOK
    <3>4. covers' = covers
      BY <1>8 DEF D!Fail, D!TimeLimit
    <3> QED BY <3>3, <3>4 DEF TasksTell
  <2>6. client' \in [Workers -> {None, "open", "orphan"}]
    BY <1>8 DEF D!Fail, D!TimeLimit, D!Kept, D!TypeOK
  <2> QED
    BY <1>8, <2>2, <2>4, <2>5, <2>6
    DEF D!Fail, D!TimeLimit, D!TypeOK, CacheTells, D!OnlyWhatIsCovered
<1>9. CASE UNCHANGED D!vars
  BY <1>9 DEF D!vars, D!TypeOK, CacheTells, TasksTell, D!OnlyWhatIsCovered
<1> QED BY <1>1, <1>2, <1>3, <1>4, <1>5, <1>6, <1>7, <1>8, <1>9 DEF D!Next

LEMMA SpecIInv ==
    ASSUME D!DictionaryAssumption PROVE D!Spec => []IInv
<1>1. D!Init => IInv
  BY InitIInv
<1>2. IInv /\ [D!Next]_(D!vars) => IInv'
  BY NextIInv
<1> QED BY <1>1, <1>2, PTL DEF D!Spec

\* phonetic_backfill_service.py: an outage never marks a word as having no
\* pronunciation, whoever fills the cache and whatever ends a task.
THEOREM SpecOnlyWhatIsCovered ==
    ASSUME D!DictionaryAssumption PROVE D!Spec => []D!OnlyWhatIsCovered
<1>1. IInv => D!OnlyWhatIsCovered
  BY DEF IInv
<1> QED BY <1>1, SpecIInv, PTL

\* The same for the service, whose other parts give no card its transcription.
THEOREM OnlyWhatIsCoveredIsSpoken == MCSpec => []SpokenAsCovered
<1>1. MCInit => IInv
  BY InitIInv, LookupsAssumption DEF MCInit
<1>2. [MCNext]_allVars => [D!Next]_(D!vars)
  BY DEF MCNext, allVars, spokenVars, D!vars
<1>3. IInv /\ [MCNext]_allVars => IInv'
  BY <1>2, NextIInv, LookupsAssumption
<1>4. IInv => SpokenAsCovered
  BY DEF IInv, SpokenAsCovered
<1> QED BY <1>1, <1>3, <1>4, PTL DEF MCSpec
=============================================================================
