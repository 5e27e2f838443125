---------------------------- MODULE ReaderProofs ----------------------------
(***************************************************************************)
(* Positions, kept translations and the slices of the warm chain; the      *)
(* sense that a tap shows: for any number of editions, learners, tasks,    *)
(* lemmas and taps.                                                        *)
(***************************************************************************)
EXTENDS MCReader, FiniteSetTheorems, WellFoundedInduction, TLAPS

\* Ids of texts are drawn one after the other, and the last is the book's.
Shape ==
    /\ book \in Book \cup {None} /\ drawn \in Nat
    /\ book # None => book.text + 1 = drawn /\ book.edition \in stored
    /\ position = [u \in Learners |-> position[u]]
    /\ task = [t \in Tasks |-> task[t]]
    /\ slices = [s \in Slots |-> slices[s]]

\* What a task has decided on: only its first step may find no book.
TaskSound(row, b, known) ==
    /\ row.at \in {"create", "replace"} => row.edition \in Editions /\ row.rights \in BOOLEAN
    /\ row.at \in {"replace", "publish", "publishing", "sync"} => b # None
    /\ row.at \in {"publish", "publishing"} =>
         row \in [at : {"publish", "publishing"}, public : BOOLEAN, states : BOOLEAN, flips : BOOLEAN]
    /\ row.at = "translate" /\ row.keep => row.text \in known

TasksSound == \A t \in Tasks : TaskSound(task[t], book, stored)

Queued == [offset : Nat, text : Nat, tries : Nat, at : {"queued"}]
Worked == [offset : Nat, text : Nat, tries : Nat, at : {"warming", "warmed"},
           lemmas : SUBSET (Nat \X Nat), more : BOOLEAN]

\* The lemmas a run has planned follow its offset without a gap, in the text
\* it read, which is the one its message was queued for or a later one.
Follows(m) ==
    \E text \in Nat, end \in Int :
        /\ m.text <= text /\ text < drawn
        /\ m.lemmas = {<<text, i>> : i \in m.offset..end}

SliceSound(m) ==
    /\ m \in Queued \cup Worked /\ m.text < drawn /\ book # None
    /\ m.at \in {"warming", "warmed"} => m \in Worked /\ Follows(m)
    /\ m.at = "warmed" => m.lemmas \subseteq attempted
    /\ m.text = book.text => \A i \in 0..m.offset - 1 : <<book.text, i>> \in attempted

SlicesSound == \A s \in Slots : slices[s] # None => SliceSound(slices[s])

IInv == Shape /\ TasksSound /\ SlicesSound /\ PositionsResolve /\ OnlyBookTextKept

(***************************************************************************)
(* Steps that leave the warm chain alone                                   *)
(***************************************************************************)

LEMMA IdleSound == \A b, known : TaskSound(Idle, b, known)
BY DEF TaskSound, Idle

\* Tasks stay sound as the book is written and the stored texts grow.
LEMMA TasksStep ==
    ASSUME IInv, NEW t \in Tasks, NEW row, TaskSound(row, book', stored'),
           task' = [task EXCEPT ![t] = row],
           book # None => book' # None, stored \subseteq stored'
    PROVE  TasksSound' /\ task' = [q \in Tasks |-> task'[q]]
<1>1. ASSUME NEW q \in Tasks PROVE TaskSound(task'[q], book', stored')
  <2>1. CASE q = t
    BY <2>1 DEF IInv, Shape
  <2>2. CASE q # t
    <3>1. task'[q] = task[q] /\ TaskSound(task[q], book, stored)
      BY <2>2 DEF IInv, Shape, TasksSound
    <3> QED BY <3>1 DEF TaskSound
  <2> QED BY <2>1, <2>2
<1> QED BY <1>1 DEF TasksSound, IInv, Shape

\* A request or a task reads.
LEMMA ReadStep ==
    ASSUME IInv, NEW t \in Tasks, NEW row, TaskSound(row, book, stored),
           task' = [task EXCEPT ![t] = row],
           UNCHANGED <<book, position, kept, stored, slices, attempted, drawn>>
    PROVE  IInv'
<1>1. TasksSound' /\ Shape'
  BY TasksStep DEF IInv, Shape
<1>2. SlicesSound'
  BY DEF IInv, SlicesSound, SliceSound, Follows
<1> QED BY <1>1, <1>2 DEF IInv, PositionsResolve, OnlyBookTextKept

LEMMA RequestKeeps ==
    ASSUME IInv, NEW t \in Tasks, Request(t) PROVE IInv'
<1>1. ASSUME NEW e \in Editions, NEW rights \in BOOLEAN, Ingest(t, e, rights) PROVE IInv'
  <2>1. UNCHANGED <<book, position, kept, stored, slices, attempted, drawn>>
    BY <1>1 DEF Ingest, warm
  <2>2. \/ Holds(t, [at |-> "create", edition |-> e, rights |-> rights])
        \/ book # None /\ Holds(t, [at |-> "replace", edition |-> e, rights |-> rights])
        \/ UNCHANGED task
    BY <1>1 DEF Ingest
  <2>3. TaskSound([at |-> "create", edition |-> e, rights |-> rights], book, stored)
    BY DEF TaskSound
  <2>4. book # None =>
          TaskSound([at |-> "replace", edition |-> e, rights |-> rights], book, stored)
    BY DEF TaskSound
  <2>5. CASE UNCHANGED task
    BY <2>1, <2>5 DEF IInv, Shape, TasksSound, SlicesSound, SliceSound, Follows, PositionsResolve,
       OnlyBookTextKept
  <2> QED BY <2>1, <2>2, <2>3, <2>4, <2>5, ReadStep DEF Holds
<1>2. ASSUME NEW public \in BOOLEAN, NEW rights \in BOOLEAN, Publish(t, public, rights) PROVE IInv'
  <2> DEFINE row == [at |-> "publish", public |-> public,
                     states |-> rights /\ ~book.rights, flips |-> book.public # public]
  <2>1. TaskSound(row, book, stored)
    BY <1>2 DEF Publish, TaskSound
  <2>2. task' = [task EXCEPT ![t] = row]
        /\ UNCHANGED <<book, position, kept, stored, slices, attempted, drawn>>
    BY <1>2 DEF Publish, Holds, warm
  <2> HIDE DEF row
  <2> QED BY <2>1, <2>2, ReadStep
<1>3. ASSUME NEW u \in Learners, Sync(t, u) PROVE IInv'
  <2> DEFINE row == [at |-> "sync", user |-> u, block |-> book.text]
  <2>1. TaskSound(row, book, stored)
    BY <1>3 DEF Sync, TaskSound
  <2> QED BY <1>3, <2>1, ReadStep DEF Sync, Holds, warm
<1>4. ASSUME NEW text \in Editions \cup OwnTexts, Translate(t, text) PROVE IInv'
  <2> DEFINE row == [at |-> "translate", text |-> text, keep |-> IsBookText(text)]
  <2>1. TaskSound(row, book, stored)
    BY DEF TaskSound, IsBookText, IInv, Shape
  <2>2. task' = [task EXCEPT ![t] = Idle] \/ task' = [task EXCEPT ![t] = row]
    BY <1>4 DEF Translate, Holds
  <2>3. UNCHANGED <<book, position, kept, stored, slices, attempted, drawn>>
    BY <1>4 DEF Translate, warm
  <2> HIDE DEF row
  <2> QED BY <2>1, <2>2, <2>3, ReadStep, IdleSound
<1> QED BY <1>1, <1>2, <1>3, <1>4 DEF Request

\* A text is written: the learners' positions in the old one are gone, and no
\* message was queued for the new one.
LEMMA WrittenStep ==
    ASSUME BooksAssumption, IInv, NEW t \in Tasks, NEW row, NEW public \in BOOLEAN,
           row.edition \in Editions, row.rights \in BOOLEAN, Written(row, public),
           book = None \/ Cascaded, UNCHANGED <<kept, slices, attempted>>,
           Finish(t), book = None => UNCHANGED position
    PROVE  IInv'
<1>1. /\ book' = [edition |-> row.edition, text |-> drawn, rights |-> row.rights, public |-> public]
      /\ drawn' = drawn + 1 /\ stored' = stored \cup {row.edition} /\ drawn \in Nat
  BY DEF Written, WriteText, IInv, Shape
<1>2. book' \in Book /\ book' # None /\ book'.text = drawn /\ book'.edition = row.edition
  <2>1. book' \in Book
    BY <1>1 DEF Book
  <2>2. book' # None
    BY <2>1 DEF BooksAssumption
  <2> QED BY <1>1, <2>1, <2>2
<1>3. TasksSound' /\ task' = [q \in Tasks |-> task'[q]]
  BY <1>1, <1>2, TasksStep, IdleSound DEF Finish
<1>4. \A u \in Learners : position'[u] = None
  BY DEF Cascaded, IInv, PositionsResolve
<1>5. Shape'
  <2>1. position' = [u \in Learners |-> position'[u]]
    BY DEF Cascaded, IInv, Shape
  <2> QED BY <1>1, <1>2, <1>3, <2>1 DEF IInv, Shape
<1>6. SlicesSound'
  <2> SUFFICES ASSUME NEW s \in Slots, slices[s] # None PROVE SliceSound(slices[s])'
    BY DEF SlicesSound
  <2>1. SliceSound(slices[s])
    BY DEF IInv, SlicesSound
  <2>2. slices[s].text \in Nat /\ slices[s].text < drawn
    BY <2>1 DEF SliceSound, Queued, Worked
  <2>3. ASSUME Follows(slices[s]) PROVE Follows(slices[s])'
    <3>1. PICK text \in Nat, end \in Int :
            /\ slices[s].text <= text /\ text < drawn
            /\ slices[s].lemmas = {<<text, i>> : i \in slices[s].offset..end}
      BY <2>3 DEF Follows
    <3>2. text < drawn' /\ slices' = slices
      BY <1>1, <3>1
    <3> QED BY <3>1, <3>2 DEF Follows
  <2> QED BY <1>1, <1>2, <2>1, <2>2, <2>3 DEF SliceSound
<1>7. PositionsResolve' /\ OnlyBookTextKept'
  BY <1>1, <1>4 DEF PositionsResolve, OnlyBookTextKept, IInv
<1> QED BY <1>3, <1>5, <1>6, <1>7 DEF IInv

LEMMA CommitTextKeeps ==
    ASSUME BooksAssumption, IInv, NEW t \in Tasks, CommitCreate(t) \/ CommitReplace(t) PROVE IInv'
<1>1. CASE CommitCreate(t)
  <2>1. TaskSound(task[t], book, stored)
    BY DEF IInv, TasksSound
  <2>2. task[t].edition \in Editions /\ task[t].rights \in BOOLEAN
    BY <1>1, <2>1 DEF CommitCreate, At, TaskSound
  <2>3. CASE book = None
    BY <1>1, <2>2, <2>3, WrittenStep DEF CommitCreate, warm
  <2>4. CASE book # None
    BY <1>1, <2>4, ReadStep, IdleSound DEF CommitCreate, Finish, warm
  <2> QED BY <2>3, <2>4
<1>2. CASE CommitReplace(t)
  <2>1. TaskSound(task[t], book, stored)
    BY DEF IInv, TasksSound
  <2>2. task[t].edition \in Editions /\ task[t].rights \in BOOLEAN /\ book # None
    BY <1>2, <2>1 DEF CommitReplace, At, TaskSound
  <2>3. book.public \in BOOLEAN
    BY <2>2 DEF IInv, Shape, Book
  <2> QED BY <1>2, <2>2, <2>3, WrittenStep DEF CommitReplace, warm
<1> QED BY <1>1, <1>2

\* The columns of the row that a publication changes are not the text's.
LEMMA CommitPublishKeeps ==
    ASSUME BooksAssumption, IInv, NEW t \in Tasks, CommitPublish(t) PROVE IInv'
<1>1. TaskSound(task[t], book, stored)
  BY DEF IInv, TasksSound
<1>2. /\ book \in Book /\ task[t].public \in BOOLEAN
      /\ task[t].states \in BOOLEAN /\ task[t].flips \in BOOLEAN
  BY <1>1 DEF CommitPublish, At, TaskSound, IInv, Shape
<1>3. PICK rights \in BOOLEAN, public \in BOOLEAN :
        book' = [book EXCEPT !.rights = rights, !.public = public]
  <2>1. (book.rights \/ task[t].states) \in BOOLEAN
        /\ (IF task[t].flips THEN task[t].public ELSE book.public) \in BOOLEAN
    BY <1>2 DEF Book
  <2> QED BY <2>1 DEF CommitPublish
<1>4. book' \in Book /\ book'.text = book.text /\ book'.edition = book.edition
  BY <1>2, <1>3 DEF Book
<1>5. book' # None /\ book # None
  BY <1>2, <1>4 DEF BooksAssumption
<1>6. UNCHANGED <<position, kept, stored, slices, attempted, drawn>> /\ Finish(t)
  BY DEF CommitPublish, warm
<1>7. TasksSound' /\ task' = [q \in Tasks |-> task'[q]]
  BY <1>5, <1>6, TasksStep, IdleSound DEF Finish
<1>8. Shape'
  BY <1>4, <1>5, <1>6, <1>7 DEF IInv, Shape
<1>9. SlicesSound'
  BY <1>4, <1>5, <1>6 DEF IInv, SlicesSound, SliceSound, Follows
<1> QED BY <1>4, <1>5, <1>6, <1>7, <1>8, <1>9 DEF IInv, PositionsResolve, OnlyBookTextKept

LEMMA CommitReadingKeeps ==
    ASSUME IInv, NEW t \in Tasks, CommitSync(t) \/ CommitTranslate(t) PROVE IInv'
<1>1. TaskSound(task[t], book, stored) /\ Finish(t)
      /\ UNCHANGED <<book, stored, slices, attempted, drawn>>
  BY DEF IInv, TasksSound, CommitSync, CommitTranslate, warm
<1>2. TasksSound' /\ task' = [q \in Tasks |-> task'[q]]
  BY <1>1, TasksStep, IdleSound DEF Finish
<1>3. SlicesSound'
  BY <1>1 DEF IInv, SlicesSound, SliceSound, Follows
<1>4. CASE CommitSync(t)
  <2>1. book # None
    BY <1>1, <1>4 DEF CommitSync, At, TaskSound
  <2>2. position' = [position EXCEPT ![task[t].user] =
          IF task[t].block = book.text THEN task[t].block ELSE position[task[t].user]]
    BY <1>4 DEF CommitSync
  <2>3. Shape'
    BY <1>1, <1>2, <2>2 DEF IInv, Shape
  <2>4. PositionsResolve'
    BY <1>1, <2>1, <2>2 DEF IInv, Shape, PositionsResolve
  <2> QED BY <1>2, <1>3, <1>4, <2>3, <2>4 DEF CommitSync, IInv, OnlyBookTextKept
<1>5. CASE CommitTranslate(t)
  <2>1. kept' \subseteq stored
    BY <1>1, <1>5 DEF CommitTranslate, At, TaskSound, IInv, OnlyBookTextKept
  <2>2. UNCHANGED position
    BY <1>5 DEF CommitTranslate
  <2>3. Shape' /\ PositionsResolve'
    BY <1>1, <1>2, <2>2 DEF IInv, Shape, PositionsResolve
  <2> QED BY <1>1, <1>2, <1>3, <2>1, <2>3 DEF IInv, OnlyBookTextKept
<1> QED BY <1>4, <1>5

LEMMA RemoveKeeps ==
    ASSUME IInv, NEW u \in Learners, RemoveFromShelf(u) PROVE IInv'
<1>1. position' = [position EXCEPT ![u] = None]
      /\ UNCHANGED <<book, kept, stored, task, slices, attempted, drawn>>
  BY DEF RemoveFromShelf, warm
<1>2. Shape' /\ PositionsResolve'
  BY <1>1 DEF IInv, Shape, PositionsResolve
<1>3. SlicesSound' /\ TasksSound'
  BY <1>1 DEF IInv, TasksSound, SlicesSound, SliceSound, Follows
<1> QED BY <1>1, <1>2, <1>3 DEF IInv, OnlyBookTextKept

(***************************************************************************)
(* The warm chain                                                          *)
(***************************************************************************)

\* Messages change, lemmas are looked up, and nothing else does.
LEMMA SlicesStep ==
    ASSUME IInv, SlicesSound', slices' = [s \in Slots |-> slices'[s]],
           UNCHANGED <<book, position, kept, stored, task, drawn>>
    PROVE  IInv'
<1>1. Shape' /\ TasksSound'
  BY DEF IInv, Shape, TasksSound
<1> QED BY <1>1 DEF IInv, PositionsResolve, OnlyBookTextKept

\* One message becomes another that is sound, or goes.
LEMMA MessageStep ==
    ASSUME IInv, NEW s \in Slots, NEW m, m = None \/ SliceSound(m),
           slices' = [slices EXCEPT ![s] = m],
           UNCHANGED <<book, position, kept, stored, task, attempted, drawn>>
    PROVE  IInv'
<1>1. SlicesSound'
  <2> SUFFICES ASSUME NEW r \in Slots, slices'[r] # None PROVE SliceSound(slices[r])'
    BY DEF SlicesSound
  <2>1. SliceSound(slices'[r])
    BY DEF IInv, Shape, SlicesSound
  <2> QED BY <2>1 DEF SliceSound, Follows
<1>2. slices' = [r \in Slots |-> slices'[r]]
  BY DEF IInv, Shape
<1> QED BY <1>1, <1>2, SlicesStep

LEMMA QueueWarmingKeeps ==
    ASSUME IInv, NEW t \in Tasks, QueueWarming(t) PROVE IInv'
<1> DEFINE s == CHOOSE free \in Free : TRUE
           m == [offset |-> 0, text |-> book.text, tries |-> 0, at |-> "queued"]
           row == [task[t] EXCEPT !.at = "publishing"]
<1>1. TaskSound(task[t], book, stored) /\ task[t].at = "publish"
  BY DEF QueueWarming, At, IInv, TasksSound
<1>2. TaskSound(row, book, stored) /\ book # None
  BY <1>1 DEF TaskSound
<1>3. s \in Slots /\ slices' = [slices EXCEPT ![s] = m]
  BY DEF QueueWarming, Enqueued, Free
<1>4. SliceSound(m)
  <2>1. book.text \in Nat /\ book.text < drawn
    BY <1>2 DEF IInv, Shape, Book
  <2> QED BY <1>2, <2>1 DEF SliceSound, Queued, Worked
<1>5. task' = [task EXCEPT ![t] = row]
      /\ UNCHANGED <<book, position, kept, stored, attempted, drawn>>
  BY DEF QueueWarming, Holds
<1> HIDE DEF s, m, row
<1>6. SlicesSound'
  <2> SUFFICES ASSUME NEW r \in Slots, slices'[r] # None PROVE SliceSound(slices[r])'
    BY DEF SlicesSound
  <2>1. SliceSound(slices'[r])
    BY <1>3, <1>4 DEF IInv, Shape, SlicesSound
  <2> QED BY <1>5, <2>1 DEF SliceSound, Follows
<1>7. TasksSound' /\ task' = [q \in Tasks |-> task'[q]]
  BY <1>2, <1>5, TasksStep
<1>8. Shape'
  BY <1>3, <1>5, <1>7 DEF IInv, Shape
<1> QED BY <1>5, <1>6, <1>7, <1>8 DEF IInv, PositionsResolve, OnlyBookTextKept

\* What a run plans is the stretch from its offset to its batch's or the
\* book's last lemma.
LEMMA PlannedIsStretch ==
    ASSUME BooksAssumption, IInv, book # None, NEW offset \in Nat
    PROVE  \E end \in Int : Planned(offset) = offset..end
<1>1. Lemmas[book.edition] \in Nat /\ Batch \in Nat
  BY DEF BooksAssumption, IInv, Shape, Book
<1> DEFINE end == IF offset + Batch - 1 < Lemmas[book.edition] THEN offset + Batch - 1
                   ELSE Lemmas[book.edition] - 1
<1>2. Planned(offset) = offset..end /\ end \in Int
  BY <1>1 DEF Planned
<1> QED BY <1>2

LEMMA PlanKeeps ==
    ASSUME BooksAssumption, IInv, NEW s \in Slots, PlanSlice(s) PROVE IInv'
<1> DEFINE old == slices[s]
           m == [offset |-> old.offset, text |-> old.text, tries |-> old.tries, at |-> "warming",
                 lemmas |-> {<<book.text, i>> : i \in Planned(old.offset)},
                 more |-> MoreAfter(old.offset)]
<1>1. SliceSound(old) /\ old \in Queued
  BY DEF PlanSlice, SliceAt, IInv, SlicesSound, SliceSound, Worked
<1>2. book # None /\ book.text \in Nat /\ book.text < drawn /\ book.text + 1 = drawn
  BY <1>1 DEF SliceSound, IInv, Shape, Book
<1>3. old.offset \in Nat /\ old.text \in Nat /\ old.tries \in Nat /\ old.text <= book.text
  BY <1>1, <1>2 DEF SliceSound, Queued, IInv, Shape
<1>4. PICK end \in Int : Planned(old.offset) = old.offset..end
  BY <1>2, <1>3, PlannedIsStretch
<1>5. m \in Worked
  <2>1. Planned(old.offset) \subseteq Nat
    BY <1>3, <1>4
  <2>2. m.lemmas \in SUBSET (Nat \X Nat) /\ MoreAfter(old.offset) \in BOOLEAN
    BY <1>2, <2>1 DEF MoreAfter
  <2> QED BY <1>3, <2>2 DEF Worked
<1>6. Follows(m)
  BY <1>2, <1>3, <1>4 DEF Follows
<1>7. SliceSound(m)
  <2>1. m.text = book.text => \A i \in 0..m.offset - 1 : <<book.text, i>> \in attempted
    BY <1>1 DEF SliceSound
  <2> QED BY <1>1, <1>2, <1>5, <1>6, <2>1 DEF SliceSound
<1>8. slices' = [slices EXCEPT ![s] = m]
      /\ UNCHANGED <<book, position, kept, stored, task, attempted, drawn>>
  BY DEF PlanSlice
<1> HIDE DEF m
<1> QED BY <1>7, <1>8, MessageStep

LEMMA WarmKeeps ==
    ASSUME IInv, NEW s \in Slots, Warm(s) PROVE IInv'
<1> DEFINE m == [slices[s] EXCEPT !.at = "warmed"]
<1>1. SliceSound(slices[s]) /\ slices[s] \in Worked /\ Follows(slices[s])
  BY DEF Warm, SliceAt, IInv, SlicesSound, SliceSound
<1>2. /\ m \in Worked /\ m.offset = slices[s].offset /\ m.text = slices[s].text
      /\ m.lemmas = slices[s].lemmas /\ m.at = "warmed"
  BY <1>1 DEF Worked
<1>3. slices' = [slices EXCEPT ![s] = m] /\ attempted' = attempted \cup slices[s].lemmas
      /\ UNCHANGED <<book, position, kept, stored, task, drawn>>
  BY DEF Warm
<1> HIDE DEF m
<1>4. slices'[s] = m
  BY <1>3 DEF IInv, Shape
<1>5. SliceSound(slices[s])'
  <2>1. PICK text \in Nat, end \in Int :
          /\ slices[s].text <= text /\ text < drawn
          /\ slices[s].lemmas = {<<text, i>> : i \in slices[s].offset..end}
    BY <1>1 DEF Follows
  <2>2. Follows(slices[s])'
    BY <1>2, <1>3, <1>4, <2>1 DEF Follows
  <2> QED BY <1>1, <1>2, <1>3, <1>4, <2>2 DEF SliceSound
<1>6. SlicesSound'
  <2> SUFFICES ASSUME NEW r \in Slots, slices'[r] # None PROVE SliceSound(slices[r])'
    BY DEF SlicesSound
  <2>1. CASE r = s
    BY <1>5, <2>1
  <2>2. CASE r # s
    <3>1. slices'[r] = slices[r] /\ SliceSound(slices[r])
      BY <1>3, <2>2 DEF IInv, Shape, SlicesSound
    <3> QED BY <1>3, <3>1 DEF SliceSound, Follows
  <2> QED BY <2>1, <2>2
<1>7. slices' = [r \in Slots |-> slices'[r]]
  BY <1>3 DEF IInv, Shape
<1> QED BY <1>3, <1>6, <1>7, SlicesStep

\* As many lemmas as the stretch they fill is long.
LEMMA StretchCount ==
    ASSUME NEW text \in Nat, NEW first \in Nat, NEW end \in Int,
           NEW lemmas, lemmas = {<<text, i>> : i \in first..end}
    PROVE  /\ Cardinality(lemmas) \in Nat
           /\ \A i \in first..first + Cardinality(lemmas) - 1 : <<text, i>> \in lemmas
<1> DEFINE f == [i \in first..end |-> <<text, i>>]
<1>1. IsFiniteSet(first..end)
      /\ Cardinality(first..end) = IF first > end THEN 0 ELSE end - first + 1
  BY FS_Interval
<1>2. f \in Bijection(first..end, lemmas)
  BY DEF Bijection, Injection, Surjection, IsInjective
<1>3. Cardinality(lemmas) = Cardinality(first..end)
  BY <1>1, <1>2, FS_Bijection DEF ExistsBijection
<1>4. CASE first > end
  <2>1. Cardinality(lemmas) = 0
    BY <1>1, <1>3, <1>4
  <2>2. first..first + 0 - 1 = {}
    OBVIOUS
  <2> QED BY <2>1, <2>2
<1>5. CASE first <= end
  <2>1. Cardinality(lemmas) = end - first + 1
    BY <1>1, <1>3, <1>5
  <2>2. Cardinality(lemmas) \in Nat /\ first + Cardinality(lemmas) - 1 = end
    BY <1>5, <2>1
  <2> QED BY <2>2
<1> QED BY <1>4, <1>5

\* The next slice begins where this one has ended.
LEMMA SuccessorSound ==
    ASSUME IInv, NEW s \in Slots, SliceAt(s, "warmed") PROVE SliceSound(Successor(slices[s]))
<1> DEFINE m == slices[s]
           n == Cardinality(m.lemmas)
<1>1. SliceSound(m) /\ m \in Worked /\ Follows(m) /\ m.lemmas \subseteq attempted
  BY DEF SliceAt, IInv, SlicesSound, SliceSound
<1>2. PICK text \in Nat, end \in Int :
        /\ m.text <= text /\ text < drawn
        /\ m.lemmas = {<<text, i>> : i \in m.offset..end}
  BY <1>1 DEF Follows
<1>3. m.offset \in Nat /\ m.text \in Nat /\ m.text < drawn /\ book # None
  BY <1>1 DEF Worked, SliceSound
<1>4. n \in Nat /\ \A i \in m.offset..m.offset + n - 1 : <<text, i>> \in m.lemmas
  BY <1>2, <1>3, StretchCount
<1>5. ASSUME m.text = book.text, NEW i \in 0..m.offset + n - 1 PROVE <<book.text, i>> \in attempted
  <2>1. text = book.text
    BY <1>2, <1>3, <1>5 DEF IInv, Shape
  <2>2. CASE i < m.offset
    BY <1>1, <1>3, <1>4, <1>5, <2>2 DEF SliceSound
  <2>3. CASE i >= m.offset
    BY <1>1, <1>3, <1>4, <1>5, <2>1, <2>3
  <2> QED BY <1>3, <1>4, <2>2, <2>3
<1>6. m.text = book.text => \A i \in 0..m.offset + n - 1 : <<book.text, i>> \in attempted
  BY <1>5
<1>7. Successor(m) = [offset |-> m.offset + n, text |-> m.text, tries |-> 0, at |-> "queued"]
  BY DEF Successor
<1> HIDE DEF m, n
<1>8. Successor(m) \in Queued
  BY <1>3, <1>4, <1>7 DEF Queued
<1>9. SliceSound(Successor(m))
  <2>1. /\ Successor(m).offset = m.offset + n /\ Successor(m).text = m.text
        /\ Successor(m).at = "queued"
    BY <1>7
  <2>2. m.text = book.text => \A i \in 0..Successor(m).offset - 1 : <<book.text, i>> \in attempted
    BY <1>3, <1>4, <1>6, <2>1
  <2>3. Successor(m).text < drawn
    BY <1>3, <2>1
  <2> QED BY <1>3, <1>8, <2>1, <2>2, <2>3 DEF SliceSound
<1> QED BY <1>9 DEF m

\* A message that is delivered again, or retried, starts where it had.
LEMMA RequeuedSound ==
    ASSUME IInv, NEW s \in Slots, slices[s] # None, NEW tries \in Nat
    PROVE  SliceSound(Requeued(slices[s], tries))
<1>1. SliceSound(slices[s])
  BY DEF IInv, SlicesSound
<1>2. slices[s].offset \in Nat /\ slices[s].text \in Nat
  BY <1>1 DEF SliceSound, Queued, Worked
<1>3. Requeued(slices[s], tries) =
        [offset |-> slices[s].offset, text |-> slices[s].text, tries |-> tries, at |-> "queued"]
  BY DEF Requeued
<1>4. Requeued(slices[s], tries) \in Queued
  BY <1>2, <1>3 DEF Queued
<1> QED BY <1>1, <1>3, <1>4 DEF SliceSound

LEMMA TriesAreCounted ==
    ASSUME IInv, NEW s \in Slots, slices[s] # None PROVE slices[s].tries \in Nat
BY DEF IInv, SlicesSound, SliceSound, Queued, Worked

LEMMA EnqueueNextKeeps ==
    ASSUME IInv, NEW s \in Slots, EnqueueNext(s) PROVE IInv'
<1>1. SliceSound(Successor(slices[s])) /\ slices[s] # None
      /\ UNCHANGED <<book, position, kept, stored, task, attempted, drawn>>
  BY SuccessorSound DEF EnqueueNext, Due, SliceAt
<1>2. CASE slices' = [slices EXCEPT ![s] = Successor(slices[s])]
  BY <1>1, <1>2, MessageStep
<1>3. CASE /\ Free # {}
           /\ slices' = [slices EXCEPT ![CHOOSE free \in Free : TRUE] = Successor(slices[s]),
                                       ![s] = Requeued(slices[s], slices[s].tries)]
  <2> DEFINE spare == CHOOSE free \in Free : TRUE
             again == Requeued(slices[s], slices[s].tries)
  <2>1. spare \in Free /\ spare # s /\ spare \in Slots
    BY <1>1, <1>3 DEF Free
  <2>2. SliceSound(again)
    BY <1>1, RequeuedSound, TriesAreCounted
  <2>3. slices' = [slices EXCEPT ![spare] = Successor(slices[s]), ![s] = again]
    BY <1>3, <2>1
  <2> HIDE DEF spare, again
  <2>4. SlicesSound'
    <3> SUFFICES ASSUME NEW r \in Slots, slices'[r] # None PROVE SliceSound(slices[r])'
      BY DEF SlicesSound
    <3>1. SliceSound(slices'[r])
      BY <1>1, <2>1, <2>2, <2>3 DEF IInv, Shape, SlicesSound
    <3> QED BY <1>1, <3>1 DEF SliceSound, Follows
  <2>5. slices' = [r \in Slots |-> slices'[r]]
    BY <2>3 DEF IInv, Shape
  <2> QED BY <1>1, <2>4, <2>5, SlicesStep
<1> QED BY <1>2, <1>3 DEF EnqueueNext

LEMMA OtherSliceKeeps ==
    ASSUME IInv, NEW s \in Slots, Acknowledge(s) \/ DieWarming(s) \/ FailWarming(s) PROVE IInv'
<1>1. UNCHANGED <<book, position, kept, stored, task, attempted, drawn>> /\ slices[s] # None
  BY DEF Acknowledge, DieWarming, FailWarming, SliceAt, counts
<1>2. slices[s].tries \in Nat
  BY <1>1, TriesAreCounted
<1>3. CASE Acknowledge(s)
  BY <1>1, <1>3, MessageStep DEF Acknowledge
<1>4. CASE DieWarming(s)
  BY <1>1, <1>2, <1>4, RequeuedSound, MessageStep DEF DieWarming
<1>5. CASE FailWarming(s)
  <2>1. slices[s].tries + (IF slices[s].tries < MaxTries THEN 1 ELSE 0) \in Nat
    BY <1>2
  <2>2. \E tries \in Nat : \/ slices' = [slices EXCEPT ![s] = Requeued(slices[s], tries)]
                          \/ slices' = [slices EXCEPT ![s] = None]
    BY <1>5, <2>1 DEF FailWarming
  <2> QED BY <1>1, <2>2, RequeuedSound, MessageStep
<1> QED BY <1>3, <1>4, <1>5

LEMMA NextKeeps ==
    ASSUME BooksAssumption, IInv, [Next]_vars PROVE IInv'
<1>1. ASSUME NEW t \in Tasks, Commit(t) PROVE IInv'
  BY <1>1, CommitTextKeeps, QueueWarmingKeeps, CommitPublishKeeps, CommitReadingKeeps DEF Commit
<1>2. ASSUME NEW t \in Tasks, Abort(t) PROVE IInv'
  BY <1>2, ReadStep, IdleSound DEF Abort, Finish, warm
<1>3. ASSUME NEW s \in Slots, Run(s) \/ DieWarming(s) PROVE IInv'
  BY <1>3, PlanKeeps, WarmKeeps, EnqueueNextKeeps, OtherSliceKeeps DEF Run
<1>4. CASE UNCHANGED vars
  BY <1>4 DEF vars, warm, counts, IInv, Shape, TasksSound, SlicesSound, SliceSound, Follows,
     PositionsResolve, OnlyBookTextKept
<1> QED BY <1>1, <1>2, <1>3, <1>4, RequestKeeps, RemoveKeeps DEF Next

LEMMA InitIInv ==
    ASSUME BooksAssumption, Init PROVE IInv
<1>1. TasksSound /\ task = [t \in Tasks |-> task[t]]
  BY IdleSound DEF Init, TasksSound
<1>2. \A s \in Slots : slices[s] = None
  BY DEF Init
<1>3. \A u \in Learners : position[u] = None
  BY DEF Init
<1>4. Shape
  <2>1. CASE book = None
    BY <1>1, <2>1 DEF Init, Shape
  <2>2. CASE book # None
    <3>1. PICK e \in Editions :
            /\ book = [edition |-> e, text |-> 0, rights |-> FALSE, public |-> FALSE]
            /\ stored = {e} /\ drawn = 1
      BY <2>2 DEF Init
    <3> QED BY <1>1, <3>1 DEF Init, Shape, Book
  <2> QED BY <2>1, <2>2
<1> QED BY <1>1, <1>2, <1>3, <1>4
        DEF Init, IInv, SlicesSound, PositionsResolve, OnlyBookTextKept

LEMMA SpecIInv ==
    ASSUME BooksAssumption PROVE Spec => []IInv
<1>1. Init => IInv
  BY InitIInv
<1>2. IInv /\ [Next]_vars => IInv'
  BY NextKeeps
<1> QED BY <1>1, <1>2, PTL DEF Spec

\* sync_position against replace_content: a learner is sent back to a block
\* of the text that is in the book.
THEOREM SpecPositionsResolve ==
    ASSUME BooksAssumption PROVE Spec => []PositionsResolve
<1>1. IInv => PositionsResolve
  BY DEF IInv
<1> QED BY <1>1, SpecIInv, PTL

\* translate: what a learner pastes from elsewhere is never kept, whatever
\* becomes of the book between the question and the answer.
THEOREM SpecOnlyBookTextKept ==
    ASSUME BooksAssumption PROVE Spec => []OnlyBookTextKept
<1>1. IInv => OnlyBookTextKept
  BY DEF IInv
<1> QED BY <1>1, SpecIInv, PTL

\* warm_book: no lemma before a slice is left out, whatever dies, is
\* delivered twice, fails or meets a text that is written again.
THEOREM SpecSlicesCover ==
    ASSUME BooksAssumption PROVE Spec => []SlicesCover
<1>1. IInv => SlicesCover
  BY DEF IInv, SlicesSound, SliceSound, SlicesCover
<1> QED BY <1>1, SpecIInv, PTL

\* The three together, as the runs check them.
THEOREM SpecTextCoheres ==
    ASSUME BooksAssumption PROVE Spec => []TextCoheres
<1>1. PositionsResolve /\ OnlyBookTextKept /\ SlicesCover => TextCoheres
  BY DEF TextCoheres
<1> QED BY <1>1, SpecPositionsResolve, SpecOnlyBookTextKept, SpecSlicesCover, PTL

-----------------------------------------------------------------------------
(* Taps. *)

Stages == [at : {"begun"}, book : BOOLEAN, meaning : BOOLEAN, fails : BOOLEAN,
           main : {"recall", "recallDb", "recallRedis", "wait", "join"},
           look : {"lookupRedis", "chainDb", "provider", "recordDb", "putRedis", "done", "failed"},
           asking : {"none", "model", "memoRedis", "keepDb", "done"}]

\* The model is asked once the request has come to wait for its answer, and the
\* request comes there with a meaning or by asking.  A question that is over
\* has found a meaning or failed.
Underway(row) ==
    /\ row \in Stages
    /\ row.main # "join" => row.asking = "none"
    /\ row.main = "join" /\ row.asking = "none" => row.meaning
    /\ row.asking \in {"memoRedis", "keepDb"} => row.meaning
    /\ row.asking = "done" => row.meaning \/ row.fails

\* What the learner is told when it is over.
Over(row, decides) ==
    \/ /\ row.at = "shown"
       /\ (row.selection = "local") <=> decides
       /\ row.selection = "first" => row.fails
    \/ row.at = "failed" /\ row.look = "failed"

TapSound(row, decides) == row = T!Idle \/ Underway(row) \/ Over(row, decides)

TapInv ==
    /\ decisive \in BOOLEAN /\ durable \in BOOLEAN
    /\ tap = [p \in Taps |-> tap[p]]
    /\ \A p \in Taps : TapSound(tap[p], decisive)

LEMMA TapStep ==
    ASSUME TapInv, UNCHANGED decisive, durable' \in BOOLEAN, NEW p \in Taps, NEW row, TapSound(row, decisive),
           tap' = [tap EXCEPT ![p] = row]
    PROVE  TapInv'
<1>1. \A q \in Taps : tap'[q] = IF q = p THEN row ELSE tap[q]
  BY DEF TapInv
<1>2. tap' = [q \in Taps |-> tap'[q]]
  BY DEF TapInv
<1> QED BY <1>1, <1>2 DEF TapInv

LEMMA TapActive ==
    ASSUME TapInv, NEW p \in Taps, T!Active(p) PROVE Underway(tap[p]) /\ tap[p] \in Stages
BY DEF TapInv, TapSound, T!Active, T!Idle, Over, Underway

LEMMA TapBegins ==
    ASSUME TapInv, NEW p \in Taps, T!Begin(p) PROVE TapInv'
<1>1. PICK ofABook \in BOOLEAN : tap' = [tap EXCEPT ![p] = T!Begun(ofABook)]
  BY DEF T!Begin
<1>2. Underway(T!Begun(ofABook))
  BY DEF T!Begun, Underway, Stages
<1>3. UNCHANGED decisive /\ durable' \in BOOLEAN
  BY DEF T!Begin, TapInv
<1> QED BY <1>1, <1>2, <1>3, TapStep DEF TapSound

\* The lookup goes on, and the request stays where it is.
LEMMA LookStays ==
    ASSUME TapInv, UNCHANGED decisive, durable' \in BOOLEAN, NEW p \in Taps, T!Active(p),
           NEW stage \in {"chainDb", "provider", "recordDb", "putRedis", "done", "failed"},
           T!Look(p, stage)
    PROVE  TapInv'
<1> DEFINE row == [tap[p] EXCEPT !.look = stage]
<1>1. Underway(tap[p]) /\ tap[p] \in Stages
  BY TapActive
<1>2. Underway(row)
  BY <1>1 DEF Underway, Stages
<1>3. tap' = [tap EXCEPT ![p] = row]
  BY DEF T!Look
<1> QED BY <1>2, <1>3, TapStep DEF TapSound

LEMMA LookKeeps ==
    ASSUME TapInv, NEW p \in Taps, T!LookStep(p) PROVE TapInv'
<1>1. T!Active(p) /\ UNCHANGED decisive /\ durable' \in BOOLEAN
  BY DEF TapInv, T!LookStep, T!LookInRedis, T!Chain, T!Provider, T!RecordLookup, T!PutLookup, T!Looking
<1>2. \E stage \in {"chainDb", "provider", "recordDb", "putRedis", "done", "failed"} : T!Look(p, stage)
  BY DEF T!LookStep, T!LookInRedis, T!Chain, T!Provider, T!RecordLookup, T!PutLookup
<1> QED BY <1>1, <1>2, LookStays

LEMMA AskKeeps ==
    ASSUME TapInv, NEW p \in Taps, T!AskStep(p) PROVE TapInv'
<1>1. T!Active(p) /\ UNCHANGED decisive /\ durable' \in BOOLEAN
  BY DEF TapInv, T!AskStep, T!Explain, T!PutMeaning, T!KeepMeaning, T!Asking
<1>2. Underway(tap[p]) /\ tap[p] \in Stages
  BY <1>1, TapActive
<1>3. CASE T!Explain(p)
  <2>1. CASE tap' = [tap EXCEPT ![p].asking = "memoRedis", ![p].meaning = TRUE]
    <3> DEFINE row == [tap[p] EXCEPT !.asking = "memoRedis", !.meaning = TRUE]
    <3>1. Underway(row)
      BY <1>2, <1>3 DEF T!Explain, T!Asking, Underway, Stages
    <3>2. tap' = [tap EXCEPT ![p] = row]
      BY <2>1 DEF TapInv
    <3> QED BY <1>1, <3>1, <3>2, TapStep DEF TapSound
  <2>2. CASE T!NoMeaning(p)
    <3> DEFINE row == [tap[p] EXCEPT !.asking = "done", !.fails = TRUE]
    <3>1. Underway(row)
      BY <1>2, <1>3 DEF T!Explain, T!Asking, Underway, Stages
    <3>2. tap' = [tap EXCEPT ![p] = row]
      BY <2>2 DEF TapInv, T!NoMeaning
    <3> QED BY <1>1, <3>1, <3>2, TapStep DEF TapSound
  <2> QED BY <1>3, <2>1, <2>2 DEF T!Explain
<1>4. CASE T!PutMeaning(p) \/ T!KeepMeaning(p)
  <2>1. PICK stage \in {"keepDb", "done"} : tap' = [tap EXCEPT ![p].asking = stage]
    BY <1>4 DEF T!PutMeaning, T!KeepMeaning
  <2> DEFINE row == [tap[p] EXCEPT !.asking = stage]
  <2>2. tap[p].asking \in {"memoRedis", "keepDb"}
    BY <1>4 DEF T!PutMeaning, T!KeepMeaning, T!Asking
  <2>3. Underway(row)
    BY <1>2, <2>2 DEF Underway, Stages
  <2> QED BY <1>1, <2>1, <2>3, TapStep DEF TapSound
<1> QED BY <1>3, <1>4 DEF T!AskStep

\* What is said of a tap whose answers are there.
LEMMA ChoiceSound ==
    ASSUME TapInv, NEW p \in Taps, T!Main(p, "join"), tap[p].asking \in {"none", "done"},
           NEW selection \in T!Choices(tap[p].meaning)
    PROVE  Over(T!View(selection, tap[p].fails), decisive)
<1>1. Underway(tap[p]) /\ tap[p].main = "join" /\ tap[p] \in Stages
  BY TapActive DEF T!Main
<1>2. tap[p].meaning \/ tap[p].fails
  BY <1>1 DEF Underway
<1>3. /\ decisive => selection = "local"
      /\ ~decisive => selection \in {"matched", "contextual", "first"}
      /\ selection = "first" => ~tap[p].meaning
  BY DEF T!Choices
<1>4. decisive \in BOOLEAN
  BY DEF TapInv
<1> QED BY <1>2, <1>3, <1>4 DEF T!View, Over

LEMMA MainKeeps ==
    ASSUME TapInv, NEW p \in Taps, T!MainStep(p) PROVE TapInv'
<1>1. T!Active(p) /\ UNCHANGED decisive /\ durable' \in BOOLEAN
  BY DEF TapInv, T!MainStep, T!Recall, T!RecallRow, T!RecallMemo, T!WarmEnough, T!Ask, T!Join, T!Raise,
     T!Main, T!Looking
<1>2. Underway(tap[p]) /\ tap[p] \in Stages
  BY <1>1, TapActive
<1>3. CASE T!Recall(p)
  <2>1. PICK stage \in {"recallDb", "recallRedis"} : tap' = [tap EXCEPT ![p].main = stage]
    BY <1>3 DEF T!Recall
  <2> DEFINE row == [tap[p] EXCEPT !.main = stage]
  <2>2. Underway(row)
    BY <1>2, <1>3 DEF T!Recall, T!Main, Underway, Stages
  <2> QED BY <1>1, <2>1, <2>2, TapStep DEF TapSound
<1>4. CASE T!RecallRow(p) \/ T!RecallMemo(p)
  <2>1. PICK found \in BOOLEAN, stage \in {"recallRedis", "wait"} :
          tap' = [tap EXCEPT ![p].main = IF found THEN "join" ELSE stage, ![p].meaning = found]
    <3>1. CASE T!RecallRow(p)
      <4>1. PICK found \in {FALSE, durable} :
              tap' = [tap EXCEPT ![p].main = IF found THEN "join" ELSE "recallRedis",
                                 ![p].meaning = found]
        BY <3>1 DEF T!RecallRow
      <4>2. found \in BOOLEAN
        BY <4>1 DEF TapInv
      <4> QED BY <4>1, <4>2
    <3>2. CASE T!RecallMemo(p)
      BY <3>2 DEF T!RecallMemo
    <3> QED BY <1>4, <3>1, <3>2
  <2> DEFINE row == [tap[p] EXCEPT !.main = IF found THEN "join" ELSE stage, !.meaning = found]
  <2>2. tap[p].main \in {"recallDb", "recallRedis"}
    BY <1>4 DEF T!RecallRow, T!RecallMemo, T!Main
  <2>3. Underway(row)
    BY <1>2, <2>2 DEF Underway, Stages
  <2>4. tap' = [tap EXCEPT ![p] = row]
    BY <2>1 DEF TapInv
  <2> QED BY <1>1, <2>3, <2>4, TapStep DEF TapSound
<1>5. CASE T!WarmEnough(p)
  <2> DEFINE row == T!View("local", tap[p].fails)
  <2>1. Over(row, decisive)
    BY <1>5 DEF T!WarmEnough, T!DecidedLocally, T!View, Over
  <2>2. tap' = [tap EXCEPT ![p] = row]
    BY <1>5 DEF T!WarmEnough, T!Shown
  <2> QED BY <1>1, <2>1, <2>2, TapStep DEF TapSound
<1>6. CASE T!Ask(p)
  <2> DEFINE row == [tap[p] EXCEPT !.main = "join", !.asking = "model"]
  <2>1. Underway(row)
    BY <1>2, <1>6 DEF T!Ask, T!Main, Underway, Stages
  <2>2. tap' = [tap EXCEPT ![p] = row]
    BY <1>6 DEF T!Ask, TapInv
  <2> QED BY <1>1, <2>1, <2>2, TapStep DEF TapSound
<1>7. CASE T!Join(p)
  <2>1. PICK selection \in T!Choices(tap[p].meaning) : T!Shown(p, selection)
    BY <1>7 DEF T!Join
  <2>2. Over(T!View(selection, tap[p].fails), decisive)
    BY <1>7, ChoiceSound DEF T!Join
  <2>3. tap' = [tap EXCEPT ![p] = T!View(selection, tap[p].fails)]
    BY <2>1 DEF T!Shown
  <2> QED BY <1>1, <2>2, <2>3, TapStep DEF TapSound
<1>8. CASE T!Raise(p)
  <2> DEFINE row == [at |-> "failed", look |-> tap[p].look]
  <2>1. Over(row, decisive)
    BY <1>8 DEF T!Raise, T!Looking, Over
  <2>2. tap' = [tap EXCEPT ![p] = row]
    BY <1>8 DEF T!Raise, T!Failed
  <2> QED BY <1>1, <2>1, <2>2, TapStep DEF TapSound
<1> QED BY <1>3, <1>4, <1>5, <1>6, <1>7, <1>8 DEF T!MainStep

LEMMA TapNext ==
    ASSUME TapInv, [T!Next]_(T!vars) PROVE TapInv'
<1>1. CASE UNCHANGED T!vars
  BY <1>1 DEF T!vars, TapInv
<1> QED BY <1>1, TapBegins, LookKeeps, AskKeeps, MainKeeps DEF T!Next

LEMMA TapInit == T!Init => TapInv
BY DEF T!Init, TapInv, TapSound

LEMMA TapInvHolds ==
    ASSUME TapInv PROVE T!SameSenseEitherWay /\ T!OnlyLookupFails
BY DEF TapInv, TapSound, Underway, Stages, Over, T!Idle, T!SameSenseEitherWay, T!OnlyLookupFails

-----------------------------------------------------------------------------
(* The sums of the limiter.  Induction is by the least number that a fact    *)
(* fails for.                                                                *)

LEMMA LeastNat ==
    ASSUME NEW S, S \subseteq Nat, S # {}
    PROVE  \E x \in S : \A y \in S : x <= y
<1>1. PICK x \in S : \A y \in S : <<y, x>> \notin OpToRel(<, Nat)
  <2>1. IsWellFoundedOn(OpToRel(<, Nat), Nat)
    BY NatLessThanWellFounded
  <2> QED BY <2>1, WFMin
<1>2. \A y \in S : ~(y < x)
  BY <1>1 DEF OpToRel
<1> QED BY <1>2

\* f is the function that the recursion asks for, up to n.
Sums(f, events, n) ==
    f = [i \in 0..n |-> IF i = 0 THEN 0 ELSE f[i - 1] + events[i - 1]]

LEMMA SumsExist ==
    ASSUME NEW events, NEW n \in Nat
    PROVE  \E f : Sums(f, events, n)
<1> DEFINE Bad == {k \in Nat : ~ \E f : Sums(f, events, k)}
<1>1. SUFFICES ASSUME Bad # {} PROVE FALSE
  OBVIOUS
<1>2. PICK k \in Bad : \A j \in Bad : k <= j
  <2>1. Bad \subseteq Nat
    OBVIOUS
  <2> HIDE DEF Bad
  <2> QED BY <1>1, <2>1, LeastNat
<1>3. CASE k = 0
  <2>1. Sums([i \in 0..0 |-> 0], events, 0)
    BY DEF Sums
  <2> QED BY <1>3, <2>1
<1>4. CASE k # 0
  <2>1. PICK f : Sums(f, events, k - 1)
    BY <1>2, <1>4
  <2> DEFINE g == [i \in 0..k |-> IF i = k THEN f[k - 1] + events[k - 1] ELSE f[i]]
  <2>2. \A i \in 0..k - 1 : f[i] = IF i = 0 THEN 0 ELSE f[i - 1] + events[i - 1]
    BY <2>1 DEF Sums
  <2>3. ASSUME NEW i \in 0..k PROVE g[i] = IF i = 0 THEN 0 ELSE g[i - 1] + events[i - 1]
    BY <2>2, <1>4
  <2>4. Sums(g, events, k)
    BY <2>3 DEF Sums
  <2> QED BY <2>4
<1> QED BY <1>3, <1>4

\* Younger adds up one age after the other.
LEMMA YoungerAdds ==
    ASSUME Window \in Nat, NEW events
    PROVE  /\ Q!Younger(0, events) = 0
           /\ \A n \in 1..Window : Q!Younger(n, events) = Q!Younger(n - 1, events) + events[n - 1]
<1> DEFINE f == CHOOSE f : Sums(f, events, Window)
<1>1. Sums(f, events, Window)
  BY SumsExist
<1>2. \A n : Q!Younger(n, events) = f[n]
  BY DEF Q!Younger, Sums
<1> HIDE DEF f
<1>3. \A i \in 0..Window : f[i] = IF i = 0 THEN 0 ELSE f[i - 1] + events[i - 1]
  BY <1>1 DEF Sums
<1> QED BY <1>2, <1>3

Events == [Q!Ages -> Nat]

LEMMA YoungerCounts ==
    ASSUME Window \in Nat, NEW events \in Events
    PROVE  \A n \in 0..Window : Q!Younger(n, events) \in Nat
<1> DEFINE Y(n) == Q!Younger(n, events)
           Bad == {n \in 0..Window : Y(n) \notin Nat}
<1>1. Y(0) = 0 /\ \A n \in 1..Window : Y(n) = Y(n - 1) + events[n - 1]
  BY YoungerAdds
<1>0. \A n \in 1..Window : events[n - 1] \in Nat
  BY DEF Events, Q!Ages
<1> HIDE DEF Y
<1>2. SUFFICES ASSUME Bad # {} PROVE FALSE
  BY DEF Y
<1>3. PICK k \in Bad : \A j \in Bad : k <= j
  <2>1. Bad \subseteq Nat
    OBVIOUS
  <2> HIDE DEF Bad
  <2> QED BY <1>2, <2>1, LeastNat
<1>4. k # 0 /\ k - 1 \in 0..Window /\ k - 1 \notin Bad
  BY <1>1, <1>3
<1> QED BY <1>0, <1>1, <1>3, <1>4

\* One more event is one more in every sum.
LEMMA YoungerOfOneMore ==
    ASSUME Window \in Nat, NEW events \in Events
    PROVE  \A n \in 1..Window : Q!Younger(n, Q!Happens(events)) = Q!Younger(n, events) + 1
<1> DEFINE more == Q!Happens(events)
           Y(n) == Q!Younger(n, events)
           Z(n) == Q!Younger(n, more)
           Bad == {n \in 1..Window : Z(n) # Y(n) + 1}
<1>1. \A a \in Q!Ages : more[a] = IF a = 0 THEN events[0] + 1 ELSE events[a]
  BY DEF Events, Q!Happens
<1>2. Y(0) = 0 /\ Z(0) = 0 /\ \A n \in 1..Window :
        Y(n) = Y(n - 1) + events[n - 1] /\ Z(n) = Z(n - 1) + more[n - 1]
  BY YoungerAdds
<1>3. \A n \in 1..Window : /\ n - 1 \in Q!Ages /\ events[n - 1] \in Nat
                           /\ more[n - 1] = IF n = 1 THEN events[n - 1] + 1 ELSE events[n - 1]
  BY <1>1 DEF Events, Q!Ages
<1>4. \A n \in 0..Window : Y(n) \in Nat
  BY YoungerCounts
<1> HIDE DEF Y, Z, more
<1>5. SUFFICES ASSUME Bad # {} PROVE FALSE
  BY DEF Y, Z, more
<1>6. PICK k \in Bad : \A j \in Bad : k <= j
  <2>1. Bad \subseteq Nat
    OBVIOUS
  <2> HIDE DEF Bad
  <2> QED BY <1>5, <2>1, LeastNat
<1>7. k \in 1..Window /\ Z(k) # Y(k) + 1
  OBVIOUS
<1>8. CASE k = 1
  BY <1>2, <1>3, <1>7, <1>8
<1>9. CASE k # 1
  <2>1. k - 1 \in 1..Window /\ k - 1 \notin Bad
    BY <1>6, <1>7, <1>9
  <2>2. Z(k - 1) = Y(k - 1) + 1 /\ Y(k - 1) \in Nat
    BY <2>1, <1>4
  <2> QED BY <2>2, <1>2, <1>3, <1>7, <1>9
<1> QED BY <1>8, <1>9

\* A tick later, what was younger than one tick less is younger than n.
LEMMA YoungerOfOlder ==
    ASSUME Window \in Nat, NEW events \in Events
    PROVE  \A n \in 1..Window : Q!Younger(n, Q!Older(events)) = Q!Younger(n - 1, events)
<1> DEFINE older == Q!Older(events)
           Y(n) == Q!Younger(n, events)
           Z(n) == Q!Younger(n, older)
           Bad == {n \in 1..Window : Z(n) # Y(n - 1)}
<1>1. \A n \in 1..Window : older[n - 1] = IF n = 1 THEN 0 ELSE events[n - 2]
  BY DEF Q!Older, Q!Ages
<1>2. Y(0) = 0 /\ Z(0) = 0 /\ \A n \in 1..Window :
        Y(n) = Y(n - 1) + events[n - 1] /\ Z(n) = Z(n - 1) + older[n - 1]
  BY YoungerAdds
<1> HIDE DEF Y, Z, older
<1>3. SUFFICES ASSUME Bad # {} PROVE FALSE
  BY DEF Y, Z, older
<1>4. PICK k \in Bad : \A j \in Bad : k <= j
  <2>1. Bad \subseteq Nat
    OBVIOUS
  <2> HIDE DEF Bad
  <2> QED BY <1>3, <2>1, LeastNat
<1>5. k \in 1..Window /\ Z(k) # Y(k - 1)
  OBVIOUS
<1>6. CASE k = 1
  BY <1>1, <1>2, <1>5, <1>6
<1>7. CASE k # 1
  <2>1. k - 1 \in 1..Window /\ k - 1 \notin Bad
    BY <1>4, <1>5, <1>7
  <2>2. Z(k - 1) = Y(k - 2)
    BY <2>1
  <2>3. Y(k - 1) = Y(k - 2) + events[k - 2]
    BY <2>1, <1>2
  <2> QED BY <2>2, <2>3, <1>1, <1>2, <1>5, <1>7
<1> QED BY <1>6, <1>7

LEMMA YoungerOfNone ==
    ASSUME Window \in Nat
    PROVE  \A n \in 0..Window : Q!Younger(n, Q!NoEvents) = 0
<1> DEFINE Z(n) == Q!Younger(n, Q!NoEvents)
           Bad == {n \in 0..Window : Z(n) # 0}
<1>1. Z(0) = 0 /\ \A n \in 1..Window : Z(n) = Z(n - 1) + 0
  BY YoungerAdds DEF Q!NoEvents, Q!Ages
<1> HIDE DEF Z
<1>2. SUFFICES ASSUME Bad # {} PROVE FALSE
  BY DEF Z
<1>3. PICK k \in Bad : \A j \in Bad : k <= j
  <2>1. Bad \subseteq Nat
    OBVIOUS
  <2> HIDE DEF Bad
  <2> QED BY <1>2, <2>1, LeastNat
<1>4. k # 0 /\ k - 1 \in 0..Window /\ k - 1 \notin Bad
  BY <1>1, <1>3
<1> QED BY <1>1, <1>3, <1>4

-----------------------------------------------------------------------------
(* The budget of a learner. *)

\* How much of a count is within the budget.
Within(count) == IF count <= Budget THEN count ELSE Budget

\* What the counter of the window that is open knows of, and what is older than
\* that window: at most a budget of each.
SharedSound ==
    /\ shared \in Events /\ key \in Q!Counters \cup {None}
    /\ key = None => Q!Total(shared) <= Budget
    /\ key # None =>
         /\ Q!Total(shared) <= Budget + Within(key.count)
         /\ key.ttl # None => Q!Younger(Window - key.ttl, shared) <= Within(key.count)

LocalSound ==
    /\ local \in [Workers -> Events]
    /\ \A w \in Workers : Q!Total(local[w]) <= Budget

LimitInv == SharedSound /\ LocalSound

LEMMA LimitInit == Q!Init => LimitInv
<1> SUFFICES ASSUME Q!Init PROVE LimitInv
  OBVIOUS
<1>1. Q!NoEvents \in Events /\ Q!Total(Q!NoEvents) = 0
  BY YoungerOfNone, PartsAssumption DEF Q!NoEvents, Events, Q!Total, Q!LimitAssumption
<1> QED BY <1>1, PartsAssumption DEF Q!Init, LimitInv, SharedSound, LocalSound, Q!LimitAssumption

\* A request that Redis counts, or does not.
LEMMA IncrKeeps ==
    ASSUME LimitInv, NEW w \in Workers, Q!Incr(w) PROVE LimitInv'
<1> DEFINE count == Q!Count
           row == [count |-> count, ttl |-> IF key = None THEN None ELSE key.ttl]
           more == Q!Happens(shared)
<1>1. Window \in Nat \ {0} /\ Budget \in Nat \ {0} /\ None \notin Q!Counters
  BY PartsAssumption DEF Q!LimitAssumption
<1>2. shared \in Events /\ Q!Total(shared) \in Nat
  BY <1>1, YoungerCounts DEF LimitInv, SharedSound, Q!Total
<1>3. more \in Events
  BY <1>1, <1>2 DEF Events, Q!Happens, Q!Ages
<1>4. Q!Total(more) = Q!Total(shared) + 1
  BY <1>1, <1>2, YoungerOfOneMore DEF Q!Total
<1>5. key' = row /\ shared' = IF count <= Budget THEN more ELSE shared
  BY DEF Q!Incr
<1>6. UNCHANGED local
  BY DEF Q!Incr
<1>7. CASE key = None
  <2>1. count = 1
    BY <1>7 DEF Q!Count
  <2>2. row \in Q!Counters /\ row.ttl = None /\ row.count = 1
    BY <1>1, <1>7, <2>1 DEF Q!Counters
  <2>3. Q!Total(shared) <= Budget
    BY <1>7 DEF LimitInv, SharedSound
  <2> HIDE DEF row, more, count
  <2>4. shared' = more /\ key' # None
    BY <1>1, <1>5, <2>1, <2>2
  <2> QED BY <1>1, <1>2, <1>3, <1>4, <1>5, <1>6, <2>2, <2>3, <2>4
        DEF LimitInv, SharedSound, LocalSound, Within
<1>8. CASE key # None
  <2>1. key \in Q!Counters /\ count = IF key.count > Budget THEN key.count ELSE key.count + 1
    BY <1>8 DEF LimitInv, SharedSound, Q!Count
  <2>2. count \in 1..(Budget + 1) /\ key.count \in 1..(Budget + 1) /\ key.ttl \in {None} \cup 1..Window
    BY <1>1, <2>1 DEF Q!Counters
  <2>3. row \in Q!Counters /\ row.ttl = key.ttl /\ row.count = count
    BY <1>8, <2>2 DEF Q!Counters
  <2> HIDE DEF row, more, count
  <2>4. key' # None /\ key' = row
    BY <1>1, <1>5, <2>3
  <2>5. Q!Total(shared) <= Budget + Within(key.count)
    BY <1>8 DEF LimitInv, SharedSound
  <2>6. CASE count <= Budget
    <3>1. Within(count) = Within(key.count) + 1
      BY <1>1, <2>1, <2>2, <2>6 DEF Within
    <3>2. Q!Total(more) <= Budget + Within(count)
      BY <1>1, <1>2, <1>4, <2>2, <2>5, <3>1 DEF Within
    <3>3. ASSUME key.ttl # None PROVE Q!Younger(Window - key.ttl, more) <= Within(count)
      <4> DEFINE n == Window - key.ttl
      <4>1. n \in 0..Window
        BY <1>1, <2>2, <3>3
      <4>2. Q!Younger(n, shared) <= Within(key.count)
        BY <1>8, <3>3 DEF LimitInv, SharedSound
      <4> HIDE DEF n
      <4>3. Q!Younger(n, shared) \in Nat
        BY <1>1, <1>2, <4>1, YoungerCounts
      <4>4. n = 0 => Q!Younger(n, more) = 0
        BY <1>1, YoungerAdds
      <4>5. n # 0 => Q!Younger(n, more) = Q!Younger(n, shared) + 1
        BY <1>1, <1>2, <4>1, YoungerOfOneMore DEF more
      <4>6. Within(count) \in Nat /\ Within(key.count) \in Nat
        BY <1>1, <2>2 DEF Within
      <4>7. Q!Younger(n, more) <= Within(count)
        BY <3>1, <4>2, <4>3, <4>4, <4>5, <4>6
      <4> QED BY <4>7 DEF n
    <3> QED BY <1>3, <1>5, <1>6, <2>3, <2>4, <2>6, <3>2, <3>3 DEF LimitInv, SharedSound, LocalSound
  <2>7. CASE ~(count <= Budget)
    <3>1. Within(count) = Within(key.count)
      BY <1>1, <2>1, <2>2, <2>7 DEF Within
    <3>2. key.ttl # None => Q!Younger(Window - key.ttl, shared) <= Within(key.count)
      BY <1>8 DEF LimitInv, SharedSound
    <3> QED BY <1>2, <1>5, <1>6, <2>3, <2>4, <2>5, <2>7, <3>1, <3>2 DEF LimitInv, SharedSound, LocalSound
  <2> QED BY <2>6, <2>7
<1> QED BY <1>7, <1>8

\* The time to live is set: nothing is younger than the window that opens.
LEMMA ExpiredKeeps ==
    ASSUME LimitInv, key' = Q!Expired, UNCHANGED <<shared, local>> PROVE LimitInv'
<1>1. Window \in Nat \ {0} /\ Budget \in Nat \ {0} /\ None \notin Q!Counters
  BY PartsAssumption DEF Q!LimitAssumption
<1>2. CASE key = None
  BY <1>2 DEF LimitInv, SharedSound, LocalSound, Q!Expired
<1>3. CASE key # None
  <2>1. key \in Q!Counters /\ key' = [key EXCEPT !.ttl = Window]
    BY <1>3 DEF LimitInv, SharedSound, Q!Expired
  <2>2. key' \in Q!Counters /\ key'.ttl = Window /\ key'.count = key.count /\ key.count \in 1..(Budget + 1)
    BY <1>1, <2>1 DEF Q!Counters
  <2>3. Q!Younger(Window - Window, shared) = 0
    BY <1>1, YoungerAdds
  <2>4. 0 <= Within(key.count)
    BY <1>1, <2>2 DEF Within
  <2> QED BY <1>1, <1>3, <2>2, <2>3, <2>4 DEF LimitInv, SharedSound, LocalSound
<1> QED BY <1>2, <1>3

LEMMA LocalStep ==
    ASSUME LimitInv, NEW w \in Workers, NEW events \in Events, Q!Total(events) <= Budget,
           local' = [local EXCEPT ![w] = events], UNCHANGED <<key, shared>>
    PROVE  LimitInv'
BY DEF LimitInv, SharedSound, LocalSound

LEMMA FallbackKeeps ==
    ASSUME LimitInv, NEW w \in Workers, Q!OnFailure(w) PROVE LimitInv'
<1> DEFINE more == Q!Happens(local[w])
<1>1. Window \in Nat \ {0} /\ Budget \in Nat
  BY PartsAssumption DEF Q!LimitAssumption
<1>2. local[w] \in Events
  BY DEF LimitInv, LocalSound
<1>3. more \in Events
  BY <1>1, <1>2 DEF Events, Q!Happens, Q!Ages
<1>4. Q!Total(more) = Q!Total(local[w]) + 1 /\ Q!Total(local[w]) \in Nat
  BY <1>1, <1>2, YoungerOfOneMore, YoungerCounts DEF Q!Total
<1>5. CASE Q!Total(local[w]) < Budget
  <2>1. local' = [local EXCEPT ![w] = more]
    BY <1>5 DEF Q!OnFailure, Q!Fallback, Q!Happens
  <2>2. UNCHANGED <<key, shared>>
    BY DEF Q!OnFailure, Q!Fallback
  <2> HIDE DEF more
  <2>3. Q!Total(more) <= Budget
    BY <1>1, <1>4, <1>5
  <2> QED BY <1>3, <2>1, <2>2, <2>3, LocalStep
<1>6. CASE ~(Q!Total(local[w]) < Budget)
  BY <1>6 DEF Q!OnFailure, Q!Fallback, LimitInv, SharedSound, LocalSound
<1> QED BY <1>5, <1>6

\* A tick: the window of the counter closes with what it knows of.
LEMMA TickKeeps ==
    ASSUME LimitInv, Q!Tick PROVE LimitInv'
<1>1. Window \in Nat \ {0} /\ Budget \in Nat \ {0} /\ None \notin Q!Counters
  BY PartsAssumption DEF Q!LimitAssumption
<1>2. \A events \in Events :
        /\ Q!Older(events) \in Events
        /\ Q!Total(Q!Older(events)) = Q!Younger(Window - 1, events)
        /\ Q!Total(Q!Older(events)) <= Q!Total(events)
  <2> TAKE events \in Events
  <2>1. Q!Older(events) \in Events
    BY <1>1 DEF Events, Q!Older, Q!Ages
  <2>2. Q!Total(Q!Older(events)) = Q!Younger(Window - 1, events)
    BY <1>1, YoungerOfOlder DEF Q!Total
  <2>3. Q!Total(events) = Q!Younger(Window - 1, events) + events[Window - 1]
    BY <1>1, YoungerAdds DEF Q!Total
  <2>4. events[Window - 1] \in Nat /\ Q!Younger(Window - 1, events) \in Nat
    BY <1>1, YoungerCounts DEF Events, Q!Ages
  <2> QED BY <2>1, <2>2, <2>3, <2>4
<1>3. LocalSound'
  <2>1. ASSUME NEW w \in Workers
        PROVE  local[w] \in Events /\ Q!Total(local[w]) <= Budget /\ Q!Total(local[w]) \in Nat
    BY <1>1, YoungerCounts DEF LimitInv, LocalSound, Q!Total
  <2>2. ASSUME NEW w \in Workers
        PROVE  Q!Older(local[w]) \in Events /\ Q!Total(Q!Older(local[w])) <= Budget
    <3>1. Q!Total(Q!Older(local[w])) \in Nat
      BY <1>1, <1>2, <2>1, YoungerCounts DEF Q!Total
    <3> QED BY <1>1, <1>2, <2>1, <3>1
  <2> QED BY <2>2 DEF Q!Tick, LocalSound
<1>4. SharedSound'
  <2>1. shared \in Events /\ shared' = Q!Older(shared)
    BY DEF LimitInv, SharedSound, Q!Tick
  <2>2. shared' \in Events /\ Q!Total(shared') = Q!Younger(Window - 1, shared)
        /\ Q!Total(shared') <= Q!Total(shared) /\ Q!Total(shared) \in Nat /\ Q!Total(shared') \in Nat
    BY <1>1, <1>2, <2>1, YoungerCounts DEF Q!Total
  <2>3. CASE key = None
    <3>1. key' = None /\ Q!Total(shared) <= Budget
      BY <2>3 DEF Q!Tick, LimitInv, SharedSound
    <3> QED BY <1>1, <2>2, <3>1 DEF SharedSound
  <2>4. CASE key # None
    <3>1. key \in Q!Counters /\ Q!Total(shared) <= Budget + Within(key.count)
      BY <2>4 DEF LimitInv, SharedSound
    <3>2. key.count \in 1..(Budget + 1) /\ key.ttl \in {None} \cup 1..Window
      BY <3>1 DEF Q!Counters
    <3>3. Within(key.count) \in 0..Budget
      BY <1>1, <3>2 DEF Within
    <3>4. Q!Total(shared') <= Budget + Within(key.count)
      BY <1>1, <2>2, <3>1, <3>3
    <3>5. CASE key.ttl = None
      BY <2>2, <2>4, <3>1, <3>4, <3>5 DEF Q!Tick, SharedSound
    <3>6. CASE key.ttl # None
      <4>1. Q!Younger(Window - key.ttl, shared) <= Within(key.count)
        BY <2>4, <3>6 DEF LimitInv, SharedSound
      <4>2. CASE key.ttl = 1
        <5>1. key' = None
          BY <2>4, <3>6, <4>2 DEF Q!Tick
        <5>2. Q!Total(shared') <= Within(key.count)
          BY <2>2, <4>1, <4>2
        <5> QED BY <1>1, <2>2, <3>3, <5>1, <5>2 DEF SharedSound
      <4>3. CASE key.ttl # 1
        <5>1. key' = [key EXCEPT !.ttl = key.ttl - 1]
          BY <2>4, <3>6, <4>3 DEF Q!Tick
        <5>2. key' \in Q!Counters /\ key'.count = key.count /\ key'.ttl = key.ttl - 1
          BY <3>1, <3>2, <3>6, <4>3, <5>1, <1>1 DEF Q!Counters
        <5>3. Q!Younger(Window - (key.ttl - 1), shared') = Q!Younger(Window - key.ttl, shared)
          <6>1. Window - (key.ttl - 1) \in 1..Window /\ Window - (key.ttl - 1) - 1 = Window - key.ttl
            BY <1>1, <3>2, <3>6, <4>3
          <6> QED BY <1>1, <2>1, <6>1, YoungerOfOlder
        <5> QED BY <1>1, <2>2, <3>4, <4>1, <5>2, <5>3 DEF SharedSound
      <4> QED BY <4>2, <4>3
    <3> QED BY <3>5, <3>6
  <2> QED BY <2>3, <2>4
<1> QED BY <1>3, <1>4 DEF LimitInv

LEMMA CrashKeeps ==
    ASSUME LimitInv, NEW w \in Workers, Q!Crash(w) PROVE LimitInv'
<1>1. Q!NoEvents \in Events /\ Q!Total(Q!NoEvents) <= Budget
  BY YoungerOfNone, PartsAssumption DEF Q!NoEvents, Events, Q!Total, Q!LimitAssumption
<1>2. local' = [local EXCEPT ![w] = Q!NoEvents] /\ UNCHANGED <<key, shared>>
  BY DEF Q!Crash
<1> QED BY <1>1, <1>2, LocalStep

LEMMA LimitNext ==
    ASSUME LimitInv, [Q!Next]_(Q!vars) PROVE LimitInv'
<1> USE DEF LimitInv, SharedSound, LocalSound
<1>1. CASE UNCHANGED <<key, shared, local>>
  BY <1>1
<1>2. ASSUME NEW w \in Workers, Q!Serve(w) PROVE LimitInv'
  <2>1. CASE Q!Ttl(w)
    BY <2>1, <1>1 DEF Q!Ttl
  <2>2. CASE Q!Expire(w) \/ Q!Repair(w)
    <3>1. key' = Q!Expired /\ UNCHANGED <<shared, local>>
      BY <2>2 DEF Q!Expire, Q!Repair
    <3> QED BY <3>1, ExpiredKeeps
  <2> QED BY <1>2, <2>1, <2>2, IncrKeeps, FallbackKeeps DEF Q!Serve
<1>3. ASSUME Q!Outage \/ Q!Restored \/ UNCHANGED Q!vars PROVE UNCHANGED <<key, shared, local>>
  BY <1>3 DEF Q!Outage, Q!Restored, Q!vars
<1> QED BY <1>1, <1>2, <1>3, TickKeeps, CrashKeeps DEF Q!Next

LEMMA LimitInvHolds ==
    ASSUME LimitInv PROVE Q!TwiceTheBudget
<1>1. Window \in Nat \ {0} /\ Budget \in Nat \ {0}
  BY PartsAssumption DEF Q!LimitAssumption
<1>2. Q!Total(shared) \in Nat
  BY <1>1, YoungerCounts DEF LimitInv, SharedSound, Q!Total
<1>3. key # None => Within(key.count) <= Budget /\ Within(key.count) \in Nat
  BY <1>1 DEF LimitInv, SharedSound, Q!Counters, Within
<1>4. Q!Total(shared) <= 2 * Budget
  BY <1>1, <1>2, <1>3 DEF LimitInv, SharedSound
<1> QED BY <1>4 DEF LimitInv, LocalSound, Q!TwiceTheBudget

-----------------------------------------------------------------------------
(* The behaviours that the runs are about: of one part, the others still. *)

LEMMA SceneSteps ==
    [MCNext]_allVars => [Next]_vars /\ [T!Next]_(T!vars) /\ [Q!Next]_(Q!vars)
BY DEF MCNext, allVars, tapVars, limitVars, T!vars, Q!vars

\* sync_position, translate and warm_book: a learner is sent back to a block of
\* the text that is in the book, nothing pasted from elsewhere is kept, and no
\* slice leaves a lemma out.
THEOREM TextStaysCoherent == MCSpec => []TextCoheres
<1>1. MCInit => IInv
  BY InitIInv, PartsAssumption DEF MCInit
<1>2. IInv /\ [MCNext]_allVars => IInv'
  BY NextKeeps, SceneSteps, PartsAssumption
<1>3. IInv => TextCoheres
  BY DEF IInv, SlicesSound, SliceSound, SlicesCover, TextCoheres
<1> QED BY <1>1, <1>2, <1>3, PTL DEF MCSpec

\* ReaderService.look_up: a sentence that tells the senses apart decides the one
\* that is shown, whichever answer comes first; a sense is a guess only when the
\* model did not answer; and only the lookup's own failure fails a tap.
THEOREM TapsStayInAgreement == MCSpec => []TapsAgree
<1>1. MCInit => TapInv
  BY TapInit DEF MCInit
<1>2. TapInv /\ [MCNext]_allVars => TapInv'
  BY TapNext, SceneSteps
<1>3. TapInv => TapsAgree
  BY TapInvHolds DEF TapsAgree
<1> QED BY <1>1, <1>2, <1>3, PTL DEF MCSpec

\* allow: within any window's time Redis counts at most twice the budget as within
\* it, and a worker on its own lets at most the budget pass.
THEOREM BudgetStaysKept == MCSpec => []BudgetHolds
<1>1. MCInit => LimitInv
  BY LimitInit DEF MCInit
<1>2. LimitInv /\ [MCNext]_allVars => LimitInv'
  BY LimitNext, SceneSteps
<1>3. LimitInv => BudgetHolds
  BY LimitInvHolds DEF BudgetHolds
<1> QED BY <1>1, <1>2, <1>3, PTL DEF MCSpec
=============================================================================
