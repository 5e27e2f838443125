------------------------------- MODULE Books --------------------------------
(***************************************************************************)
(* One book of the reader: the worker that ingests its text, the admin who *)
(* publishes it, the learners who read it, the translations that are kept, *)
(* and the chain of tasks that looks its vocabulary up beforehand.         *)
(*                                                                         *)
(* A request or a task reads, and commits later what it decided on what it *)
(* read.  The text is one block; a text that is written again has new ids. *)
(***************************************************************************)
EXTENDS Naturals, FiniteSets

CONSTANTS
    Editions,    \* contents the source may serve (content_hash)
    OwnTexts,    \* texts that learners paste from elsewhere
    Lemmas,      \* Lemmas[e]: how many lemmas edition e has
    Batch,       \* reader_warm_batch_size
    Tasks,       \* ingest tasks and requests under way at once
    Learners,
    Slots,       \* warm messages there may be at once
    MaxTries,    \* max_retries of warm_book
    MaxRequests, MaxFaults,   \* bounds
    None

\* A book with its text; rights and public are set or not.
Book == [edition : Editions, text : Nat, rights : BOOLEAN, public : BOOLEAN]

BooksAssumption ==
    /\ Lemmas \in [Editions -> Nat \ {0}] /\ Batch \in Nat \ {0} /\ MaxTries \in Nat
    /\ Editions \cap OwnTexts = {} /\ None \notin Book
    /\ {MaxRequests, MaxFaults} \subseteq Nat

\* The row of this book, which may not be there yet.
BookRow == Book \cup {None}

\* A learner's place in the book: the id of a block, if there is one.
ProgressTable == [Learners -> Nat \cup {None}]

\* The texts with a stored translation, whoever reads them.
PassageTable == SUBSET (Editions \cup OwnTexts)

VARIABLES
    book,        \* the row and its text, or None
    position,    \* position[u]: id of the block where u stopped, or None
    kept,        \* texts with a stored translation
    stored,      \* history: texts that have been in the book
    task,        \* task[t]: what t has read and will commit
    slices,      \* slices[s]: a message of the warm chain, or None
    attempted,   \* lemmas looked up: <<text id, index>>
    drawn,       \* ids given to texts
    requests, faults

vars == <<book, position, kept, stored, task, slices, attempted, drawn,
          requests, faults>>
warm == <<slices, attempted>>
counts == <<requests, faults>>

Idle == [at |-> "idle"]
At(t, stage) == task[t].at = stage
Finish(t) == task' = [task EXCEPT ![t] = Idle]
Holds(t, row) == task' = [task EXCEPT ![t] = row]

\* Nothing yet, or a book that has been ingested, as an upload without rights.
Init ==
    /\ \/ book = None /\ stored = {} /\ drawn = 0
       \/ \E e \in Editions :
            /\ book = [edition |-> e, text |-> 0, rights |-> FALSE, public |-> FALSE]
            /\ stored = {e} /\ drawn = 1
    /\ position = [u \in Learners |-> None]
    /\ kept = {}
    /\ task = [t \in Tasks |-> Idle]
    /\ slices = [s \in Slots |-> None]
    /\ attempted = {}
    /\ requests = 0 /\ faults = 0

(***************************************************************************)
(* Ingest                                                                  *)
(***************************************************************************)

\* The file is fetched, parsed and compared with the row.  The same text and a
\* published book end the task here.
Ingest(t, e, rights) ==
    /\ At(t, "idle") /\ requests < MaxRequests
    /\ requests' = requests + 1
    /\ CASE book = None -> Holds(t, [at |-> "create", edition |-> e, rights |-> rights])
         [] book # None /\ book.edition # e /\ ~book.public ->
              Holds(t, [at |-> "replace", edition |-> e, rights |-> rights])
         [] OTHER -> UNCHANGED task
    /\ UNCHANGED <<book, position, kept, stored, warm, drawn, faults>>

\* _write_text: every chapter and block is a new row, so that no text written
\* before is this one.
WriteText == drawn' = drawn + 1

Written(row, public) ==
    /\ book' = [edition |-> row.edition, text |-> drawn, rights |-> row.rights, public |-> public]
    /\ WriteText
    /\ stored' = stored \cup {row.edition}

\* uq_books_source: the second of two first ingests fails.
CommitCreate(t) ==
    /\ At(t, "create") /\ Finish(t)
    /\ IF book = None THEN Written(task[t], FALSE) ELSE UNCHANGED <<book, drawn, stored>>
    /\ UNCHANGED <<position, kept, warm, counts>>

\* Mutant: blocks go and positions stay.
Orphaned == UNCHANGED position

\* Deleting the chapters deletes their blocks and the positions in them.
Cascaded == position' = [u \in Learners |-> None]

CommitReplace(t) ==
    /\ At(t, "replace") /\ Finish(t)
    /\ Written(task[t], book.public) /\ Cascaded
    /\ UNCHANGED <<kept, warm, counts>>

(***************************************************************************)
(* Publication                                                             *)
(***************************************************************************)

\* Rights that are stated are stored; a book without any is not published.
Publish(t, public, rights) ==
    /\ At(t, "idle") /\ requests < MaxRequests /\ book # None
    /\ rights \/ ~public \/ book.rights
    /\ requests' = requests + 1
    /\ Holds(t, [at |-> "publish", public |-> public,
                 states |-> rights /\ ~book.rights, flips |-> book.public # public])
    /\ UNCHANGED <<book, position, kept, stored, warm, drawn, faults>>

Free == {s \in Slots : slices[s] = None}

\* The message carries the text it was queued for only as a witness.
Enqueued(queue, offset) ==
    /\ Free # {}
    /\ slices' = [queue EXCEPT ![CHOOSE s \in Free : TRUE] =
         [offset |-> offset, text |-> book.text, tries |-> 0, at |-> "queued"]]

\* The warming of the book is queued before the request commits.
QueueWarming(t) ==
    /\ At(t, "publish") /\ task[t].public
    /\ Enqueued(slices, 0)
    /\ Holds(t, [task[t] EXCEPT !.at = "publishing"])
    /\ UNCHANGED <<book, position, kept, stored, attempted, drawn, counts>>

\* Only what differs from the row as read is in the UPDATE.
CommitPublish(t) ==
    /\ At(t, "publishing") \/ (At(t, "publish") /\ ~task[t].public)
    /\ Finish(t)
    /\ book' = [book EXCEPT !.rights = @ \/ task[t].states,
                            !.public = IF task[t].flips THEN task[t].public ELSE @]
    /\ UNCHANGED <<position, kept, stored, warm, drawn, counts>>

(***************************************************************************)
(* Reading                                                                 *)
(***************************************************************************)

\* sync_position: the book is readable and the block is in it.
Sync(t, u) ==
    /\ At(t, "idle") /\ requests < MaxRequests /\ book # None /\ book.public
    /\ requests' = requests + 1
    /\ Holds(t, [at |-> "sync", user |-> u, block |-> book.text])
    /\ UNCHANGED <<book, position, kept, stored, warm, drawn, faults>>

\* The foreign key refuses a block that has gone.
CommitSync(t) ==
    /\ At(t, "sync") /\ Finish(t)
    /\ position' = [position EXCEPT ![task[t].user] = IF task[t].block = book.text THEN task[t].block ELSE @]
    /\ UNCHANGED <<book, kept, stored, warm, drawn, counts>>

RemoveFromShelf(u) ==
    /\ position[u] # None
    /\ position' = [position EXCEPT ![u] = None]
    /\ UNCHANGED <<book, kept, stored, task, warm, drawn, counts>>

\* Mutant: whatever is asked is kept.
Everything(text) == TRUE

\* A passage of the book, or free text that is in a book, published or not.
IsBookText(text) == book # None /\ book.edition = text

\* translate: by block where the book is readable, else by the text.
Translate(t, text) ==
    /\ At(t, "idle") /\ requests < MaxRequests
    /\ requests' = requests + 1
    /\ Holds(t, IF IsBookText(text) /\ text \in kept THEN Idle
                ELSE [at |-> "translate", text |-> text, keep |-> IsBookText(text)])
    /\ UNCHANGED <<book, position, kept, stored, warm, drawn, faults>>

\* The translator answers; a write that fails is served uncached.
CommitTranslate(t) ==
    /\ At(t, "translate") /\ Finish(t)
    /\ kept' \in {kept, IF task[t].keep THEN kept \cup {task[t].text} ELSE kept}
    /\ UNCHANGED <<book, position, stored, warm, drawn, counts>>

\* The commit fails, with the warming queued.  Elsewhere a request or a task that
\* fails, or dies, leaves nothing, as if it had not been.
Abort(t) ==
    /\ At(t, "publishing") /\ Finish(t)
    /\ UNCHANGED <<book, position, kept, stored, warm, drawn, counts>>

(***************************************************************************)
(* Warming                                                                 *)
(***************************************************************************)

\* How far the run of a message has come.
SliceAt(s, stage) == slices[s] # None /\ slices[s].at = stage

\* Indices of lemmas_of that one run takes, and whether more follow.
Planned(offset) == {i \in offset..offset + Batch - 1 : i < Lemmas[book.edition]}
MoreAfter(offset) == offset + Cardinality(Planned(offset)) < Lemmas[book.edition]

\* The plan is a read of the text as it is now.
PlanSlice(s) ==
    /\ SliceAt(s, "queued")
    /\ slices' = [slices EXCEPT ![s] =
         [offset |-> @.offset, text |-> @.text, tries |-> @.tries, at |-> "warming",
          lemmas |-> {<<book.text, i>> : i \in Planned(@.offset)}, more |-> MoreAfter(@.offset)]]
    /\ UNCHANGED <<book, position, kept, stored, task, attempted, drawn, counts>>

\* Each lemma is looked up; one that the gateway will not answer is left.
Warm(s) ==
    /\ SliceAt(s, "warming")
    /\ attempted' = attempted \cup slices[s].lemmas
    /\ slices' = [slices EXCEPT ![s].at = "warmed"]
    /\ UNCHANGED <<book, position, kept, stored, task, drawn, counts>>

Requeued(m, tries) == [offset |-> m.offset, text |-> m.text, tries |-> tries, at |-> "queued"]

\* Mutant: the next slice is queued before this one is worked.
Early(s) == SliceAt(s, "warming") \/ SliceAt(s, "warmed")

\* The lemmas of this slice have been looked up.
Due(s) == SliceAt(s, "warmed")

Successor(m) ==
    [offset |-> m.offset + Cardinality(m.lemmas), text |-> m.text, tries |-> 0, at |-> "queued"]

\* The next slice is queued and the message acknowledged, or the worker dies
\* between the two and the message is delivered again.
EnqueueNext(s) ==
    /\ Due(s) /\ slices[s].more
    /\ \/ slices' = [slices EXCEPT ![s] = Successor(@)] /\ UNCHANGED faults
       \/ /\ Free # {}
          /\ faults < MaxFaults /\ faults' = faults + 1
          /\ slices' = [slices EXCEPT ![CHOOSE free \in Free : TRUE] = Successor(slices[s]),
                                       ![s] = Requeued(@, @.tries)]
    /\ UNCHANGED <<book, position, kept, stored, task, attempted, drawn, requests>>

Acknowledge(s) ==
    /\ SliceAt(s, "warmed") /\ ~slices[s].more
    /\ slices' = [slices EXCEPT ![s] = None]
    /\ UNCHANGED <<book, position, kept, stored, task, attempted, drawn, counts>>

\* The worker dies: late acknowledgement redelivers the message.
DieWarming(s) ==
    /\ slices[s] # None /\ ~SliceAt(s, "queued") /\ faults < MaxFaults
    /\ faults' = faults + 1
    /\ slices' = [slices EXCEPT ![s] = Requeued(@, @.tries)]
    /\ UNCHANGED <<book, position, kept, stored, task, attempted, drawn, requests>>

\* Mutant: retried for ever.
NeverGivesUp(m) == TRUE

MayRetry(m) == m.tries < MaxTries

\* The database fails: up to MaxTries retries, then the chain ends here.
FailWarming(s) ==
    /\ SliceAt(s, "warming")
    /\ slices' = [slices EXCEPT ![s] = 
         IF MayRetry(@) THEN Requeued(@, @.tries + (IF @.tries < MaxTries THEN 1 ELSE 0)) ELSE None]
    /\ UNCHANGED <<book, position, kept, stored, task, attempted, drawn, counts>>

(***************************************************************************)
(* Specification                                                           *)
(***************************************************************************)

Commit(t) ==
    \/ CommitCreate(t) \/ CommitReplace(t) \/ QueueWarming(t) \/ CommitPublish(t)
    \/ CommitSync(t) \/ CommitTranslate(t)

Request(t) ==
    \/ \E e \in Editions, rights \in BOOLEAN : Ingest(t, e, rights)
    \/ \E public, rights \in BOOLEAN : Publish(t, public, rights)
    \/ \E u \in Learners : Sync(t, u)
    \/ \E text \in Editions \cup OwnTexts : Translate(t, text)

Run(s) == PlanSlice(s) \/ Warm(s) \/ EnqueueNext(s) \/ Acknowledge(s) \/ FailWarming(s)

Next ==
    \/ \E t \in Tasks : Request(t) \/ Commit(t) \/ Abort(t)
    \/ \E u \in Learners : RemoveFromShelf(u)
    \/ \E s \in Slots : Run(s) \/ DieWarming(s)

\* As long as there is work, some request or worker goes on: requests are few
\* and steps of one are finitely many, so none needs more.
Fairness == WF_vars(\E t \in Tasks : Commit(t)) /\ WF_vars(\E s \in Slots : Run(s))

Spec == Init /\ [][Next]_vars /\ Fairness

(***************************************************************************)
(* Properties                                                              *)
(***************************************************************************)

\* Rows have their columns.
TypeOK ==
    /\ book \in BookRow
    /\ position \in ProgressTable
    /\ kept \in PassageTable /\ stored \subseteq Editions
    /\ attempted \subseteq Nat \X Nat

\* BookRepository.replace_content against sync_position: a learner is sent back
\* to a block that is in the book as it is now.
PositionsResolve == \A u \in Learners : position[u] # None => book # None /\ position[u] = book.text

\* translate: "only text that is a block of a stored book is cached": what a
\* learner pastes from elsewhere leaves no trace.
OnlyBookTextKept == kept \subseteq stored

\* warm_book: a slice is queued when all before it has been worked, whatever
\* dies, is redelivered or retried, as long as the text stays.
SlicesCover ==
    \A s \in Slots : slices[s] # None /\ slices[s].text = book.text =>
        \A i \in 0..slices[s].offset - 1 : <<book.text, i>> \in attempted

\* Positions, kept translations and queued slices are of the text there is or
\* was, whatever is ingested, erased, written or delivered again between the
\* check of a request or task and its write.
TextCoheres == PositionsResolve /\ OnlyBookTextKept /\ SlicesCover

\* However often a slice fails or is delivered again, warming comes to rest: there
\* are finitely many requests to start it.
WarmingEnds == (\E s \in Slots : slices[s] # None) ~> (\A s \in Slots : slices[s] = None)

\* BookIngestService: the text of a published book is not replaced under its
\* readers.
PublishedTextStands ==
    [][book # None /\ book.public /\ book'.public => book'.text = book.text]_book

\* BookIngestService: "publishing it is refused until an operator supplies"
\* the rights.
PublishedUnderRights == book # None /\ book.public => book.rights
=============================================================================
