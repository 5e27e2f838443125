----------------------------- MODULE BuildPlan -----------------------------
(***************************************************************************)
(* Planning the build of one template, and keeping the deck it became in   *)
(* step with it, by administrators at their terminals: each command is one *)
(* transaction of several statements, and reads before it writes.          *)
(* Versions of the template stand for its texts; what becomes of the items *)
(* of a job is the subject of DeckBuild.                                   *)
(***************************************************************************)
EXTENDS Naturals, Sequences

CONSTANTS
    Commands,     \* commands running at a time
    Versions,     \* of the template: a number, whose parts are compared
    MaxJobs,      \* jobs, which are also their decks
    MaxCommands   \* commands ever begun

PlanAssumption ==
    /\ Versions \subseteq Nat /\ Versions # {}
    /\ MaxJobs \in Nat /\ MaxCommands \in Nat

States == {"planned", "generating", "completed", "partial", "cancelled"}
Active == {"planned", "generating"}
Terminal == States \ Active

VARIABLES
    owner,    \* whether the account official decks belong to exists
    jobs,     \* [state, finished, failed, born], in the order they were committed
    decks,    \* the deck of each job: [public, name, listing]
    command,  \* what each command has read so far
    begun     \* commands begun so far

vars == <<owner, jobs, decks, command, begun>>

Idle == [at |-> "idle"]

Init ==
    /\ owner \in BOOLEAN
    /\ jobs = <<>>
    /\ decks = <<>>
    /\ command = [c \in Commands |-> Idle]
    /\ begun = 0

At(c, stage) == command[c].at = stage
Ended(c) == command' = [command EXCEPT ![c] = Idle]
Begin(c, row) ==
    /\ At(c, "idle") /\ begun < MaxCommands
    /\ begun' = begun + 1
    /\ command' = [command EXCEPT ![c] = row]
    /\ UNCHANGED <<owner, jobs, decks>>

-----------------------------------------------------------------------------
(* plan: the owner, the check, the deck with its units and items. *)

\* A transaction's now() is when it began, and a job's created_at is that.
BeginPlan(c, version) ==
    Begin(c, [at |-> "plan", version |-> version, found |-> owner, born |-> begun])

ActiveJobs == {j \in DOMAIN jobs : jobs[j].state \in Active}

\* active_job_for, which refuses a second build of a template.
ActiveJobFor(c) ==
    /\ At(c, "plan")
    /\ IF ActiveJobs # {} THEN Ended(c) ELSE command' = [command EXCEPT ![c].at = "insert"]
    /\ UNCHANGED <<owner, jobs, decks, begun>>

\* The phone of the owner is unique: who finds another's row in its place
\* gives up, and all it did is undone.
CommitPlan(c) ==
    /\ At(c, "insert") /\ Len(jobs) < MaxJobs
    /\ Ended(c)
    /\ IF ~command[c].found /\ owner
       THEN UNCHANGED <<owner, jobs, decks>>
       ELSE /\ owner' = TRUE
            /\ jobs' = Append(jobs, [state |-> "planned", finished |-> FALSE, failed |-> FALSE,
                                     born |-> command[c].born])
            /\ decks' = Append(decks, [public |-> FALSE, name |-> command[c].version,
                                       listing |-> command[c].version])
    /\ UNCHANGED begun

-----------------------------------------------------------------------------
(* sync_metadata: the latest job, its deck, its listing, then two writes. *)

LatestJob == CHOOSE j \in DOMAIN jobs : \A k \in DOMAIN jobs : jobs[j].born >= jobs[k].born

BeginSync(c, version) ==
    /\ jobs # <<>>
    /\ Begin(c, [at |-> "listing", version |-> version, deck |-> LatestJob,
                 name |-> decks[LatestJob].name])

\* get_public: a deck that is not published has no listing to read.
ReadListing(c) ==
    /\ At(c, "listing")
    /\ command' = [command EXCEPT ![c] =
           [at |-> "write", version |-> @.version, deck |-> @.deck, name |-> @.name,
            public |-> decks[@.deck].public]]
    /\ UNCHANGED <<owner, jobs, decks, begun>>

\* The row object writes the columns that differ from what it read.
SyncedName(row, c) == IF command[c].version = command[c].name THEN row.name ELSE command[c].version

\* MUTANT: the listing is written with set_published, as it was read.
SyncedAsRead(row, c) ==
    [row EXCEPT !.name = SyncedName(row, c), !.listing = command[c].version,
                !.public = command[c].public]

Synced(row, c) == [row EXCEPT !.name = SyncedName(row, c), !.listing = command[c].version]

CommitSync(c) ==
    /\ At(c, "write")
    /\ decks' = [decks EXCEPT ![command[c].deck] = Synced(@, c)]
    /\ Ended(c)
    /\ UNCHANGED <<owner, jobs, begun>>

-----------------------------------------------------------------------------
(* The life of a job, and of its deck in Explore. *)

\* set_job_state: a time that is None is left as it is.
SetJobState(row, state, finished) == [row EXCEPT !.state = state, !.finished = @ \/ finished]

Job(j, row) == jobs' = [jobs EXCEPT ![j] = row] /\ UNCHANGED <<owner, decks, command, begun>>

\* run_batch takes a planned job up.
Start(j) == jobs[j].state = "planned" /\ Job(j, SetJobState(jobs[j], "generating", FALSE))

\* An item gives up.
Fail(j) == jobs[j].state = "generating" /\ ~jobs[j].failed /\ Job(j, [jobs[j] EXCEPT !.failed = TRUE])

\* _finalise, and _halt, which stops before the last item.
Settle(j, halted) ==
    /\ jobs[j].state = "generating"
    /\ Job(j, SetJobState(jobs[j], IF halted \/ jobs[j].failed THEN "partial" ELSE "completed", TRUE))

Cancel(j) == jobs[j].state \in Active /\ Job(j, SetJobState(jobs[j], "cancelled", TRUE))

\* retry_failed reopens a job whose items failed, in whatever state it is and
\* whether or not the template has another build.
Retry(j) ==
    /\ jobs[j].failed
    /\ Job(j, [SetJobState(jobs[j], "generating", FALSE) EXCEPT !.failed = FALSE])

Publish(d, public) ==
    /\ decks[d].public # public
    /\ decks' = [decks EXCEPT ![d].public = public]
    /\ UNCHANGED <<owner, jobs, command, begun>>

Next ==
    \/ \E c \in Commands, version \in Versions : BeginPlan(c, version) \/ BeginSync(c, version)
    \/ \E c \in Commands : ActiveJobFor(c) \/ CommitPlan(c) \/ ReadListing(c) \/ CommitSync(c)
    \/ \E j \in DOMAIN jobs :
         \/ Start(j) \/ Fail(j) \/ Cancel(j) \/ Retry(j)
         \/ \E halted \in BOOLEAN : Settle(j, halted)
         \/ \E public \in BOOLEAN : Publish(j, public)

Spec == Init /\ [][Next]_vars

-----------------------------------------------------------------------------
(* Properties. *)

TypeOK ==
    /\ owner \in BOOLEAN
    /\ jobs \in Seq([state : States, finished : BOOLEAN, failed : BOOLEAN, born : 0..MaxCommands])
    /\ decks \in Seq([public : BOOLEAN, name : Versions, listing : Versions])
    /\ Len(jobs) = Len(decks) /\ Len(jobs) <= MaxJobs
    /\ begun \in 0..MaxCommands

\* "Publishing stays the one deliberate act, so this is safe to run against a
\* live deck" (sync_metadata): whatever was read of a deck before it was
\* published or withdrawn, no planning and no sync shows or hides it.
OnlyAdminsPublish ==
    [][\A d \in DOMAIN decks' :
         LET before == d \in DOMAIN decks /\ decks[d].public
         IN decks'[d].public # before => \E public \in BOOLEAN : Publish(d, public)]_vars

\* active_job_for "guards against two concurrent builds of one template, which
\* would race for the same items and double the deck".  Not what the code does:
\* two planners may both find none, and a retry reopens a job without asking.
OneBuildAtATime == \A i, j \in ActiveJobs : i = j

\* A job that is being built has not finished.  Not what the code does: a retry
\* means to clear the time and leaves it.
FinishedIsOver == \A j \in DOMAIN jobs : jobs[j].finished <=> jobs[j].state \in Terminal

\* The parts of a deck's presentation come from one version.  Not what the code
\* does for two checkouts that are synced at a time: a sync writes only the name
\* if that differs from what it read, and the listing always.
PresentedWhole == \A d \in DOMAIN decks : decks[d].name = decks[d].listing
=============================================================================
