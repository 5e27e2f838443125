------------------------------- MODULE Study -------------------------------
(***************************************************************************)
(* One learner's study: the requests of her devices (grade a card, move a  *)
(* card by hand, open the home screen or the profile, finish a session,    *)
(* claim the day's celebration), each one database transaction, over her   *)
(* word_progress, word_reviews, daily_deck_activity, xp_events and users   *)
(* rows.                                                                   *)
(*                                                                         *)
(* The database is PostgreSQL at READ COMMITTED: a request reads what is   *)
(* committed, an UPDATE or an upsert waits for the transaction that holds  *)
(* the row and then works on the row as committed.  What a request has     *)
(* written is held back until its Commit, where its writes are applied to  *)
(* the rows it has locked meanwhile; `held` says which.                    *)
(*                                                                         *)
(* Time is in ticks, TicksPerDay of them a day.  UTC's midnights are the   *)
(* multiples of TicksPerDay and the learner's come Offset ticks later.     *)
(***************************************************************************)
EXTENDS Integers, FiniteSets

CONSTANTS
    Devices,       \* requests that can be in flight at once
    Words,         \* her cards
    Decks,         \* the decks they are in
    Home,          \* Home[w]: the deck w is in at first
    SelfPaced,     \* decks whose cards wait to be started
    Added,         \* Added[w]: the tick w was added at
    Goal,          \* User.daily_goal
    TicksPerDay,   \* resolution of the clock
    Offset,        \* how long after UTC's her day begins
    FirstTick,     \* bound: where the clock starts
    LastTick,      \* bound: where it stops
    Histories,     \* the streaks she may come with, and the last day of each
    Ops,           \* the requests her clients make
    Grades,        \* the answers she gives
    Boxes,         \* where she moves cards by hand
    MaxRequests,   \* bound: requests
    MaxEdits,      \* bound: start, unstart and move
    MaxAborts      \* bound: requests that fail

OpNames == {"grade", "drill", "box", "finish", "overview", "profile", "celebrate"}

ASSUME DevicesAssumption == "free" \notin Devices
ASSUME WordsAssumption ==
    /\ IsFiniteSet(Words) /\ IsFiniteSet(Decks)
    /\ Words # {}
    /\ Home \in [Words -> Decks]
    /\ SelfPaced \subseteq Decks
    /\ Added \in [Words -> Nat]
ASSUME ClockAssumption ==
    /\ TicksPerDay \in Nat \ {0}
    /\ Offset \in 0..(TicksPerDay - 1)
    /\ FirstTick \in Nat /\ LastTick \in Nat
    /\ FirstTick >= 2 * TicksPerDay
    /\ LastTick >= FirstTick
    /\ \A w \in Words : Added[w] <= FirstTick
ASSUME ChoicesAssumption ==
    /\ Goal \in Nat
    /\ Ops \subseteq OpNames
    /\ Grades \subseteq {"again", "hard", "good", "easy"}
    /\ Boxes \subseteq 1..5
ASSUME BoundsAssumption == MaxRequests \in Nat /\ MaxEdits \in Nat /\ MaxAborts \in Nat

(***************************************************************************)
(* The learner's calendar (domain/services/calendar.py)                    *)
(***************************************************************************)

DayOf(t) == (t - Offset) \div TicksPerDay
DayStart(t) == DayOf(t) * TicksPerDay + Offset
DayEnd(t) == DayStart(t) + TicksPerDay

\* Where a caller that names no timezone puts the start of the day.
UtcDayStart(t) == (t \div TicksPerDay) * TicksPerDay

Days == 1..DayOf(LastTick)
Never == 0   \* NULL in a date column, or in a timestamp

ASSUME HistoriesAssumption ==
    \A h \in Histories :
        /\ h \in [streak : Nat \ {0}, last : Nat]
        /\ h.streak <= h.last /\ h.last < DayOf(FirstTick)

(***************************************************************************)
(* Leitner boxes (domain/services/leitner.py)                              *)
(***************************************************************************)

ClampBox(b) == IF b < 1 THEN 1 ELSE IF b > 5 THEN 5 ELSE b

NextBox(box, grade) ==
    CASE grade = "again" -> 1
      [] grade = "hard" -> ClampBox(box - 1)
      [] grade = "good" -> ClampBox(box + 1)
      [] grade = "easy" -> ClampBox(box + 2)

Interval(box) == (<<1, 2, 4, 9, 21>>)[box] * TicksPerDay

IsLapse(grade) == grade = "again"

(***************************************************************************)
(* Rows                                                                    *)
(***************************************************************************)

\* word_progress; `in` is FALSE for a card without a row.
ProgressRow ==
    [in : BOOLEAN, deck : Decks, box : 1..5, due : Int, reviews : Nat, lapses : Nat,
     run : Nat, first : Nat, mastered : Nat]

\* WordProgress.unstudied: what a missing row reads as.
Unstudied(w, deck, dayStart) ==
    [in |-> FALSE, deck |-> deck, box |-> 1,
     due |-> IF Added[w] >= dayStart THEN dayStart + TicksPerDay ELSE dayStart,
     reviews |-> 0, lapses |-> 0, run |-> 0, first |-> Never, mastered |-> Never]

NoRow(w) == Unstudied(w, Home[w], 0)

\* The columns of users that studying reads and writes.
UserRow ==
    [streak : Nat, last : Nat, banked : Nat, celebrated : Nat, studied : Nat, xp : Nat]

Points ==
    [grade |-> 6, drill_correct |-> 8, drill_wrong |-> 3, finish |-> 15, goal |-> 25]

(***************************************************************************)
(* The streak (domain/services/streak.py)                                  *)
(***************************************************************************)

Unknown == -1   \* settle's due_today = None

\* Mutant: a lapse costs the days missed.
SettleByGap(u, today, due) ==
    CASE u.streak = 0 \/ u.last = Never -> u
      [] today - u.last <= 0 -> u
      [] today - u.last = 1 -> IF due = 0 THEN [u EXCEPT !.last = today] ELSE u
      [] OTHER -> [u EXCEPT !.streak = @ - (today - u.last)]

Settle(u, today, due) ==
    CASE u.streak = 0 \/ u.last = Never -> u
      [] today - u.last <= 0 -> u
      [] today - u.last = 1 -> IF due = 0 THEN [u EXCEPT !.last = today] ELSE u
      [] OTHER -> [u EXCEPT !.streak = 0]

\* Mutant: a day that is already banked is banked again.
BankAgain(u, today) ==
    [u EXCEPT !.streak = IF u.last # Never /\ u.last >= today - 1 THEN @ + 1 ELSE 1,
              !.last = today, !.banked = today]

\* bank_day's UPDATE, guard included.
BankDay(u, today) ==
    IF u.banked # Never /\ u.banked >= today THEN u
    ELSE [u EXCEPT !.streak = IF u.last # Never /\ u.last >= today - 1 THEN @ + 1 ELSE 1,
                   !.last = today, !.banked = today]

(***************************************************************************)
(* State                                                                   *)
(***************************************************************************)

VARIABLES
    now,        \* the clock
    user,       \* her users row
    progress,   \* her word_progress rows
    home,       \* words.deck_id
    log,        \* word_reviews: answers and lapses of each card
    activity,   \* daily_deck_activity rows, by deck and day
    ledger,     \* sum of the points of her xp_events, and DAILY_GOAL events by day
    told,       \* told[d]: clients that were told to celebrate day d
    pc,         \* where each request is
    work,       \* what each request has read, decided and not committed
    userLock,   \* the request whose transaction has updated the users row
    used        \* how much of each bound has been used

vars == <<now, user, progress, home, log, activity, ledger, told, pc, work, userLock, used>>
rows == <<user, progress, home, log, activity, ledger, told>>

Free == "free"
PCs == {"idle", "read", "row", "log", "note", "award", "settle", "look", "streak",
        "claim", "commit"}
Budgets == {"requests", "edits", "aborts"}

\* `user` and `row` are the entities the request loaded; `at` is its
\* datetime.now(UTC); `due` was_due; `noted` whether note_study_day wrote;
\* `pays` whether it found the goal met; `wins` whether it may celebrate.
Request ==
    [op : OpNames, word : Words, grade : {"again", "hard", "good", "easy"}, box : 1..5,
     at : Nat, user : UserRow, row : ProgressRow, deck : Decks, due : BOOLEAN,
     noted : BOOLEAN, pays : BOOLEAN, wins : BOOLEAN]

DayRow == [reviews : Nat, due : Nat, mastered : Nat]

NewLearner ==
    [streak |-> 0, last |-> Never, banked |-> Never, celebrated |-> Never,
     studied |-> Never, xp |-> 0]

\* A learner who comes with a streak, and the days that made it.
Veteran(h) ==
    [streak |-> h.streak, last |-> h.last, banked |-> h.last, celebrated |-> h.last,
     studied |-> h.last, xp |-> 0]
WonBefore(h) == (h.last - h.streak + 1)..h.last
Opening(won) == [points |-> 0, goals |-> [d \in Days |-> IF d \in won THEN 1 ELSE 0]]

NoRequest ==
    [op |-> "grade", word |-> CHOOSE w \in Words : TRUE, grade |-> "again", box |-> 1,
     at |-> 0, user |-> NewLearner, row |-> NoRow(CHOOSE w \in Words : TRUE),
     deck |-> CHOOSE k \in Decks : TRUE, due |-> FALSE, noted |-> FALSE, pays |-> FALSE,
     wins |-> FALSE]

Init ==
    /\ now = FirstTick
    /\ \/ user = NewLearner /\ ledger = Opening({})
       \/ \E h \in Histories : user = Veteran(h) /\ ledger = Opening(WonBefore(h))
    /\ progress = [w \in Words |-> NoRow(w)]
    /\ home = Home
    /\ log = [w \in Words |-> [reviews |-> 0, lapses |-> 0]]
    /\ activity = [k \in Decks |-> [d \in Days |-> [reviews |-> 0, due |-> 0, mastered |-> 0]]]
    /\ told = [d \in Days |-> 0]
    /\ pc = [p \in Devices |-> "idle"]
    /\ work = [p \in Devices |-> NoRequest]
    /\ userLock = Free
    /\ used = [b \in Budgets |-> 0]

(***************************************************************************)
(* Helpers                                                                 *)
(***************************************************************************)

Goto(p, label) == pc' = [pc EXCEPT ![p] = label]
Leave(p) == Goto(p, "idle") /\ work' = [work EXCEPT ![p] = NoRequest]
Count(bound, max) == used[bound] < max /\ used' = [used EXCEPT ![bound] = @ + 1]

Grading(p) == work[p].op \in {"grade", "drill"}
Today(p) == DayOf(work[p].at)

\* Row locks, from where a request is.
HoldsRow(p, w) ==
    work[p].word = w /\ \/ Grading(p) /\ pc[p] \in {"log", "note", "award", "settle", "commit"}
                        \/ work[p].op = "box" /\ pc[p] = "commit"
HoldsDay(p, k, d) ==
    /\ Grading(p) /\ pc[p] \in {"note", "award", "settle", "commit"}
    /\ work[p].deck = k /\ Today(p) = d

RowFree(p, w) == \A q \in Devices \ {p} : ~HoldsRow(q, w)
DayFree(p, k, d) == \A q \in Devices \ {p} : ~HoldsDay(q, k, d)
UserFree(p) == userLock \in {Free, p}

Started(w, row) == row.in \/ home[w] \notin SelfPaced

\* _is_due, the predicate of every query of the queue.
IsDue(w, row, t) ==
    IF row.in THEN row.due < DayEnd(t) ELSE Added[w] < DayStart(t)

\* tally_by_deck_and_box's due cards.
DueCards(table, t) == {w \in Words : Started(w, table[w]) /\ IsDue(w, table[w], t)}

\* Answers of day d over all decks: the sum totals_on reads.
Answers(d) == Cardinality(UNION {{k} \X (1..activity[k][d].reviews) : k \in Decks})
DueAnswers(d) == Cardinality(UNION {{k} \X (1..activity[k][d].due) : k \in Decks})
MasteredIn(d) == Cardinality(UNION {{k} \X (1..activity[k][d].mastered) : k \in Decks})

BecameMastered(p) ==
    NextBox(work[p].row.box, work[p].grade) = 5 /\ work[p].row.mastered = Never

\* Mutant: record_grade writes back the counters it computed from its read.
GradedFromRead(p, row) ==
    LET r == work[p].row
        w == work[p]
        box == NextBox(r.box, w.grade)
    IN [in |-> TRUE, deck |-> w.deck, box |-> box, due |-> DayStart(w.at) + Interval(box),
        reviews |-> r.reviews + 1,
        lapses |-> r.lapses + (IF IsLapse(w.grade) THEN 1 ELSE 0),
        run |-> IF IsLapse(w.grade) THEN 0 ELSE r.run + 1,
        first |-> IF r.first = Never THEN w.at ELSE r.first,
        mastered |-> IF BecameMastered(p) THEN w.at ELSE r.mastered]

\* apply_review on the entity, then record_grade's upsert: inserted as
\* computed, or the counters added to the row that is there.
Graded(p, row) ==
    LET r == work[p].row
        w == work[p]
        box == NextBox(r.box, w.grade)
        base == IF row.in THEN row ELSE r
        first == IF r.first = Never THEN w.at ELSE r.first
        mastered == IF BecameMastered(p) THEN w.at ELSE r.mastered
    IN [in |-> TRUE, deck |-> w.deck, box |-> box, due |-> DayStart(w.at) + Interval(box),
        reviews |-> base.reviews + 1,
        lapses |-> base.lapses + (IF IsLapse(w.grade) THEN 1 ELSE 0),
        run |-> IF IsLapse(w.grade) THEN 0 ELSE base.run + 1,
        first |-> IF row.in /\ row.first # Never THEN row.first ELSE first,
        mastered |-> IF row.in /\ row.mastered # Never THEN row.mastered ELSE mastered]

\* move_to_box, then set_box's upsert, which leaves the history alone.
Moved(p, row) ==
    LET w == work[p]
        base == IF row.in THEN row ELSE w.row
    IN [base EXCEPT !.in = TRUE, !.deck = w.row.deck, !.box = w.box,
                    !.due = DayStart(w.at) + Interval(w.box)]

\* The learner's rows as request p's own transaction sees them.
View(p) ==
    [w \in Words |-> IF Grading(p) /\ HoldsRow(p, w) THEN Graded(p, progress[w])
                     ELSE progress[w]]

Prize(p) ==
    CASE work[p].op = "finish" -> Points.finish
      [] work[p].op = "grade" -> Points.grade
      [] OTHER -> IF IsLapse(work[p].grade) THEN Points.drill_wrong
                  ELSE Points.drill_correct

\* Mutant: the goal is settled before the answer is recorded.
GoalMetBehind(p) ==
    /\ Answers(Today(p)) # 0
    /\ \/ Goal > 0 /\ Answers(Today(p)) >= Goal
       \/ /\ DueAnswers(Today(p)) # 0
          /\ DueCards(View(p), work[p].at) = {}

\* _goal_met.  A grade's own answer is part of what it reads.
GoalMet(p) ==
    LET mine == IF Grading(p) THEN 1 ELSE 0
        mineDue == IF Grading(p) /\ work[p].due THEN 1 ELSE 0
        answers == Answers(Today(p)) + mine
    IN /\ answers # 0
       /\ \/ Goal > 0 /\ answers >= Goal
          \/ /\ DueAnswers(Today(p)) + mineDue # 0
             /\ DueCards(View(p), work[p].at) = {}

(***************************************************************************)
(* A request                                                               *)
(***************************************************************************)

\* What her clients may ask for.
Requests ==
    [op : Ops \cap {"grade", "drill"}, word : Words, grade : Grades, box : {1}]
    \cup [op : Ops \cap {"box"}, word : Words, grade : {"again"}, box : Boxes]
    \cup [op : Ops \ {"grade", "drill", "box"}, word : {NoRequest.word}, grade : {"again"},
          box : {1}]

\* The request's session opens and get_current_user loads the user.  The
\* session keeps that object: later reads of the user return it.
Begin(p) ==
    /\ pc[p] = "idle"
    /\ Count("requests", MaxRequests)
    /\ \E r \in Requests :
          /\ work' = [work EXCEPT ![p] =
                        [NoRequest EXCEPT !.op = r.op, !.word = r.word, !.grade = r.grade,
                                          !.box = r.box, !.at = now, !.user = user]]
          /\ Goto(p, CASE r.op \in {"grade", "drill", "box"} -> "read"
                       [] r.op = "finish" -> "award"
                       [] r.op = "celebrate" -> "claim"
                       [] OTHER -> "look")
    /\ UNCHANGED <<now, rows, userLock>>

\* grade and set_box: get_for_user, the refusal to move a card that is not
\* started, datetime.now, and was_due.
Read(p) ==
    /\ pc[p] = "read"
    /\ LET w == work[p].word
           row == IF progress[w].in THEN progress[w]
                  ELSE Unstudied(w, home[w], UtcDayStart(now))
       IN IF work[p].op = "box" /\ ~Started(w, row)
          THEN Leave(p)
          ELSE /\ Goto(p, "row")
               /\ work' = [work EXCEPT ![p].at = now, ![p].row = row, ![p].deck = home[w],
                                       ![p].due = Started(w, row) /\ row.due < DayEnd(now)]
    /\ UNCHANGED <<now, rows, userLock, used>>

\* The upsert of the progress row.
WriteRow(p) ==
    /\ pc[p] = "row"
    /\ RowFree(p, work[p].word)
    /\ Goto(p, IF Grading(p) THEN "log" ELSE "commit")
    /\ UNCHANGED <<now, rows, work, userLock, used>>

\* The review event, and the upsert of the day's activity.
RecordReview(p) ==
    /\ pc[p] = "log"
    /\ DayFree(p, work[p].deck, Today(p))
    /\ Goto(p, "note")
    /\ UNCHANGED <<now, rows, work, userLock, used>>

\* note_study_day and, if it changed, users.update, which writes that one
\* column and loads the row again.
NoteStudyDay(p) ==
    /\ pc[p] = "note"
    /\ IF work[p].user.studied = Today(p)
       THEN UNCHANGED <<work, userLock>>
       ELSE /\ UserFree(p)
            /\ userLock' = p
            /\ work' = [work EXCEPT ![p].user = [user EXCEPT !.studied = Today(p)],
                                    ![p].noted = TRUE]
    /\ Goto(p, "award")
    /\ UNCHANGED <<now, rows, used>>

\* Mutant: the totals are read before the user row is locked.
AwardUnlocked(p) ==
    /\ pc[p] = "award"
    /\ Goto(p, "settle")
    /\ UNCHANGED <<now, rows, work, userLock, used>>

\* xp.award of the answer or of the finished session.
Award(p) ==
    /\ pc[p] = "award"
    /\ UserFree(p)
    /\ userLock' = p
    /\ Goto(p, "settle")
    /\ UNCHANGED <<now, rows, work, used>>

\* _settle_day: whether to pay the goal and bank the day.
SettleDay(p) ==
    /\ pc[p] = "settle"
    /\ work' = [work EXCEPT ![p].pays = work[p].user.banked # Today(p) /\ GoalMet(p)]
    /\ Goto(p, "commit")
    /\ UNCHANGED <<now, rows, userLock, used>>

\* get_overview and UserService.settled: what the streak is, from the user
\* loaded when the request began and the queue as it is now.
Look(p) ==
    /\ pc[p] = "look"
    /\ LET due == IF work[p].op = "overview" THEN Cardinality(DueCards(progress, now))
                  ELSE Unknown
           settled == Settle(work[p].user, DayOf(now), due)
       IN IF settled = work[p].user
          THEN Leave(p)
          ELSE /\ Goto(p, "streak")
               /\ work' = [work EXCEPT ![p].user = settled]
    /\ UNCHANGED <<now, rows, userLock, used>>

\* settle_streak's UPDATE.
SettleStreak(p) ==
    /\ pc[p] = "streak"
    /\ UserFree(p)
    /\ userLock' = p
    /\ Goto(p, "commit")
    /\ UNCHANGED <<now, rows, work, used>>

\* Mutant: the client is answered from the user loaded with the request.
ClaimFromRead(p) ==
    /\ pc[p] = "claim"
    /\ IF work[p].user.banked # Today(p)
       THEN Leave(p) /\ UNCHANGED userLock
       ELSE /\ UserFree(p)
            /\ userLock' = p
            /\ work' = [work EXCEPT ![p].wins = work[p].user.celebrated < Today(p)]
            /\ Goto(p, "commit")
    /\ UNCHANGED <<now, rows, used>>

\* claim_goal_celebration: UNBANKED, or the guarded UPDATE: CLAIMED or TAKEN.
Claim(p) ==
    /\ pc[p] = "claim"
    /\ IF work[p].user.banked # Today(p)
       THEN Leave(p) /\ UNCHANGED userLock
       ELSE /\ UserFree(p)
            /\ userLock' = p
            /\ work' = [work EXCEPT ![p].wins = user.celebrated < Today(p)]
            /\ Goto(p, "commit")
    /\ UNCHANGED <<now, rows, used>>

(***************************************************************************)
(* Commits                                                                 *)
(***************************************************************************)

\* Mutant: the transaction is left open on its user row.
DoneHolding(p) == Leave(p) /\ UNCHANGED userLock

\* The transaction ends and its locks go with it.
Done(p) ==
    /\ Leave(p)
    /\ userLock' = IF userLock = p THEN Free ELSE userLock

\* Mutant: no partial index.
GoalInsertedAlways(p) == work[p].pays

\* Whether the DAILY_GOAL event goes in: once per day, by the partial index.
GoalInserted(p) == work[p].pays /\ ledger.goals[Today(p)] = 0

Paid(p) == Prize(p) + (IF GoalInserted(p) THEN Points.goal ELSE 0)

\* Mutant: the points are added to the user as loaded.
UserAfterFromRead(p, u) ==
    LET paid == [u EXCEPT !.xp = work[p].user.xp + Paid(p),
                          !.studied = IF work[p].noted THEN Today(p) ELSE @]
    IN IF work[p].pays THEN BankDay(paid, Today(p)) ELSE paid

\* xp.award's increments in SQL; note_study_day's column; bank_day.
UserAfter(p, u) ==
    LET paid == [u EXCEPT !.xp = @ + Paid(p),
                          !.studied = IF work[p].noted THEN Today(p) ELSE @]
    IN IF work[p].pays THEN BankDay(paid, Today(p)) ELSE paid

Collect(p) ==
    /\ user' = UserAfter(p, user)
    /\ ledger' = [points |-> ledger.points + Paid(p),
                  goals |-> [ledger.goals EXCEPT ![Today(p)] =
                               IF GoalInserted(p) THEN @ + 1 ELSE @]]

CommitGrade(p) ==
    /\ pc[p] = "commit" /\ Grading(p)
    /\ LET w == work[p].word
           one(b) == IF b THEN 1 ELSE 0
       IN /\ progress' = [progress EXCEPT ![w] = Graded(p, @)]
          /\ log' = [log EXCEPT ![w].reviews = @ + 1,
                                ![w].lapses = @ + one(IsLapse(work[p].grade))]
          /\ activity' = [activity EXCEPT ![work[p].deck][Today(p)] =
                            [reviews |-> @.reviews + 1,
                             due |-> @.due + one(work[p].due),
                             mastered |-> @.mastered + one(BecameMastered(p))]]
    /\ Collect(p)
    /\ Done(p)
    /\ UNCHANGED <<now, home, told, used>>

CommitFinish(p) ==
    /\ pc[p] = "commit" /\ work[p].op = "finish"
    /\ Collect(p)
    /\ Done(p)
    /\ UNCHANGED <<now, progress, home, log, activity, told, used>>

CommitBox(p) ==
    /\ pc[p] = "commit" /\ work[p].op = "box"
    /\ progress' = [progress EXCEPT ![work[p].word] = Moved(p, @)]
    /\ Done(p)
    /\ UNCHANGED <<now, user, home, log, activity, ledger, told, used>>

\* settle_streak writes the two columns it was given.
CommitStreak(p) ==
    /\ pc[p] = "commit" /\ work[p].op \in {"overview", "profile"}
    /\ user' = [user EXCEPT !.streak = work[p].user.streak, !.last = work[p].user.last]
    /\ Done(p)
    /\ UNCHANGED <<now, progress, home, log, activity, ledger, told, used>>

\* A client that lost the claim is told nothing, and nothing is written.
CommitClaim(p) ==
    /\ pc[p] = "commit" /\ work[p].op = "celebrate"
    /\ IF work[p].wins
       THEN /\ user' = [user EXCEPT !.celebrated = Today(p)]
            /\ told' = [told EXCEPT ![Today(p)] = @ + 1]
       ELSE UNCHANGED <<user, told>>
    /\ Done(p)
    /\ UNCHANGED <<now, progress, home, log, activity, ledger, used>>

\* The request fails, or its client goes away: get_session rolls back.
Abort(p) ==
    /\ pc[p] # "idle"
    /\ Count("aborts", MaxAborts)
    /\ Done(p)
    /\ UNCHANGED <<now, rows>>

(***************************************************************************)
(* Short requests, one statement each                                      *)
(***************************************************************************)

\* WordService.start of one card.
StartWord(w) ==
    /\ home[w] \in SelfPaced /\ ~progress[w].in
    /\ \A q \in Devices : ~HoldsRow(q, w)
    /\ Count("edits", MaxEdits)
    /\ progress' = [progress EXCEPT ![w] =
                      [NoRow(w) EXCEPT !.in = TRUE, !.deck = home[w],
                                       !.due = DayStart(now) + TicksPerDay]]
    /\ UNCHANGED <<now, user, home, log, activity, ledger, told, pc, work, userLock>>

\* Mutant: unstart takes out any card.
UnstartAny(w) ==
    /\ progress[w].in
    /\ \A q \in Devices : ~HoldsRow(q, w)
    /\ Count("edits", MaxEdits)
    /\ progress' = [progress EXCEPT ![w] = NoRow(w)]
    /\ UNCHANGED <<now, user, home, log, activity, ledger, told, pc, work, userLock>>

\* WordService.unstart: rows without a review go.
Unstart(w) ==
    /\ progress[w].in /\ progress[w].reviews = 0
    /\ \A q \in Devices : ~HoldsRow(q, w)
    /\ Count("edits", MaxEdits)
    /\ progress' = [progress EXCEPT ![w] = NoRow(w)]
    /\ UNCHANGED <<now, user, home, log, activity, ledger, told, pc, work, userLock>>

\* WordRepository.update of a card's deck, and of the rows that mirror it; a
\* row still uncommitted is not among them.
MoveWord(w, deck) ==
    /\ deck # home[w]
    /\ progress[w].in => \A q \in Devices : ~HoldsRow(q, w)
    /\ Count("edits", MaxEdits)
    /\ home' = [home EXCEPT ![w] = deck]
    /\ progress' = [progress EXCEPT ![w].deck = IF progress[w].in THEN deck ELSE @]
    /\ UNCHANGED <<now, user, log, activity, ledger, told, pc, work, userLock>>

Tick ==
    /\ now < LastTick
    /\ now' = now + 1
    /\ UNCHANGED <<rows, pc, work, userLock, used>>

(***************************************************************************)
(* Specification                                                           *)
(***************************************************************************)

\* What a request does once it has begun.
Step(p) ==
    \/ Read(p) \/ WriteRow(p) \/ RecordReview(p) \/ NoteStudyDay(p)
    \/ Award(p) \/ SettleDay(p)
    \/ Look(p) \/ SettleStreak(p)
    \/ Claim(p)
    \/ CommitGrade(p) \/ CommitFinish(p) \/ CommitBox(p) \/ CommitStreak(p) \/ CommitClaim(p)

Next ==
    \/ \E p \in Devices : Begin(p) \/ Step(p) \/ Abort(p)
    \/ \E w \in Words : StartWord(w) \/ Unstart(w) \/ \E deck \in Decks : MoveWord(w, deck)
    \/ Tick

Spec == Init /\ [][Next]_vars

\* The server runs every request it has begun; nobody has to begin one.
FairSpec == Spec /\ \A p \in Devices : WF_vars(Step(p))

(***************************************************************************)
(* Properties                                                              *)
(***************************************************************************)

TypeOK ==
    /\ now \in FirstTick..LastTick
    /\ user \in UserRow
    /\ progress \in [Words -> ProgressRow]
    /\ home \in [Words -> Decks]
    /\ log \in [Words -> [reviews : Nat, lapses : Nat]]
    /\ activity \in [Decks -> [Days -> DayRow]]
    /\ ledger \in [points : Nat, goals : [Days -> Nat]]
    /\ told \in [Days -> Nat]
    /\ pc \in [Devices -> PCs]
    /\ work \in [Devices -> Request]
    /\ userLock \in Devices \cup {Free}
    /\ used \in [Budgets -> Nat]

WonDays == {d \in Days : ledger.goals[d] > 0}

\* The counters of a card's row agree with the review log, whatever grades ran
\* together, however a card was moved, started or taken back meanwhile
\* (record_grade increments in SQL; unstart_words only deletes rows without
\* reviews).
LogAgrees ==
    \A w \in Words :
        progress[w].reviews = log[w].reviews /\ progress[w].lapses = log[w].lapses

\* The points the profile shows are the sum of the ledger (xp.award increments
\* the column in SQL).
XpAgrees == user.xp = ledger.points

\* A day's goal is paid for once, whatever sessions finish together (the
\* partial index behind once_per_day).
GoalPaidOnce == \A d \in Days : ledger.goals[d] <= 1

\* Two devices that each answer the card before the last, and between them
\* reach the goal, do win the day: one of the two sees both answers, because
\* the award's UPDATE of the user row precedes the totals and is held to the
\* commit.
GoalNeverMissed == \A d \in Days : Goal > 0 /\ Answers(d) >= Goal => ledger.goals[d] = 1

\* The streak counts won days only, each at most once, and the last banked
\* day is the last day paid: requests that began on different days, or hold
\* a user loaded before another's bank_day, cannot stretch it.
StreakEarned ==
    /\ user.streak <= Cardinality(WonDays)
    /\ user.banked = (IF WonDays = {} THEN Never ELSE CHOOSE d \in WonDays : \A e \in WonDays : e <= d)

\* One client at most is told to celebrate a day, and only a day that was won.
CelebratedOnce == \A d \in Days : told[d] <= (IF d \in WonDays THEN 1 ELSE 0)

\* When a card was first answered and when it was first mastered never move
\* once set, whichever of two grades lands last (record_grade's coalesce).
FirstsStand ==
    [][\A w \in Words :
          /\ progress[w].first # Never => progress'[w].first = progress[w].first
          /\ progress[w].mastered # Never => progress'[w].mastered = progress[w].mastered]_vars

\* Studying implements StudyLedger: no answer is counted without being paid
\* for, and a day is won at the answer that completes it.
Ledger ==
    INSTANCE StudyLedger WITH
        reviews <- [w \in Words |-> log[w].reviews],
        totals <- [d \in Days |-> Answers(d)],
        won <- WonDays,
        xp <- user.xp,
        Prizes <- {Points.grade, Points.drill_correct, Points.drill_wrong},
        SessionPrize <- Points.finish,
        GoalPrize <- Points.goal
ImplementsLedger == Ledger!Spec

\* Every request the server has begun ends: no two wait for each other's rows.
RequestsEnd == \A p \in Devices : pc[p] # "idle" ~> pc[p] = "idle"

\* "Maintained by UserRepository.bank_day/settle_streak in SQL, never written
\* back from a read value" (models/user.py): the last counted day is never
\* before the last banked one.
BankedDayCounts == user.banked # Never => user.last >= user.banked

\* "Incremented only on the transition into box 5" (models/daily_deck_activity.py):
\* the rollup counts each mastered card once.
MasteredCountedOnce ==
    Cardinality(UNION {{d} \X (1..MasteredIn(d)) : d \in Days})
      = Cardinality({w \in Words : progress[w].mastered # Never})

\* "Live mirror of words.deck_id" (models/word_progress.py).
MirrorAgrees == \A w \in Words : progress[w].in => progress[w].deck = home[w]

\* "This is the guard that stops a brand-new deck - whose cards are all
\* tomorrow's work - banking a day on one review" (study_service.py, _goal_met).
NewCardsWinNothing ==
    \A d \in WonDays : (\A w \in Words : DayOf(Added[w]) = d) => Goal > 0 /\ Answers(d) >= Goal

\* "A card nobody has started cannot be moved" (study_service.py, set_box).
MoveStartsNothing ==
    [][\A p \in Devices :
          pc[p] = "commit" /\ work[p].op = "box" /\ progress' # progress
             => Started(work[p].word, progress[work[p].word])]_vars
=============================================================================
