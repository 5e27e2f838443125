---------------------------- MODULE StudyProofs ----------------------------
(***************************************************************************)
(* Theorems about Study: every variable keeps to its domain, and what a    *)
(* learner has won, been paid and been told agrees, for any number of      *)
(* devices, cards and decks, any goal, any day and any timezone.           *)
(***************************************************************************)
EXTENDS Study, FiniteSetTheorems, TLAPS

(***************************************************************************)
(* The calendar and the operators                                          *)
(***************************************************************************)

\* Later moments are on later days.
LEMMA DivMonotone ==
    ASSUME NEW a \in Int, NEW b \in Int, NEW n \in Nat \ {0}, a <= b
    PROVE  a \div n <= b \div n
<1>1. a \div n \in Int /\ b \div n \in Int
  OBVIOUS
<1>2. n * (a \div n) <= a /\ b < n * (b \div n) + n
  OBVIOUS
<1>3. n * (a \div n) < n * (b \div n) + n
  BY <1>1, <1>2
<1> QED
  BY <1>1, <1>3

\* Every moment of the clock belongs to one of Days.
LEMMA DayInDays ==
    ASSUME NEW t \in FirstTick..LastTick
    PROVE  DayOf(t) \in Days
<1> USE ClockAssumption
<1>1. t \in Int /\ LastTick \in Int /\ t - Offset <= LastTick - Offset
  OBVIOUS
<1>2. DayOf(t) <= DayOf(LastTick)
  BY <1>1, DivMonotone DEF DayOf
<1>3. TicksPerDay \div TicksPerDay = 1
  OBVIOUS
<1>4. 1 <= DayOf(t)
  BY <1>1, <1>3, DivMonotone DEF DayOf
<1> QED
  BY <1>1, <1>2, <1>4 DEF Days, DayOf

\* A day is a positive number, and never the NULL date.
LEMMA DaysAreNat ==
    ASSUME NEW d \in Days
    PROVE  d \in Nat /\ d # Never
BY DEF Days, Never

\* The boundaries of a day are moments.
LEMMA DayStartType ==
    ASSUME NEW t \in Int
    PROVE  DayStart(t) \in Int /\ UtcDayStart(t) \in Int
<1>1. (t - Offset) \div TicksPerDay \in Int /\ t \div TicksPerDay \in Int
  BY ClockAssumption
<1> QED
  BY <1>1, ClockAssumption DEF DayStart, DayOf, UtcDayStart

LEMMA NextBoxType ==
    ASSUME NEW box \in 1..5, NEW grade \in {"again", "hard", "good", "easy"}
    PROVE  NextBox(box, grade) \in 1..5
<1>1. CASE grade = "again"
  BY <1>1 DEF NextBox
<1>2. CASE grade = "hard"
  BY <1>2 DEF NextBox, ClampBox
<1>3. CASE grade = "good"
  BY <1>3 DEF NextBox, ClampBox
<1>4. CASE grade = "easy"
  BY <1>4 DEF NextBox, ClampBox
<1> QED
  BY <1>1, <1>2, <1>3, <1>4

LEMMA IntervalType ==
    ASSUME NEW box \in 1..5
    PROVE  Interval(box) \in Int
<1>1. <<1, 2, 4, 9, 21>>[box] \in Int
  <2>1. box = 1 \/ box = 2 \/ box = 3 \/ box = 4 \/ box = 5
    OBVIOUS
  <2> QED
    BY <2>1
<1> QED
  BY <1>1, ClockAssumption DEF Interval

LEMMA UnstudiedType ==
    ASSUME NEW w \in Words, NEW deck \in Decks, NEW start \in Int
    PROVE  Unstudied(w, deck, start) \in ProgressRow
BY ClockAssumption DEF Unstudied, ProgressRow, Never

LEMMA NoRowType ==
    ASSUME NEW w \in Words
    PROVE  NoRow(w) \in ProgressRow
BY WordsAssumption, UnstudiedType DEF NoRow

LEMMA NewLearnerType == NewLearner \in UserRow
BY DEF NewLearner, UserRow, Never

LEMMA NoRequestType == NoRequest \in Request
<1>1. (CHOOSE w \in Words : TRUE) \in Words
  BY WordsAssumption
<1>2. (CHOOSE k \in Decks : TRUE) \in Decks
  BY <1>1, WordsAssumption
<1>3. NoRow(CHOOSE w \in Words : TRUE) \in ProgressRow
  BY <1>1, NoRowType
<1> QED
  BY <1>1, <1>2, <1>3, NewLearnerType DEF NoRequest, Request, OpNames

\* Reading a streak never lengthens it.
LEMMA SettleType ==
    ASSUME NEW u \in UserRow, NEW today \in Nat, NEW due
    PROVE  /\ Settle(u, today, due) \in UserRow
           /\ Settle(u, today, due).streak <= u.streak
           /\ Settle(u, today, due).banked = u.banked
<1>1. CASE u.streak = 0 \/ u.last = Never
  BY <1>1 DEF Settle, UserRow
<1>2. CASE ~(u.streak = 0 \/ u.last = Never) /\ today - u.last <= 0
  BY <1>2 DEF Settle, UserRow
<1>3. CASE ~(u.streak = 0 \/ u.last = Never) /\ today - u.last = 1
  <2>1. Settle(u, today, due) = IF due = 0 THEN [u EXCEPT !.last = today] ELSE u
    BY <1>3 DEF Settle, UserRow
  <2> QED
    BY <2>1 DEF UserRow
<1>4. CASE ~(u.streak = 0 \/ u.last = Never) /\ ~(today - u.last <= 0) /\ today - u.last # 1
  <2>1. Settle(u, today, due) = [u EXCEPT !.streak = 0]
    BY <1>4 DEF Settle, UserRow
  <2> QED
    BY <2>1 DEF UserRow
<1> QED
  BY <1>1, <1>2, <1>3, <1>4

\* Banking a day lengthens the streak by one at most, and only for a later day
\* than any banked.
LEMMA BankDayType ==
    ASSUME NEW u \in UserRow, NEW today \in Nat
    PROVE  /\ BankDay(u, today) \in UserRow
           /\ BankDay(u, today).celebrated = u.celebrated
           /\ BankDay(u, today).xp = u.xp
           /\ u.banked # Never /\ u.banked >= today => BankDay(u, today) = u
           /\ ~(u.banked # Never /\ u.banked >= today) =>
                 BankDay(u, today).banked = today /\ BankDay(u, today).streak <= u.streak + 1
<1>1. CASE u.banked # Never /\ u.banked >= today
  BY <1>1 DEF BankDay, UserRow
<1>2. CASE ~(u.banked # Never /\ u.banked >= today)
  <2> DEFINE days == IF u.last # Never /\ u.last >= today - 1 THEN u.streak + 1 ELSE 1
  <2>1. days \in Nat /\ days <= u.streak + 1
    BY DEF UserRow
  <2>2. BankDay(u, today) = [u EXCEPT !.streak = days, !.last = today, !.banked = today]
    BY <1>2 DEF BankDay, UserRow
  <2> HIDE DEF days
  <2> QED
    BY <1>2, <2>1, <2>2 DEF UserRow
<1> QED
  BY <1>1, <1>2

LEMMA PointsType ==
    /\ Points.grade \in Nat /\ Points.drill_correct \in Nat /\ Points.drill_wrong \in Nat
    /\ Points.finish \in Nat /\ Points.goal \in Nat
BY DEF Points

LEMMA PaidType ==
    ASSUME NEW p \in Devices
    PROVE  Paid(p) \in Nat
<1>1. Prize(p) \in Nat
  BY PointsType DEF Prize
<1> QED
  BY <1>1, PointsType DEF Paid

(***************************************************************************)
(* Type correctness                                                        *)
(***************************************************************************)

\* Where a request is says what it is, and when it began.
Place(p) ==
    /\ pc[p] # "idle" => work[p].at \in FirstTick..LastTick
    /\ pc[p] \in {"read", "row"} => work[p].op \in {"grade", "drill", "box"}
    /\ pc[p] \in {"log", "note"} => work[p].op \in {"grade", "drill"}
    /\ pc[p] \in {"award", "settle"} => work[p].op \in {"grade", "drill", "finish"}
    /\ pc[p] \in {"look", "streak"} => work[p].op \in {"overview", "profile"}
    /\ pc[p] = "claim" => work[p].op = "celebrate"
Typed == TypeOK /\ \A p \in Devices : Place(p)

LEMMA TodayType ==
    ASSUME Typed, NEW p \in Devices, pc[p] # "idle"
    PROVE  Today(p) \in Days
BY DayInDays DEF Typed, Place, Today

LEMMA TypedInit == Init => Typed
<1> SUFFICES ASSUME Init PROVE Typed
  OBVIOUS
<1>1. now \in FirstTick..LastTick
  BY ClockAssumption DEF Init
<1>2. user \in UserRow
  <2>1. ASSUME NEW h \in Histories PROVE Veteran(h) \in UserRow
    <3>1. h.streak \in Nat /\ h.last \in Nat
      BY HistoriesAssumption
    <3> QED
      BY <3>1 DEF Veteran, UserRow
  <2> QED
    BY <2>1, NewLearnerType DEF Init
<1>3. progress \in [Words -> ProgressRow] /\ home \in [Words -> Decks]
  BY NoRowType, WordsAssumption DEF Init
<1>4. log \in [Words -> [reviews : Nat, lapses : Nat]]
  BY DEF Init
<1>5. activity \in [Decks -> [Days -> DayRow]]
  BY DEF Init, DayRow
<1>6. ledger \in [points : Nat, goals : [Days -> Nat]] /\ told \in [Days -> Nat]
  BY DEF Init, Opening
<1>7. pc \in [Devices -> PCs] /\ work \in [Devices -> Request]
  BY NoRequestType DEF Init, PCs
<1>8. userLock \in Devices \cup {Free} /\ used \in [Budgets -> Nat]
  BY DEF Init
<1>9. \A p \in Devices : Place(p)
  BY DEF Init, Place
<1> QED
  BY <1>1, <1>2, <1>3, <1>4, <1>5, <1>6, <1>7, <1>8, <1>9 DEF Typed, TypeOK

\* A request that ends, by its last statement or by failing.
LEMMA LeaveTyped ==
    ASSUME Typed, NEW p \in Devices, Leave(p)
    PROVE  /\ pc' \in [Devices -> PCs] /\ work' \in [Devices -> Request]
           /\ \A q \in Devices : Place(q)'
<1>1. pc' = [pc EXCEPT ![p] = "idle"] /\ work' = [work EXCEPT ![p] = NoRequest]
  BY DEF Leave, Goto
<1>2. pc \in [Devices -> PCs] /\ work \in [Devices -> Request] /\ \A q \in Devices : Place(q)
  BY DEF Typed, TypeOK
<1>3. pc' \in [Devices -> PCs] /\ work' \in [Devices -> Request]
  BY <1>1, <1>2, NoRequestType DEF PCs
<1>4. ASSUME NEW q \in Devices PROVE Place(q)'
  <2>1. CASE q = p
    BY <1>1, <1>2, <2>1 DEF Place
  <2>2. CASE q # p
    BY <1>1, <1>2, <2>2 DEF Place
  <2> QED
    BY <2>1, <2>2
<1> QED
  BY <1>3, <1>4

LEMMA DoneTyped ==
    ASSUME Typed, NEW p \in Devices, Done(p)
    PROVE  /\ pc' \in [Devices -> PCs] /\ work' \in [Devices -> Request]
           /\ \A q \in Devices : Place(q)'
           /\ userLock' \in Devices \cup {Free}
BY LeaveTyped DEF Done, Typed, TypeOK

LEMMA CountTyped ==
    ASSUME Typed, NEW bound \in Budgets, NEW max, Count(bound, max)
    PROVE  used' \in [Budgets -> Nat]
BY DEF Count, Typed, TypeOK

\* A request that goes on: it is enough that its new place fits its request.
LEMMA StepTyped ==
    ASSUME Typed, NEW p \in Devices, NEW label \in PCs, NEW r \in Request,
           Goto(p, label), work' = [work EXCEPT ![p] = r],
           r.at \in FirstTick..LastTick,
           label \in {"read", "row"} => r.op \in {"grade", "drill", "box"},
           label \in {"log", "note"} => r.op \in {"grade", "drill"},
           label \in {"award", "settle"} => r.op \in {"grade", "drill", "finish"},
           label \in {"look", "streak"} => r.op \in {"overview", "profile"},
           label = "claim" => r.op = "celebrate"
    PROVE  /\ pc' \in [Devices -> PCs] /\ work' \in [Devices -> Request]
           /\ \A q \in Devices : Place(q)'
<1>1. pc \in [Devices -> PCs] /\ work \in [Devices -> Request] /\ \A q \in Devices : Place(q)
  BY DEF Typed, TypeOK
<1>2. pc' = [pc EXCEPT ![p] = label]
  BY DEF Goto
<1>3. pc' \in [Devices -> PCs] /\ work' \in [Devices -> Request]
  BY <1>1, <1>2
<1>4. ASSUME NEW q \in Devices PROVE Place(q)'
  <2>1. CASE q = p
    BY <1>1, <1>2, <2>1 DEF Place
  <2>2. CASE q # p
    BY <1>1, <1>2, <2>2 DEF Place
  <2> QED
    BY <2>1, <2>2
<1> QED
  BY <1>3, <1>4

\* A step that leaves the request as it is keeps what it says.
LEMMA SameRequest ==
    ASSUME Typed, NEW p \in Devices, UNCHANGED work
    PROVE  work' = [work EXCEPT ![p] = work[p]] /\ work[p] \in Request
BY DEF Typed, TypeOK

\* The rows are untouched.
LEMMA RowsTyped ==
    ASSUME Typed, UNCHANGED rows, UNCHANGED now,
           pc' \in [Devices -> PCs], work' \in [Devices -> Request],
           \A q \in Devices : Place(q)',
           userLock' \in Devices \cup {Free}, used' \in [Budgets -> Nat]
    PROVE  Typed'
BY DEF Typed, TypeOK, rows

LEMMA TypedBegin ==
    ASSUME Typed, NEW p \in Devices, Begin(p)
    PROVE  Typed'
<1> PICK r \in Requests :
        /\ work' = [work EXCEPT ![p] =
                      [NoRequest EXCEPT !.op = r.op, !.word = r.word, !.grade = r.grade,
                                        !.box = r.box, !.at = now, !.user = user]]
        /\ Goto(p, CASE r.op \in {"grade", "drill", "box"} -> "read"
                     [] r.op = "finish" -> "award"
                     [] r.op = "celebrate" -> "claim"
                     [] OTHER -> "look")
  BY DEF Begin
<1> DEFINE new == [NoRequest EXCEPT !.op = r.op, !.word = r.word, !.grade = r.grade,
                                    !.box = r.box, !.at = now, !.user = user]
           label == CASE r.op \in {"grade", "drill", "box"} -> "read"
                      [] r.op = "finish" -> "award"
                      [] r.op = "celebrate" -> "claim"
                      [] OTHER -> "look"
<1>1. r.op \in OpNames /\ r.word \in Words /\ r.grade \in {"again", "hard", "good", "easy"}
      /\ r.box \in 1..5
  <2>1. NoRequest.word \in Words
    BY NoRequestType DEF Request
  <2> QED
    BY <2>1, ChoicesAssumption DEF Requests, OpNames
<1>2. now \in FirstTick..LastTick /\ now \in Nat /\ user \in UserRow
  BY ClockAssumption DEF Typed, TypeOK
<1>3. new \in Request /\ new.at = now /\ new.op = r.op
  BY <1>1, <1>2, NoRequestType DEF Request
<1>4. /\ label \in PCs
      /\ label \in {"read", "row"} => r.op \in {"grade", "drill", "box"}
      /\ label \in {"log", "note"} => r.op \in {"grade", "drill"}
      /\ label \in {"award", "settle"} => r.op \in {"grade", "drill", "finish"}
      /\ label \in {"look", "streak"} => r.op \in {"overview", "profile"}
      /\ label = "claim" => r.op = "celebrate"
  <2>1. CASE r.op \in {"grade", "drill", "box"}
    BY <2>1 DEF PCs
  <2>2. CASE r.op = "finish"
    BY <2>2 DEF PCs
  <2>3. CASE r.op = "celebrate"
    BY <2>3 DEF PCs
  <2>4. CASE r.op \in {"overview", "profile"}
    BY <2>4 DEF PCs
  <2> QED
    BY <1>1, <2>1, <2>2, <2>3, <2>4 DEF OpNames
<1> HIDE DEF new, label
<1>5. Goto(p, label) /\ work' = [work EXCEPT ![p] = new]
  BY DEF new, label
<1>6. used' \in [Budgets -> Nat] /\ UNCHANGED <<now, rows, userLock>>
  BY CountTyped DEF Begin, Budgets
<1>7. userLock' \in Devices \cup {Free}
  BY <1>6 DEF Typed, TypeOK
<1> QED
  BY <1>2, <1>3, <1>4, <1>5, <1>6, <1>7, StepTyped, RowsTyped

LEMMA TypedRead ==
    ASSUME Typed, NEW p \in Devices, Read(p)
    PROVE  Typed'
<1> DEFINE w == work[p].word
           row == IF progress[w].in THEN progress[w] ELSE Unstudied(w, home[w], UtcDayStart(now))
<1>1. work[p] \in Request /\ now \in FirstTick..LastTick /\ now \in Nat /\ w \in Words
      /\ home[w] \in Decks /\ progress[w] \in ProgressRow
  BY ClockAssumption DEF Typed, TypeOK, Request
<1>2. row \in ProgressRow
  BY <1>1, UnstudiedType, DayStartType
<1>3. UNCHANGED <<now, rows, userLock, used>> /\ pc[p] = "read"
  BY DEF Read
<1>4. userLock' \in Devices \cup {Free} /\ used' \in [Budgets -> Nat]
  BY <1>3 DEF Typed, TypeOK
<1>5. CASE Leave(p)
  BY <1>3, <1>4, <1>5, LeaveTyped, RowsTyped
<1>6. CASE ~Leave(p)
  <2> DEFINE d == Started(w, row) /\ row.due < DayEnd(now)
             new == [work[p] EXCEPT !.at = now, !.row = row, !.deck = home[w], !.due = d]
  <2>1. Goto(p, "row") /\ work' = [work EXCEPT ![p].at = now, ![p].row = row,
                                               ![p].deck = home[w], ![p].due = d]
    BY <1>6 DEF Read
  <2>2. d \in BOOLEAN
    OBVIOUS
  <2> HIDE DEF row, d
  <2>3. new \in Request /\ new.at = now /\ new.op = work[p].op
    BY <1>1, <1>2, <2>2 DEF Request
  <2>4. work' = [work EXCEPT ![p] = new]
    BY <2>1, <1>1 DEF Typed, TypeOK, Request
  <2>5. new.op \in {"grade", "drill", "box"}
    BY <1>3, <2>3 DEF Typed, Place
  <2> HIDE DEF new
  <2>6. "row" \in PCs
    BY DEF PCs
  <2> QED
    BY <1>1, <1>3, <1>4, <2>1, <2>3, <2>4, <2>5, <2>6, StepTyped, RowsTyped
<1> QED
  BY <1>5, <1>6

\* The statements that only move on.
LEMMA TypedPassing ==
    ASSUME Typed, NEW p \in Devices, WriteRow(p) \/ RecordReview(p) \/ Award(p) \/ SettleStreak(p)
    PROVE  Typed'
<1>1. UNCHANGED <<now, rows, used, work>> /\ used' \in [Budgets -> Nat]
      /\ userLock' \in Devices \cup {Free} /\ pc[p] # "idle"
  BY DEF WriteRow, RecordReview, Award, SettleStreak, Typed, TypeOK
<1>2. work' = [work EXCEPT ![p] = work[p]] /\ work[p] \in Request
  BY <1>1, SameRequest
<1>3. Place(p) /\ work[p].at \in FirstTick..LastTick
  BY <1>1 DEF Typed, Place
<1>4. PICK label \in PCs : /\ Goto(p, label)
                           /\ label \in {"log", "note", "settle", "commit"}
                           /\ label \in {"log", "note"} => work[p].op \in {"grade", "drill"}
                           /\ label = "settle" => work[p].op \in {"grade", "drill", "finish"}
  <2>1. CASE WriteRow(p)
    BY <2>1 DEF WriteRow, Grading, PCs
  <2>2. CASE RecordReview(p)
    BY <2>2, <1>3 DEF RecordReview, PCs, Place
  <2>3. CASE Award(p)
    BY <2>3, <1>3 DEF Award, PCs, Place
  <2>4. CASE SettleStreak(p)
    BY <2>4 DEF SettleStreak, PCs
  <2> QED
    BY <2>1, <2>2, <2>3, <2>4
<1> QED
  BY <1>1, <1>2, <1>3, <1>4, StepTyped, RowsTyped

LEMMA TypedNote ==
    ASSUME Typed, NEW p \in Devices, NoteStudyDay(p)
    PROVE  Typed'
<1> DEFINE new == [work[p] EXCEPT !.user = [user EXCEPT !.studied = Today(p)], !.noted = TRUE]
<1>1. /\ UNCHANGED <<now, rows, used>> /\ Goto(p, "award") /\ pc[p] = "note"
      /\ used' \in [Budgets -> Nat] /\ userLock' \in Devices \cup {Free} /\ "award" \in PCs
  BY DEF NoteStudyDay, Typed, TypeOK, PCs
<1>2. work[p] \in Request /\ user \in UserRow /\ Today(p) \in Nat
  BY <1>1, TodayType, DaysAreNat DEF Typed, TypeOK
<1>3. new \in Request /\ new.at = work[p].at /\ new.op = work[p].op
  BY <1>2 DEF Request, UserRow
<1>4. work[p].at \in FirstTick..LastTick /\ work[p].op \in {"grade", "drill", "finish"}
  BY <1>1 DEF Typed, Place
<1>5. PICK r \in {work[p], new} : work' = [work EXCEPT ![p] = r]
  <2>1. CASE UNCHANGED work
    BY <2>1, SameRequest
  <2>2. CASE ~UNCHANGED work
    <3>1. work' = [work EXCEPT ![p].user = [user EXCEPT !.studied = Today(p)], ![p].noted = TRUE]
      BY <2>2 DEF NoteStudyDay
    <3> QED
      BY <3>1 DEF Typed, TypeOK, Request
  <2> QED
    BY <2>1, <2>2
<1> HIDE DEF new
<1>6. r \in Request /\ r.at \in FirstTick..LastTick /\ r.op \in {"grade", "drill", "finish"}
  BY <1>2, <1>3, <1>4
<1> QED
  BY <1>1, <1>5, <1>6, StepTyped, RowsTyped

LEMMA TypedSettleDay ==
    ASSUME Typed, NEW p \in Devices, SettleDay(p)
    PROVE  Typed'
<1> DEFINE b == work[p].user.banked # Today(p) /\ GoalMet(p)
           new == [work[p] EXCEPT !.pays = b]
<1>1. /\ UNCHANGED <<now, rows, used, userLock>> /\ Goto(p, "commit") /\ pc[p] = "settle"
      /\ used' \in [Budgets -> Nat] /\ userLock' \in Devices \cup {Free} /\ "commit" \in PCs
  BY DEF SettleDay, Typed, TypeOK, PCs
<1>2. work[p] \in Request /\ work[p].at \in FirstTick..LastTick
  BY <1>1 DEF Typed, TypeOK, Place
<1>3. b \in BOOLEAN /\ work' = [work EXCEPT ![p].pays = b]
  BY DEF SettleDay
<1> HIDE DEF b
<1>4. new \in Request /\ new.at = work[p].at /\ work' = [work EXCEPT ![p] = new]
  BY <1>2, <1>3 DEF Request, Typed, TypeOK
<1> HIDE DEF new
<1> QED
  BY <1>1, <1>2, <1>4, StepTyped, RowsTyped

LEMMA TypedLook ==
    ASSUME Typed, NEW p \in Devices, Look(p)
    PROVE  Typed'
<1>1. /\ UNCHANGED <<now, rows, used, userLock>> /\ pc[p] = "look" /\ DayOf(now) \in Nat
      /\ used' \in [Budgets -> Nat] /\ userLock' \in Devices \cup {Free} /\ "streak" \in PCs
  BY DayInDays, DaysAreNat DEF Look, Typed, TypeOK, PCs
<1>2. work[p] \in Request /\ work[p].user \in UserRow /\ work[p].at \in FirstTick..LastTick
      /\ work[p].op \in {"overview", "profile"}
  BY <1>1 DEF Typed, TypeOK, Place, Request
<1>3. CASE Leave(p)
  BY <1>1, <1>3, LeaveTyped, RowsTyped
<1>4. CASE ~Leave(p)
  <2>1. PICK due : /\ Goto(p, "streak")
                   /\ work' = [work EXCEPT ![p].user = Settle(work[p].user, DayOf(now), due)]
    BY <1>4 DEF Look
  <2> DEFINE u == Settle(work[p].user, DayOf(now), due)
             new == [work[p] EXCEPT !.user = u]
  <2>2. u \in UserRow
    BY <1>1, <1>2, SettleType
  <2> HIDE DEF u
  <2>3. work' = [work EXCEPT ![p].user = u]
    BY <2>1 DEF u
  <2>4. /\ new \in Request /\ new.at = work[p].at /\ new.op = work[p].op
        /\ work' = [work EXCEPT ![p] = new]
    BY <1>2, <2>2, <2>3 DEF Request, Typed, TypeOK
  <2> HIDE DEF new
  <2> QED
    BY <1>1, <1>2, <2>1, <2>4, StepTyped, RowsTyped
<1> QED
  BY <1>3, <1>4

LEMMA TypedClaim ==
    ASSUME Typed, NEW p \in Devices, Claim(p)
    PROVE  Typed'
<1>1. /\ UNCHANGED <<now, rows, used>> /\ pc[p] = "claim"
      /\ used' \in [Budgets -> Nat] /\ userLock' \in Devices \cup {Free} /\ "commit" \in PCs
  BY DEF Claim, Typed, TypeOK, PCs
<1>2. work[p] \in Request /\ work[p].at \in FirstTick..LastTick
  BY <1>1 DEF Typed, TypeOK, Place
<1>3. CASE Leave(p)
  BY <1>1, <1>3, LeaveTyped, RowsTyped
<1>4. CASE ~Leave(p)
  <2> DEFINE b == user.celebrated < Today(p)
             new == [work[p] EXCEPT !.wins = b]
  <2>1. b \in BOOLEAN
    OBVIOUS
  <2>2. Goto(p, "commit") /\ work' = [work EXCEPT ![p].wins = b]
    BY <1>4 DEF Claim
  <2> HIDE DEF b
  <2>3. new \in Request /\ new.at = work[p].at /\ work' = [work EXCEPT ![p] = new]
    BY <1>2, <2>1, <2>2 DEF Request, Typed, TypeOK
  <2> HIDE DEF new
  <2> QED
    BY <1>1, <1>2, <2>2, <2>3, StepTyped, RowsTyped
<1> QED
  BY <1>3, <1>4

(***************************************************************************)
(* Commits                                                                 *)
(***************************************************************************)

LEMMA CollectTyped ==
    ASSUME Typed, NEW p \in Devices, pc[p] # "idle", Collect(p)
    PROVE  user' \in UserRow /\ ledger' \in [points : Nat, goals : [Days -> Nat]]
<1>1. Today(p) \in Days /\ Today(p) \in Nat
  BY TodayType, DaysAreNat
<1>2. user \in UserRow /\ ledger \in [points : Nat, goals : [Days -> Nat]] /\ Paid(p) \in Nat
  BY PaidType DEF Typed, TypeOK
<1>3. user' \in UserRow
  <2> DEFINE paid == [user EXCEPT !.xp = @ + Paid(p),
                                  !.studied = IF work[p].noted THEN Today(p) ELSE @]
  <2>1. paid \in UserRow
    <3>1. user.xp + Paid(p) \in Nat /\ user.studied \in Nat
      BY <1>2 DEF UserRow
    <3>2. PICK n \in Nat : n = user.xp + Paid(p)
      BY <3>1
    <3>3. PICK d \in Nat : d = IF work[p].noted THEN Today(p) ELSE user.studied
      BY <1>1, <3>1
    <3>4. paid = [user EXCEPT !.xp = n, !.studied = d]
      BY <3>2, <3>3
    <3> QED
      BY <1>2, <3>4 DEF UserRow
  <2>2. user' = IF work[p].pays THEN BankDay(paid, Today(p)) ELSE paid
    BY DEF Collect, UserAfter
  <2> HIDE DEF paid
  <2> QED
    BY <1>1, <2>1, <2>2, BankDayType
<1>4. ledger' \in [points : Nat, goals : [Days -> Nat]]
  BY <1>1, <1>2 DEF Collect
<1> QED
  BY <1>3, <1>4

LEMMA GradedType ==
    ASSUME NEW p \in Devices, work[p] \in Request, NEW row \in ProgressRow
    PROVE  Graded(p, row) \in ProgressRow
<1> DEFINE r == work[p].row
           w == work[p]
           box == NextBox(r.box, w.grade)
           base == IF row.in THEN row ELSE r
           first == IF r.first = Never THEN w.at ELSE r.first
           mastered == IF BecameMastered(p) THEN w.at ELSE r.mastered
<1>1. r \in ProgressRow /\ w.at \in Nat /\ w.deck \in Decks
      /\ w.grade \in {"again", "hard", "good", "easy"}
  BY DEF Request
<1>2. box \in 1..5
  BY <1>1, NextBoxType DEF ProgressRow
<1>3. DayStart(w.at) + Interval(box) \in Int
  <2>1. DayStart(w.at) \in Int
    BY <1>1, DayStartType
  <2>2. Interval(box) \in Int
    BY <1>2, IntervalType
  <2> QED
    BY <2>1, <2>2
<1>4. base \in ProgressRow
  BY <1>1
<1>5. first \in Nat /\ mastered \in Nat
  BY <1>1 DEF ProgressRow
<1>6. Graded(p, row) =
        [in |-> TRUE, deck |-> w.deck, box |-> box, due |-> DayStart(w.at) + Interval(box),
         reviews |-> base.reviews + 1,
         lapses |-> base.lapses + (IF IsLapse(w.grade) THEN 1 ELSE 0),
         run |-> IF IsLapse(w.grade) THEN 0 ELSE base.run + 1,
         first |-> IF row.in /\ row.first # Never THEN row.first ELSE first,
         mastered |-> IF row.in /\ row.mastered # Never THEN row.mastered ELSE mastered]
  BY DEF Graded
<1> HIDE DEF r, w, box, base, first, mastered
<1> QED
  BY <1>1, <1>2, <1>3, <1>4, <1>5, <1>6 DEF ProgressRow, w

LEMMA TypedCommitGrade ==
    ASSUME Typed, NEW p \in Devices, CommitGrade(p)
    PROVE  Typed'
<1> DEFINE w == work[p].word
           one(b) == IF b THEN 1 ELSE 0
<1>1. pc[p] # "idle" /\ Collect(p) /\ Done(p) /\ UNCHANGED <<now, home, told, used>>
  BY DEF CommitGrade
<1>2. work[p] \in Request /\ w \in Words /\ work[p].deck \in Decks /\ Today(p) \in Days
  BY <1>1, TodayType DEF Typed, TypeOK, Request
<1>3. progress' \in [Words -> ProgressRow]
  <2>1. progress' = [progress EXCEPT ![w] = Graded(p, progress[w])]
    BY DEF CommitGrade
  <2>2. progress \in [Words -> ProgressRow] /\ Graded(p, progress[w]) \in ProgressRow
    BY <1>2, GradedType DEF Typed, TypeOK
  <2> QED
    BY <2>1, <2>2
<1>4. log' \in [Words -> [reviews : Nat, lapses : Nat]]
  <2>1. log' = [log EXCEPT ![w].reviews = @ + 1, ![w].lapses = @ + one(IsLapse(work[p].grade))]
    BY DEF CommitGrade
  <2>2. one(IsLapse(work[p].grade)) \in Nat
    OBVIOUS
  <2> HIDE DEF one
  <2> QED
    BY <1>2, <2>1, <2>2 DEF Typed, TypeOK
<1>5. activity' \in [Decks -> [Days -> DayRow]]
  <2>1. PICK m, n \in Nat :
            activity' = [activity EXCEPT ![work[p].deck][Today(p)] =
                          [reviews |-> @.reviews + 1, due |-> @.due + m,
                           mastered |-> @.mastered + n]]
    <3>1. one(work[p].due) \in Nat /\ one(BecameMastered(p)) \in Nat
      OBVIOUS
    <3>2. activity' = [activity EXCEPT ![work[p].deck][Today(p)] =
                        [reviews |-> @.reviews + 1, due |-> @.due + one(work[p].due),
                         mastered |-> @.mastered + one(BecameMastered(p))]]
      BY DEF CommitGrade
    <3> HIDE DEF one
    <3> QED
      BY <3>1, <3>2
  <2>2. activity \in [Decks -> [Days -> DayRow]]
    BY DEF Typed, TypeOK
  <2>3. activity[work[p].deck][Today(p)] \in DayRow
    BY <1>2, <2>2
  <2>4. [reviews |-> activity[work[p].deck][Today(p)].reviews + 1,
         due |-> activity[work[p].deck][Today(p)].due + m,
         mastered |-> activity[work[p].deck][Today(p)].mastered + n] \in DayRow
    BY <2>3 DEF DayRow
  <2> QED
    BY <1>2, <2>1, <2>2, <2>4
<1>6. user' \in UserRow /\ ledger' \in [points : Nat, goals : [Days -> Nat]]
  BY <1>1, CollectTyped
<1>7. pc' \in [Devices -> PCs] /\ work' \in [Devices -> Request]
      /\ (\A q \in Devices : Place(q)') /\ userLock' \in Devices \cup {Free}
  BY <1>1, DoneTyped
<1> QED
  BY <1>1, <1>3, <1>4, <1>5, <1>6, <1>7 DEF Typed, TypeOK

LEMMA TypedCommitFinish ==
    ASSUME Typed, NEW p \in Devices, CommitFinish(p)
    PROVE  Typed'
<1>1. user' \in UserRow /\ ledger' \in [points : Nat, goals : [Days -> Nat]]
  BY CollectTyped DEF CommitFinish
<1>2. pc' \in [Devices -> PCs] /\ work' \in [Devices -> Request]
      /\ (\A q \in Devices : Place(q)') /\ userLock' \in Devices \cup {Free}
  BY DoneTyped DEF CommitFinish
<1> QED
  BY <1>1, <1>2 DEF CommitFinish, Typed, TypeOK

LEMMA TypedCommitBox ==
    ASSUME Typed, NEW p \in Devices, CommitBox(p)
    PROVE  Typed'
<1> DEFINE w == work[p].word
<1>1. work[p] \in Request /\ w \in Words /\ progress \in [Words -> ProgressRow]
  BY DEF Typed, TypeOK, Request
<1>2. Moved(p, progress[w]) \in ProgressRow
  <2> DEFINE base == IF progress[w].in THEN progress[w] ELSE work[p].row
             due == DayStart(work[p].at) + Interval(work[p].box)
  <2>1. base \in ProgressRow /\ work[p].row.deck \in Decks /\ work[p].box \in 1..5
    BY <1>1 DEF Request, ProgressRow
  <2>2. due \in Int
    <3>1. DayStart(work[p].at) \in Int
      BY <1>1, DayStartType DEF Request
    <3>2. Interval(work[p].box) \in Int
      BY <2>1, IntervalType
    <3> QED
      BY <3>1, <3>2
  <2>3. Moved(p, progress[w]) = [base EXCEPT !.in = TRUE, !.deck = work[p].row.deck,
                                             !.box = work[p].box, !.due = due]
    BY DEF Moved
  <2> HIDE DEF base, due
  <2> QED
    BY <2>1, <2>2, <2>3 DEF ProgressRow
<1>3. progress' = [progress EXCEPT ![w] = Moved(p, progress[w])]
  BY DEF CommitBox
<1>4. progress' \in [Words -> ProgressRow]
  BY <1>1, <1>2, <1>3
<1>5. pc' \in [Devices -> PCs] /\ work' \in [Devices -> Request]
      /\ (\A q \in Devices : Place(q)') /\ userLock' \in Devices \cup {Free}
  BY DoneTyped DEF CommitBox
<1> QED
  BY <1>4, <1>5 DEF CommitBox, Typed, TypeOK

LEMMA TypedCommitStreak ==
    ASSUME Typed, NEW p \in Devices, CommitStreak(p)
    PROVE  Typed'
<1>1. user' \in UserRow
  <2>1. work[p].user \in UserRow /\ user \in UserRow
    BY DEF Typed, TypeOK, Request
  <2>2. user' = [user EXCEPT !.streak = work[p].user.streak, !.last = work[p].user.last]
    BY DEF CommitStreak
  <2> QED
    BY <2>1, <2>2 DEF UserRow
<1>2. pc' \in [Devices -> PCs] /\ work' \in [Devices -> Request]
      /\ (\A q \in Devices : Place(q)') /\ userLock' \in Devices \cup {Free}
  BY DoneTyped DEF CommitStreak
<1> QED
  BY <1>1, <1>2 DEF CommitStreak, Typed, TypeOK

LEMMA TypedCommitClaim ==
    ASSUME Typed, NEW p \in Devices, CommitClaim(p)
    PROVE  Typed'
<1>1. Today(p) \in Days /\ Today(p) \in Nat
  BY TodayType, DaysAreNat DEF CommitClaim
<1>2. user \in UserRow /\ told \in [Days -> Nat]
  BY DEF Typed, TypeOK
<1>3. user' \in UserRow /\ told' \in [Days -> Nat]
  <2>1. CASE work[p].wins
    BY <1>1, <1>2, <2>1 DEF CommitClaim, UserRow
  <2>2. CASE ~work[p].wins
    BY <1>2, <2>2 DEF CommitClaim
  <2> QED
    BY <2>1, <2>2
<1>4. pc' \in [Devices -> PCs] /\ work' \in [Devices -> Request]
      /\ (\A q \in Devices : Place(q)') /\ userLock' \in Devices \cup {Free}
  BY DoneTyped DEF CommitClaim
<1> QED
  BY <1>3, <1>4 DEF CommitClaim, Typed, TypeOK

LEMMA TypedAbort ==
    ASSUME Typed, NEW p \in Devices, Abort(p)
    PROVE  Typed'
<1>1. pc' \in [Devices -> PCs] /\ work' \in [Devices -> Request]
      /\ (\A q \in Devices : Place(q)') /\ userLock' \in Devices \cup {Free}
  BY DoneTyped DEF Abort
<1>2. used' \in [Budgets -> Nat]
  BY CountTyped DEF Abort, Budgets
<1> QED
  BY <1>1, <1>2, RowsTyped DEF Abort

\* The short requests change a card's row and where the card is.
LEMMA TypedEdit ==
    ASSUME Typed, NEW w \in Words,
           \/ StartWord(w) \/ Unstart(w) \/ \E deck \in Decks : MoveWord(w, deck)
    PROVE  Typed'
<1>1. /\ progress \in [Words -> ProgressRow] /\ home \in [Words -> Decks] /\ now \in Nat
      /\ NoRow(w) \in ProgressRow
  BY NoRowType, ClockAssumption DEF Typed, TypeOK
<1>2. progress' \in [Words -> ProgressRow] /\ home' \in [Words -> Decks]
  <2>1. CASE StartWord(w)
    <3> DEFINE due == DayStart(now) + TicksPerDay
               row == [NoRow(w) EXCEPT !.in = TRUE, !.deck = home[w], !.due = due]
    <3>1. due \in Int
      BY <1>1, DayStartType, ClockAssumption
    <3>2. progress' = [progress EXCEPT ![w] = row] /\ UNCHANGED home
      BY <2>1 DEF StartWord
    <3> HIDE DEF due
    <3>3. row \in ProgressRow
      BY <1>1, <3>1 DEF ProgressRow
    <3> HIDE DEF row
    <3> QED
      BY <1>1, <3>2, <3>3
  <2>2. CASE Unstart(w)
    BY <1>1, <2>2 DEF Unstart
  <2>3. CASE \E deck \in Decks : MoveWord(w, deck)
    <3>1. PICK deck \in Decks : MoveWord(w, deck)
      BY <2>3
    <3>2. PICK k \in Decks : progress' = [progress EXCEPT ![w].deck = k]
      <4>1. progress[w].deck \in Decks
        BY <1>1 DEF ProgressRow
      <4> QED
        BY <3>1, <4>1 DEF MoveWord
    <3> QED
      BY <1>1, <3>1, <3>2 DEF MoveWord, ProgressRow
  <2> QED
    BY <2>1, <2>2, <2>3
<1>3. used' \in [Budgets -> Nat]
  BY CountTyped DEF StartWord, Unstart, MoveWord, Budgets
<1>4. UNCHANGED <<now, user, log, activity, ledger, told, pc, work, userLock>>
  BY DEF StartWord, Unstart, MoveWord
<1> QED
  BY <1>2, <1>3, <1>4 DEF Typed, TypeOK, Place

LEMMA TypedTick ==
    ASSUME Typed, Tick
    PROVE  Typed'
<1>1. now' \in FirstTick..LastTick
  BY ClockAssumption DEF Tick, Typed, TypeOK
<1> QED
  BY <1>1 DEF Tick, Typed, TypeOK, Place, rows

LEMMA TypedNext == Typed /\ [Next]_vars => Typed'
<1> SUFFICES ASSUME Typed, [Next]_vars PROVE Typed'
  OBVIOUS
<1>1. CASE \E p \in Devices : Begin(p) \/ Step(p) \/ Abort(p)
  <2> PICK p \in Devices : Begin(p) \/ Step(p) \/ Abort(p)
    BY <1>1
  <2>1. CASE Begin(p)
    BY <2>1, TypedBegin
  <2>2. CASE Step(p)
    BY <2>2, TypedRead, TypedPassing, TypedNote, TypedSettleDay, TypedLook, TypedClaim,
       TypedCommitGrade, TypedCommitFinish, TypedCommitBox, TypedCommitStreak, TypedCommitClaim
       DEF Step
  <2>3. CASE Abort(p)
    BY <2>3, TypedAbort
  <2> QED
    BY <2>1, <2>2, <2>3
<1>2. CASE \E w \in Words : StartWord(w) \/ Unstart(w) \/ \E deck \in Decks : MoveWord(w, deck)
  BY <1>2, TypedEdit
<1>3. CASE Tick
  BY <1>3, TypedTick
<1>4. CASE UNCHANGED vars
  BY <1>4 DEF Typed, TypeOK, Place, vars
<1> QED
  BY <1>1, <1>2, <1>3, <1>4 DEF Next

\* Every variable keeps to its domain, whatever a learner's devices ask for in
\* whatever order (all of study_service.py's requests).
THEOREM TypeCorrect == Spec => []TypeOK
<1>1. Typed => TypeOK
  BY DEF Typed
<1> QED
  BY <1>1, TypedInit, TypedNext, PTL DEF Spec

(***************************************************************************)
(* What is won, paid and told                                              *)
(***************************************************************************)

\* The banked date is the last day paid.
LastWon ==
    IF WonDays = {} THEN user.banked = Never
    ELSE user.banked \in WonDays /\ \A e \in WonDays : e <= user.banked

\* The user a request has loaded was true once, and days won stay won.
LoadedUser(p) ==
    /\ work[p].user.streak <= Cardinality(WonDays)
    /\ work[p].user.banked = Never \/ work[p].user.banked \in WonDays

\* A claim about to be granted holds the user row, and nobody has been told.
Claiming(p) ==
    pc[p] = "commit" /\ work[p].op = "celebrate" =>
        /\ userLock = p
        /\ work[p].wins => user.celebrated < Today(p) /\ Today(p) \in WonDays

\* A day told to a client was told once, was won, and is behind the guard of
\* claim_goal_celebration's UPDATE.
Told(d) == told[d] # 0 => told[d] = 1 /\ d <= user.celebrated /\ d \in WonDays

Accounts ==
    /\ Typed
    /\ XpAgrees
    /\ GoalPaidOnce
    /\ user.streak <= Cardinality(WonDays)
    /\ LastWon
    /\ \A p \in Devices : LoadedUser(p) /\ Claiming(p)
    /\ \A d \in Days : Told(d)

LEMMA WonDaysFinite == IsFiniteSet(WonDays) /\ Cardinality(WonDays) \in Nat
<1>1. LastTick \in FirstTick..LastTick
  BY ClockAssumption
<1>2. DayOf(LastTick) \in Int
  BY <1>1, DayInDays DEF Days
<1>3. IsFiniteSet(Days)
  BY <1>2, FS_Interval DEF Days
<1>4. IsFiniteSet(WonDays)
  BY <1>3, FS_Subset DEF WonDays
<1> QED
  BY <1>4, FS_CardinalityType

LEMMA AccountsInit == Init => Accounts
<1> SUFFICES ASSUME Init PROVE Accounts
  OBVIOUS
<1>1. Typed
  BY TypedInit
<1>2. user.xp = 0 /\ ledger.points = 0 /\ \A d \in Days : ledger.goals[d] <= 1 /\ told[d] = 0
  BY DEF Init, NewLearner, Veteran, Opening
<1>3. user.streak <= Cardinality(WonDays) /\ LastWon
  <2>1. CASE user = NewLearner /\ ledger = Opening({})
    <3>1. WonDays = {}
      BY <2>1 DEF WonDays, Opening
    <3> QED
      BY <2>1, <3>1, WonDaysFinite DEF LastWon, NewLearner
  <2>2. CASE \E h \in Histories : user = Veteran(h) /\ ledger = Opening(WonBefore(h))
    <3> PICK h \in Histories : user = Veteran(h) /\ ledger = Opening(WonBefore(h))
      BY <2>2
    <3>1. /\ h.streak \in Nat \ {0} /\ h.last \in Nat /\ h.streak <= h.last
          /\ h.last < DayOf(FirstTick)
      BY HistoriesAssumption
    <3>2. FirstTick \in FirstTick..LastTick /\ LastTick \in FirstTick..LastTick
      BY ClockAssumption
    <3>3. DayOf(FirstTick) \in Days /\ DayOf(LastTick) \in Days
      BY <3>2, DayInDays
    <3>4. DayOf(FirstTick) <= DayOf(LastTick) /\ DayOf(FirstTick) \in Int /\ DayOf(LastTick) \in Int
      BY <3>3 DEF Days
    <3>5. WonBefore(h) \subseteq Days
      BY <3>1, <3>4 DEF WonBefore, Days
    <3>6. WonDays = WonBefore(h)
      BY <3>5 DEF WonDays, Opening
    <3>7. Cardinality(WonDays) = h.streak
      <4>1. h.last - h.streak + 1 \in Int /\ h.last \in Int /\ h.last - h.streak + 1 <= h.last
        BY <3>1
      <4>2. Cardinality((h.last - h.streak + 1)..h.last) = h.last - (h.last - h.streak + 1) + 1
        BY <4>1, FS_Interval
      <4> QED
        BY <3>1, <3>6, <4>2 DEF WonBefore
    <3>8. h.last \in WonDays /\ \A e \in WonDays : e <= h.last
      BY <3>1, <3>6 DEF WonBefore
    <3> QED
      BY <3>1, <3>7, <3>8 DEF LastWon, Veteran
  <2> QED
    BY <2>1, <2>2 DEF Init
<1>4. \A p \in Devices : LoadedUser(p) /\ Claiming(p)
  BY WonDaysFinite DEF Init, LoadedUser, Claiming, NoRequest, NewLearner
<1> QED
  BY <1>1, <1>2, <1>3, <1>4 DEF Accounts, XpAgrees, GoalPaidOnce, Told

\* Paying for an answer or a session: the points go to both accounts, the
\* goal is paid to a day that has none, and banking follows the paying.
LEMMA CollectAccounts ==
    ASSUME Accounts, NEW p \in Devices, pc[p] # "idle", Collect(p)
    PROVE  /\ XpAgrees' /\ GoalPaidOnce'
           /\ user'.streak <= Cardinality(WonDays') /\ LastWon'
           /\ WonDays \subseteq WonDays' /\ Cardinality(WonDays) <= Cardinality(WonDays')
           /\ user'.celebrated = user.celebrated
<1> DEFINE today == Today(p)
           paid == [user EXCEPT !.xp = @ + Paid(p),
                                !.studied = IF work[p].noted THEN today ELSE @]
<1>1. today \in Days /\ today \in Nat /\ today # Never
  BY TodayType, DaysAreNat DEF Accounts
<1>2. /\ user \in UserRow /\ ledger \in [points : Nat, goals : [Days -> Nat]]
      /\ Paid(p) \in Nat /\ user.xp \in Nat /\ user.studied \in Nat /\ user.streak \in Nat
      /\ user.banked \in Nat
  BY PaidType DEF Accounts, Typed, TypeOK, UserRow
<1>3. /\ paid \in UserRow /\ paid.xp = user.xp + Paid(p) /\ paid.streak = user.streak
      /\ paid.banked = user.banked /\ paid.celebrated = user.celebrated
  <2>1. PICK n \in Nat : n = user.xp + Paid(p)
    BY <1>2
  <2>2. PICK d \in Nat : d = IF work[p].noted THEN today ELSE user.studied
    BY <1>1, <1>2
  <2>3. paid = [user EXCEPT !.xp = n, !.studied = d]
    BY <2>1, <2>2
  <2> QED
    BY <1>2, <2>1, <2>3 DEF UserRow
<1>4. user' = IF work[p].pays THEN BankDay(paid, today) ELSE paid
  BY DEF Collect, UserAfter
<1>5. /\ ledger'.points = ledger.points + Paid(p)
      /\ ledger'.goals = [ledger.goals EXCEPT ![today] = IF GoalInserted(p) THEN @ + 1 ELSE @]
  BY DEF Collect
<1> HIDE DEF today, paid
<1>6. XpAgrees' /\ user'.celebrated = user.celebrated
  BY <1>1, <1>2, <1>3, <1>4, <1>5, BankDayType DEF XpAgrees, Accounts
<1>7. GoalInserted(p) => ledger.goals[today] = 0
  BY DEF GoalInserted, today
<1>8. GoalPaidOnce'
  BY <1>1, <1>2, <1>5, <1>7 DEF GoalPaidOnce, Accounts
<1>9. WonDays' = IF work[p].pays THEN WonDays \cup {today} ELSE WonDays
  <2>1. CASE GoalInserted(p)
    BY <1>1, <1>2, <1>5, <1>7, <2>1 DEF WonDays, GoalInserted
  <2>2. CASE ~GoalInserted(p) /\ ~work[p].pays
    BY <1>2, <1>5, <2>2 DEF WonDays
  <2>3. CASE ~GoalInserted(p) /\ work[p].pays
    <3>1. ledger.goals[today] > 0
      BY <1>1, <1>2, <2>3 DEF GoalInserted, today
    <3> QED
      BY <1>1, <1>2, <1>5, <2>3, <3>1 DEF WonDays
  <2> QED
    BY <2>1, <2>2, <2>3
<1>10. /\ IsFiniteSet(WonDays) /\ Cardinality(WonDays) \in Nat
       /\ Cardinality(WonDays \cup {today}) =
            IF today \in WonDays THEN Cardinality(WonDays) ELSE Cardinality(WonDays) + 1
  BY WonDaysFinite, FS_AddElement
<1>11. WonDays \subseteq Nat /\ Never \notin WonDays
  BY DaysAreNat DEF WonDays
<1>12. user.streak <= Cardinality(WonDays) /\ LastWon
  BY DEF Accounts
<1>13. user'.streak <= Cardinality(WonDays') /\ LastWon'
  <2>1. CASE ~work[p].pays
    <3>1. user'.streak = user.streak /\ user'.banked = user.banked /\ WonDays' = WonDays
      BY <1>3, <1>4, <1>9, <2>1
    <3> QED
      BY <1>12, <3>1 DEF LastWon
  <2>2. CASE work[p].pays /\ user.banked # Never /\ user.banked >= today
    <3>1. user'.streak = user.streak /\ user'.banked = user.banked
      BY <1>1, <1>3, <1>4, <2>2, BankDayType
    <3>2. WonDays' = WonDays \cup {today}
      BY <1>9, <2>2
    <3>3. user.banked \in WonDays /\ \A e \in WonDays' : e <= user.banked
      BY <1>12, <2>2, <3>2 DEF LastWon
    <3> QED
      BY <1>2, <1>10, <1>12, <3>1, <3>2, <3>3 DEF LastWon
  <2>3. CASE work[p].pays /\ ~(user.banked # Never /\ user.banked >= today)
    <3>1. user'.streak \in Nat /\ user'.streak <= user.streak + 1 /\ user'.banked = today
      BY <1>1, <1>3, <1>4, <2>3, BankDayType DEF UserRow
    <3>2. WonDays' = WonDays \cup {today}
      BY <1>9, <2>3
    <3>3. \A e \in WonDays : e < today
      BY <1>1, <1>2, <1>11, <1>12, <2>3 DEF LastWon
    <3>4. today \notin WonDays
      BY <1>1, <3>3
    <3> QED
      BY <1>1, <1>2, <1>10, <1>11, <1>12, <3>1, <3>2, <3>3, <3>4 DEF LastWon
  <2> QED
    BY <2>1, <2>2, <2>3
<1> QED
  BY <1>6, <1>8, <1>9, <1>10, <1>13

\* A request that is not the one that moves.
LEMMA Bystander ==
    ASSUME Accounts, NEW p \in Devices, NEW q \in Devices \ {p},
           pc'[q] = pc[q], work'[q] = work[q],
           userLock' = userLock \/ userLock \in {Free, p},
           WonDays \subseteq WonDays', Cardinality(WonDays) <= Cardinality(WonDays'),
           Cardinality(WonDays') \in Nat,
           userLock = q => user'.celebrated = user.celebrated
    PROVE  LoadedUser(q)' /\ Claiming(q)'
<1>1. LoadedUser(q) /\ Claiming(q) /\ work[q].user \in UserRow
  BY DEF Accounts, Typed, TypeOK, Request
<1>2. LoadedUser(q)'
  BY <1>1, WonDaysFinite DEF LoadedUser, UserRow
<1>3. Claiming(q)'
  <2> SUFFICES ASSUME pc[q] = "commit", work[q].op = "celebrate"
               PROVE  /\ userLock' = q
                      /\ work[q].wins => user'.celebrated < Today(q) /\ Today(q) \in WonDays'
    BY DEF Claiming, Today
  <2>1. userLock = q
    BY <1>1 DEF Claiming
  <2>2. q # Free
    BY DevicesAssumption DEF Free
  <2> QED
    BY <1>1, <2>1, <2>2 DEF Claiming
<1> QED
  BY <1>2, <1>3

\* A step that touches no row, once the moving request is seen to.
LEMMA QuietAccounts ==
    ASSUME Accounts, Typed', NEW p \in Devices, UNCHANGED <<user, ledger, told>>,
           \A q \in Devices \ {p} : pc'[q] = pc[q] /\ work'[q] = work[q],
           userLock' = userLock \/ userLock \in {Free, p},
           LoadedUser(p)', Claiming(p)'
    PROVE  Accounts'
<1>1. WonDays' = WonDays
  BY DEF WonDays
<1>2. \A q \in Devices \ {p} : LoadedUser(q)' /\ Claiming(q)'
  <2>1. WonDays \subseteq WonDays' /\ Cardinality(WonDays') = Cardinality(WonDays)
        /\ Cardinality(WonDays) \in Nat /\ Cardinality(WonDays) <= Cardinality(WonDays)
    BY <1>1, WonDaysFinite
  <2> QED
    BY <2>1, Bystander
<1> QED
  BY <1>1, <1>2 DEF Accounts, XpAgrees, GoalPaidOnce, LastWon, Told

\* The other requests, when p's record changes to r and p goes to label.
LEMMA Others ==
    ASSUME Accounts, NEW p \in Devices, NEW label, NEW r,
           Goto(p, label), work' = [work EXCEPT ![p] = r]
    PROVE  /\ \A q \in Devices \ {p} : pc'[q] = pc[q] /\ work'[q] = work[q]
           /\ pc'[p] = label /\ work'[p] = r
BY DEF Goto, Accounts, Typed, TypeOK

LEMMA AccountsLeave ==
    ASSUME Accounts, NEW p \in Devices, Leave(p), Cardinality(WonDays') \in Nat
    PROVE  /\ \A q \in Devices \ {p} : pc'[q] = pc[q] /\ work'[q] = work[q]
           /\ LoadedUser(p)' /\ Claiming(p)'
<1>1. /\ \A q \in Devices \ {p} : pc'[q] = pc[q] /\ work'[q] = work[q]
      /\ pc'[p] = "idle" /\ work'[p] = NoRequest
  BY Others DEF Leave
<1> QED
  BY <1>1 DEF LoadedUser, Claiming, NoRequest, NewLearner

LEMMA WonDaysFinitePrime ==
    ASSUME Typed'
    PROVE  Cardinality(WonDays') \in Nat
<1>1. LastTick \in FirstTick..LastTick
  BY ClockAssumption
<1>2. DayOf(LastTick) \in Int
  BY <1>1, DayInDays DEF Days
<1>3. IsFiniteSet(Days)
  BY <1>2, FS_Interval DEF Days
<1>4. WonDays' \subseteq Days
  BY DEF WonDays
<1> QED
  BY <1>3, <1>4, FS_Subset, FS_CardinalityType

LEMMA AccountsBegin ==
    ASSUME Accounts, Typed', NEW p \in Devices, Begin(p)
    PROVE  Accounts'
<1> PICK r \in Requests :
        /\ work' = [work EXCEPT ![p] =
                      [NoRequest EXCEPT !.op = r.op, !.word = r.word, !.grade = r.grade,
                                        !.box = r.box, !.at = now, !.user = user]]
        /\ Goto(p, CASE r.op \in {"grade", "drill", "box"} -> "read"
                     [] r.op = "finish" -> "award"
                     [] r.op = "celebrate" -> "claim"
                     [] OTHER -> "look")
  BY DEF Begin
<1> DEFINE label == CASE r.op \in {"grade", "drill", "box"} -> "read"
                      [] r.op = "finish" -> "award"
                      [] r.op = "celebrate" -> "claim"
                      [] OTHER -> "look"
           new == [NoRequest EXCEPT !.op = r.op, !.word = r.word, !.grade = r.grade,
                                    !.box = r.box, !.at = now, !.user = user]
<1>1. label # "commit"
  OBVIOUS
<1>2. new.user = user
  BY DEF NoRequest
<1> HIDE DEF label, new
<1>3. Goto(p, label) /\ work' = [work EXCEPT ![p] = new]
  BY DEF label, new
<1>4. /\ \A q \in Devices \ {p} : pc'[q] = pc[q] /\ work'[q] = work[q]
      /\ pc'[p] = label /\ work'[p] = new
  BY <1>3, Others
<1>5. UNCHANGED <<user, ledger, told, userLock>>
  BY DEF Begin, rows
<1>6. LoadedUser(p)'
  BY <1>2, <1>4, <1>5 DEF LoadedUser, Accounts, LastWon, WonDays
<1>7. Claiming(p)'
  BY <1>1, <1>4 DEF Claiming
<1> QED
  BY <1>4, <1>5, <1>6, <1>7, QuietAccounts

\* The statements before a commit that leave the loaded user's streak and
\* banked date alone, or load them again.
LEMMA AccountsStatement ==
    ASSUME Accounts, Typed', NEW p \in Devices,
           \/ Read(p) \/ WriteRow(p) \/ RecordReview(p) \/ NoteStudyDay(p)
           \/ Award(p) \/ SettleDay(p) \/ SettleStreak(p)
    PROVE  Accounts'
<1>1. UNCHANGED <<user, ledger, told>> /\ (userLock' = userLock \/ userLock \in {Free, p})
  BY DEF Read, WriteRow, RecordReview, NoteStudyDay, Award, SettleDay, SettleStreak, rows, UserFree
<1>2. pc \in [Devices -> PCs] /\ work \in [Devices -> Request] /\ Place(p) /\ LoadedUser(p)
  BY DEF Accounts, Typed, TypeOK
<1>3. CASE Leave(p)
  BY <1>1, <1>3, AccountsLeave, WonDaysFinitePrime, QuietAccounts
<1>4. CASE ~Leave(p)
  <2>1. \A q \in Devices \ {p} : pc'[q] = pc[q] /\ work'[q] = work[q]
    BY <1>2, <1>4 DEF Read, WriteRow, RecordReview, NoteStudyDay, Award, SettleDay, SettleStreak, Goto
  <2>2. /\ work'[p].op = work[p].op
        /\ \/ work'[p].user = work[p].user
           \/ work'[p].user.streak = user.streak /\ work'[p].user.banked = user.banked
    <3>1. CASE NoteStudyDay(p)
      <4>1. user \in UserRow
        BY DEF Accounts, Typed, TypeOK
      <4> QED
        BY <1>2, <3>1, <4>1 DEF NoteStudyDay, Request, UserRow
    <3>2. CASE Read(p) \/ SettleDay(p)
      BY <1>2, <1>4, <3>2 DEF Read, SettleDay, Request
    <3>3. CASE WriteRow(p) \/ RecordReview(p) \/ Award(p) \/ SettleStreak(p)
      BY <3>3 DEF WriteRow, RecordReview, Award, SettleStreak
    <3> QED
      BY <3>1, <3>2, <3>3
  <2>3. LoadedUser(p)'
    BY <1>1, <1>2, <2>2 DEF LoadedUser, Accounts, LastWon, WonDays
  <2>4. pc'[p] = "commit" => work[p].op # "celebrate"
    BY <1>2, <1>4 DEF Place, Read, WriteRow, RecordReview, NoteStudyDay, Award, SettleDay, SettleStreak,
       Goto, Grading
  <2> QED
    BY <1>1, <2>1, <2>2, <2>3, <2>4, QuietAccounts DEF Claiming
<1> QED
  BY <1>3, <1>4

LEMMA AccountsLook ==
    ASSUME Accounts, Typed', NEW p \in Devices, Look(p)
    PROVE  Accounts'
<1>1. UNCHANGED <<user, ledger, told, userLock>> /\ pc[p] = "look"
  BY DEF Look, rows
<1>2. CASE Leave(p)
  BY <1>1, <1>2, AccountsLeave, WonDaysFinitePrime, QuietAccounts
<1>3. CASE ~Leave(p)
  <2> DEFINE due == IF work[p].op = "overview" THEN Cardinality(DueCards(progress, now)) ELSE Unknown
             settled == Settle(work[p].user, DayOf(now), due)
  <2>1. Goto(p, "streak") /\ work' = [work EXCEPT ![p].user = settled]
    BY <1>3 DEF Look
  <2>2. work[p] \in Request /\ work \in [Devices -> Request] /\ DayOf(now) \in Nat /\ LoadedUser(p)
    BY DayInDays, DaysAreNat DEF Accounts, Typed, TypeOK
  <2>3. settled.streak <= work[p].user.streak /\ settled.banked = work[p].user.banked
        /\ settled \in UserRow
    BY <2>2, SettleType DEF Request
  <2> HIDE DEF settled
  <2>4. /\ \A q \in Devices \ {p} : pc'[q] = pc[q] /\ work'[q] = work[q]
        /\ pc'[p] = "streak" /\ work'[p].user = settled
    BY <2>1, <2>2 DEF Goto, Accounts, Typed, TypeOK, Request
  <2>5. WonDays' = WonDays /\ Cardinality(WonDays) \in Nat
    BY <1>1, WonDaysFinite DEF WonDays
  <2>6. LoadedUser(p)' /\ Claiming(p)'
    BY <2>2, <2>3, <2>4, <2>5 DEF LoadedUser, Claiming, Request, UserRow
  <2> QED
    BY <1>1, <2>4, <2>6, QuietAccounts
<1> QED
  BY <1>2, <1>3

\* The claim's guarded UPDATE: the user row is locked from here to the commit.
LEMMA AccountsClaim ==
    ASSUME Accounts, Typed', NEW p \in Devices, Claim(p)
    PROVE  Accounts'
<1>1. UNCHANGED <<user, ledger, told>> /\ pc[p] = "claim"
  BY DEF Claim, rows
<1>2. CASE work[p].user.banked # Today(p)
  <2>1. Leave(p) /\ UNCHANGED userLock
    BY <1>2 DEF Claim
  <2> QED
    BY <1>1, <2>1, AccountsLeave, WonDaysFinitePrime, QuietAccounts
<1>3. CASE work[p].user.banked = Today(p)
  <2>1. /\ userLock' = p /\ Goto(p, "commit")
        /\ work' = [work EXCEPT ![p].wins = user.celebrated < Today(p)]
    BY <1>3 DEF Claim
  <2>2. pc \in [Devices -> PCs] /\ work \in [Devices -> Request] /\ LoadedUser(p)
    BY DEF Accounts, Typed, TypeOK
  <2>3. Today(p) \in WonDays
    BY <1>1, <1>3, <2>2, TodayType, DaysAreNat DEF LoadedUser, Accounts
  <2>4. /\ \A q \in Devices \ {p} : pc'[q] = pc[q] /\ work'[q] = work[q]
        /\ work'[p].user = work[p].user /\ work'[p].at = work[p].at
        /\ work'[p].wins = (user.celebrated < Today(p))
    BY <2>1, <2>2 DEF Goto, Request
  <2>5. WonDays' = WonDays /\ Today(p)' = Today(p)
    BY <1>1, <2>4 DEF WonDays, Today
  <2>6. LoadedUser(p)'
    BY <2>2, <2>4, <2>5 DEF LoadedUser
  <2>7. Claiming(p)'
    <3>1. (userLock = p)' /\ (Today(p) \in WonDays)'
      BY <2>1, <2>3, <2>5
    <3>2. (work[p].wins => user.celebrated < Today(p))'
      BY <1>1, <2>4, <2>5
    <3> QED
      BY <3>1, <3>2 DEF Claiming
  <2>8. userLock' = userLock \/ userLock \in {Free, p}
    BY <1>3 DEF Claim, UserFree
  <2> QED
    BY <1>1, <2>4, <2>6, <2>7, <2>8, QuietAccounts
<1> QED
  BY <1>2, <1>3

LEMMA AccountsAbort ==
    ASSUME Accounts, Typed', NEW p \in Devices, Abort(p) \/ CommitBox(p)
    PROVE  Accounts'
<1>1. UNCHANGED <<user, ledger, told>> /\ Done(p)
  BY DEF Abort, CommitBox, rows
<1>2. Leave(p) /\ (userLock' = userLock \/ userLock = p)
  BY <1>1 DEF Done
<1> QED
  BY <1>1, <1>2, AccountsLeave, WonDaysFinitePrime, QuietAccounts

\* An answer or a session is paid for as it commits.
LEMMA AccountsCollect ==
    ASSUME Accounts, Typed', NEW p \in Devices, CommitGrade(p) \/ CommitFinish(p)
    PROVE  Accounts'
<1>1. Collect(p) /\ Done(p) /\ UNCHANGED told /\ pc[p] # "idle"
  BY DEF CommitGrade, CommitFinish
<1>2. Leave(p) /\ (userLock' = userLock \/ userLock = p)
  BY <1>1 DEF Done
<1>3. /\ XpAgrees' /\ GoalPaidOnce'
      /\ user'.streak <= Cardinality(WonDays') /\ LastWon'
      /\ WonDays \subseteq WonDays' /\ Cardinality(WonDays) <= Cardinality(WonDays')
      /\ user'.celebrated = user.celebrated
  BY <1>1, CollectAccounts
<1>4. Cardinality(WonDays') \in Nat
  BY WonDaysFinitePrime
<1>5. /\ \A q \in Devices \ {p} : pc'[q] = pc[q] /\ work'[q] = work[q]
      /\ LoadedUser(p)' /\ Claiming(p)'
  BY <1>2, <1>4, AccountsLeave
<1>6. \A q \in Devices \ {p} : LoadedUser(q)' /\ Claiming(q)'
  BY <1>2, <1>3, <1>4, <1>5, Bystander
<1>7. \A d \in Days : Told(d)'
  BY <1>1, <1>3 DEF Accounts, Told
<1> QED
  BY <1>3, <1>5, <1>6, <1>7 DEF Accounts

\* settle_streak writes a streak no longer than one that was true.
LEMMA AccountsCommitStreak ==
    ASSUME Accounts, Typed', NEW p \in Devices, CommitStreak(p)
    PROVE  Accounts'
<1>1. /\ user' = [user EXCEPT !.streak = work[p].user.streak, !.last = work[p].user.last]
      /\ Done(p) /\ UNCHANGED <<ledger, told>>
  BY DEF CommitStreak
<1>2. Leave(p) /\ (userLock' = userLock \/ userLock = p)
  BY <1>1 DEF Done
<1>3. user \in UserRow /\ LoadedUser(p)
  BY DEF Accounts, Typed, TypeOK
<1>4. /\ user'.streak = work[p].user.streak /\ user'.banked = user.banked
      /\ user'.celebrated = user.celebrated /\ user'.xp = user.xp
  BY <1>1, <1>3 DEF UserRow
<1>5. WonDays' = WonDays /\ Cardinality(WonDays) \in Nat
      /\ Cardinality(WonDays) <= Cardinality(WonDays)
  BY <1>1, WonDaysFinite DEF WonDays
<1>6. /\ \A q \in Devices \ {p} : pc'[q] = pc[q] /\ work'[q] = work[q]
      /\ LoadedUser(p)' /\ Claiming(p)'
  BY <1>2, <1>5, AccountsLeave
<1>7. \A q \in Devices \ {p} : LoadedUser(q)' /\ Claiming(q)'
  BY <1>2, <1>4, <1>5, <1>6, Bystander
<1>8. XpAgrees' /\ GoalPaidOnce' /\ user'.streak <= Cardinality(WonDays') /\ LastWon'
  BY <1>1, <1>3, <1>4, <1>5 DEF Accounts, XpAgrees, GoalPaidOnce, LastWon, LoadedUser
<1>9. \A d \in Days : Told(d)'
  BY <1>1, <1>4, <1>5 DEF Accounts, Told
<1> QED
  BY <1>6, <1>7, <1>8, <1>9 DEF Accounts

\* The client that won the claim is told: it alone holds the user row, and a
\* day told before would be behind the guard.
LEMMA AccountsCommitClaim ==
    ASSUME Accounts, Typed', NEW p \in Devices, CommitClaim(p)
    PROVE  Accounts'
<1>1. /\ pc[p] = "commit" /\ work[p].op = "celebrate" /\ Done(p) /\ UNCHANGED ledger
      /\ Claiming(p)
  BY DEF CommitClaim, Accounts
<1>2. Leave(p) /\ userLock = p /\ userLock' = Free
  BY <1>1 DEF Done, Claiming
<1>3. CASE ~work[p].wins
  <2>1. UNCHANGED <<user, told>>
    BY <1>3 DEF CommitClaim
  <2> QED
    BY <1>1, <1>2, <2>1, AccountsLeave, WonDaysFinitePrime, QuietAccounts
<1>4. CASE work[p].wins
  <2> DEFINE today == Today(p)
  <2>1. /\ user' = [user EXCEPT !.celebrated = today]
        /\ told' = [told EXCEPT ![today] = @ + 1]
    BY <1>4 DEF CommitClaim
  <2>2. /\ user \in UserRow /\ user.celebrated \in Nat /\ told \in [Days -> Nat]
        /\ today \in Days /\ today \in Nat /\ user.celebrated < today /\ today \in WonDays
    BY <1>1, <1>4, TodayType, DaysAreNat DEF Accounts, Typed, TypeOK, UserRow, Claiming
  <2> HIDE DEF today
  <2>3. /\ user'.streak = user.streak /\ user'.banked = user.banked /\ user'.xp = user.xp
        /\ user'.celebrated = today
    BY <2>1, <2>2 DEF UserRow
  <2>4. WonDays' = WonDays /\ Cardinality(WonDays) \in Nat
        /\ Cardinality(WonDays) <= Cardinality(WonDays)
    BY <1>1, WonDaysFinite DEF WonDays
  <2>5. /\ \A q \in Devices \ {p} : pc'[q] = pc[q] /\ work'[q] = work[q]
        /\ LoadedUser(p)' /\ Claiming(p)'
    BY <1>2, <2>4, AccountsLeave
  <2>6. \A q \in Devices \ {p} : LoadedUser(q)' /\ Claiming(q)'
    BY <1>2, <2>4, <2>5, Bystander
  <2>7. XpAgrees' /\ GoalPaidOnce' /\ user'.streak <= Cardinality(WonDays') /\ LastWon'
    BY <1>1, <2>3, <2>4 DEF Accounts, XpAgrees, GoalPaidOnce, LastWon
  <2>8. ASSUME NEW d \in Days PROVE Told(d)'
    <3>1. Told(d) /\ d \in Nat
      BY DaysAreNat DEF Accounts
    <3>2. CASE d = today
      <4>1. told[d] = 0
        BY <2>2, <3>1, <3>2 DEF Told
      <4> QED
        BY <2>1, <2>2, <2>3, <2>4, <3>2, <4>1 DEF Told
    <3>3. CASE d # today
      <4>1. told'[d] = told[d]
        BY <2>1, <2>2, <3>3
      <4> QED
        BY <2>2, <2>3, <2>4, <3>1, <4>1 DEF Told
    <3> QED
      BY <3>2, <3>3
  <2> QED
    BY <2>5, <2>6, <2>7, <2>8 DEF Accounts
<1> QED
  BY <1>3, <1>4

\* Steps that no request, no user row and no ledger takes part in.
LEMMA AccountsElsewhere ==
    ASSUME Accounts, Typed', UNCHANGED <<user, ledger, told, pc, work, userLock>>
    PROVE  Accounts'
<1>1. WonDays' = WonDays
  BY DEF WonDays
<1> QED
  BY <1>1 DEF Accounts, XpAgrees, GoalPaidOnce, LastWon, LoadedUser, Claiming, Told, Today

LEMMA AccountsNext == Accounts /\ [Next]_vars => Accounts'
<1> SUFFICES ASSUME Accounts, [Next]_vars PROVE Accounts'
  OBVIOUS
<1>1. Typed'
  BY TypedNext DEF Accounts
<1>2. CASE \E p \in Devices : Begin(p) \/ Step(p) \/ Abort(p)
  <2> PICK p \in Devices : Begin(p) \/ Step(p) \/ Abort(p)
    BY <1>2
  <2>1. CASE Begin(p)
    BY <1>1, <2>1, AccountsBegin
  <2>2. CASE Step(p)
    BY <1>1, <2>2, AccountsStatement, AccountsLook, AccountsClaim, AccountsAbort, AccountsCollect,
       AccountsCommitStreak, AccountsCommitClaim DEF Step
  <2>3. CASE Abort(p)
    BY <1>1, <2>3, AccountsAbort
  <2> QED
    BY <2>1, <2>2, <2>3
<1>3. CASE \E w \in Words : StartWord(w) \/ Unstart(w) \/ \E deck \in Decks : MoveWord(w, deck)
  BY <1>1, <1>3, AccountsElsewhere DEF StartWord, Unstart, MoveWord
<1>4. CASE Tick
  BY <1>1, <1>4, AccountsElsewhere DEF Tick, rows
<1>5. CASE UNCHANGED vars
  BY <1>1, <1>5, AccountsElsewhere DEF vars
<1> QED
  BY <1>2, <1>3, <1>4, <1>5 DEF Next

LEMMA AccountsHold == Spec => []Accounts
BY AccountsInit, AccountsNext, PTL DEF Spec

\* The points of the profile are the sum of the ledger (xp.award's increment in
\* SQL beside its event), whichever requests commit in whichever order.
THEOREM PointsAgree == Spec => []XpAgrees
<1>1. Accounts => XpAgrees
  BY DEF Accounts
<1> QED
  BY <1>1, AccountsHold, PTL

\* No day's goal is paid for twice (once_per_day's partial index).
THEOREM OnePrizeADay == Spec => []GoalPaidOnce
<1>1. Accounts => GoalPaidOnce
  BY DEF Accounts
<1> QED
  BY <1>1, AccountsHold, PTL

\* The streak is never longer than the days that were won, and the banked date
\* is the last of them (bank_day's guard, settle_streak's UPDATE).
THEOREM StreakIsEarned == Spec => []StreakEarned
<1>1. Accounts => StreakEarned
  <2> SUFFICES ASSUME Accounts, WonDays # {}
               PROVE  user.banked = CHOOSE d \in WonDays : \A e \in WonDays : e <= d
    BY DEF Accounts, LastWon, StreakEarned
  <2> DEFINE last == CHOOSE d \in WonDays : \A e \in WonDays : e <= d
  <2>1. user.banked \in WonDays /\ \A e \in WonDays : e <= user.banked
    BY DEF Accounts, LastWon
  <2>2. last \in WonDays /\ \A e \in WonDays : e <= last
    BY <2>1
  <2>3. last \in Nat /\ user.banked \in Nat
    BY <2>1, <2>2, DaysAreNat DEF WonDays
  <2>4. last <= user.banked /\ user.banked <= last
    BY <2>1, <2>2
  <2> HIDE DEF last
  <2>5. user.banked = last
    BY <2>3, <2>4
  <2> QED
    BY <2>5 DEF last
<1> QED
  BY <1>1, AccountsHold, PTL

\* A day is celebrated by one client at most, and only when it was won
\* (claim_goal_celebration's guarded UPDATE).
THEOREM OneCelebration == Spec => []CelebratedOnce
<1>1. Accounts => CelebratedOnce
  <2> SUFFICES ASSUME Accounts, NEW d \in Days
               PROVE  told[d] <= (IF d \in WonDays THEN 1 ELSE 0)
    BY DEF CelebratedOnce
  <2>1. Told(d) /\ told[d] \in Nat
    BY DEF Accounts, Typed, TypeOK
  <2> QED
    BY <2>1 DEF Told
<1> QED
  BY <1>1, AccountsHold, PTL

(***************************************************************************)
(* The history of a card                                                   *)
(***************************************************************************)

\* A row without reviews has no history to lose.
RowSound(r) ==
    /\ ~r.in => r.reviews = 0
    /\ r.reviews = 0 => r.lapses = 0 /\ r.first = Never /\ r.mastered = Never

\* What a request has loaded is no newer than the log.
LoadedRow(p) ==
    RowSound(work[p].row) /\ work[p].row.reviews <= log[work[p].word].reviews

History ==
    /\ Typed
    /\ LogAgrees
    /\ \A w \in Words : RowSound(progress[w])
    /\ \A p \in Devices : LoadedRow(p)

\* What a row with a first answer or a mastery owes to its next version.
Keeps(row, next) ==
    /\ row.first # Never => next.first = row.first
    /\ row.mastered # Never => next.mastered = row.mastered

\* FirstsStand's action.
FirstsKept == \A w \in Words : Keeps(progress[w], progress'[w])

LEMMA NoRowSound ==
    ASSUME NEW w
    PROVE  RowSound(NoRow(w)) /\ NoRow(w).reviews = 0 /\ NoRow(w).lapses = 0
BY DEF NoRow, Unstudied, RowSound

LEMMA NoRequestSound == RowSound(NoRequest.row) /\ NoRequest.row.reviews = 0
BY NoRowSound DEF NoRequest

LEMMA HistoryInit == Init => History
<1> SUFFICES ASSUME Init PROVE History
  OBVIOUS
<1>1. Typed
  BY TypedInit
<1>2. LogAgrees /\ \A w \in Words : RowSound(progress[w])
  BY NoRowSound DEF Init, LogAgrees
<1>3. \A p \in Devices : LoadedRow(p)
  BY <1>1, NoRequestSound DEF Init, LoadedRow, Typed, TypeOK, Request
<1> QED
  BY <1>1, <1>2, <1>3 DEF History

\* A grade adds one answer to the row that is there; to a row that is gone by
\* then, the one it loaded was as empty.
LEMMA GradedHistory ==
    ASSUME History, NEW p \in Devices
    PROVE  LET row == progress[work[p].word]
               next == Graded(p, row)
           IN /\ next.reviews = row.reviews + 1
              /\ next.lapses = row.lapses + (IF IsLapse(work[p].grade) THEN 1 ELSE 0)
              /\ RowSound(next) /\ Keeps(row, next)
<1> DEFINE w == work[p].word
           row == progress[w]
           r == work[p].row
           next == Graded(p, row)
<1>1. /\ w \in Words /\ row \in ProgressRow /\ r \in ProgressRow /\ RowSound(row) /\ RowSound(r)
      /\ row.reviews = log[w].reviews /\ r.reviews <= row.reviews
  BY DEF History, Typed, TypeOK, Request, LoadedRow, LogAgrees
<1>2. ~row.in => r.reviews = row.reviews /\ r.lapses = row.lapses
  BY <1>1 DEF RowSound, ProgressRow
<1>3. /\ next.in /\ next.reviews = (IF row.in THEN row ELSE r).reviews + 1
      /\ next.lapses = (IF row.in THEN row ELSE r).lapses + (IF IsLapse(work[p].grade) THEN 1 ELSE 0)
      /\ row.in /\ row.first # Never => next.first = row.first
      /\ row.in /\ row.mastered # Never => next.mastered = row.mastered
  BY DEF Graded
<1> HIDE DEF row, r, next
<1>4. next.reviews = row.reviews + 1
      /\ next.lapses = row.lapses + (IF IsLapse(work[p].grade) THEN 1 ELSE 0)
  BY <1>2, <1>3
<1>5. RowSound(next)
  BY <1>1, <1>3, <1>4 DEF RowSound, ProgressRow
<1>6. Keeps(row, next)
  BY <1>1, <1>3 DEF Keeps, RowSound
<1> QED
  BY <1>4, <1>5, <1>6 DEF row, next, w

\* A move by hand leaves the history alone.
LEMMA MovedHistory ==
    ASSUME History, NEW p \in Devices
    PROVE  LET row == progress[work[p].word]
               next == Moved(p, row)
           IN /\ next.reviews = row.reviews /\ next.lapses = row.lapses
              /\ RowSound(next) /\ Keeps(row, next)
<1> DEFINE w == work[p].word
           row == progress[w]
           r == work[p].row
           base == IF row.in THEN row ELSE r
           next == Moved(p, row)
<1>1. /\ w \in Words /\ row \in ProgressRow /\ r \in ProgressRow /\ RowSound(row) /\ RowSound(r)
      /\ row.reviews = log[w].reviews /\ r.reviews <= row.reviews
  BY DEF History, Typed, TypeOK, Request, LoadedRow, LogAgrees
<1>2. base \in ProgressRow /\ RowSound(base)
      /\ base.reviews = row.reviews /\ base.lapses = row.lapses /\ Keeps(row, base)
  BY <1>1 DEF RowSound, ProgressRow, Keeps
<1>3. next = [base EXCEPT !.in = TRUE, !.deck = work[p].row.deck, !.box = work[p].box,
                          !.due = DayStart(work[p].at) + Interval(work[p].box)]
  BY DEF Moved
<1> HIDE DEF row, r, base, next
<1>4. /\ next.in /\ next.reviews = base.reviews /\ next.lapses = base.lapses
      /\ next.first = base.first /\ next.mastered = base.mastered
  BY <1>2, <1>3 DEF ProgressRow
<1>5. RowSound(next)
  BY <1>2, <1>4 DEF RowSound
<1>6. Keeps(row, next)
  BY <1>2, <1>4 DEF Keeps
<1> QED
  BY <1>2, <1>4, <1>5, <1>6 DEF row, next, w

\* What requests have loaded stays true while the log only grows.
LEMMA LoadedRows ==
    ASSUME History, Typed', \A w \in Words : log[w].reviews <= log'[w].reviews,
           \A p \in Devices : \/ work'[p].row = work[p].row /\ work'[p].word = work[p].word
                              \/ work'[p] = NoRequest
    PROVE  \A p \in Devices : LoadedRow(p)'
<1> TAKE p \in Devices
<1>1. /\ work[p].word \in Words /\ work'[p].word \in Words
      /\ log \in [Words -> [reviews : Nat, lapses : Nat]]
      /\ log' \in [Words -> [reviews : Nat, lapses : Nat]]
      /\ work[p].row \in ProgressRow /\ LoadedRow(p)
  BY DEF History, Typed, TypeOK, Request
<1>2. CASE work'[p].row = work[p].row /\ work'[p].word = work[p].word
  BY <1>1, <1>2 DEF LoadedRow, ProgressRow
<1>3. CASE work'[p] = NoRequest
  BY <1>1, <1>3, NoRequestSound DEF LoadedRow
<1> QED
  BY <1>2, <1>3

\* A request that ends.
LEMMA LeaveRows ==
    ASSUME History, NEW p \in Devices, Leave(p)
    PROVE  \A q \in Devices : \/ work'[q].row = work[q].row /\ work'[q].word = work[q].word
                              \/ work'[q] = NoRequest
BY DEF Leave, History, Typed, TypeOK

\* A step that changes no card's row and writes no log.
LEMMA HistoryQuiet ==
    ASSUME History, Typed', UNCHANGED <<progress, log>>, \A p \in Devices : LoadedRow(p)'
    PROVE  History' /\ FirstsKept
BY DEF History, LogAgrees, FirstsKept, Keeps

LEMMA HistorySame ==
    ASSUME History, Typed', UNCHANGED <<progress, log>>,
           \A p \in Devices : \/ work'[p].row = work[p].row /\ work'[p].word = work[p].word
                              \/ work'[p] = NoRequest
    PROVE  History' /\ FirstsKept
<1>1. \A w \in Words : log[w].reviews <= log'[w].reviews
  BY DEF History, Typed, TypeOK
<1>2. \A p \in Devices : LoadedRow(p)'
  BY <1>1, LoadedRows
<1> QED
  BY <1>2, HistoryQuiet

LEMMA HistoryBegin ==
    ASSUME History, Typed', NEW p \in Devices, Begin(p)
    PROVE  History' /\ FirstsKept
<1>1. UNCHANGED <<progress, log>>
  BY DEF Begin, rows
<1>2. /\ work'[p].row = NoRequest.row
      /\ \A q \in Devices \ {p} : work'[q] = work[q]
  <2>1. PICK r \in Requests :
            work' = [work EXCEPT ![p] =
                      [NoRequest EXCEPT !.op = r.op, !.word = r.word, !.grade = r.grade,
                                        !.box = r.box, !.at = now, !.user = user]]
    BY DEF Begin
  <2> QED
    BY <2>1, NoRequestType DEF History, Typed, TypeOK, Request
<1>3. LoadedRow(p)'
  BY <1>1, <1>2, NoRequestSound DEF LoadedRow, History, Typed, TypeOK, Request
<1>4. \A q \in Devices \ {p} : LoadedRow(q)'
  BY <1>1, <1>2 DEF LoadedRow, History
<1> QED
  BY <1>1, <1>3, <1>4, HistoryQuiet

LEMMA HistoryRead ==
    ASSUME History, Typed', NEW p \in Devices, Read(p)
    PROVE  History' /\ FirstsKept
<1>1. UNCHANGED <<progress, log>>
  BY DEF Read, rows
<1>2. CASE Leave(p)
  BY <1>1, <1>2, LeaveRows, HistorySame
<1>3. CASE ~Leave(p)
  <2> DEFINE w == work[p].word
             row == IF progress[w].in THEN progress[w] ELSE Unstudied(w, home[w], UtcDayStart(now))
  <2>1. work[p] \in Request /\ w \in Words /\ work \in [Devices -> Request]
    BY DEF History, Typed, TypeOK, Request
  <2>2. RowSound(row) /\ row.reviews <= log[w].reviews
    BY <2>1 DEF History, LogAgrees, RowSound, Unstudied, Typed, TypeOK
  <2>3. work' = [work EXCEPT ![p].at = now, ![p].row = row, ![p].deck = home[w],
                             ![p].due = Started(w, row) /\ row.due < DayEnd(now)]
    BY <1>3 DEF Read
  <2> HIDE DEF row
  <2>4. work'[p].row = row /\ work'[p].word = w /\ \A q \in Devices \ {p} : work'[q] = work[q]
    BY <2>1, <2>3 DEF Request
  <2>5. LoadedRow(p)'
    BY <1>1, <2>2, <2>4 DEF LoadedRow
  <2>6. \A q \in Devices \ {p} : LoadedRow(q)'
    BY <1>1, <2>4 DEF LoadedRow, History
  <2> QED
    BY <1>1, <2>5, <2>6, HistoryQuiet
<1> QED
  BY <1>2, <1>3

\* Statements and commits that leave every card alone.
LEMMA HistoryStatement ==
    ASSUME History, Typed', NEW p \in Devices,
           \/ WriteRow(p) \/ RecordReview(p) \/ NoteStudyDay(p) \/ Award(p) \/ SettleDay(p)
           \/ Look(p) \/ SettleStreak(p) \/ Claim(p)
           \/ CommitFinish(p) \/ CommitStreak(p) \/ CommitClaim(p) \/ Abort(p)
    PROVE  History' /\ FirstsKept
<1>1. UNCHANGED <<progress, log>>
  BY DEF WriteRow, RecordReview, NoteStudyDay, Award, SettleDay, Look, SettleStreak, Claim,
         CommitFinish, CommitStreak, CommitClaim, Abort, rows
<1>2. work \in [Devices -> Request]
  BY DEF History, Typed, TypeOK
<1>3. CASE Leave(p)
  BY <1>1, <1>3, LeaveRows, HistorySame
<1>4. CASE ~Leave(p)
  <2>1. \A q \in Devices : work'[q].row = work[q].row /\ work'[q].word = work[q].word
    <3>1. CASE WriteRow(p) \/ RecordReview(p) \/ Award(p) \/ SettleStreak(p)
      BY <3>1 DEF WriteRow, RecordReview, Award, SettleStreak
    <3>2. CASE NoteStudyDay(p)
      BY <1>2, <3>2 DEF NoteStudyDay, Request
    <3>3. CASE SettleDay(p)
      BY <1>2, <3>3 DEF SettleDay, Request
    <3>4. CASE Look(p)
      BY <1>2, <1>4, <3>4 DEF Look, Request
    <3>5. CASE Claim(p)
      BY <1>2, <1>4, <3>5 DEF Claim, Request
    <3> QED
      BY <1>4, <3>1, <3>2, <3>3, <3>4, <3>5 DEF CommitFinish, CommitStreak, CommitClaim, Abort, Done
  <2> QED
    BY <1>1, <2>1, HistorySame
<1> QED
  BY <1>3, <1>4

\* A step that writes one card's row.
LEMMA HistoryWrite ==
    ASSUME History, Typed', NEW w \in Words, NEW next,
           progress' = [progress EXCEPT ![w] = next],
           next.reviews = log'[w].reviews, next.lapses = log'[w].lapses,
           log[w].reviews <= log'[w].reviews,
           \A v \in Words \ {w} : log'[v] = log[v],
           RowSound(next), Keeps(progress[w], next),
           \A p \in Devices : \/ work'[p].row = work[p].row /\ work'[p].word = work[p].word
                              \/ work'[p] = NoRequest
    PROVE  History' /\ FirstsKept
<1>1. progress \in [Words -> ProgressRow] /\ log \in [Words -> [reviews : Nat, lapses : Nat]]
  BY DEF History, Typed, TypeOK
<1>2. progress'[w] = next /\ \A v \in Words \ {w} : progress'[v] = progress[v]
  BY <1>1
<1>3. \A v \in Words : log[v].reviews <= log'[v].reviews
  BY <1>1
<1>4. \A p \in Devices : LoadedRow(p)'
  BY <1>3, LoadedRows
<1>5. LogAgrees' /\ \A v \in Words : RowSound(progress'[v])
  BY <1>2 DEF History, LogAgrees
<1>6. FirstsKept
  BY <1>2 DEF FirstsKept, Keeps
<1> QED
  BY <1>4, <1>5, <1>6 DEF History

LEMMA HistoryCommitGrade ==
    ASSUME History, Typed', NEW p \in Devices, CommitGrade(p)
    PROVE  History' /\ FirstsKept
<1> DEFINE w == work[p].word
           lapse == IF IsLapse(work[p].grade) THEN 1 ELSE 0
           next == Graded(p, progress[w])
<1>1. w \in Words /\ log \in [Words -> [reviews : Nat, lapses : Nat]] /\ lapse \in Nat
  BY DEF History, Typed, TypeOK, Request
<1>2. /\ progress' = [progress EXCEPT ![w] = next]
      /\ log' = [log EXCEPT ![w].reviews = @ + 1, ![w].lapses = @ + lapse]
      /\ Leave(p)
  BY DEF CommitGrade, Done
<1>3. /\ next.reviews = progress[w].reviews + 1 /\ next.lapses = progress[w].lapses + lapse
      /\ RowSound(next) /\ Keeps(progress[w], next)
  BY GradedHistory
<1> HIDE DEF next, lapse
<1>4. /\ log'[w].reviews = log[w].reviews + 1 /\ log'[w].lapses = log[w].lapses + lapse
      /\ \A v \in Words \ {w} : log'[v] = log[v]
  BY <1>1, <1>2
<1>5. progress[w].reviews = log[w].reviews /\ progress[w].lapses = log[w].lapses
  BY <1>1 DEF History, LogAgrees
<1>6. /\ next.reviews = log'[w].reviews /\ next.lapses = log'[w].lapses
      /\ log[w].reviews <= log'[w].reviews
  BY <1>1, <1>3, <1>4, <1>5
<1> HIDE DEF w
<1> QED
  BY <1>1, <1>2, <1>3, <1>4, <1>6, LeaveRows, HistoryWrite

LEMMA HistoryCommitBox ==
    ASSUME History, Typed', NEW p \in Devices, CommitBox(p)
    PROVE  History' /\ FirstsKept
<1> DEFINE w == work[p].word
           next == Moved(p, progress[w])
<1>1. w \in Words /\ log \in [Words -> [reviews : Nat, lapses : Nat]]
  BY DEF History, Typed, TypeOK, Request
<1>2. progress' = [progress EXCEPT ![w] = next] /\ log' = log /\ Leave(p)
  BY DEF CommitBox, Done
<1>3. /\ next.reviews = progress[w].reviews /\ next.lapses = progress[w].lapses
      /\ RowSound(next) /\ Keeps(progress[w], next)
  BY MovedHistory
<1> HIDE DEF next
<1>4. /\ next.reviews = log'[w].reviews /\ next.lapses = log'[w].lapses
      /\ log[w].reviews <= log'[w].reviews
  BY <1>1, <1>2, <1>3 DEF History, LogAgrees
<1> HIDE DEF w
<1> QED
  BY <1>1, <1>2, <1>3, <1>4, LeaveRows, HistoryWrite

\* Starting, taking back and moving a card between decks.
LEMMA HistoryEdit ==
    ASSUME History, Typed', NEW w \in Words,
           \/ StartWord(w) \/ Unstart(w) \/ \E deck \in Decks : MoveWord(w, deck)
    PROVE  History' /\ FirstsKept
<1>1. /\ progress[w] \in ProgressRow /\ RowSound(progress[w]) /\ NoRow(w) \in ProgressRow
      /\ progress[w].reviews = log[w].reviews /\ progress[w].lapses = log[w].lapses
      /\ log \in [Words -> [reviews : Nat, lapses : Nat]] /\ progress \in [Words -> ProgressRow]
  BY NoRowType DEF History, Typed, TypeOK, LogAgrees
<1>2. UNCHANGED <<log, work>>
  BY DEF StartWord, Unstart, MoveWord
<1>3. PICK next : /\ progress' = [progress EXCEPT ![w] = next]
                  /\ next.reviews = log[w].reviews /\ next.lapses = log[w].lapses
                  /\ RowSound(next) /\ Keeps(progress[w], next)
  <2>1. CASE StartWord(w)
    <3> DEFINE next == [NoRow(w) EXCEPT !.in = TRUE, !.deck = home[w],
                                        !.due = DayStart(now) + TicksPerDay]
    <3>1. progress' = [progress EXCEPT ![w] = next] /\ progress[w].reviews = 0
      BY <1>1, <2>1 DEF StartWord, RowSound
    <3>2. next.reviews = NoRow(w).reviews /\ next.lapses = NoRow(w).lapses
          /\ next.first = NoRow(w).first /\ next.mastered = NoRow(w).mastered /\ next.in
      BY <1>1 DEF ProgressRow
    <3> HIDE DEF next
    <3> QED
      BY <1>1, <3>1, <3>2, NoRowSound DEF RowSound, Keeps
  <2>2. CASE Unstart(w)
    <3>1. progress' = [progress EXCEPT ![w] = NoRow(w)] /\ progress[w].reviews = 0
      BY <2>2 DEF Unstart
    <3> QED
      BY <1>1, <3>1, NoRowSound DEF RowSound, Keeps
  <2>3. CASE \E deck \in Decks : MoveWord(w, deck)
    <3>1. PICK deck \in Decks : MoveWord(w, deck)
      BY <2>3
    <3> DEFINE k == IF progress[w].in THEN deck ELSE progress[w].deck
               next == [progress[w] EXCEPT !.deck = k]
    <3>2. progress' = [progress EXCEPT ![w] = next]
      BY <3>1 DEF MoveWord
    <3> HIDE DEF k
    <3>3. /\ next.reviews = progress[w].reviews /\ next.lapses = progress[w].lapses
          /\ next.first = progress[w].first /\ next.mastered = progress[w].mastered
          /\ next.in = progress[w].in
      BY <1>1 DEF ProgressRow
    <3> HIDE DEF next
    <3> QED
      BY <1>1, <3>2, <3>3 DEF RowSound, Keeps
  <2> QED
    BY <2>1, <2>2, <2>3
<1>4. log[w].reviews <= log'[w].reviews
  BY <1>1, <1>2
<1> QED
  BY <1>2, <1>3, <1>4, HistoryWrite

LEMMA HistoryNext == History /\ [Next]_vars => History' /\ FirstsKept
<1> SUFFICES ASSUME History, [Next]_vars PROVE History' /\ FirstsKept
  OBVIOUS
<1>1. Typed'
  BY TypedNext DEF History
<1>2. CASE \E p \in Devices : Begin(p) \/ Step(p) \/ Abort(p)
  <2> PICK p \in Devices : Begin(p) \/ Step(p) \/ Abort(p)
    BY <1>2
  <2>1. CASE Begin(p)
    BY <1>1, <2>1, HistoryBegin
  <2>2. CASE Step(p)
    BY <1>1, <2>2, HistoryRead, HistoryStatement, HistoryCommitGrade, HistoryCommitBox DEF Step
  <2>3. CASE Abort(p)
    BY <1>1, <2>3, HistoryStatement
  <2> QED
    BY <2>1, <2>2, <2>3
<1>3. CASE \E w \in Words : StartWord(w) \/ Unstart(w) \/ \E deck \in Decks : MoveWord(w, deck)
  BY <1>1, <1>3, HistoryEdit
<1>4. CASE Tick
  BY <1>1, <1>4, HistorySame DEF Tick, rows
<1>5. CASE UNCHANGED vars
  BY <1>1, <1>5, HistorySame DEF vars
<1> QED
  BY <1>2, <1>3, <1>4, <1>5 DEF Next

\* A card's counters are those of the review log, whatever grades, moves, starts
\* and unstarts run together (record_grade's increments, unstart_words' guard).
THEOREM CountersAreTheLog == Spec => []LogAgrees
<1>1. History => LogAgrees
  BY DEF History
<1> QED
  BY <1>1, HistoryInit, HistoryNext, PTL DEF Spec

\* No step moves the first answer or the first mastery of a card, once there
\* (record_grade's coalesce).
THEOREM FirstsAreKept == Spec => FirstsStand
<1>1. FirstsKept =>
        \A w \in Words :
          /\ progress[w].first # Never => progress'[w].first = progress[w].first
          /\ progress[w].mastered # Never => progress'[w].mastered = progress[w].mastered
  BY DEF FirstsKept, Keeps
<1>2. History /\ [Next]_vars => History'
  BY HistoryNext
<1>3. History /\ [Next]_vars =>
        [\A w \in Words :
          /\ progress[w].first # Never => progress'[w].first = progress[w].first
          /\ progress[w].mastered # Never => progress'[w].mastered = progress[w].mastered]_vars
  BY <1>1, HistoryNext
<1> QED
  BY <1>2, <1>3, HistoryInit, PTL DEF Spec, FirstsStand

(***************************************************************************)
(* The day's goal is not missed                                            *)
(*                                                                         *)
(* From the award on, a request holds the learner's row to its commit.  So *)
(* between the moment it totals the day and the moment its own answer      *)
(* counts nobody else's can: the answer that completes the goal is the one *)
(* that finds it complete.                                                 *)
(***************************************************************************)

\* The requests that pay, from the award to the commit.
Settling(p) == pc[p] \in {"settle", "commit"} /\ work[p].op \in {"grade", "drill", "finish"}

\* Request p's answer would complete the goal of its day.
Reaches(p) == Goal > 0 /\ Answers(Today(p)) + 1 >= Goal

Gate(p) ==
    /\ Settling(p) => userLock = p
    /\ pc[p] = "commit" /\ Grading(p) /\ Reaches(p) => work[p].pays \/ Today(p) \in WonDays

\* A day whose answers reach the goal is won.
Met == \A d \in Days : Goal > 0 /\ Answers(d) >= Goal => d \in WonDays

Winning == Accounts /\ Met /\ \A p \in Devices : Gate(p)

\* The answers of a day, one by one.
AnswerSet(d) == UNION {{k} \X (1..activity[k][d].reviews) : k \in Decks}

\* A day's answers can be counted.
LEMMA AnswersCount ==
    ASSUME Typed, NEW d \in Days
    PROVE  IsFiniteSet(AnswerSet(d)) /\ Answers(d) = Cardinality(AnswerSet(d)) /\ Answers(d) \in Nat
<1> DEFINE ofDeck == [k \in Decks |-> {k} \X (1..activity[k][d].reviews)]
           parts == {{k} \X (1..activity[k][d].reviews) : k \in Decks}
<1>1. \A k \in Decks : activity[k][d].reviews \in Nat
  BY DEF Typed, TypeOK, DayRow
<1>2. ofDeck \in Surjection(Decks, parts)
  BY DEF Surjection
<1>3. IsFiniteSet(parts)
  BY <1>2, WordsAssumption, FS_Surjection
<1>4. \A T \in parts : IsFiniteSet(T)
  <2>1. ASSUME NEW k \in Decks
        PROVE  IsFiniteSet({k} \X (1..activity[k][d].reviews))
    <3>1. PICK n \in Nat : n = activity[k][d].reviews
      BY <1>1
    <3>2. IsFiniteSet({k}) /\ IsFiniteSet(1..n)
      <4>1. IsFiniteSet({k})
        BY FS_Singleton
      <4>2. IsFiniteSet(1..n)
        BY FS_Interval
      <4> QED
        BY <4>1, <4>2
    <3> QED
      BY <3>1, <3>2, FS_Product
  <2> QED
    BY <2>1
<1>5. IsFiniteSet(AnswerSet(d))
  BY <1>3, <1>4, FS_UNION DEF AnswerSet
<1> QED
  BY <1>5, FS_CardinalityType DEF Answers, AnswerSet

\* A grade adds one answer to its own day and none to the others.
LEMMA AnswerCounted ==
    ASSUME Typed, NEW p \in Devices, CommitGrade(p), NEW d \in Days
    PROVE  Answers(d)' = IF d = Today(p) THEN Answers(d) + 1 ELSE Answers(d)
<1> DEFINE deck == work[p].deck
           today == Today(p)
           count(k) == activity[k][d].reviews
           answer == <<deck, count(deck) + 1>>
<1>1. deck \in Decks /\ today \in Days
  BY TodayType DEF CommitGrade, Typed, TypeOK, Request
<1>2. \A k \in Decks : count(k) \in Nat
  BY DEF Typed, TypeOK, DayRow
<1>3. ASSUME NEW k \in Decks
      PROVE  activity'[k][d].reviews = IF k = deck /\ d = today THEN count(k) + 1 ELSE count(k)
  <2>1. PICK m, n :
            activity' = [activity EXCEPT ![deck][today] =
                          [reviews |-> @.reviews + 1, due |-> m, mastered |-> n]]
    BY DEF CommitGrade
  <2> QED
    BY <1>1, <2>1 DEF Typed, TypeOK
<1> HIDE DEF deck, today
<1>4. CASE d # today
  <2>1. \A k \in Decks : activity'[k][d].reviews = activity[k][d].reviews
    BY <1>3, <1>4
  <2>2. AnswerSet(d)' = AnswerSet(d)
    BY <2>1 DEF AnswerSet
  <2> QED
    BY <1>4, <2>2 DEF AnswerSet, Answers, today
<1>5. CASE d = today
  <2>1. AnswerSet(d)' = AnswerSet(d) \cup {answer}
    <3>1. ASSUME NEW k \in Decks
          PROVE  1..activity'[k][d].reviews =
                    IF k = deck THEN (1..count(k)) \cup {count(k) + 1} ELSE 1..count(k)
      <4>1. PICK n \in Nat : n = count(k)
        BY <1>2
      <4>2. 1..(n + 1) = (1..n) \cup {n + 1}
        OBVIOUS
      <4>3. activity'[k][d].reviews = IF k = deck THEN n + 1 ELSE n
        BY <1>3, <1>5, <4>1
      <4> QED
        BY <4>1, <4>2, <4>3
    <3>2. \A x : x \in AnswerSet(d)' <=> \E k \in Decks : x \in {k} \X (1..activity'[k][d].reviews)
      BY DEF AnswerSet
    <3>3. \A x : x \in AnswerSet(d) <=> \E k \in Decks : x \in {k} \X (1..count(k))
      BY DEF AnswerSet
    <3>4. ASSUME NEW x
          PROVE  x \in AnswerSet(d)' <=> x \in AnswerSet(d) \/ x = answer
      <4> DEFINE Old(k) == x \in {k} \X (1..count(k))
                 New(k) == x \in {k} \X (1..activity'[k][d].reviews)
      <4>1. ASSUME NEW k \in Decks PROVE New(k) <=> Old(k) \/ (k = deck /\ x = answer)
        <5>1. CASE k = deck
          <6>1. New(k) <=> x \in {k} \X ((1..count(k)) \cup {count(k) + 1})
            BY <3>1, <5>1
          <6> QED
            BY <5>1, <6>1
        <5>2. CASE k # deck
          BY <3>1, <5>2
        <5> QED
          BY <5>1, <5>2
      <4> HIDE DEF answer
      <4>2. x \in AnswerSet(d)' <=> \E k \in Decks : New(k)
        BY <3>2
      <4>3. x \in AnswerSet(d) <=> \E k \in Decks : Old(k)
        BY <3>3
      <4> HIDE DEF Old, New
      <4> QED
        BY <1>1, <4>1, <4>2, <4>3
    <3> QED
      BY <3>4
  <2>2. answer \notin AnswerSet(d)
    <3> SUFFICES ASSUME NEW k \in Decks, answer \in {k} \X (1..count(k))
                 PROVE  FALSE
      BY DEF AnswerSet
    <3>1. k = deck /\ count(deck) + 1 \in 1..count(deck)
      OBVIOUS
    <3> QED
      BY <1>1, <1>2, <3>1
  <2> HIDE DEF answer
  <2>3. Cardinality(AnswerSet(d) \cup {answer}) = Cardinality(AnswerSet(d)) + 1
    BY <2>2, AnswersCount, FS_AddElement
  <2> QED
    BY <1>5, <2>1, <2>3 DEF AnswerSet, Answers, today
<1> QED
  BY <1>4, <1>5

\* Paying wins the day, if the request found its goal met, and the goal's
\* points go with the first win only.
LEMMA CollectWins ==
    ASSUME Accounts, NEW p \in Devices, pc[p] # "idle", Collect(p)
    PROVE  /\ WonDays' = IF work[p].pays THEN WonDays \cup {Today(p)} ELSE WonDays
           /\ user'.xp = user.xp + Prize(p) + (IF WonDays' = WonDays THEN 0 ELSE Points.goal)
<1>1. Today(p) \in Days
  BY TodayType DEF Accounts
<1>2. /\ ledger \in [points : Nat, goals : [Days -> Nat]] /\ user \in UserRow
      /\ Paid(p) \in Nat /\ Prize(p) \in Nat
  <2>1. Prize(p) \in Nat
    BY PointsType DEF Prize
  <2> QED
    BY <2>1, PaidType DEF Accounts, Typed, TypeOK
<1>3. ledger'.goals = [ledger.goals EXCEPT ![Today(p)] = IF GoalInserted(p) THEN @ + 1 ELSE @]
  BY DEF Collect
<1>4. GoalInserted(p) <=> work[p].pays /\ Today(p) \notin WonDays
  BY <1>1, <1>2 DEF GoalInserted, WonDays
<1>5. WonDays' = IF work[p].pays THEN WonDays \cup {Today(p)} ELSE WonDays
  <2>1. CASE GoalInserted(p)
    BY <1>1, <1>2, <1>3, <1>4, <2>1 DEF WonDays
  <2>2. CASE ~GoalInserted(p)
    <3>1. WonDays' = WonDays
      BY <1>2, <1>3, <2>2 DEF WonDays
    <3> QED
      BY <1>4, <2>2, <3>1
  <2> QED
    BY <2>1, <2>2
<1>6. GoalInserted(p) <=> WonDays' # WonDays
  BY <1>4, <1>5
<1>7. user'.xp = user.xp + Paid(p)
  <2> DEFINE paid == [user EXCEPT !.xp = @ + Paid(p),
                                  !.studied = IF work[p].noted THEN Today(p) ELSE @]
  <2>1. user' = IF work[p].pays THEN BankDay(paid, Today(p)) ELSE paid
    BY DEF Collect, UserAfter
  <2>2. paid.xp = user.xp + Paid(p)
    BY <1>2 DEF UserRow
  <2>3. paid \in UserRow
    <3>1. PICK n \in Nat : n = user.xp + Paid(p)
      BY <1>2 DEF UserRow
    <3>2. PICK d \in Nat : d = IF work[p].noted THEN Today(p) ELSE user.studied
      BY <1>1, <1>2, DaysAreNat DEF UserRow
    <3>3. paid = [user EXCEPT !.xp = n, !.studied = d]
      BY <3>1, <3>2
    <3> QED
      BY <1>2, <3>3 DEF UserRow
  <2> HIDE DEF paid
  <2> QED
    BY <1>1, <2>1, <2>2, <2>3, BankDayType, DaysAreNat
<1>8. Paid(p) = Prize(p) + (IF WonDays' = WonDays THEN 0 ELSE Points.goal)
  BY <1>6 DEF Paid
<1>9. (IF WonDays' = WonDays THEN 0 ELSE Points.goal) \in Nat /\ user.xp \in Nat
  BY <1>2, PointsType DEF UserRow
<1> QED
  BY <1>2, <1>5, <1>7, <1>8, <1>9

LEMMA WinningInit == Init => Winning
<1> SUFFICES ASSUME Init PROVE Winning
  OBVIOUS
<1>1. Accounts
  BY AccountsInit
<1>2. \A d \in Days : Answers(d) = 0
  <2> SUFFICES ASSUME NEW d \in Days PROVE Answers(d) = 0
    OBVIOUS
  <2>1. AnswerSet(d) = {}
    BY DEF Init, AnswerSet
  <2> QED
    BY <1>1, <2>1, AnswersCount, FS_EmptySet DEF Accounts
<1>3. Met /\ \A p \in Devices : Gate(p)
  BY <1>2, ChoicesAssumption DEF Init, Met, Gate, Settling
<1> QED
  BY <1>1, <1>3 DEF Winning

\* A step that counts no answer, once the moving request is seen to.
LEMMA WinningQuiet ==
    ASSUME Winning, Accounts', NEW p \in Devices, UNCHANGED activity, WonDays \subseteq WonDays',
           \A q \in Devices \ {p} : pc'[q] = pc[q] /\ work'[q] = work[q],
           userLock' = userLock \/ userLock \in {Free, p},
           Gate(p)'
    PROVE  Winning'
<1>1. \A d : Answers(d)' = Answers(d)
  BY DEF Answers
<1>2. Met'
  BY <1>1 DEF Winning, Met
<1>3. ASSUME NEW q \in Devices \ {p} PROVE Gate(q)'
  <2>1. Gate(q) /\ Today(q)' = Today(q)
    BY DEF Winning, Today
  <2>2. q # Free
    BY DevicesAssumption DEF Free
  <2>3. (Settling(q) => userLock = q)'
    BY <2>1, <2>2 DEF Gate, Settling
  <2>4. Answers(Today(q))' = Answers(Today(q))
    BY <1>1, <2>1
  <2>5. Reaches(q)' => Reaches(q)
    BY <2>4 DEF Reaches
  <2> QED
    BY <2>1, <2>3, <2>5 DEF Gate, Grading
<1> QED
  BY <1>2, <1>3 DEF Winning

\* A request that ends.
LEMMA WinningLeave ==
    ASSUME Winning, Accounts', NEW p \in Devices, Leave(p), UNCHANGED activity,
           WonDays \subseteq WonDays', userLock' = userLock \/ userLock = p
    PROVE  Winning'
<1>1. /\ \A q \in Devices \ {p} : pc'[q] = pc[q] /\ work'[q] = work[q]
      /\ pc'[p] = "idle"
  BY Others DEF Leave, Winning
<1>2. Gate(p)'
  BY <1>1 DEF Gate, Settling
<1> QED
  BY <1>1, <1>2, WinningQuiet

\* The statements up to the award, and those of requests that do not pay.
LEMMA WinningElsewhere ==
    ASSUME Winning, Accounts', NEW p \in Devices,
           \/ Begin(p) \/ Read(p) \/ WriteRow(p) \/ RecordReview(p) \/ NoteStudyDay(p)
           \/ Look(p) \/ SettleStreak(p) \/ Claim(p)
    PROVE  Winning'
<1>1. Accounts /\ pc \in [Devices -> PCs] /\ work \in [Devices -> Request] /\ Place(p)
  BY DEF Winning, Accounts, Typed, TypeOK
<1>2. UNCHANGED <<activity, ledger>> /\ (userLock' = userLock \/ userLock \in {Free, p})
  BY DEF Begin, Read, WriteRow, RecordReview, NoteStudyDay, Look, SettleStreak, Claim, rows, UserFree
<1>3. WonDays \subseteq WonDays'
  BY <1>2 DEF WonDays
<1>4. CASE Leave(p)
  <2>1. userLock' = userLock
    BY <1>1, <1>4 DEF Leave, Goto, Begin, Read, WriteRow, RecordReview, NoteStudyDay, Look,
       SettleStreak, Claim
  <2> QED
    BY <1>2, <1>3, <1>4, <2>1, WinningLeave
<1>5. CASE ~Leave(p)
  <2>1. \A q \in Devices \ {p} : pc'[q] = pc[q] /\ work'[q] = work[q]
    BY <1>1, <1>5 DEF Begin, Read, WriteRow, RecordReview, NoteStudyDay, Look, SettleStreak, Claim, Goto
  <2>2. ~Settling(p)'
    <3>1. CASE Begin(p)
      BY <1>1, <3>1 DEF Begin, Goto, Settling
    <3>2. CASE Read(p) \/ RecordReview(p) \/ NoteStudyDay(p) \/ Look(p)
      BY <1>1, <1>5, <3>2 DEF Read, RecordReview, NoteStudyDay, Look, Goto, Settling
    <3>3. CASE WriteRow(p)
      BY <1>1, <3>3 DEF WriteRow, Grading, Place, Goto, Settling
    <3>4. CASE SettleStreak(p) \/ Claim(p)
      <4>1. work'[p].op = work[p].op
        BY <1>1, <1>5, <3>4 DEF SettleStreak, Claim, Request
      <4> QED
        BY <1>1, <3>4, <4>1 DEF SettleStreak, Claim, Place, Settling
    <3> QED
      BY <3>1, <3>2, <3>3, <3>4
  <2>3. Gate(p)'
    BY <2>2 DEF Gate, Settling, Grading
  <2> QED
    BY <1>2, <1>3, <2>1, <2>3, WinningQuiet
<1> QED
  BY <1>4, <1>5

\* The award takes the learner's row, and the totals are read under it.
LEMMA WinningSettles ==
    ASSUME Winning, Accounts', NEW p \in Devices, Award(p) \/ SettleDay(p)
    PROVE  Winning'
<1>1. /\ Accounts /\ Typed /\ pc \in [Devices -> PCs] /\ work \in [Devices -> Request]
      /\ Place(p) /\ Gate(p) /\ LoadedUser(p)
  BY DEF Winning, Accounts, Typed, TypeOK
<1>2. UNCHANGED <<activity, ledger>> /\ (userLock' = userLock \/ userLock \in {Free, p})
  BY DEF Award, SettleDay, rows, UserFree
<1>3. WonDays' = WonDays /\ \A d : Answers(d)' = Answers(d)
  BY <1>2 DEF WonDays, Answers
<1>4. \A q \in Devices \ {p} : pc'[q] = pc[q] /\ work'[q] = work[q]
  BY <1>1 DEF Award, SettleDay, Goto
<1>5. Gate(p)'
  <2>1. CASE Award(p)
    BY <1>1, <2>1 DEF Award, Goto, Gate
  <2>2. CASE SettleDay(p)
    <3>1. /\ pc[p] = "settle" /\ pc'[p] = "commit" /\ userLock' = p
          /\ work'[p].op = work[p].op /\ work'[p].at = work[p].at
          /\ work'[p].pays = (work[p].user.banked # Today(p) /\ GoalMet(p))
      BY <1>1, <2>2 DEF SettleDay, Goto, Gate, Settling, Place, Request
    <3>2. Today(p) \in Days /\ Today(p)' = Today(p)
      BY <1>1, <3>1, TodayType DEF Today
    <3>3. ASSUME Grading(p)', Reaches(p)'
          PROVE  work'[p].pays \/ Today(p) \in WonDays
      <4>1. Grading(p) /\ Goal > 0 /\ Answers(Today(p)) + 1 >= Goal /\ Answers(Today(p)) \in Nat
        <5>1. Grading(p)
          BY <3>1, <3>3 DEF Grading
        <5>2. Answers(Today(p))' = Answers(Today(p))
          BY <1>3, <3>2
        <5> QED
          BY <1>1, <3>2, <3>3, <5>1, <5>2, AnswersCount DEF Reaches
      <4>2. GoalMet(p)
        BY <4>1 DEF GoalMet
      <4>3. CASE work[p].user.banked = Today(p)
        BY <1>1, <3>2, <4>3, DaysAreNat DEF LoadedUser
      <4> QED
        BY <3>1, <4>2, <4>3
    <3>4. (work[p].pays \/ Today(p) \in WonDays)' <=> work'[p].pays \/ Today(p) \in WonDays
      BY <1>3, <3>2
    <3> QED
      BY <3>1, <3>3, <3>4 DEF Gate
  <2> QED
    BY <2>1, <2>2
<1> QED
  BY <1>2, <1>3, <1>4, <1>5, WinningQuiet

\* The answer that completes the goal wins its day.
LEMMA WinningCommitGrade ==
    ASSUME Winning, Accounts', NEW p \in Devices, CommitGrade(p)
    PROVE  Winning'
<1>1. /\ Accounts /\ Typed /\ pc[p] = "commit" /\ Grading(p) /\ Collect(p) /\ Leave(p)
      /\ Gate(p) /\ userLock = p
  BY DEF Winning, Accounts, CommitGrade, Done, Grading, Gate, Settling
<1>2. WonDays' = IF work[p].pays THEN WonDays \cup {Today(p)} ELSE WonDays
  BY <1>1, CollectWins
<1>3. Met'
  <2> SUFFICES ASSUME NEW d \in Days, Goal > 0, Answers(d)' >= Goal
               PROVE  d \in WonDays'
    BY DEF Met
  <2>1. CASE d = Today(p)
    <3>1. Reaches(p)
      BY <1>1, <2>1, AnswerCounted DEF Reaches
    <3> QED
      BY <1>1, <1>2, <2>1, <3>1 DEF Gate
  <2>2. CASE d # Today(p)
    <3>1. Answers(d)' = Answers(d)
      BY <1>1, <2>2, AnswerCounted
    <3> QED
      BY <1>2, <3>1 DEF Winning, Met
  <2> QED
    BY <2>1, <2>2
<1>4. /\ \A q \in Devices \ {p} : pc'[q] = pc[q] /\ work'[q] = work[q]
      /\ pc'[p] = "idle"
  BY <1>1, Others DEF Leave
<1>5. ASSUME NEW q \in Devices PROVE ~Settling(q)'
  BY <1>1, <1>4 DEF Winning, Gate, Settling
<1>6. \A q \in Devices : Gate(q)'
  BY <1>5 DEF Gate, Settling, Grading
<1> QED
  BY <1>3, <1>6 DEF Winning

LEMMA WinningNext == Winning /\ [Next]_vars => Winning'
<1> SUFFICES ASSUME Winning, [Next]_vars PROVE Winning'
  OBVIOUS
<1>1. Accounts'
  BY AccountsNext DEF Winning
<1>2. CASE \E p \in Devices : Begin(p) \/ Step(p) \/ Abort(p)
  <2> PICK p \in Devices : Begin(p) \/ Step(p) \/ Abort(p)
    BY <1>2
  <2>1. CASE CommitBox(p) \/ CommitStreak(p) \/ CommitClaim(p) \/ Abort(p)
    <3>1. Leave(p) /\ UNCHANGED <<activity, ledger>> /\ (userLock' = userLock \/ userLock = p)
      BY <2>1 DEF CommitBox, CommitStreak, CommitClaim, Abort, Done, rows
    <3>2. WonDays \subseteq WonDays'
      BY <3>1 DEF WonDays
    <3> QED
      BY <1>1, <3>1, <3>2, WinningLeave
  <2>2. CASE CommitFinish(p)
    <3>1. /\ Leave(p) /\ UNCHANGED activity /\ (userLock' = userLock \/ userLock = p)
          /\ Collect(p) /\ pc[p] # "idle"
      BY <2>2 DEF CommitFinish, Done
    <3>2. WonDays \subseteq WonDays'
      BY <3>1, CollectWins DEF Winning
    <3> QED
      BY <1>1, <3>1, <3>2, WinningLeave
  <2> QED
    BY <1>1, <2>1, <2>2, WinningElsewhere, WinningSettles, WinningCommitGrade DEF Step
<1>3. CASE \/ \E w \in Words : StartWord(w) \/ Unstart(w) \/ \E deck \in Decks : MoveWord(w, deck)
           \/ Tick \/ UNCHANGED vars
  <2>1. UNCHANGED <<activity, ledger, pc, work, userLock>>
    BY <1>3 DEF StartWord, Unstart, MoveWord, Tick, vars, rows
  <2>2. WonDays' = WonDays /\ \A d : Answers(d)' = Answers(d)
    BY <2>1 DEF WonDays, Answers
  <2>3. ASSUME NEW q \in Devices PROVE Gate(q)'
    <3>1. Today(q)' = Today(q) /\ Gate(q)
      BY <2>1 DEF Today, Winning
    <3>2. Answers(Today(q))' = Answers(Today(q))
      BY <2>2, <3>1
    <3> QED
      BY <2>1, <2>2, <3>1, <3>2 DEF Gate, Settling, Grading, Reaches
  <2> QED
    BY <1>1, <2>2, <2>3 DEF Winning, Met
<1> QED
  BY <1>2, <1>3 DEF Next

LEMMA WinningHolds == Spec => []Winning
BY WinningInit, WinningNext, PTL DEF Spec

\* A day whose answers reach the goal is won, whatever devices answer its last
\* cards together (_settle_day reads the totals after xp.award has locked the
\* learner's row).
THEOREM NoGoalMissed == Spec => []GoalNeverMissed
<1>1. Winning => GoalNeverMissed
  <2> SUFFICES ASSUME Winning, NEW d \in Days, Goal > 0, Answers(d) >= Goal
               PROVE  ledger.goals[d] = 1
    BY DEF GoalNeverMissed
  <2>1. d \in WonDays
    BY DEF Winning, Met
  <2>2. ledger.goals[d] \in Nat /\ ledger.goals[d] <= 1
    BY DEF Winning, Accounts, GoalPaidOnce, Typed, TypeOK
  <2> QED
    BY <2>1, <2>2 DEF WonDays
<1> QED
  BY <1>1, WinningHolds, PTL

(***************************************************************************)
(* Refinement                                                              *)
(*                                                                         *)
(* Two steps are visible in the ledger: a grade that commits is an answer, *)
(* a finished session that commits is a session.                           *)
(***************************************************************************)

\* A grade is one answer, paid for once, and wins the day it completes.
LEMMA GradeIsReview ==
    ASSUME Winning, Winning', NEW p \in Devices, CommitGrade(p),
           NEW w, w = work[p].word, NEW today, today = Today(p)
    PROVE  /\ w \in Words /\ today \in Days
           /\ Ledger!Review(w, today)
<1>1. /\ Accounts /\ Typed /\ pc[p] # "idle" /\ Grading(p) /\ Collect(p)
      /\ w \in Words /\ today \in Days
      /\ log \in [Words -> [reviews : Nat, lapses : Nat]]
  BY TodayType DEF Winning, Accounts, Typed, TypeOK, Request, CommitGrade
<1>2. [v \in Words |-> log[v].reviews]' = [[v \in Words |-> log[v].reviews] EXCEPT ![w] = @ + 1]
  <2>1. PICK n : log' = [log EXCEPT ![w].reviews = @ + 1, ![w].lapses = n]
    BY DEF CommitGrade
  <2>2. \A v \in Words : log'[v].reviews = IF v = w THEN log[v].reviews + 1 ELSE log[v].reviews
    BY <1>1, <2>1
  <2> QED
    BY <1>1, <2>2
<1>3. [d \in Days |-> Answers(d)]' = [[d \in Days |-> Answers(d)] EXCEPT ![today] = @ + 1]
  <2>1. \A d \in Days : Answers(d)' = IF d = today THEN Answers(d) + 1 ELSE Answers(d)
    BY <1>1, AnswerCounted
  <2> QED
    BY <1>1, <2>1
<1>4. /\ WonDays' \in {WonDays, WonDays \cup {today}}
      /\ user'.xp = user.xp + Prize(p) + (IF WonDays' = WonDays THEN 0 ELSE Points.goal)
  BY <1>1, CollectWins
<1>5. Goal > 0 /\ [d \in Days |-> Answers(d)]'[today] >= Goal => today \in WonDays'
  BY <1>1 DEF Winning, Met
<1>6. Prize(p) \in {Points.grade, Points.drill_correct, Points.drill_wrong}
  BY <1>1 DEF Prize, Grading
<1>7. Ledger!Pay(today, Prize(p))
  BY <1>4, <1>5 DEF Ledger!Pay
<1> QED
  BY <1>1, <1>2, <1>3, <1>6, <1>7 DEF Ledger!Review

LEMMA FinishIsSession ==
    ASSUME Winning, Winning', NEW p \in Devices, CommitFinish(p)
    PROVE  Ledger!FinishSession(Today(p))
<1>1. /\ Accounts /\ Typed /\ pc[p] # "idle" /\ Collect(p) /\ Today(p) \in Days
      /\ UNCHANGED <<log, activity>> /\ Prize(p) = Points.finish
  BY TodayType DEF Winning, Accounts, CommitFinish, Prize
<1>2. /\ WonDays' \in {WonDays, WonDays \cup {Today(p)}}
      /\ user'.xp = user.xp + Points.finish + (IF WonDays' = WonDays THEN 0 ELSE Points.goal)
  BY <1>1, CollectWins
<1>3. /\ [v \in Words |-> log[v].reviews]' = [v \in Words |-> log[v].reviews]
      /\ [d \in Days |-> Answers(d)]' = [d \in Days |-> Answers(d)]
  BY <1>1 DEF Answers
<1>4. Goal > 0 /\ [d \in Days |-> Answers(d)]'[Today(p)] >= Goal => Today(p) \in WonDays'
  <2>1. [d \in Days |-> Answers(d)]'[Today(p)] = Answers(Today(p))
    BY <1>1, <1>3
  <2> QED
    BY <1>1, <1>2, <2>1 DEF Winning, Met
<1>5. Ledger!Pay(Today(p), Points.finish)
  BY <1>2, <1>4 DEF Ledger!Pay
<1> QED
  BY <1>3, <1>5 DEF Ledger!FinishSession

LEMMA StudyStep ==
    ASSUME Winning, Winning', [Next]_vars
    PROVE  [Ledger!Next]_(Ledger!vars)
<1>1. ASSUME NEW p \in Devices, CommitGrade(p)
      PROVE  Ledger!Next
  <2>1. PICK w, today : w = work[p].word /\ today = Today(p)
    OBVIOUS
  <2>2. w \in Words /\ today \in Days /\ Ledger!Review(w, today)
    BY <1>1, <2>1, GradeIsReview
  <2> QED
    BY <2>2 DEF Ledger!Next
<1>2. ASSUME NEW p \in Devices, CommitFinish(p)
      PROVE  Ledger!Next
  <2>1. Today(p) \in Days
    BY <1>2, TodayType DEF Winning, Accounts, CommitFinish
  <2> QED
    BY <1>2, <2>1, FinishIsSession DEF Ledger!Next
<1>3. CASE ~\E p \in Devices : CommitGrade(p) \/ CommitFinish(p)
  <2>1. user \in UserRow
    BY DEF Winning, Accounts, Typed, TypeOK
  <2>2. UNCHANGED <<log, activity, ledger>> /\ user'.xp = user.xp
    <3>1. ASSUME NEW p \in Devices, Begin(p) \/ Step(p) \/ Abort(p)
          PROVE  UNCHANGED <<log, activity, ledger>> /\ user'.xp = user.xp
      <4>1. CASE CommitStreak(p) \/ CommitClaim(p)
        BY <2>1, <4>1 DEF CommitStreak, CommitClaim, UserRow
      <4>2. CASE ~(CommitStreak(p) \/ CommitClaim(p))
        BY <1>3, <3>1, <4>2 DEF Begin, Step, Abort, Read, WriteRow, RecordReview, NoteStudyDay,
           Award, SettleDay, Look, SettleStreak, Claim, CommitBox, rows
      <4> QED
        BY <4>1, <4>2
    <3>2. CASE \/ \E w \in Words : StartWord(w) \/ Unstart(w) \/ \E deck \in Decks : MoveWord(w, deck)
               \/ Tick \/ UNCHANGED vars
      BY <3>2 DEF StartWord, Unstart, MoveWord, Tick, vars, rows
    <3> QED
      BY <3>1, <3>2 DEF Next
  <2> QED
    BY <2>2 DEF Ledger!vars, WonDays, Answers
<1> QED
  BY <1>1, <1>2, <1>3

\* Studying implements the ledger (what grade, finish_session and _settle_day
\* promise together): no answer is counted without being paid for, and a day is
\* won at the answer that completes it, once.
THEOREM StudyImplements == Spec => ImplementsLedger
<1>1. Init => Ledger!Init
  <2> SUFFICES ASSUME Init PROVE Ledger!Init
    OBVIOUS
  <2>1. [w \in Words |-> log[w].reviews] = [w \in Words |-> 0]
    BY DEF Init
  <2>2. [d \in Days |-> Answers(d)] = [d \in Days |-> 0]
    <3> SUFFICES ASSUME NEW d \in Days PROVE Answers(d) = 0
      OBVIOUS
    <3>1. AnswerSet(d) = {}
      BY DEF Init, AnswerSet
    <3> QED
      BY <3>1, TypedInit, AnswersCount, FS_EmptySet
  <2>3. WonDays \subseteq Days /\ user.xp = 0
    BY DEF Init, WonDays, NewLearner, Veteran
  <2> QED
    BY <2>1, <2>2, <2>3 DEF Ledger!Init
<1>2. Winning /\ Winning' /\ [Next]_vars => [Ledger!Next]_(Ledger!vars)
  BY StudyStep
<1> QED
  BY <1>1, <1>2, WinningHolds, PTL DEF Spec, Ledger!Spec, ImplementsLedger
=============================================================================
