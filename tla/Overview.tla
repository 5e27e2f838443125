------------------------------ MODULE Overview ------------------------------
(***************************************************************************)
(* What a learner's screens read off the progress table: the home screen   *)
(* (StudyService.get_overview), the deck list (DeckService.list_with_      *)
(* stats), a session (StudyService.build_session), the "not started" list  *)
(* and the roster of a shared deck (DeckSharingService.roster), over the   *)
(* writes that move the table under them.  Each read is translated from    *)
(* its own query, because the queries repeat the same three questions -    *)
(* is a card started, which box is it in, is it due today - in SQL and in  *)
(* Python and may disagree.                                                *)
(*                                                                         *)
(* Study models how concurrent requests interleave; here every request is  *)
(* one step, the clock has TicksPerDay instants to a day and the learner's *)
(* day starts Zone ticks after UTC's (a profile edit moves it).            *)
(***************************************************************************)
EXTENDS Integers, FiniteSets, FiniteSetsExt, SequencesExt

CONSTANTS
    Words,        \* cards
    Decks,        \* decks the learner may be a member of
    TicksPerDay,  \* instants of a day
    Zones,        \* offsets of a learner's midnight from UTC's
    LastTick,     \* bound: the clock stops here
    MaxWrites,    \* bound: writes to the table
    SessionLimit  \* cards a session holds

OverviewAssumption ==
    /\ TicksPerDay \in Nat \ {0} /\ Zones \subseteq 0..(TicksPerDay - 1)
    /\ LastTick \in Nat /\ MaxWrites \in Nat /\ SessionLimit \in Nat \ {0}
    /\ Words \subseteq Nat

VARIABLES
    now,     \* the clock
    zone,    \* the learner's time zone
    seat,    \* deck -> the learner's membership: "out", "plain" or "self_paced"
    card,    \* word -> the words row: its deck and created_at, or NoCard
    row,     \* word -> the learner's word_progress row, or NoRow
    writes   \* writes so far

vars == <<now, zone, seat, card, row, writes>>

(***************************************************************************)
(* The learner's day                                                       *)
(***************************************************************************)

DayOf(t, z) == (t - z) \div TicksPerDay
DayStart(t, z) == DayOf(t, z) * TicksPerDay + z
DayEnd(t, z) == DayStart(t, z) + TicksPerDay

\* WordProgress.first_due_at.
FirstDueAt(dayStart) == dayStart + TicksPerDay

Interval(box) == (<<1, 2, 4, 9, 21>>)[box] * TicksPerDay

Grades == {"again", "hard", "good", "easy"}
NextBox(box, grade) ==
    LET step == [again |-> 1 - box, hard |-> -1, good |-> 1, easy |-> 2][grade]
    IN  Max({1, Min({5, box + step})})

Boxes == 1..5
LearnedBoxes == {4, 5}
LearningBoxes == {1, 2, 3}

(***************************************************************************)
(* The tables                                                              *)
(***************************************************************************)

NoCard == [in |-> FALSE]
NoRow == [in |-> FALSE]

\* Words the learner's membership join returns.
Visible == {w \in Words : card[w].in /\ seat[card[w].deck] # "out"}
InDeck(d) == {w \in Visible : card[w].deck = d}

(***************************************************************************)
(* The three questions, as the queries ask them                            *)
(***************************************************************************)

IsStarted(w) == row[w].in \/ seat[card[w].deck] = "plain"
Box(w) == IF row[w].in THEN row[w].box ELSE 1

\* Mutant: the stored moment against the clock.
IsDueByTheClock(w, t, z) ==
    IF row[w].in THEN row[w].due <= t ELSE card[w].born < DayStart(t, z)

IsDue(w, t, z) ==
    IF row[w].in THEN row[w].due < DayEnd(t, z) ELSE card[w].born < DayStart(t, z)

ReviewCount(w) == IF row[w].in THEN row[w].count ELSE 0

\* Mutant: a card nobody has answered reads as due since it was added.
ToStudiedSinceAdded(w, t, z) ==
    IF row[w].in THEN row[w]
    ELSE [in |-> TRUE, deck |-> card[w].deck, box |-> 1, count |-> 0, due |-> card[w].born]

\* The entity a read hands on; a missing row becomes WordProgress.unstudied.
ToStudied(w, t, z) ==
    IF row[w].in THEN row[w]
    ELSE [in |-> TRUE, deck |-> card[w].deck, box |-> 1, count |-> 0,
          due |-> IF card[w].born >= DayStart(t, z) THEN FirstDueAt(DayStart(t, z))
                  ELSE DayStart(t, z)]

\* WordProgress.is_due, of the entity.
EntityIsDue(w, t, z) == ToStudied(w, t, z).due < DayEnd(t, z)

(***************************************************************************)
(* The reads                                                               *)
(***************************************************************************)

\* One group of tally_by_deck_and_box.
Tally(d, b, started) ==
    LET group == {w \in InDeck(d) : Box(w) = b /\ (IsStarted(w) <=> started)}
    IN  [words |-> Cardinality(group),
         due |-> Cardinality({w \in group : started /\ IsDue(w, now, zone)}),
         reviewed |-> Cardinality({w \in group : started /\ ReviewCount(w) > 0})]

SumOver(S, f(_)) == MapThenSumSet(f, S)

\* StudyService.get_overview: the started groups, added up.
HomeScreen ==
    LET groups == Decks \X Boxes
        Cards(g) == Tally(g[1], g[2], TRUE).words
        Due(g) == Tally(g[1], g[2], TRUE).due
        Reviewed(g) == Tally(g[1], g[2], TRUE).reviewed
    IN  [total |-> SumOver(groups, Cards),
         due |-> SumOver(groups, Due),
         reviewed |-> SumOver(groups, Reviewed),
         learned |-> SumOver({g \in groups : g[2] \in LearnedBoxes}, Cards),
         mastered |-> SumOver({g \in groups : g[2] = 5}, Cards),
         decks |-> Cardinality({d \in Decks : \E b \in Boxes : Tally(d, b, TRUE).due > 0})]

\* Mutant: a deck's due badge counts its unstarted groups as well.
DeckBadgeOfAll(d) ==
    LET Started(b) == Tally(d, b, TRUE).words
        Waiting(b) == Tally(d, b, FALSE).words
        Due(b) == Tally(d, b, TRUE).due
    IN  [words |-> SumOver(Boxes, Started) + SumOver(Boxes, Waiting),
         started |-> SumOver(Boxes, Started) + SumOver(Boxes, Waiting),
         due |-> SumOver(Boxes, Due)]

\* One deck of DeckService.list_with_stats.
DeckBadge(d) ==
    LET Started(b) == Tally(d, b, TRUE).words
        Waiting(b) == Tally(d, b, FALSE).words
        Due(b) == Tally(d, b, TRUE).due
    IN  [words |-> SumOver(Boxes, Started) + SumOver(Boxes, Waiting),
         started |-> SumOver(Boxes, Started),
         due |-> SumOver(Boxes, Due)]

\* list_due without a limit, and in its order: coalesce(due_at, created_at), id.
DueCards == {w \in Visible : IsStarted(w) /\ IsDue(w, now, zone)}
QueuedAt(w) == IF row[w].in THEN row[w].due ELSE card[w].born
Before(v, w) ==
    QueuedAt(v) < QueuedAt(w) \/ (QueuedAt(v) = QueuedAt(w) /\ v < w)
FirstOf(S) == {w \in S : Cardinality({v \in S : Before(v, w)}) < SessionLimit}

\* list_for_user(started_only), newest first.
StartedCards(S) == {w \in S : IsStarted(w)}
Newer(v, w) == card[v].born > card[w].born \/ (card[v].born = card[w].born /\ v > w)
NewestOf(S) == {w \in S : Cardinality({v \in S : Newer(v, w)}) < SessionLimit}

\* Mutant: a session that finds nothing due falls back to every visible card.
SessionOfAnything(S) ==
    LET due == S \cap DueCards
    IN  IF due # {} THEN FirstOf(due) ELSE NewestOf(S)

\* StudyService.build_session over all decks or over one.
Session(S) ==
    LET due == S \cap DueCards
    IN  IF due # {} THEN FirstOf(due) ELSE NewestOf(StartedCards(S))

\* list_unstarted.
Unstarted(d) == {w \in InDeck(d) : ~row[w].in /\ seat[d] = "self_paced"}

\* totals_for_deck: the learner's line in the deck's roster.
RosterLine(d) ==
    LET mine == {w \in Words : row[w].in /\ row[w].deck = d}
    IN  [seen |-> Cardinality(mine),
         learning |-> Cardinality({w \in mine : row[w].box \in LearningBoxes}),
         mastered |-> Cardinality({w \in mine : row[w].box = 5})]

(***************************************************************************)
(* The writes                                                              *)
(***************************************************************************)

Init ==
    /\ now = TicksPerDay
    /\ zone \in Zones
    /\ seat \in [Decks -> {"plain", "self_paced"}]
    /\ \E d \in Decks : card = [w \in Words |-> [in |-> TRUE, deck |-> d, born |-> 0]]
    /\ row = [w \in Words |-> NoRow]
    /\ writes = 0

Write == writes < MaxWrites /\ writes' = writes + 1

\* WordService.create; in a self-paced deck the author's card starts at once.
AddCard(w, d) ==
    /\ Write
    /\ ~card[w].in /\ seat[d] # "out"
    /\ card' = [card EXCEPT ![w] = [in |-> TRUE, deck |-> d, born |-> now]]
    /\ row' = [row EXCEPT ![w] =
                 IF seat[d] = "self_paced"
                 THEN [in |-> TRUE, deck |-> d, box |-> 1, count |-> 0,
                       due |-> FirstDueAt(DayStart(now, zone))]
                 ELSE @]
    /\ UNCHANGED <<now, zone, seat>>

\* WordService.delete; the progress row goes with the card.
DeleteCard(w) ==
    /\ Write
    /\ w \in Visible
    /\ card' = [card EXCEPT ![w] = NoCard]
    /\ row' = [row EXCEPT ![w] = NoRow]
    /\ UNCHANGED <<now, zone, seat>>

\* Mutant: the progress rows keep the deck the card has left.
MoveCardAlone(w, d) ==
    /\ Write
    /\ w \in Visible /\ seat[d] # "out" /\ d # card[w].deck
    /\ card' = [card EXCEPT ![w].deck = d]
    /\ UNCHANGED <<now, zone, seat, row>>

\* WordService.update to another deck, with the rows that mirror it.
MoveCard(w, d) ==
    /\ Write
    /\ w \in Visible /\ seat[d] # "out" /\ d # card[w].deck
    /\ card' = [card EXCEPT ![w].deck = d]
    /\ row' = [row EXCEPT ![w] = IF row[w].in THEN [row[w] EXCEPT !.deck = d] ELSE @]
    /\ UNCHANGED <<now, zone, seat>>

\* StudyService.grade; an unstarted card may be answered, which starts it.
Grade(w, grade) ==
    /\ Write
    /\ w \in Visible
    /\ LET read == ToStudied(w, now, zone)
           box == NextBox(read.box, grade)
       IN  row' = [row EXCEPT ![w] =
                     [read EXCEPT !.box = box, !.count = @ + 1,
                                  !.due = DayStart(now, zone) + Interval(box)]]
    /\ UNCHANGED <<now, zone, seat, card>>

\* StudyService.set_box.
SetBox(w, box) ==
    /\ Write
    /\ w \in Visible /\ IsStarted(w)
    /\ row' = [row EXCEPT ![w] =
                 [ToStudied(w, now, zone) EXCEPT !.box = box,
                                                 !.due = DayStart(now, zone) + Interval(box)]]
    /\ UNCHANGED <<now, zone, seat, card>>

\* WordService.start of some of a deck's unstarted cards.
Start(d, chosen) ==
    /\ Write
    /\ chosen # {} /\ chosen \subseteq Unstarted(d)
    /\ row' = [w \in Words |->
                 IF w \in chosen
                 THEN [in |-> TRUE, deck |-> d, box |-> 1, count |-> 0,
                       due |-> FirstDueAt(DayStart(now, zone))]
                 ELSE row[w]]
    /\ UNCHANGED <<now, zone, seat, card>>

\* WordService.unstart: whichever cards are named, in any deck.
Unstart(w) ==
    /\ Write
    /\ row[w].in /\ row[w].count = 0
    /\ row' = [row EXCEPT ![w] = NoRow]
    /\ UNCHANGED <<now, zone, seat, card>>

\* Joining and leaving a deck; the progress rows stay.
Join(d, pace) ==
    /\ Write
    /\ seat[d] = "out"
    /\ seat' = [seat EXCEPT ![d] = pace]
    /\ UNCHANGED <<now, zone, card, row>>
Leave(d) ==
    /\ Write
    /\ seat[d] # "out"
    /\ seat' = [seat EXCEPT ![d] = "out"]
    /\ UNCHANGED <<now, zone, card, row>>

\* A profile edit of the time zone.
Travel(z) ==
    /\ Write
    /\ z # zone
    /\ zone' = z
    /\ UNCHANGED <<now, seat, card, row>>

Tick ==
    /\ now < LastTick
    /\ now' = now + 1
    /\ UNCHANGED <<zone, seat, card, row, writes>>

Next ==
    \/ \E w \in Words :
        \/ DeleteCard(w)
        \/ Unstart(w)
        \/ \E d \in Decks : AddCard(w, d) \/ MoveCard(w, d)
        \/ \E grade \in Grades : Grade(w, grade)
        \/ \E box \in Boxes : SetBox(w, box)
    \/ \E d \in Decks :
        \/ Leave(d)
        \/ \E pace \in {"plain", "self_paced"} : Join(d, pace)
        \/ \E chosen \in SUBSET Words : Start(d, chosen)
    \/ \E z \in Zones : Travel(z)
    \/ Tick

Spec == Init /\ [][Next]_vars

(***************************************************************************)
(* Properties                                                              *)
(***************************************************************************)

\* Dueness is decided twice: by the query that fills a session and counts the
\* home screen, and by the entity the grade asks "was it due?" (which is what
\* wins or breaks a streak).  For every card in the boxes the two agree, at
\* every instant, whatever the learner's zone was when the row was written.
OneDueness ==
    \A w \in Visible : IsStarted(w) => (IsDue(w, now, zone) <=> EntityIsDue(w, now, zone))

\* The home screen, the deck list, the session and the "not started" list are
\* four queries over one table: their totals agree.
TotalsAgree ==
    LET home == HomeScreen
        badge == [d \in Decks |-> DeckBadge(d)]
        Started(d) == badge[d].started
        Due(d) == badge[d].due
    IN  /\ home.total = SumOver(Decks, Started)
        /\ home.due = SumOver(Decks, Due)
        /\ home.due = Cardinality(DueCards)
        /\ home.decks = Cardinality({d \in Decks : badge[d].due > 0})
        /\ home.reviewed <= home.total
        /\ \A d \in Decks : badge[d].words = badge[d].started + Cardinality(Unstarted(d))

\* A session never serves a card that is not in the learner's boxes, serves
\* something whenever there is anything to serve, and leaves no card waiting
\* that has been due longer than one it serves.
SessionServesTheBoxes ==
    \A S \in {Visible} \cup {InDeck(d) : d \in Decks} :
        /\ \A w \in Session(S) : IsStarted(w)
        /\ StartedCards(S) # {} => Session(S) # {}
        /\ \A v \in S \cap DueCards, w \in Session(S) : v \in Session(S) \/ Before(w, v)

\* The roster of a deck counts rows by the deck they mirror, the deck list by
\* the card's own deck: for a member who started every card by hand they agree.
RosterCountsTheDeck ==
    \A d \in Decks : seat[d] = "self_paced" =>
        /\ RosterLine(d).seen = DeckBadge(d).started
        /\ RosterLine(d).mastered = Tally(d, 5, TRUE).words

\* Every reading of the progress table says the same: what is due, how many
\* there are, what a session serves and what a deck's roster shows.
ScreensAgree ==
    OneDueness /\ TotalsAgree /\ SessionServesTheBoxes /\ RosterCountsTheDeck

\* The queue never climbs through the day: a card enters it only at the
\* learner's midnight, or because the learner joined its deck, moved the card,
\* took it back or changed zone.  Answering, adding, starting and moving a card
\* between boxes add nothing to today.
QueueNeverClimbs ==
    [][\A w \in DueCards' \ DueCards :
          \/ DayOf(now', zone') # DayOf(now, zone)
          \/ zone' # zone \/ seat' # seat
          \/ card[w].in /\ card[w].deck # card[w].deck'
          \/ row[w].in /\ ~row[w].in']_vars
=============================================================================
