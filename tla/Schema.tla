------------------------------- MODULE Schema -------------------------------
(***************************************************************************)
(* The database under its migrations: the chain of Alembic revisions, each *)
(* with the objects its upgrade and its downgrade create and drop, and what *)
(* the ones that move rows do to the rows already there.  Between two      *)
(* migrations the release of the day writes rows in the shape it finds.    *)
(*                                                                         *)
(* An object is a table, a column added to a table that already existed,   *)
(* or a foreign key whose ON DELETE rule a revision changes.  One deck and *)
(* one study day stand for all.  `deploy` migrates up before it starts the *)
(* release and Postgres runs a migration in one transaction, so a step up  *)
(* or down is atomic.                                                      *)
(***************************************************************************)
EXTENDS Naturals, Sequences, FiniteSets, FiniteSetsExt

CONSTANTS
    Users, DeckOwner, \* the accounts, and the one whose deck it is
    Order,            \* the accounts in the order they were created
    Cards,
    TopBox,           \* the last Leitner box
    Profiles,         \* what an account may sign up with
    Reserved,         \* handles nobody may have
    PointCap,         \* the largest value of one ledger row
    MaxWrites,        \* bound: rows written by the releases
    None

SchemaAssumption ==
    /\ DeckOwner \in Users /\ None \notin Users
    /\ TopBox \in Nat /\ TopBox > 1 /\ PointCap \in Nat
    /\ Order \in Seq(Users) /\ {Order[i] : i \in DOMAIN Order} = Users
    /\ Len(Order) = Cardinality(Users)
    \* no name spells the fallback handle of an account
    /\ \A p \in Profiles, u \in Users : p.name # <<u>>

VARIABLES
    rev,        \* how many revisions are applied
    schema,     \* the objects that exist
    people, cards, progress, members, log, rollup, xp, links,
    writes

vars == << rev, schema, people, cards, progress, members, log, rollup, xp, links, writes >>
rows == << people, cards, progress, members, log, rollup, xp, links >>

-----------------------------------------------------------------------------
(* The revisions, oldest first.                                            *)

Change(adds, drops) == [adds |-> adds, drops |-> drops]

\* The n-th revision: each names the one before it, and they are applied in
\* that order.
Revision(n, up, down) == [n |-> n, up |-> up, down |-> down]
Nothing == Change({}, {})

InitialSchema == Revision(1,
    Change({"otp_challenges", "users", "decks", "words", "words.user_id", "words.box",
            "words.due_at", "words.review_count", "words.last_reviewed_at",
            "words owner CASCADE"}, {}),
    Change({}, {"words", "words.user_id", "words.box", "words.due_at", "words.review_count",
                "words.last_reviewed_at", "words owner CASCADE", "decks", "users",
                "otp_challenges"}))

WidenAgeRange == Revision(2, Nothing, Nothing)

InterestsAndGoal == Revision(3,
    Change({"users.interests", "users.daily_goal"}, {}),
    Change({}, {"users.daily_goal", "users.interests"}))

AdminFlag == Revision(4,
    Change({"users.is_admin", "users.last_login_at"}, {}),
    Change({}, {"users.last_login_at", "users.is_admin"}))

WordDefinition == Revision(5,
    Change({"words.definition"}, {}), Change({}, {"words.definition"}))

LookupCache == Revision(6,
    Change({"ai_lookup_entries", "ai_lookup_aliases"}, {}),
    Change({}, {"ai_lookup_aliases", "ai_lookup_entries"}))

HitTracking == Revision(7,
    Change({"ai_lookup_entries.hit_count", "ai_lookup_entries.last_accessed_at"}, {}),
    Change({}, {"ai_lookup_entries.last_accessed_at", "ai_lookup_entries.hit_count"}))

SummaryColumns == {"words.lapse_count", "words.consecutive_correct", "words.first_reviewed_at",
                   "words.mastered_at", "words.last_grade"}

ReviewHistory == Revision(8,
    Change(SummaryColumns \cup {"word_reviews", "ensure_word_reviews_partition"}, {}),
    Change({}, SummaryColumns \cup {"word_reviews", "ensure_word_reviews_partition"}))

\* The columns of one learner's study state, which leave the card.
ProgressColumns == {"words.box", "words.due_at", "words.review_count", "words.last_reviewed_at"}
                       \cup SummaryColumns

SplitProgress == Revision(9,
    Change({"deck_members", "word_progress", "words.created_by", "words owner RESTRICT"},
           ProgressColumns \cup {"words.user_id", "words owner CASCADE"}),
    Change(ProgressColumns \cup {"words.user_id", "words owner CASCADE"},
           {"words.created_by", "words owner RESTRICT", "word_progress", "deck_members"}))

Handles == Revision(10,
    Change({"users.username", "users.target_language", "users.proficiency",
            "users.study_time", "users.timezone"}, {}),
    Change({}, {"users.timezone", "users.study_time", "users.proficiency",
                "users.target_language", "users.username"}))

\* Mutant: the column stays behind.
DeckUnitsLeftBehind == Revision(11,
    Change({"deck_units", "words.unit_id"}, {}), Change({}, {"deck_units"}))

DeckUnits == Revision(11,
    Change({"deck_units", "words.unit_id"}, {}), Change({}, {"words.unit_id", "deck_units"}))

InvitesAndActivity == Revision(12,
    Change({"deck_invites", "daily_deck_activity"}, {}),
    Change({}, {"daily_deck_activity", "deck_invites"}))

CreatorMayLeave == Revision(13,
    Change({"words owner SET NULL"}, {"words owner RESTRICT"}),
    Change({"words owner RESTRICT"}, {"words owner SET NULL"}))

ExploreColumns == {"decks.is_public", "decks.published_at", "decks.category",
                   "decks.description", "decks.description_fa", "decks.is_official",
                   "decks.save_count"}

DiscoveryFriendsXp == Revision(14,
    Change(ExploreColumns \cup {"deck_shares", "friend_links", "users.xp", "xp_events"}, {}),
    Change({}, {"xp_events", "users.xp", "friend_links", "deck_shares"} \cup ExploreColumns))

SelfPaced == Revision(15,
    Change({"deck_members.self_paced"}, {}), Change({}, {"deck_members.self_paced"}))

Phonetic == Revision(16, Change({"words.phonetic"}, {}), Change({}, {"words.phonetic"}))

LexiconAndBuilds == Revision(17,
    Change({"lexemes", "lexeme_senses", "lexeme_sense_translations", "deck_build_jobs",
            "deck_build_items", "words.lexeme_sense_id"}, {}),
    Change({}, {"words.lexeme_sense_id", "deck_build_items", "deck_build_jobs",
                "lexeme_sense_translations", "lexeme_senses", "lexemes"}))

CopiedFrom == Revision(18,
    Change({"decks.copied_from_deck_id"}, {}), Change({}, {"decks.copied_from_deck_id"}))

Icon == Revision(19, Change({"decks.icon"}, {}), Change({}, {"decks.icon"}))

RequestsNeedAnswer == Revision(20,
    Change({"friend_links.accepted"}, {}), Change({}, {"friend_links.accepted"}))

Feedback == Revision(21,
    Change({"feedback_reports", "ai_feedback"}, {}), Change({}, {"ai_feedback", "feedback_reports"}))

BankOnceADay == Revision(22,
    Change({"users.streak_last_day", "users.streak_banked_on",
            "daily_deck_activity.due_reviews"}, {}),
    Change({}, {"daily_deck_activity.due_reviews", "users.streak_banked_on",
                "users.streak_last_day"}))

CelebrateOnce == Revision(23,
    Change({"users.goal_celebrated_on"}, {}), Change({}, {"users.goal_celebrated_on"}))

Reader == Revision(24,
    Change({"books", "book_chapters", "book_blocks", "book_progress", "passage_translations"}, {}),
    Change({}, {"passage_translations", "book_progress", "book_blocks", "book_chapters", "books"}))

SentenceMeanings == Revision(25,
    Change({"sentence_meanings"}, {}), Change({}, {"sentence_meanings"}))

OneAccount == Revision(26,
    Change({"users.is_email_verified", "account_link_challenges"}, {}),
    Change({}, {"account_link_challenges", "users.is_email_verified"}))

Revisions ==
    {InitialSchema, WidenAgeRange, InterestsAndGoal, AdminFlag, WordDefinition, LookupCache,
     HitTracking, ReviewHistory, SplitProgress, Handles, DeckUnits, InvitesAndActivity,
     CreatorMayLeave, DiscoveryFriendsXp, SelfPaced, Phonetic, LexiconAndBuilds, CopiedFrom,
     Icon, RequestsNeedAnswer, Feedback, BankOnceADay, CelebrateOnce, Reader,
     SentenceMeanings, OneAccount}

Has(object) == object \in schema

\* A CREATE of what exists, or a DROP of what does not, stops the run.
Applies(change) == change.adds \cap schema = {} /\ change.drops \subseteq schema

Run(change) ==
    /\ Applies(change)
    /\ schema' = (schema \ change.drops) \cup change.adds
    /\ UNCHANGED writes

Up(r) == r.n = rev + 1 /\ rev' = rev + 1 /\ Run(r.up)
Down(r) == r.n = rev /\ rev' = rev - 1 /\ Run(r.down)

-----------------------------------------------------------------------------
(* The rows a revision finds.                                              *)

NoCard == [by |-> None, box |-> None]      \* no such row; a live card has a box or 0
Zero == [reviews |-> 0, mastered |-> 0]

\* The review log: its rows are counted, for each learner and card.
EmptyLog == [u \in Users |-> [c \in Cards |-> Zero]]
Accounts == {u \in Users : people[u] # None}
Live == {c \in Cards : cards[c] # NoCard}

\* A card's box for a learner, from wherever the shape of the day keeps it;
\* a learner with no row of their own is in box 1.
OwnBox(u, c) ==
    IF Has("word_progress")
    THEN IF progress[u][c] = 0 THEN 1 ELSE progress[u][c]
    ELSE cards[c].box

Friends(u) == {v \in Users : links[u][v] \in {"linked", "friends"}}
StreakDay(u) == IF Has("users.streak_last_day") THEN people[u].last ELSE people[u].studied

\* What a learner's log adds up to.
Logged(u) == [reviews |-> MapThenSumSet(LAMBDA c : log[u][c].reviews, Cards),
              mastered |-> MapThenSumSet(LAMBDA c : log[u][c].mastered, Cards)]

-----------------------------------------------------------------------------
(* The migrations that move rows.                                          *)

\* Mutant: the values allowed change, the rows keep theirs.
AgeLeftAsSpelt(from, to) == UNCHANGED people

MigrateAge(from, to) ==
    people' = [u \in Users |-> IF u \in Accounts /\ people[u].age = from
                               THEN [people[u] EXCEPT !.age = to] ELSE people[u]]

UpAge ==
    /\ Up(WidenAgeRange)
    /\ MigrateAge("hyphen", "dash")
    /\ UNCHANGED << cards, progress, members, log, rollup, xp, links >>

\* The two new answers have no short form.
DownAge ==
    /\ Down(WidenAgeRange)
    /\ people' = [u \in Users |->
           IF u \notin Accounts THEN people[u]
           ELSE [people[u] EXCEPT !.age = CASE @ = "dash" -> "hyphen"
                                            [] @ = "long" -> None
                                            [] OTHER -> @]]
    /\ UNCHANGED << cards, progress, members, log, rollup, xp, links >>

\* Dropping the log drops every partition with it.
DownReviewHistory ==
    /\ Down(ReviewHistory)
    /\ log' = EmptyLog
    /\ UNCHANGED << people, cards, progress, members, rollup, xp, links >>

\* Mutant: rows start over in box 1.
ProgressFromScratch ==
    [u \in Users |-> [c \in Cards |-> IF c \in Live /\ cards[c].by = u THEN 1 ELSE 0]]

\* Every deck's creator becomes its owner; each card leaves one row, for the
\* user who owned it.
BackfilledProgress ==
    [u \in Users |-> [c \in Cards |-> IF c \in Live /\ cards[c].by = u
                                      THEN cards[c].box ELSE 0]]

UpSplitProgress ==
    /\ Up(SplitProgress)
    /\ members' = Accounts \cap {DeckOwner}
    /\ progress' = BackfilledProgress
    /\ cards' = [c \in Cards |-> IF c \in Live THEN [cards[c] EXCEPT !.box = 0] ELSE NoCard]
    /\ UNCHANGED << people, log, rollup, xp, links >>

\* The creator's own row goes back onto the card; the others are lost.
FoldedBox(c) ==
    IF cards[c].by \in Users /\ progress[cards[c].by][c] # 0 THEN progress[cards[c].by][c] ELSE 1

DownSplitProgress ==
    /\ Down(SplitProgress)
    /\ cards' = [c \in Cards |-> IF c \in Live THEN [cards[c] EXCEPT !.box = FoldedBox(c)]
                                               ELSE NoCard]
    /\ progress' = [u \in Users |-> [c \in Cards |-> 0]]
    /\ members' = {}
    /\ UNCHANGED << people, log, rollup, xp, links >>

\* The name as a handle; then the shortest free number after it; then the id.
Usable(slug) == slug # << >> /\ slug \notin Reserved

FreeNumber(slug, taken) ==
    CHOOSE n \in 2 .. Cardinality(taken) + 2 :
        /\ Append(slug, n) \notin taken \cup Reserved
        /\ \A m \in 2 .. n - 1 : Append(slug, m) \in taken \cup Reserved

HandleFor(u, slug, taken) ==
    IF ~Usable(slug) THEN <<u>>
    ELSE IF slug \in taken THEN Append(slug, FreeNumber(slug, taken))
    ELSE slug

\* The handles given to the first n accounts, oldest first.
Given[n \in 0 .. Len(Order)] ==
    IF n = 0 THEN [u \in Users |-> None]
    ELSE LET before == Given[n - 1]
             u == Order[n]
             taken == {before[v] : v \in Users} \ {None}
         IN IF u \in Accounts
            THEN [before EXCEPT ![u] = HandleFor(u, people[u].name, taken)]
            ELSE before

UpHandles ==
    /\ Up(Handles)
    /\ LET given == Given[Len(Order)]
       IN people' = [u \in Users |-> IF u \in Accounts
                                     THEN [people[u] EXCEPT !.handle = given[u]] ELSE None]
    /\ UNCHANGED << cards, progress, members, log, rollup, xp, links >>

DownHandles ==
    /\ Down(Handles)
    /\ people' = [u \in Users |-> IF u \in Accounts
                                  THEN [people[u] EXCEPT !.handle = None] ELSE None]
    /\ UNCHANGED << cards, progress, members, log, rollup, xp, links >>

\* The rollup is rebuilt from the log.
RebuiltRollup == [u \in Users |-> Logged(u)]

UpActivity ==
    /\ Up(InvitesAndActivity)
    /\ rollup' = RebuiltRollup
    /\ UNCHANGED << people, cards, progress, members, log, xp, links >>

DownActivity ==
    /\ Down(InvitesAndActivity)
    /\ rollup' = [u \in Users |-> Zero]
    /\ UNCHANGED << people, cards, progress, members, log, xp, links >>

\* A card whose creator is gone is attributed to the deck's creator, so that
\* the column can be NOT NULL again.
Reattributed ==
    [c \in Cards |-> IF c \in Live /\ cards[c].by = None
                     THEN [cards[c] EXCEPT !.by = DeckOwner] ELSE cards[c]]

DownCreators ==
    /\ Down(CreatorMayLeave)
    /\ cards' = Reattributed
    /\ UNCHANGED << people, progress, members, log, rollup, xp, links >>

\* Mutant: the counter is taken from the log, past the cap of the row.
CreditedUncapped ==
    [u \in Users |-> LET points == IF Logged(u).reviews < PointCap THEN Logged(u).reviews
                                                                   ELSE PointCap
                     IN [ledger |-> points, counter |-> Logged(u).reviews]]

\* One summarising ledger row per learner, and the counter every request reads.
CreditedXp ==
    [u \in Users |-> LET points == IF Logged(u).reviews < PointCap THEN Logged(u).reviews
                                                                   ELSE PointCap
                     IN [ledger |-> points, counter |-> points]]

UpXp ==
    /\ Up(DiscoveryFriendsXp)
    /\ xp' = CreditedXp
    /\ UNCHANGED << people, cards, progress, members, log, rollup, links >>

DownXp ==
    /\ Down(DiscoveryFriendsXp)
    /\ xp' = [u \in Users |-> [ledger |-> 0, counter |-> 0]]
    /\ links' = [u \in Users |-> [v \in Users |-> "none"]]
    /\ UNCHANGED << people, cards, progress, members, log, rollup >>

\* A link made when adding somebody was the whole act counts as answered.
UpRequests ==
    /\ Up(RequestsNeedAnswer)
    /\ links' = [u \in Users |-> [v \in Users |->
           IF links[u][v] = "linked" THEN "friends" ELSE links[u][v]]]
    /\ UNCHANGED << people, cards, progress, members, log, rollup, xp >>

\* Mutant: the column is dropped and the requests stay.
RequestsPromoted ==
    /\ Down(RequestsNeedAnswer)
    /\ links' = [u \in Users |-> [v \in Users |->
           IF links[u][v] = "none" THEN "none" ELSE "linked"]]
    /\ UNCHANGED << people, cards, progress, members, log, rollup, xp >>

\* A request nobody answered has no form in the old shape: it goes.
DownRequests ==
    /\ Down(RequestsNeedAnswer)
    /\ links' = [u \in Users |-> [v \in Users |->
           IF links[u][v] = "friends" THEN "linked" ELSE "none"]]
    /\ UNCHANGED << people, cards, progress, members, log, rollup, xp >>

UpStreak ==
    /\ Up(BankOnceADay)
    /\ people' = [u \in Users |-> IF u \in Accounts
                                  THEN [people[u] EXCEPT !.last = people[u].studied] ELSE None]
    /\ UNCHANGED << cards, progress, members, log, rollup, xp, links >>

DownStreak ==
    /\ Down(BankOnceADay)
    /\ people' = [u \in Users |-> IF u \in Accounts
                                  THEN [people[u] EXCEPT !.last = FALSE] ELSE None]
    /\ UNCHANGED << cards, progress, members, log, rollup, xp, links >>

\* Addresses are lowered; a Gmail address of a Google account is proven,
\* unless two accounts hold it.
Holders(addr) == {u \in Accounts : people[u].addr = addr}

\* Mutant: shared addresses are proven too.
BlessedAnyway(u) == people[u].google /\ people[u].gmail

BlessedByGoogle(u) ==
    /\ people[u].google /\ people[u].gmail
    /\ Cardinality(Holders(people[u].addr)) = 1

UpOneAccount ==
    /\ Up(OneAccount)
    /\ people' = [u \in Users |->
           IF u \in Accounts
           THEN [people[u] EXCEPT !.lower = TRUE, !.verified = BlessedByGoogle(u)] ELSE None]
    /\ UNCHANGED << cards, progress, members, log, rollup, xp, links >>

\* The lowering is not undone.
DownOneAccount ==
    /\ Down(OneAccount)
    /\ people' = [u \in Users |-> IF u \in Accounts
                                  THEN [people[u] EXCEPT !.verified = FALSE] ELSE None]
    /\ UNCHANGED << cards, progress, members, log, rollup, xp, links >>

\* Back to nothing.
DownInitial ==
    /\ Down(InitialSchema)
    /\ people' = [u \in Users |-> None]
    /\ cards' = [c \in Cards |-> NoCard]
    /\ UNCHANGED << progress, members, log, rollup, xp, links >>

\* Every other step only changes objects.
UpOnlyObjects ==
    /\ \E r \in {InitialSchema, InterestsAndGoal, AdminFlag, WordDefinition, LookupCache,
                 HitTracking, ReviewHistory, DeckUnits, CreatorMayLeave, SelfPaced, Phonetic,
                 LexiconAndBuilds, CopiedFrom, Icon, Feedback, CelebrateOnce, Reader,
                 SentenceMeanings} : Up(r)
    /\ UNCHANGED rows

DownOnlyObjects ==
    /\ \E r \in {InterestsAndGoal, AdminFlag, WordDefinition, LookupCache, HitTracking,
                 DeckUnits, SelfPaced, Phonetic, LexiconAndBuilds, CopiedFrom, Icon, Feedback,
                 CelebrateOnce, Reader, SentenceMeanings} : Down(r)
    /\ UNCHANGED rows

Migrate ==
    \/ UpAge \/ UpSplitProgress \/ UpHandles \/ UpActivity \/ UpXp \/ UpRequests \/ UpStreak
    \/ UpOneAccount \/ UpOnlyObjects
    \/ DownAge \/ DownReviewHistory \/ DownSplitProgress \/ DownHandles \/ DownActivity
    \/ DownCreators \/ DownXp \/ DownRequests \/ DownStreak \/ DownOneAccount \/ DownInitial
    \/ DownOnlyObjects

-----------------------------------------------------------------------------
(* What a release writes between migrations, in the shape it finds.  The   *)
(* releases that ran at the earlier revisions are not in the repository:   *)
(* they are taken to have written what the columns they had could hold.    *)

Write == writes < MaxWrites /\ writes' = writes + 1 /\ UNCHANGED << rev, schema >>

SignUp(u, p) ==
    /\ Write
    /\ Has("users") /\ people[u] = None
    /\ people' = [people EXCEPT ![u] =
           [name |-> p.name, addr |-> p.addr, gmail |-> p.gmail, google |-> p.google,
            lower |-> p.lower \/ Has("users.is_email_verified"),
            age |-> None, handle |-> None, studied |-> FALSE, last |-> FALSE,
            verified |-> FALSE]]
    /\ members' = IF u = DeckOwner /\ Has("deck_members") THEN members \cup {u} ELSE members
    /\ UNCHANGED << cards, progress, log, rollup, xp, links >>

SetAge(u) ==
    /\ Write
    /\ u \in Accounts
    /\ \E age \in IF rev = 1 THEN {"hyphen"} ELSE {"dash", "long"} :
           people' = [people EXCEPT ![u].age = age]
    /\ UNCHANGED << cards, progress, members, log, rollup, xp, links >>

Join(u) ==
    /\ Write
    /\ Has("deck_members") /\ DeckOwner \in Accounts /\ u \in Accounts \ members
    /\ members' = members \cup {u}
    /\ UNCHANGED << people, cards, progress, log, rollup, xp, links >>

AddCard(u, c) ==
    /\ Write
    /\ c \notin Live /\ u \in Accounts /\ DeckOwner \in Accounts
    /\ IF Has("deck_members") THEN u \in members ELSE u = DeckOwner
    /\ cards' = [cards EXCEPT ![c] = [by |-> u, box |-> IF Has("words.box") THEN 1 ELSE 0]]
    /\ UNCHANGED << people, progress, members, log, rollup, xp, links >>

\* Everyone's progress and log of the card go with it; the rollup stands.
DeleteCard(c) ==
    /\ Write
    /\ c \in Live
    /\ cards' = [cards EXCEPT ![c] = NoCard]
    /\ progress' = [u \in Users |-> [progress[u] EXCEPT ![c] = 0]]
    /\ log' = [u \in Users |-> [log[u] EXCEPT ![c] = Zero]]
    /\ UNCHANGED << people, members, rollup, xp, links >>

Plus(tally, into) == [reviews |-> tally.reviews + 1,
                      mastered |-> tally.mastered + IF into THEN 1 ELSE 0]

GradeCard(u, c, box) ==
    /\ Write
    /\ u \in Accounts /\ c \in Live
    /\ IF Has("word_progress") THEN u \in members ELSE cards[c].by = u
    /\ LET into == box = TopBox /\ OwnBox(u, c) # TopBox
       IN /\ log' = IF Has("word_reviews") THEN [log EXCEPT ![u][c] = Plus(@, into)] ELSE log
          /\ rollup' = IF Has("daily_deck_activity")
                       THEN [rollup EXCEPT ![u] = Plus(@, into)] ELSE rollup
    /\ IF Has("word_progress")
       THEN progress' = [progress EXCEPT ![u][c] = box] /\ UNCHANGED cards
       ELSE cards' = [cards EXCEPT ![c].box = box] /\ UNCHANGED progress
    /\ xp' = IF Has("xp_events")
             THEN [xp EXCEPT ![u] = [ledger |-> @.ledger + 1, counter |-> @.counter + 1]] ELSE xp
    /\ \E met \in BOOLEAN :
           people' = [people EXCEPT ![u].studied = TRUE,
                                    ![u].last = @ \/ (met /\ Has("users.streak_last_day"))]
    /\ UNCHANGED << members, links >>

\* Under the old rule adding was the whole act; now it asks, and the answer
\* writes the other half.
Befriend(u, v) ==
    /\ Write
    /\ Has("friend_links") /\ {u, v} \subseteq Accounts /\ u # v /\ links[u][v] = "none"
    /\ links' = [links EXCEPT ![u][v] = IF Has("friend_links.accepted") THEN "asked"
                                                                       ELSE "linked"]
    /\ UNCHANGED << people, cards, progress, members, log, rollup, xp >>

Accept(u, v) ==
    /\ Write
    /\ links[v][u] = "asked"
    /\ links' = [links EXCEPT ![v][u] = "friends", ![u][v] = "friends"]
    /\ UNCHANGED << people, cards, progress, members, log, rollup, xp >>

ProveEmail(u) ==
    /\ Write
    /\ Has("users.is_email_verified") /\ u \in Accounts /\ ~people[u].verified
    /\ ~\E v \in Holders(people[u].addr) : people[v].verified
    /\ people' = [people EXCEPT ![u].verified = TRUE]
    /\ UNCHANGED << cards, progress, members, log, rollup, xp, links >>

\* An account that owns no deck leaves, under the rule of the day for the
\* cards it wrote.
EraseAccount(u) ==
    /\ Write
    /\ u \in Accounts \ {DeckOwner}
    /\ Has("words owner RESTRICT") => \A c \in Live : cards[c].by # u
    /\ cards' = [c \in Cards |->
           IF cards[c].by # u THEN cards[c]
           ELSE IF Has("words owner CASCADE") THEN NoCard
           ELSE [cards[c] EXCEPT !.by = None]]
    /\ people' = [people EXCEPT ![u] = None]
    /\ progress' = [progress EXCEPT ![u] = [c \in Cards |-> 0]]
    /\ members' = members \ {u}
    /\ log' = [v \in Users |-> [c \in Cards |->
           IF v = u \/ (c \in Live /\ cards'[c] = NoCard) THEN Zero ELSE log[v][c]]]
    /\ rollup' = [rollup EXCEPT ![u] = Zero]
    /\ xp' = [xp EXCEPT ![u] = [ledger |-> 0, counter |-> 0]]
    /\ links' = [v \in Users |-> [w \in Users |-> IF u \in {v, w} THEN "none" ELSE links[v][w]]]

Release ==
    \/ \E u \in Users :
        \/ \E p \in Profiles : SignUp(u, p)
        \/ SetAge(u) \/ Join(u) \/ ProveEmail(u) \/ EraseAccount(u)
        \/ \E c \in Cards : AddCard(u, c) \/ \E box \in 1 .. TopBox : GradeCard(u, c, box)
        \/ \E v \in Users : Befriend(u, v) \/ Accept(u, v)
    \/ \E c \in Cards : DeleteCard(c)

Init ==
    /\ rev = 0 /\ schema = {}
    /\ people = [u \in Users |-> None]
    /\ cards = [c \in Cards |-> NoCard]
    /\ progress = [u \in Users |-> [c \in Cards |-> 0]]
    /\ members = {}
    /\ log = EmptyLog
    /\ rollup = [u \in Users |-> Zero]
    /\ xp = [u \in Users |-> [ledger |-> 0, counter |-> 0]]
    /\ links = [u \in Users |-> [v \in Users |-> "none"]]
    /\ writes = 0

Next == Migrate \/ Release

Spec == Init /\ [][Next]_vars

-----------------------------------------------------------------------------
(* Properties.                                                             *)

\* From any state the next revision applies and the last one rolls back:
\* no downgrade leaves behind, or takes away, what the upgrade after it
\* creates or drops (the round trip of .github/workflows/ci.yml:48-53).
EveryRevisionApplies ==
    \A r \in Revisions :
        /\ r.n = rev + 1 => Applies(r.up)
        /\ r.n = rev => Applies(r.down)

Distinct(key(_), S) == \A u, v \in S : key(u) = key(v) => u = v

\* Whatever path the database took, its rows have the form the release at
\* this revision reads: answers spelt its way, a creator where the column is
\* NOT NULL, a handle of each account's own, a proven address of one account
\* and lowered.  A unique index or a NOT NULL would refuse the migration.
RowsFitTheShape ==
    /\ \A u \in Accounts :
           /\ rev <= 1 => people[u].age \in {None, "hyphen"}
           /\ rev > 1 => people[u].age # "hyphen"
           /\ people[u].verified => people[u].lower
    /\ Has("words owner RESTRICT") \/ Has("words owner CASCADE") =>
           \A c \in Live : cards[c].by # None
    /\ Distinct(LAMBDA u : people[u].handle, {u \in Accounts : people[u].handle # None})
    /\ Distinct(LAMBDA u : people[u].addr, {u \in Accounts : people[u].verified})

\* An upgrade changes nothing a learner reads: their boxes (at the split,
\* those of the cards they own), their friends, the deck they own, the day
\* their streak is counted from.
UpgradeKeepsWhatIsRead ==
    [][rev' = rev + 1 =>
        /\ \A u \in Accounts :
              /\ \A c \in Live : cards[c].by = u => OwnBox(u, c)' = OwnBox(u, c)
              /\ Friends(u)' = Friends(u)
              /\ StreakDay(u)' = StreakDay(u)
        /\ Has("deck_members")' /\ DeckOwner \in Accounts => DeckOwner \in members']_vars

\* A downgrade loses only what the old shape cannot hold: a creator's own box
\* stays theirs, no account or card goes, and no unanswered request comes
\* back as a friendship.
DowngradeKeepsWhatFits ==
    [][rev' = rev - 1 /\ rev' > 0 =>
        /\ Accounts' = Accounts /\ Live' = Live
        /\ \A u \in Accounts : Friends(u)' \subseteq Friends(u)
        /\ \A u \in Accounts, c \in Live : cards'[c].by = u => OwnBox(u, c)' = OwnBox(u, c)]_vars

\* The XP counter is the sum of its ledger, and the roster's rollup never
\* reports less than the log, through every backfill and rollback.
CountersCoverTheirLogs ==
    \A u \in Accounts :
        /\ xp[u].counter = xp[u].ledger
        /\ Has("daily_deck_activity") =>
              /\ rollup[u].reviews >= Logged(u).reviews
              /\ rollup[u].mastered >= Logged(u).mastered
              /\ rollup[u].mastered <= rollup[u].reviews

\* What the docstring of d1a5b7c34e86 (lines 22-24) says of the rollup: a
\* learner who lapsed out of the last box and returned is not counted twice.
MasteredOncePerCard ==
    Has("daily_deck_activity") =>
        \A u \in Accounts : rollup[u].mastered <= Cardinality(Cards)
=============================================================================
