---------------------------- MODULE DeckContent ----------------------------
(***************************************************************************)
(* What is in a deck: its units, its cards, the learner's row for a card,  *)
(* the transcriptions a worker fills in, and the copy taken of a deck.     *)
(* The people here may edit every deck; who may is the matter of Sharing.  *)
(*                                                                         *)
(* A request reads what is committed (Begin...) and writes in a later step,*)
(* its commit.  A card is written back through the unit of work: the       *)
(* columns that differ from the row it holds, which is the one first read  *)
(* or, since rows are held weakly, the one there is now.                   *)
(***************************************************************************)
EXTENDS Naturals, FiniteSets

CONSTANTS
    Decks, Units, Words,  \* ids there can be
    Terms,                \* spellings
    Requests,             \* requests and batches in flight at once
    MaxRequests,          \* bound: requests started
    FirstDecks,           \* the decks there are at first
    None

\* A transcription is the dictionary's, of a term, or one a person typed.
Typed == "typed"
Phonetics == Terms \cup {Typed, None}

UnitRow == [deck : Decks, position : Nat]
WordRow == [deck : Decks, unit : Units \cup {None}, term : Terms, phonetic : Phonetics]
Idle == [op |-> "idle"]

ContentAssumption ==
    /\ MaxRequests \in Nat /\ FirstDecks \subseteq Decks
    /\ None \notin Units \cup Decks \cup Terms /\ None \notin UnitRow /\ None \notin WordRow

VARIABLES
    decks,      \* the decks that exist
    units,      \* units[u]: the row, or None
    words,      \* words[w]: the row, or None
    progress,   \* progress[w]: word_progress.deck_id of the learner's row, or None
    drawn,      \* ids used so far; none is used twice
    request,    \* request[r]: what r has read and is about to write
    started,    \* requests started so far
    stale       \* cards written from a read that was no longer the row, and their copies

vars == <<decks, units, words, progress, drawn, request, started, stale>>

\* A card in a unit of its deck, in the learner's boxes.
Init ==
    /\ decks = FirstDecks
    /\ \E d \in decks, u \in Units, w \in Words, t \in Terms :
         /\ units = [x \in Units |-> IF x = u THEN [deck |-> d, position |-> 0] ELSE None]
         /\ words = [x \in Words |->
              IF x = w THEN [deck |-> d, unit |-> u, term |-> t, phonetic |-> None] ELSE None]
         /\ progress = [x \in Words |-> IF x = w THEN d ELSE None]
         /\ drawn = {u, w} \cup decks
    /\ request = [r \in Requests |-> Idle]
    /\ started = 0
    /\ stale = {}

(***************************************************************************)
(* Requests                                                                *)
(***************************************************************************)

Starts(r, row) ==
    /\ request[r] = Idle /\ started < MaxRequests
    /\ started' = started + 1
    /\ request' = [request EXCEPT ![r] = row]
    /\ UNCHANGED <<decks, units, words, progress, drawn, stale>>
At(r, op) == request[r].op = op
Done(r) == request' = [request EXCEPT ![r] = Idle] /\ UNCHANGED started

InDeck(table, d) == {x \in DOMAIN table : table[x] # None /\ table[x].deck = d}

(***************************************************************************)
(* Units                                                                   *)
(***************************************************************************)

\* next_position: one more than the highest, read before the insert.
NextPosition(d) ==
    IF InDeck(units, d) = {} THEN 0
    ELSE 1 + (CHOOSE p \in {units[u].position : u \in InDeck(units, d)} :
                \A v \in InDeck(units, d) : units[v].position <= p)

BeginCreateUnit(r, d) ==
    d \in decks /\ Starts(r, [op |-> "unit", deck |-> d, position |-> NextPosition(d)])

CreateUnit(r) ==
    /\ At(r, "unit") /\ request[r].deck \in decks
    /\ \E u \in Units \ drawn :
         /\ units' = [units EXCEPT
              ![u] = [deck |-> request[r].deck, position |-> request[r].position]]
         /\ drawn' = drawn \cup {u}
    /\ Done(r)
    /\ UNCHANGED <<decks, words, progress, stale>>

\* Mutant: nothing happens to the cards of a unit that goes.
LeftPointing(gone) == words

\* Cards of units that go are left without one: ON DELETE SET NULL.
Loosened(gone) ==
    [w \in Words |->
        IF words[w] # None /\ words[w].unit \in gone THEN [words[w] EXCEPT !.unit = None]
        ELSE words[w]]

BeginDeleteUnit(r, u) == units[u] # None /\ Starts(r, [op |-> "drop", unit |-> u])

DeleteUnit(r) ==
    /\ At(r, "drop")
    /\ units' = [units EXCEPT ![request[r].unit] = None]
    /\ words' = Loosened({request[r].unit})
    /\ Done(r)
    /\ UNCHANGED <<decks, progress, drawn, stale>>

(***************************************************************************)
(* Cards                                                                   *)
(***************************************************************************)

\* _assert_unit_in_deck
UnitInDeck(u, d) == units[u] # None /\ units[u].deck = d

\* The foreign keys of a card.
Refers(row) == row.deck \in decks /\ (row.unit # None => units[row.unit] # None)

BeginCreateWord(r, d, unit, t) ==
    /\ d \in decks /\ (unit # None => UnitInDeck(unit, d))
    /\ Starts(r, [op |-> "card",
                  row |-> [deck |-> d, unit |-> unit, term |-> t, phonetic |-> None]])

\* The card, and in a self-paced deck its author's row for it.
CreateWord(r) ==
    /\ At(r, "card") /\ Refers(request[r].row)
    /\ \E w \in Words \ drawn, selfPaced \in BOOLEAN :
         /\ words' = [words EXCEPT ![w] = request[r].row]
         /\ progress' = IF selfPaced THEN [progress EXCEPT ![w] = request[r].row.deck] ELSE progress
         /\ drawn' = drawn \cup {w}
    /\ Done(r)
    /\ UNCHANGED <<decks, units, stale>>

\* Mutant: the transcription survives a new spelling.
KeptPhonetic(row, term, given) == IF given # "unset" THEN given ELSE row.phonetic

\* The transcription after an edit that spells the card `term`, and may type
\* one or clear it.
EditedPhonetic(row, term, given) ==
    IF given # "unset" THEN given ELSE IF term # row.term THEN None ELSE row.phonetic

\* Mutant: a card that moves keeps its unit.
KeptUnit(row, d) == row.unit

\* The unit of a card after an edit that names none.
LeftUnit(row, d) == IF d # row.deck THEN None ELSE row.unit

\* WordService.update reads the card and says what it is to be.  `unit` is
\* "unset" when the request does not mention it.
BeginUpdateWord(r, w, d, unit, t, given) ==
    LET row == words[w] IN
    /\ row # None /\ d \in decks
    /\ unit \in Units => UnitInDeck(unit, d)
    /\ Starts(r, [op |-> "edit", word |-> w, read |-> row,
                  want |-> [deck |-> d, term |-> t, phonetic |-> EditedPhonetic(row, t, given),
                            unit |-> IF unit = "unset" THEN LeftUnit(row, d) ELSE unit]])

\* apply_word and flush.
Flushed(now, held, want) ==
    [column \in DOMAIN now |-> IF want[column] # held[column] THEN want[column] ELSE now[column]]

\* Mutant: the learner's rows stay with the deck the card left.
MirrorLeft(w, row, moved) == progress

\* Every learner's row of a card that moved follows it.
Mirrored(w, row, moved) ==
    IF moved /\ progress[w] # None THEN [progress EXCEPT ![w] = row.deck] ELSE progress

UpdateWord(r) ==
    /\ At(r, "edit")
    /\ LET w == request[r].word
           read == request[r].read
           want == request[r].want
       IN  /\ words[w] # None
           /\ \E held \in {read, words[w]} :
                LET row == Flushed(words[w], held, want)
                IN  /\ Refers(row)
                    /\ words' = [words EXCEPT ![w] = row]
                    /\ progress' = Mirrored(w, want, held.deck # want.deck)
           /\ stale' = IF words[w] # read THEN stale \cup {w} ELSE stale
    /\ Done(r)
    /\ UNCHANGED <<decks, units, drawn>>

BeginDeleteWord(r, w) == words[w] # None /\ Starts(r, [op |-> "delete", word |-> w])

DeleteWord(r) ==
    /\ At(r, "delete")
    /\ words' = [words EXCEPT ![request[r].word] = None]
    /\ progress' = [progress EXCEPT ![request[r].word] = None]
    /\ Done(r)
    /\ UNCHANGED <<decks, units, drawn, stale>>

\* start: the cards of a deck the learner has no row for are listed ...
Unstarted(d) == {w \in InDeck(words, d) : progress[w] = None}

BeginStart(r, d) ==
    /\ d \in decks /\ Unstarted(d) # {}
    /\ Starts(r, [op |-> "start", deck |-> d, cards |-> Unstarted(d)])

\* ... and put in a box, with the deck they were listed for.
StartWords(r) ==
    /\ At(r, "start")
    /\ \A w \in request[r].cards : words[w] # None
    /\ progress' = [w \in Words |->
         IF w \in request[r].cards /\ progress[w] = None THEN request[r].deck ELSE progress[w]]
    /\ stale' = stale \cup {w \in request[r].cards : words[w].deck # request[r].deck}
    /\ Done(r)
    /\ UNCHANGED <<decks, units, words, drawn>>

\* unstart: the row of a card with no reviews.
Unstart(w) ==
    /\ progress[w] # None /\ started < MaxRequests
    /\ started' = started + 1
    /\ progress' = [progress EXCEPT ![w] = None]
    /\ UNCHANGED <<decks, units, words, drawn, request, stale>>

(***************************************************************************)
(* Transcriptions                                                          *)
(***************************************************************************)

\* list_terms_missing_phonetic, for a batch of the worker.
Missing == {words[w].term : w \in {x \in Words : words[x] # None /\ words[x].phonetic = None}}

BeginFill(r) == Missing # {} /\ Starts(r, [op |-> "fill", terms |-> Missing])

\* Mutant: set_phonetic_for_term does not look at what is there.
WantsAny(w) == TRUE

\* Only a card that has no transcription is given one.
WantsPhonetic(w) == words[w].phonetic = None

\* The dictionary knows some of the terms; the batch commits as a whole.
Fill(r) ==
    /\ At(r, "fill")
    /\ \E known \in SUBSET request[r].terms :
         words' = [w \in Words |->
             IF words[w] # None /\ words[w].term \in known /\ WantsPhonetic(w)
             THEN [words[w] EXCEPT !.phonetic = words[w].term] ELSE words[w]]
    /\ Done(r)
    /\ UNCHANGED <<decks, units, progress, drawn, stale>>

(***************************************************************************)
(* Copying and deleting a deck                                             *)
(***************************************************************************)

\* copy_deck_to reads the units, then the cards.
BeginCopy(r, d) ==
    /\ d \in decks
    /\ Starts(r, [op |-> "copying", deck |-> d, units |-> InDeck(units, d)])

ReadCards(r) ==
    /\ At(r, "copying")
    /\ request' = [request EXCEPT ![r] =
         [op |-> "copy", deck |-> @.deck, units |-> @.units,
          cards |-> [w \in InDeck(words, @.deck) |-> words[w]],
          stale |-> InDeck(words, @.deck) \cap stale]]
    /\ UNCHANGED <<decks, units, words, progress, drawn, started, stale>>

\* Mutant: the copy's card points at the unit it was copied from.
SameUnit(map, unit) == unit

\* unit_map.get: the copy of a unit, or none for one that was not copied.
CopiedUnit(map, unit) == IF unit \in DOMAIN map THEN map[unit] ELSE None

CopiedCard(card, d, map) == [card EXCEPT !.deck = d, !.unit = CopiedUnit(map, card.unit)]
Original(cards, map, w) == cards[CHOOSE x \in DOMAIN cards : map[x] = w]

Injections(from, to) ==
    {f \in [from -> to] : \A x, y \in from : f[x] = f[y] => x = y}

CopyDeck(r) ==
    /\ At(r, "copy") /\ request[r].deck \in decks
    /\ LET cards == request[r].cards IN
       \E d \in Decks \ drawn,
          unitMap \in Injections(request[r].units, Units \ drawn),
          wordMap \in Injections(DOMAIN cards, Words \ drawn) :
         LET newUnits == {unitMap[u] : u \in DOMAIN unitMap}
             newWords == {wordMap[w] : w \in DOMAIN wordMap}
         IN  /\ decks' = decks \cup {d}
             /\ units' = [u \in Units |->
                  IF u \in newUnits THEN [deck |-> d, position |-> 0] ELSE units[u]]
             /\ words' = [w \in Words |->
                  IF w \in newWords
                  THEN CopiedCard(Original(cards, wordMap, w), d, unitMap)
                  ELSE words[w]]
             /\ drawn' = drawn \cup {d} \cup newUnits \cup newWords
             /\ stale' = stale \cup {wordMap[w] : w \in request[r].stale}
    /\ Done(r)
    /\ UNCHANGED progress

\* DeckRepository.delete, with everything that hangs on the row.
DeleteDeck(d) ==
    /\ d \in decks /\ started < MaxRequests
    /\ started' = started + 1
    /\ decks' = decks \ {d}
    /\ units' = [u \in Units |-> IF u \in InDeck(units, d) THEN None ELSE units[u]]
    /\ words' = [w \in Words |->
         IF w \in InDeck(words, d) THEN None ELSE Loosened(InDeck(units, d))[w]]
    /\ progress' = [w \in Words |-> IF w \in InDeck(words, d) THEN None ELSE progress[w]]
    /\ UNCHANGED <<drawn, request, stale>>

\* A request that fails is rolled back.
Abort(r) ==
    /\ request[r] # Idle /\ Done(r)
    /\ UNCHANGED <<decks, units, words, progress, drawn, stale>>

(***************************************************************************)
(* Specification                                                           *)
(***************************************************************************)

Begin(r) ==
    \/ \E d \in Decks :
         \/ BeginCreateUnit(r, d) \/ BeginStart(r, d) \/ BeginCopy(r, d)
         \/ \E unit \in Units \cup {None}, t \in Terms :
              \/ BeginCreateWord(r, d, unit, t)
         \/ \E w \in Words, unit \in Units \cup {None, "unset"}, t \in Terms, given \in {"unset", Typed, None} :
              BeginUpdateWord(r, w, d, unit, t, given)
    \/ \E u \in Units : BeginDeleteUnit(r, u)
    \/ \E w \in Words : BeginDeleteWord(r, w)
    \/ BeginFill(r)

Commit(r) ==
    \/ CreateUnit(r) \/ DeleteUnit(r) \/ CreateWord(r) \/ UpdateWord(r) \/ DeleteWord(r)
    \/ StartWords(r) \/ Fill(r) \/ ReadCards(r) \/ CopyDeck(r)

Next ==
    \/ \E r \in Requests : Begin(r) \/ Commit(r) \/ Abort(r)
    \/ \E w \in Words : Unstart(w)
    \/ \E d \in Decks : DeleteDeck(d)

Spec == Init /\ [][Next]_vars

(***************************************************************************)
(* Properties                                                              *)
(***************************************************************************)

\* Rows have their columns, and refer to rows that are there.
TypeOK ==
    /\ decks \subseteq Decks /\ stale \subseteq Words /\ started \in 0..MaxRequests
    /\ units \in [Units -> UnitRow \cup {None}]
    /\ words \in [Words -> WordRow \cup {None}]
    /\ progress \in [Words -> Decks \cup {None}]
    /\ \A u \in Units : units[u] # None => units[u].deck \in decks
    /\ \A w \in Words : words[w] # None =>
         words[w].deck \in decks /\ (words[w].unit # None => units[words[w].unit] # None)

\* The three facts about a card: its unit is a unit of its deck, its
\* transcription is of its term or was typed, the learner's row says its deck.
UnitOfItsDeck(w) ==
    LET u == words[w].unit IN u # None => units[u] # None /\ units[u].deck = words[w].deck
PhoneticOfItsTerm(w) == words[w].phonetic \in {None, Typed, words[w].term}
MirrorOfItsDeck(w) == progress[w] \in {None, words[w].deck}

Cards == {w \in Words : words[w] # None}

\* WordService.update: a card that moves does not keep a unit of the deck it
\* left.  Nothing that happens between other requests breaks this; only two
\* writes of one card from reads that overlap can.
CardsInTheirUnits == \A w \in Cards \ stale : UnitOfItsDeck(w)

\* WordService.update and the worker between them: no card shows the
\* transcription of another word, unless two writes of it overlapped.
CardsSpeltAsSpoken == \A w \in Cards \ stale : PhoneticOfItsTerm(w)

\* WordRepository.update takes the learners' rows along when a card moves,
\* whoever starts the card meanwhile in the deck it is in.
RowsFollowCards == \A w \in Cards \ stale : MirrorOfItsDeck(w)

\* After any sequence of edits, moves, copies and deletions that did not
\* overlap on a card, its unit, its transcription and its learners' rows are
\* those of the deck and the word it has.
CardsCohere == CardsInTheirUnits /\ CardsSpeltAsSpoken /\ RowsFollowCards

\* The worker gives a transcription only to a card that has none when it
\* commits, however long ago it listed the term.
NothingClobbered ==
    [][\A w \in Cards : words[w].phonetic # None /\ words'[w] # None =>
        \A r \in Requests : At(r, "fill") /\ request'[r] = Idle =>
            words'[w].phonetic = words[w].phonetic]_words

\* A copy is a deck of its own: its cards are in units of the copy, although
\* units and cards were read at different times from a deck being edited.
CopyStandsAlone ==
    [][\A w \in Words : words[w] = None /\ words'[w] # None /\ words'[w].unit # None =>
        units'[words'[w].unit].deck = words'[w].deck]_words

\* The same without the exception: the comment in WordService.update ("cannot
\* keep a unit belonging to the deck it left").
NoForeignUnit == \A w \in Cards : UnitOfItsDeck(w)

\* The same without the exception: "a wrong IPA teaches a wrong sound".
NoWrongPhonetic == \A w \in Cards : PhoneticOfItsTerm(w)
=============================================================================
