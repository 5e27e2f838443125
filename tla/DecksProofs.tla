---------------------------- MODULE DecksProofs ----------------------------
(***************************************************************************)
(* What decks hold, for any number of decks, units, cards, spellings and    *)
(* requests; and where a review goes and what is deleted, for every         *)
(* window, retention and number of months.                                  *)
(***************************************************************************)
EXTENDS MCDecks, Sequences, SequenceTheorems, TLAPS

(***************************************************************************)
(* Cards                                                                   *)
(***************************************************************************)

CardType ==
    /\ words \in [Words -> C!WordRow \cup {None}]
    /\ units = [u \in Units |-> units[u]]
    /\ progress = [w \in Words |-> progress[w]]
    /\ request = [r \in Requests |-> request[r]]

\* No row has an id that may still be given out.
IdsDrawn ==
    /\ \A u \in Units : units[u] # None => u \in drawn
    /\ \A w \in Words : words[w] # None \/ progress[w] # None => w \in drawn

\* A unit that somebody has seen in a deck is there or gone for good.
Known(u, d) == u \in drawn /\ (units[u] # None => units[u].deck = d)

Fitting(data) ==
    /\ data \in C!WordRow
    /\ data.unit # None => Known(data.unit, data.deck)
    /\ data.phonetic \in {None, C!Typed, data.term}

\* What a request is about to write is as good as the card it was read from.
Sound(work) ==
    /\ work.op = "card" => Fitting(work.row)
    /\ work.op = "edit" =>
         /\ work.want \in C!WordRow
         /\ work.word \in stale \/ Fitting(work.want)
    /\ work.op = "copy" => \A x \in DOMAIN work.cards :
         /\ work.cards[x] \in C!WordRow
         /\ x \in work.stale \/ work.cards[x].phonetic \in {None, C!Typed, work.cards[x].term}

RequestsSound == \A r \in Requests : Sound(request[r])

ContentInv == CardType /\ IdsDrawn /\ RequestsSound /\ C!CardsCohere

SceneInv == scene = "content" => ContentInv

\* Ids are not reused, a known unit stays in its deck, and a card written from
\* an outdated read is remembered.
Steady ==
    /\ drawn \subseteq drawn' /\ stale \subseteq stale'
    /\ \A u \in Units : u \in drawn /\ units'[u] # None =>
         units[u] # None /\ units'[u].deck = units[u].deck

LEMMA SoundStands ==
    ASSUME ContentInv, Steady, NEW work, Sound(work) PROVE Sound(work)'
<1>1. ASSUME NEW data, Fitting(data) PROVE Fitting(data)'
  BY <1>1 DEF Steady, Fitting, Known, C!WordRow
<1> QED BY <1>1 DEF Sound, Steady

LEMMA RequestStep ==
    ASSUME ContentInv, Steady, NEW r \in Requests, NEW work, Sound(work),
           request' = [request EXCEPT ![r] = work]
    PROVE  RequestsSound' /\ request' = [q \in Requests |-> request'[q]]
<1>1. ASSUME NEW q \in Requests, NEW held, held = request'[q] PROVE Sound(held)'
  BY <1>1, SoundStands DEF ContentInv, CardType, RequestsSound
<1>2. RequestsSound'
  BY <1>1 DEF RequestsSound, Sound, Fitting, Known, C!WordRow, C!Phonetics, C!Typed
<1> QED BY <1>2 DEF ContentInv, CardType

(***************************************************************************)
(* A card is left as it is, or written anew: then its row is to be shown    *)
(* fitting.                                                                 *)
(***************************************************************************)

Coheres(w) == C!UnitOfItsDeck(w) /\ C!PhoneticOfItsTerm(w) /\ C!MirrorOfItsDeck(w)

LEMMA CoherenceByCard ==
    C!CardsCohere <=> \A w \in Words : words[w] # None /\ w \notin stale => Coheres(w)
BY DEF C!CardsCohere, C!CardsInTheirUnits, C!CardsSpeltAsSpoken, C!RowsFollowCards, C!Cards, Coheres

LEMMA CohereNext ==
    ASSUME \A w \in Words : words'[w] # None /\ w \notin stale' => Coheres(w)'
    PROVE  C!CardsCohere'
BY DEF C!CardsCohere, C!CardsInTheirUnits, C!CardsSpeltAsSpoken, C!RowsFollowCards, C!Cards, Coheres

LEMMA CardUnchanged ==
    ASSUME ContentInv, Steady, NEW w \in Words, words'[w] = words[w],
           \A u \in Units : units[u] # None => units'[u] = units[u],
           progress'[w] = progress[w] \/ progress'[w] = None \/ w \in stale'
               \/ progress'[w] = words[w].deck
    PROVE  words'[w] # None /\ w \notin stale' => Coheres(w)'
<1> SUFFICES ASSUME words[w] # None, w \notin stale' PROVE Coheres(w)'
  OBVIOUS
<1>1. Coheres(w) /\ words[w] \in C!WordRow
  BY CoherenceByCard DEF ContentInv, CardType, Steady
<1>2. C!UnitOfItsDeck(w)'
  BY <1>1 DEF Coheres, C!UnitOfItsDeck, C!WordRow
<1>3. C!PhoneticOfItsTerm(w)'
  BY <1>1 DEF Coheres, C!PhoneticOfItsTerm
<1>4. C!MirrorOfItsDeck(w)'
  BY <1>1 DEF Coheres, C!MirrorOfItsDeck
<1> QED BY <1>2, <1>3, <1>4 DEF Coheres

\* A request that only reads.
LEMMA ReadStep ==
    ASSUME ContentInv, NEW r \in Requests, NEW work, Sound(work),
           request' = [request EXCEPT ![r] = work],
           UNCHANGED <<units, words, progress, drawn, stale>>
    PROVE  ContentInv'
<1>1. Steady
  BY DEF Steady
<1>2. \A w \in Words : words'[w] # None /\ w \notin stale' => Coheres(w)'
  BY <1>1, CardUnchanged
<1>3. C!CardsCohere'
  BY <1>2, CohereNext
<1> QED BY <1>1, <1>3, RequestStep DEF ContentInv, CardType, IdsDrawn

LEMMA DoneStep ==
    ASSUME ContentInv, Steady, NEW r \in Requests, C!Done(r)
    PROVE  RequestsSound' /\ request' = [q \in Requests |-> request'[q]]
<1>1. Sound(C!Idle)
  BY DEF Sound, C!Idle
<1> QED BY <1>1, RequestStep DEF C!Done

LEMMA StartStep ==
    ASSUME ContentInv, NEW r \in Requests, NEW work, Sound(work), C!Starts(r, work)
    PROVE  ContentInv'
BY ReadStep DEF C!Starts

(***************************************************************************)
(* Reading                                                                 *)
(***************************************************************************)

LEMMA UnitKnown ==
    ASSUME ContentInv, NEW u \in Units, NEW d, C!UnitInDeck(u, d) PROVE Known(u, d)
BY DEF C!UnitInDeck, Known, ContentInv, IdsDrawn

LEMMA BeginCreateWordStep ==
    ASSUME C!ContentAssumption, ContentInv, NEW r \in Requests, NEW d \in Decks,
           NEW unit \in Units \cup {None}, NEW t \in Terms, C!BeginCreateWord(r, d, unit, t)
    PROVE  ContentInv'
<1> DEFINE data == [deck |-> d, unit |-> unit, term |-> t, phonetic |-> None]
<1>1. Fitting(data)
  BY UnitKnown DEF C!BeginCreateWord, Fitting, C!WordRow, C!Phonetics
<1>2. Sound([op |-> "card", row |-> data])
  BY <1>1 DEF Sound
<1> QED BY <1>2, StartStep DEF C!BeginCreateWord

\* An edit wants a unit of the deck it names, or keeps the one the card has
\* there; and drops a transcription that is not of the word it will be.
LEMMA BeginUpdateWordStep ==
    ASSUME C!ContentAssumption, ContentInv, NEW r \in Requests, NEW w \in Words, NEW d \in Decks,
           NEW unit \in Units \cup {None, "unset"}, NEW t \in Terms,
           NEW given \in {"unset", C!Typed, None}, C!BeginUpdateWord(r, w, d, unit, t, given)
    PROVE  ContentInv'
<1> DEFINE old == words[w]
           want == [deck |-> d, term |-> t, phonetic |-> C!EditedPhonetic(old, t, given),
                    unit |-> IF unit = "unset" THEN C!LeftUnit(old, d) ELSE unit]
           work == [op |-> "edit", word |-> w, read |-> old, want |-> want]
<1>1. old \in C!WordRow /\ (w \notin stale => Coheres(w))
  BY CoherenceByCard DEF C!BeginUpdateWord, ContentInv, CardType
<1>2. want.phonetic \in C!Phonetics /\ want.unit \in Units \cup {None}
  BY <1>1 DEF C!EditedPhonetic, C!LeftUnit, C!WordRow, C!Phonetics, C!Typed
<1>3. want \in C!WordRow
  BY <1>2 DEF C!WordRow
<1>4. ASSUME w \notin stale PROVE Fitting(want)
  <2>1. want.phonetic \in {None, C!Typed, want.term}
    BY <1>1, <1>4 DEF Coheres, C!PhoneticOfItsTerm, C!EditedPhonetic
  <2>2. ASSUME want.unit # None PROVE Known(want.unit, d)
    <3>1. CASE unit = "unset"
      <4>1. old.deck = d /\ want.unit = old.unit /\ old.unit \in Units
        BY <1>1, <2>2, <3>1 DEF C!LeftUnit, C!WordRow
      <4>2. units[old.unit] # None /\ units[old.unit].deck = d
        BY <1>1, <1>4, <2>2, <4>1 DEF Coheres, C!UnitOfItsDeck
      <4> QED BY <4>1, <4>2 DEF Known, ContentInv, IdsDrawn
    <3>2. CASE unit # "unset"
      <4>1. unit \in Units /\ want.unit = unit /\ C!UnitInDeck(unit, d)
        BY <2>2, <3>2 DEF C!BeginUpdateWord
      <4> QED BY <4>1, UnitKnown
    <3> QED BY <3>1, <3>2
  <2> QED BY <1>3, <2>1, <2>2 DEF Fitting
<1>5. Sound(work)
  BY <1>3, <1>4 DEF Sound
<1>6. C!Starts(r, work)
  BY DEF C!BeginUpdateWord
<1> QED BY <1>5, <1>6, StartStep

LEMMA ReadCardsStep ==
    ASSUME ContentInv, NEW r \in Requests, C!ReadCards(r) PROVE ContentInv'
<1> DEFINE from == C!InDeck(words, request[r].deck)
           work == [op |-> "copy", deck |-> request[r].deck, units |-> request[r].units,
                    cards |-> [w \in from |-> words[w]], stale |-> from \cap stale]
<1>1. \A w \in from : words[w] \in C!WordRow /\ (w \notin stale => Coheres(w))
  BY CoherenceByCard DEF ContentInv, CardType, C!InDeck
<1>2. Sound(work)
  BY <1>1 DEF Sound, Coheres, C!PhoneticOfItsTerm
<1>3. request' = [request EXCEPT ![r] = work] /\ UNCHANGED <<units, words, progress, drawn, stale>>
  BY DEF C!ReadCards
<1> QED BY <1>2, <1>3, ReadStep

LEMMA BeginStep ==
    ASSUME C!ContentAssumption, ContentInv, NEW r \in Requests, C!Begin(r) PROVE ContentInv'
<1>1. ASSUME NEW work, C!Starts(r, work), work.op \notin {"card", "edit", "copy"}
      PROVE  ContentInv'
  BY <1>1, StartStep DEF Sound
<1>2. ASSUME NEW d \in Decks, C!BeginCreateUnit(r, d) \/ C!BeginStart(r, d) \/ C!BeginCopy(r, d)
      PROVE  ContentInv'
  BY <1>1, <1>2 DEF C!BeginCreateUnit, C!BeginStart, C!BeginCopy
<1>3. ASSUME NEW u \in Units, C!BeginDeleteUnit(r, u) PROVE ContentInv'
  BY <1>1, <1>3 DEF C!BeginDeleteUnit
<1>4. ASSUME NEW w \in Words, C!BeginDeleteWord(r, w) PROVE ContentInv'
  BY <1>1, <1>4 DEF C!BeginDeleteWord
<1>5. CASE C!BeginFill(r)
  BY <1>1, <1>5 DEF C!BeginFill
<1> QED BY <1>2, <1>3, <1>4, <1>5, BeginCreateWordStep, BeginUpdateWordStep DEF C!Begin

(***************************************************************************)
(* Writing                                                                 *)
(***************************************************************************)

\* What is left to show of a commit.
LEMMA CommitStep ==
    ASSUME ContentInv, Steady, NEW r \in Requests, C!Done(r), CardType', IdsDrawn',
           \A w \in Words : words'[w] # None /\ w \notin stale' => Coheres(w)'
    PROVE  ContentInv'
BY CohereNext, DoneStep DEF ContentInv

LEMMA CreateUnitStep ==
    ASSUME ContentInv, NEW r \in Requests, C!CreateUnit(r) PROVE ContentInv'
<1>1. PICK u \in Units \ drawn : \E data :
        units' = [units EXCEPT ![u] = data] /\ drawn' = drawn \cup {u}
  BY DEF C!CreateUnit
<1>2. UNCHANGED <<words, progress, stale>> /\ C!Done(r)
  BY DEF C!CreateUnit
<1>3. Steady /\ \A v \in Units : units[v] # None => units'[v] = units[v]
  BY <1>1, <1>2 DEF Steady, ContentInv, CardType, IdsDrawn
<1>4. CardType' /\ IdsDrawn'
  BY <1>1, <1>2, DoneStep, <1>3 DEF ContentInv, CardType, IdsDrawn
<1>5. \A w \in Words : words'[w] # None /\ w \notin stale' => Coheres(w)'
  BY <1>2, <1>3, CardUnchanged
<1> QED BY <1>2, <1>3, <1>4, <1>5, CommitStep

\* Units go, and leave their cards without one.
LEMMA CardLoosened ==
    ASSUME ContentInv, NEW w \in Words, NEW gone,
           units' = [u \in Units |-> IF u \in gone THEN None ELSE units[u]],
           words'[w] = C!Loosened(gone)[w], progress'[w] = progress[w], stale' = stale
    PROVE  /\ words'[w] \in C!WordRow \cup {None}
           /\ words'[w] # None => words[w] # None
           /\ words'[w] # None /\ w \notin stale' => Coheres(w)'
<1>1. CASE words[w] = None
  BY <1>1 DEF C!Loosened
<1>2. CASE words[w] # None /\ words[w].unit \in gone
  <2>1. words'[w] = [words[w] EXCEPT !.unit = None] /\ words[w] \in C!WordRow
    BY <1>2 DEF C!Loosened, ContentInv, CardType
  <2>2. words'[w] \in C!WordRow /\ words'[w].unit = None /\ words'[w].deck = words[w].deck
        /\ words'[w].term = words[w].term /\ words'[w].phonetic = words[w].phonetic
    BY <2>1 DEF C!WordRow
  <2>3. w \notin stale => Coheres(w)
    BY <1>2, CoherenceByCard DEF ContentInv
  <2> QED BY <1>2, <2>2, <2>3 DEF Coheres, C!UnitOfItsDeck, C!PhoneticOfItsTerm, C!MirrorOfItsDeck
<1>3. CASE words[w] # None /\ words[w].unit \notin gone
  <2>1. words'[w] = words[w] /\ words[w] \in C!WordRow
    BY <1>3 DEF C!Loosened, ContentInv, CardType
  <2>2. w \notin stale => Coheres(w)
    BY <1>3, CoherenceByCard DEF ContentInv
  <2>3. words[w].unit \in Units => units'[words[w].unit] = units[words[w].unit]
    BY <1>3
  <2> QED BY <2>1, <2>2, <2>3
          DEF Coheres, C!UnitOfItsDeck, C!PhoneticOfItsTerm, C!MirrorOfItsDeck, C!WordRow
<1> QED BY <1>1, <1>2, <1>3

LEMMA DeleteUnitStep ==
    ASSUME ContentInv, NEW r \in Requests, C!DeleteUnit(r) PROVE ContentInv'
<1> DEFINE gone == {request[r].unit}
<1>1. units' = [u \in Units |-> IF u \in gone THEN None ELSE units[u]]
  BY DEF C!DeleteUnit, ContentInv, CardType
<1>2. words' = C!Loosened(gone) /\ UNCHANGED <<progress, drawn, stale>> /\ C!Done(r)
  BY DEF C!DeleteUnit
<1> HIDE DEF gone
<1>3. \A w \in Words :
        /\ words'[w] \in C!WordRow \cup {None}
        /\ words'[w] # None => words[w] # None
        /\ words'[w] # None /\ w \notin stale' => Coheres(w)'
  BY <1>1, <1>2, CardLoosened
<1>4. Steady
  BY <1>1, <1>2 DEF Steady
<1>5. words' = [w \in Words |-> words'[w]]
  BY <1>2 DEF C!Loosened
<1>6. CardType' /\ IdsDrawn'
  BY <1>1, <1>2, <1>3, <1>4, <1>5, DoneStep DEF ContentInv, CardType, IdsDrawn
<1> QED BY <1>2, <1>3, <1>4, <1>6, CommitStep

LEMMA CreateWordStep ==
    ASSUME ContentInv, NEW r \in Requests, C!CreateWord(r) PROVE ContentInv'
<1> DEFINE data == request[r].row
<1>1. Fitting(data) /\ C!Refers(data) /\ C!Done(r) /\ UNCHANGED <<units, stale>>
  BY DEF C!CreateWord, C!At, ContentInv, RequestsSound, Sound
<1>2. PICK w \in Words \ drawn :
        /\ words' = [words EXCEPT ![w] = data] /\ drawn' = drawn \cup {w}
        /\ progress' = [progress EXCEPT ![w] = data.deck] \/ progress' = progress
  BY DEF C!CreateWord
<1> HIDE DEF data
<1>3. Steady /\ words[w] = None /\ progress[w] = None
  BY <1>1, <1>2 DEF Steady, ContentInv, IdsDrawn
<1>4. CardType' /\ IdsDrawn'
  BY <1>1, <1>2, <1>3, DoneStep DEF ContentInv, CardType, IdsDrawn, Fitting
<1>5. Coheres(w)'
  <2>1. words'[w] = data /\ progress'[w] \in {None, data.deck}
    BY <1>2, <1>3 DEF ContentInv, CardType
  <2>2. C!UnitOfItsDeck(w)'
    BY <1>1, <2>1 DEF C!UnitOfItsDeck, Fitting, Known, C!Refers
  <2>3. C!PhoneticOfItsTerm(w)' /\ C!MirrorOfItsDeck(w)'
    BY <1>1, <2>1 DEF C!PhoneticOfItsTerm, C!MirrorOfItsDeck, Fitting
  <2> QED BY <2>2, <2>3 DEF Coheres
<1>6. ASSUME NEW x \in Words, x # w PROVE words'[x] # None /\ x \notin stale' => Coheres(x)'
  <2>1. words'[x] = words[x] /\ progress'[x] = progress[x]
    BY <1>2, <1>6 DEF ContentInv, CardType
  <2> QED BY <1>1, <1>3, <2>1, CardUnchanged
<1> QED BY <1>1, <1>3, <1>4, <1>5, <1>6, CommitStep

\* An edit of a card that still is as it was read writes what it wants; any
\* other is remembered as written from an outdated read.
LEMMA UpdateWordStep ==
    ASSUME ContentInv, NEW r \in Requests, C!UpdateWord(r) PROVE ContentInv'
<1>1. PICK w, read, want :
        /\ w = request[r].word /\ read = request[r].read /\ want = request[r].want
        /\ words[w] # None
        /\ \E held \in {read, words[w]} :
             /\ C!Refers(C!Flushed(words[w], held, want))
             /\ words' = [words EXCEPT ![w] = C!Flushed(words[w], held, want)]
             /\ progress' = C!Mirrored(w, want, held.deck # want.deck)
        /\ stale' = IF words[w] # read THEN stale \cup {w} ELSE stale
  BY DEF C!UpdateWord
<1>2. C!Done(r) /\ UNCHANGED <<units, drawn>>
  BY DEF C!UpdateWord
<1>3. want \in C!WordRow /\ (w \in stale \/ Fitting(want))
  BY <1>1 DEF C!UpdateWord, C!At, ContentInv, RequestsSound, Sound
<1>4. PICK held \in {read, words[w]} :
        /\ C!Refers(C!Flushed(words[w], held, want))
        /\ words' = [words EXCEPT ![w] = C!Flushed(words[w], held, want)]
        /\ progress' = C!Mirrored(w, want, held.deck # want.deck)
  BY <1>1
<1>5. Steady
  BY <1>1, <1>2 DEF Steady
<1>6. /\ progress' = [x \in Words |-> progress'[x]]
      /\ \A x \in Words : x # w => progress'[x] = progress[x]
      /\ \A x \in Words : progress'[x] # None => progress[x] # None
  BY <1>4 DEF C!Mirrored, ContentInv, CardType
<1>7. ASSUME w \in Words PROVE C!Flushed(words[w], held, want) \in C!WordRow
  BY <1>1, <1>3, <1>7 DEF C!Flushed, C!WordRow, ContentInv, CardType
<1>8. CardType' /\ IdsDrawn'
  <2>1. words' \in [Words -> C!WordRow \cup {None}]
    BY <1>4, <1>7 DEF ContentInv, CardType
  <2>2. \A x \in Words : words'[x] # None => words[x] # None
    BY <1>1, <1>4 DEF ContentInv, CardType
  <2>3. CardType'
    BY <1>2, <1>5, <1>6, <2>1, DoneStep DEF ContentInv, CardType
  <2>4. IdsDrawn'
    BY <1>2, <1>6, <2>2 DEF ContentInv, IdsDrawn
  <2> QED BY <2>3, <2>4
<1>9. ASSUME w \in Words, w \notin stale' PROVE Coheres(w)'
  <2>1. words[w] = read /\ held = words[w] /\ w \notin stale /\ Fitting(want)
    BY <1>1, <1>3, <1>4, <1>9
  <2>2. words[w] \in C!WordRow /\ words'[w] = C!Flushed(words[w], words[w], want)
    BY <1>1, <1>4, <1>9, <2>1 DEF ContentInv, CardType
  <2>3. words'[w].deck = want.deck /\ words'[w].unit = want.unit
        /\ words'[w].term = want.term /\ words'[w].phonetic = want.phonetic
    BY <1>3, <2>2 DEF C!Flushed, C!WordRow
  <2>4. C!UnitOfItsDeck(w)'
    BY <1>1, <1>2, <1>4, <2>1, <2>2, <2>3 DEF C!UnitOfItsDeck, Fitting, Known, C!Refers
  <2>5. C!PhoneticOfItsTerm(w)'
    BY <2>1, <2>3 DEF C!PhoneticOfItsTerm, Fitting
  <2>6. progress[w] \in {None, words[w].deck}
    BY <1>1, <1>9, <2>1, CoherenceByCard DEF ContentInv, Coheres, C!MirrorOfItsDeck
  <2>7. progress'[w] \in {None, want.deck}
    BY <1>4, <1>9, <2>1, <2>6 DEF C!Mirrored, ContentInv, CardType
  <2>8. C!MirrorOfItsDeck(w)'
    BY <2>3, <2>7 DEF C!MirrorOfItsDeck
  <2> QED BY <2>4, <2>5, <2>8 DEF Coheres
<1>10. ASSUME NEW x \in Words, x # w PROVE words'[x] # None /\ x \notin stale' => Coheres(x)'
  <2>1. words'[x] = words[x] /\ progress'[x] = progress[x]
    BY <1>4, <1>6, <1>10 DEF ContentInv, CardType
  <2> QED BY <1>2, <1>5, <2>1, CardUnchanged
<1> QED BY <1>2, <1>5, <1>8, <1>9, <1>10, CommitStep

LEMMA DeleteWordStep ==
    ASSUME ContentInv, NEW r \in Requests, C!DeleteWord(r) PROVE ContentInv'
<1>1. PICK w :
        /\ words' = [y \in Words |-> IF y = w THEN None ELSE words[y]]
        /\ progress' = [y \in Words |-> IF y = w THEN None ELSE progress[y]]
  BY DEF C!DeleteWord, ContentInv, CardType
<1>2. UNCHANGED <<units, drawn, stale>> /\ C!Done(r)
  BY DEF C!DeleteWord
<1>3. Steady
  BY <1>2 DEF Steady
<1>4. CardType' /\ IdsDrawn'
  BY <1>1, <1>2, <1>3, DoneStep DEF ContentInv, CardType, IdsDrawn
<1>5. ASSUME NEW x \in Words PROVE words'[x] # None /\ x \notin stale' => Coheres(x)'
  <2>1. words'[x] = None \/ (words'[x] = words[x] /\ progress'[x] = progress[x])
    BY <1>1
  <2> QED BY <1>2, <1>3, <2>1, CardUnchanged
<1> QED BY <1>2, <1>3, <1>4, <1>5, CommitStep

\* A card that is put in a box of the deck it was in when it was listed is
\* remembered when it has moved.
LEMMA StartWordsStep ==
    ASSUME ContentInv, NEW r \in Requests, C!StartWords(r) PROVE ContentInv'
<1>1. UNCHANGED <<units, words, drawn>> /\ C!Done(r)
  BY DEF C!StartWords
<1>2. PICK cards, d :
        /\ \A w \in cards : words[w] # None
        /\ progress' = [w \in Words |-> IF w \in cards /\ progress[w] = None THEN d ELSE progress[w]]
        /\ stale' = stale \cup {w \in cards : words[w].deck # d}
  BY DEF C!StartWords
<1>3. Steady
  BY <1>1, <1>2 DEF Steady
<1>4. CardType' /\ IdsDrawn'
  BY <1>1, <1>2, <1>3, DoneStep DEF ContentInv, CardType, IdsDrawn
<1>5. ASSUME NEW w \in Words PROVE words'[w] # None /\ w \notin stale' => Coheres(w)'
  <2>1. progress'[w] = progress[w] \/ w \in stale' \/ progress'[w] = words[w].deck
    BY <1>2
  <2> QED BY <1>1, <1>3, <2>1, CardUnchanged
<1> QED BY <1>1, <1>3, <1>4, <1>5, CommitStep

LEMMA FillStep ==
    ASSUME ContentInv, NEW r \in Requests, C!Fill(r) PROVE ContentInv'
<1>1. PICK known :
        words' = [w \in Words |->
            IF words[w] # None /\ words[w].term \in known /\ C!WantsPhonetic(w)
            THEN [words[w] EXCEPT !.phonetic = words[w].term] ELSE words[w]]
  BY DEF C!Fill
<1>2. UNCHANGED <<units, progress, drawn, stale>> /\ C!Done(r)
  BY DEF C!Fill
<1>3. Steady
  BY <1>2 DEF Steady
<1>4. ASSUME NEW w \in Words, words'[w] # words[w]
      PROVE  /\ words[w] # None /\ words'[w] \in C!WordRow
             /\ words'[w].deck = words[w].deck /\ words'[w].unit = words[w].unit
             /\ words'[w].phonetic = words'[w].term
  <2>1. words[w] \in C!WordRow
    BY <1>1, <1>4 DEF ContentInv, CardType
  <2> QED BY <1>1, <1>4, <2>1 DEF C!WordRow, C!Phonetics
<1>5. CardType' /\ IdsDrawn'
  <2>1. words' \in [Words -> C!WordRow \cup {None}]
    BY <1>1, <1>4 DEF ContentInv, CardType
  <2> QED BY <1>2, <1>3, <1>4, <2>1, DoneStep DEF ContentInv, CardType, IdsDrawn
<1>6. ASSUME NEW w \in Words PROVE words'[w] # None /\ w \notin stale' => Coheres(w)'
  <2>1. CASE words'[w] = words[w]
    BY <1>2, <1>3, <2>1, CardUnchanged
  <2>2. CASE words'[w] # words[w]
    <3>1. w \notin stale => Coheres(w)
      BY <1>4, <2>2, CoherenceByCard DEF ContentInv
    <3> QED BY <1>2, <1>4, <2>2, <3>1
            DEF Coheres, C!UnitOfItsDeck, C!PhoneticOfItsTerm, C!MirrorOfItsDeck
  <2> QED BY <2>1, <2>2
<1> QED BY <1>2, <1>3, <1>5, <1>6, CommitStep

\* The copy's cards are new, in the copy's units, and spelt like the cards
\* they are copied from.
Copied(d, newUnits, newWords) ==
    /\ newUnits \subseteq Units \ drawn /\ newWords \subseteq Words \ drawn
    /\ units' = [u \in Units |->
         IF u \in newUnits THEN [deck |-> d, position |-> 0] ELSE units[u]]
    /\ words' = [w \in Words |-> words'[w]] /\ UNCHANGED progress
    /\ drawn' = drawn \cup {d} \cup newUnits \cup newWords /\ stale \subseteq stale'
    /\ \A w \in newWords :
         /\ words'[w] \in C!WordRow /\ words'[w].deck = d
         /\ words'[w].unit \in newUnits \cup {None}
         /\ w \notin stale' => words'[w].phonetic \in {None, C!Typed, words'[w].term}
    /\ \A w \in Words : w \notin newWords => words'[w] = words[w]

LEMMA CopyDeckCopies ==
    ASSUME ContentInv, NEW r \in Requests, C!CopyDeck(r)
    PROVE  \E d \in Decks, newUnits \in SUBSET Units, newWords \in SUBSET Words :
             Copied(d, newUnits, newWords)
<1> DEFINE cards == request[r].cards
           held == request[r].stale
<1>1. PICK d \in Decks \ drawn,
           unitMap \in C!Injections(request[r].units, Units \ drawn),
           wordMap \in C!Injections(DOMAIN cards, Words \ drawn) :
        /\ units' = [u \in Units |->
             IF u \in {unitMap[v] : v \in DOMAIN unitMap} THEN [deck |-> d, position |-> 0]
             ELSE units[u]]
        /\ words' = [w \in Words |->
             IF w \in {wordMap[x] : x \in DOMAIN wordMap}
             THEN C!CopiedCard(C!Original(cards, wordMap, w), d, unitMap)
             ELSE words[w]]
        /\ drawn' = drawn \cup {d} \cup {unitMap[v] : v \in DOMAIN unitMap}
                          \cup {wordMap[x] : x \in DOMAIN wordMap}
        /\ stale' = stale \cup {wordMap[x] : x \in held}
  BY DEF C!CopyDeck
<1>2. UNCHANGED progress
  BY DEF C!CopyDeck
<1>3. \A x \in DOMAIN cards :
        /\ cards[x] \in C!WordRow
        /\ x \in held \/ cards[x].phonetic \in {None, C!Typed, cards[x].term}
  BY DEF C!CopyDeck, C!At, ContentInv, RequestsSound, Sound
<1> DEFINE newUnits == {unitMap[v] : v \in DOMAIN unitMap}
           newWords == {wordMap[x] : x \in DOMAIN wordMap}
<1>4. newUnits \subseteq Units \ drawn /\ newWords \subseteq Words \ drawn
      /\ DOMAIN wordMap = DOMAIN cards
  <2>1. unitMap \in [request[r].units -> Units \ drawn] /\ wordMap \in [DOMAIN cards -> Words \ drawn]
    BY DEF C!Injections
  <2> QED BY <2>1
<1>5. ASSUME NEW w \in newWords
      PROVE  /\ words'[w] \in C!WordRow /\ words'[w].deck = d
             /\ words'[w].unit \in newUnits \cup {None}
             /\ w \notin stale' => words'[w].phonetic \in {None, C!Typed, words'[w].term}
  <2>1. words'[w] = C!CopiedCard(C!Original(cards, wordMap, w), d, unitMap)
    BY <1>1, <1>4
  <2> PICK x \in DOMAIN cards : wordMap[x] = w /\ C!Original(cards, wordMap, w) = cards[x]
    BY <1>4, Zenon DEF C!Original
  <2>2. C!CopiedUnit(unitMap, cards[x].unit) \in newUnits \cup {None}
    BY DEF C!CopiedUnit
  <2> DEFINE unit == C!CopiedUnit(unitMap, cards[x].unit)
  <2> HIDE DEF unit, newUnits
  <2>3. unit \in newUnits \cup {None} /\ unit \in Units \cup {None} /\ d \in Decks
    BY <1>1, <1>4, <2>2 DEF unit
  <2>4. words'[w] = [cards[x] EXCEPT !.deck = d, !.unit = unit] /\ cards[x] \in C!WordRow
    BY <1>3, <2>1 DEF unit, C!CopiedCard
  <2>5. words'[w] \in C!WordRow /\ words'[w].deck = d /\ words'[w].unit = unit
        /\ words'[w].term = cards[x].term /\ words'[w].phonetic = cards[x].phonetic
    BY <2>3, <2>4 DEF C!WordRow
  <2>6. w \notin stale' => x \notin held
    BY <1>1, <2>1
  <2> QED BY <1>3, <2>3, <2>5, <2>6
<1>6. /\ words' = [w \in Words |-> words'[w]]
      /\ \A w \in Words : w \notin newWords => words'[w] = words[w]
  BY <1>1
<1>7. Copied(d, newUnits, newWords)
  BY <1>1, <1>2, <1>4, <1>5, <1>6 DEF Copied
<1> QED BY <1>4, <1>7

LEMMA CopyDeckStep ==
    ASSUME C!ContentAssumption, ContentInv, NEW r \in Requests, C!CopyDeck(r) PROVE ContentInv'
<1>1. PICK d \in Decks, newUnits \in SUBSET Units, newWords \in SUBSET Words :
             Copied(d, newUnits, newWords)
  BY CopyDeckCopies
<1>2. C!Done(r)
  BY DEF C!CopyDeck
<1>3. Steady /\ \A u \in Units : units[u] # None => units'[u] = units[u]
  BY <1>1 DEF Copied, Steady, ContentInv, IdsDrawn
<1>4. CardType'
  BY <1>1, <1>2, <1>3, DoneStep DEF Copied, ContentInv, CardType
<1>5. IdsDrawn'
  BY <1>1 DEF Copied, ContentInv, IdsDrawn
<1>6. ASSUME NEW w \in Words PROVE words'[w] # None /\ w \notin stale' => Coheres(w)'
  <2>1. CASE w \in newWords
    <3>1. [deck |-> d, position |-> 0] # None
      BY DEF C!ContentAssumption, C!UnitRow
    <3>2. w \notin stale' => C!UnitOfItsDeck(w)' /\ C!PhoneticOfItsTerm(w)'
      BY <1>1, <2>1, <3>1 DEF Copied, C!UnitOfItsDeck, C!PhoneticOfItsTerm
    <3>3. progress'[w] = None
      BY <1>1, <2>1 DEF Copied, ContentInv, IdsDrawn
    <3> QED BY <3>2, <3>3 DEF Coheres, C!MirrorOfItsDeck
  <2>2. CASE w \notin newWords
    BY <1>1, <1>3, <2>2, CardUnchanged DEF Copied
  <2> QED BY <2>1, <2>2
<1> QED BY <1>2, <1>3, <1>4, <1>5, <1>6, CommitStep

LEMMA DeleteDeckStep ==
    ASSUME ContentInv, NEW d, C!DeleteDeck(d) PROVE ContentInv'
<1> DEFINE gone == C!InDeck(units, d)
<1>1. /\ units' = [u \in Units |-> IF u \in gone THEN None ELSE units[u]]
      /\ words' = [w \in Words |->
            IF w \in C!InDeck(words, d) THEN None ELSE C!Loosened(gone)[w]]
      /\ progress' = [w \in Words |-> IF w \in C!InDeck(words, d) THEN None ELSE progress[w]]
      /\ UNCHANGED <<drawn, request, stale>>
  BY DEF C!DeleteDeck
<1> HIDE DEF gone
<1>2. ASSUME NEW w \in Words
      PROVE  /\ words'[w] \in C!WordRow \cup {None}
             /\ words'[w] # None => words[w] # None
             /\ words'[w] # None /\ w \notin stale' => Coheres(w)'
  <2>1. CASE w \in C!InDeck(words, d)
    BY <1>1, <2>1
  <2>2. CASE w \notin C!InDeck(words, d)
    BY <1>1, <2>2, CardLoosened
  <2> QED BY <2>1, <2>2
<1>3. Steady
  BY <1>1 DEF Steady
<1>4. words' = [w \in Words |-> words'[w]] /\ progress' = [w \in Words |-> progress'[w]]
      /\ units' = [u \in Units |-> units'[u]]
  BY <1>1
<1>5. CardType' /\ IdsDrawn'
  BY <1>1, <1>2, <1>4 DEF ContentInv, CardType, IdsDrawn
<1>6. RequestsSound'
  BY <1>1, <1>3, SoundStands DEF ContentInv, RequestsSound
<1> QED BY <1>2, <1>5, <1>6, CohereNext DEF ContentInv

\* A row goes, or a request is given up.
LEMMA AbortStep ==
    ASSUME ContentInv, NEW r \in Requests, C!Abort(r) PROVE ContentInv'
BY ReadStep DEF C!Abort, C!Done, Sound, C!Idle

LEMMA UnstartStep ==
    ASSUME ContentInv, NEW w \in Words, C!Unstart(w) PROVE ContentInv'
<1>1. progress' = [progress EXCEPT ![w] = None] /\ UNCHANGED <<units, words, drawn, request, stale>>
  BY DEF C!Unstart
<1>2. Steady
  BY <1>1 DEF Steady
<1>3. \A x \in Words : progress'[x] = progress[x] \/ progress'[x] = None
  BY <1>1 DEF ContentInv, CardType
<1>4. \A x \in Words : words'[x] # None /\ x \notin stale' => Coheres(x)'
  BY <1>1, <1>2, <1>3, CardUnchanged
<1>5. RequestsSound'
  BY <1>1, <1>2, SoundStands DEF ContentInv, RequestsSound
<1>6. CardType' /\ IdsDrawn'
  BY <1>1, <1>3 DEF ContentInv, CardType, IdsDrawn
<1> QED BY <1>4, <1>5, <1>6, CohereNext DEF ContentInv

LEMMA ContentNext ==
    ASSUME C!ContentAssumption, ContentInv, [C!Next]_C!vars PROVE ContentInv'
<1>1. ASSUME NEW r \in Requests, C!Commit(r) PROVE ContentInv'
  BY <1>1, CreateUnitStep, DeleteUnitStep, CreateWordStep, UpdateWordStep, DeleteWordStep,
     StartWordsStep, FillStep, ReadCardsStep, CopyDeckStep DEF C!Commit
<1>2. CASE UNCHANGED C!vars
  <2>1. \A w \in Words : words'[w] # None /\ w \notin stale' => Coheres(w)'
    BY <1>2, CardUnchanged DEF C!vars, Steady
  <2>2. CardType' /\ IdsDrawn' /\ RequestsSound'
    BY <1>2, SoundStands DEF C!vars, Steady, ContentInv, CardType, IdsDrawn, RequestsSound
  <2> QED BY <2>1, <2>2, CohereNext DEF ContentInv
<1> QED BY <1>1, <1>2, BeginStep, AbortStep, UnstartStep, DeleteDeckStep DEF C!Next

LEMMA ContentInit ==
    ASSUME C!ContentAssumption, C!Init PROVE ContentInv
<1>1. PICK d \in decks, u \in Units, w \in Words, t \in Terms :
         /\ units = [x \in Units |-> IF x = u THEN [deck |-> d, position |-> 0] ELSE None]
         /\ words = [x \in Words |->
              IF x = w THEN [deck |-> d, unit |-> u, term |-> t, phonetic |-> None] ELSE None]
         /\ progress = [x \in Words |-> IF x = w THEN d ELSE None]
         /\ drawn = {u, w} \cup decks
  BY DEF C!Init
<1>2. d \in Decks /\ [deck |-> d, position |-> 0] # None
  BY DEF C!Init, C!ContentAssumption, C!UnitRow
<1>3. CardType /\ IdsDrawn
  BY <1>1, <1>2 DEF C!Init, CardType, IdsDrawn, C!WordRow, C!Phonetics
<1>4. RequestsSound
  BY DEF C!Init, RequestsSound, Sound, C!Idle
<1>5. \A x \in Words : words[x] # None => Coheres(x)
  BY <1>1, <1>2 DEF Coheres, C!UnitOfItsDeck, C!PhoneticOfItsTerm, C!MirrorOfItsDeck
<1>6. C!CardsCohere
  BY <1>5, CoherenceByCard
<1> QED BY <1>3, <1>4, <1>6 DEF ContentInv

LEMMA SceneContent ==
    /\ MCInit => SceneInv
    /\ SceneInv /\ [MCNext]_<<scene, contentVars, screenVars, planVars, vars>> => SceneInv'
<1>1. C!ContentAssumption
  BY PartsAssumption
<1>2. MCInit => SceneInv
  BY <1>1, ContentInit DEF MCInit, SceneInv
<1>3. ASSUME SceneInv, [MCNext]_<<scene, contentVars, screenVars, planVars, vars>> PROVE SceneInv'
  <2> SUFFICES ASSUME scene' = "content" PROVE ContentInv'
    BY DEF SceneInv
  <2>1. scene' = scene /\ [C!Next]_C!vars
    BY <1>3 DEF MCNext, contentVars, C!vars
  <2> QED BY <1>1, <1>3, <2>1, ContentNext DEF SceneInv
<1> QED BY <1>2, <1>3

\* WordService.update, the transcription worker and copy_deck_to: after any
\* sequence of edits, moves, copies and deletions, of any number of people and
\* cards, a card that was not written from an outdated read is in a unit of its
\* deck, shows no other word's transcription and has its learners' rows along.
THEOREM CardsStayCoherent == MCSpec => []CardsCohere
<1>1. SceneInv => CardsCohere
  BY DEF SceneInv, CardsCohere, ContentInv
<1> QED BY <1>1, SceneContent, PTL DEF MCSpec

\* Only what the worker commits is looked at, and it passes over cards that
\* have a transcription by then.
LEMMA FillPassesOver ==
    ASSUME ContentInv, C!Next, NEW w \in C!Cards, words[w].phonetic # None, words'[w] # None,
           NEW r \in Requests, C!At(r, "fill"), request'[r] = C!Idle
    PROVE  words'[w].phonetic = words[w].phonetic
<1>1. request[r].op = "fill" /\ request = [q \in Requests |-> request[q]] /\ w \in Words
  BY DEF C!At, ContentInv, CardType, C!Cards
<1>2. request[r] # C!Idle
  BY <1>1 DEF C!Idle
<1>3. ASSUME NEW q \in Requests, C!Begin(q) PROVE FALSE
  <2>1. request[q] = C!Idle /\ \E work : request' = [request EXCEPT ![q] = work]
    BY <1>3 DEF C!Begin, C!Starts, C!BeginCreateUnit, C!BeginStart, C!BeginCopy,
       C!BeginCreateWord, C!BeginUpdateWord, C!BeginDeleteUnit, C!BeginDeleteWord, C!BeginFill
  <2> QED BY <1>1, <1>2, <2>1
<1>4. ASSUME NEW q \in Requests, C!Commit(q) PROVE words'[w].phonetic = words[w].phonetic
  <2>1. \E work : request' = [request EXCEPT ![q] = work]
    BY <1>4 DEF C!Commit, C!Done, C!CreateUnit, C!DeleteUnit, C!CreateWord, C!UpdateWord,
       C!DeleteWord, C!StartWords, C!Fill, C!ReadCards, C!CopyDeck
  <2>2. q = r
    BY <1>1, <1>2, <2>1
  <2>3. C!Fill(r)
    BY <1>1, <1>4, <2>2 DEF C!Commit, C!At, C!CreateUnit, C!DeleteUnit, C!CreateWord, C!UpdateWord,
       C!DeleteWord, C!StartWords, C!ReadCards, C!CopyDeck
  <2>4. words'[w] = words[w]
    BY <1>1, <2>3 DEF C!Fill, C!WantsPhonetic
  <2> QED BY <2>4
<1>5. CASE (\E q \in Requests : C!Abort(q)) \/ (\E x \in Words : C!Unstart(x))
  BY <1>5 DEF C!Abort, C!Unstart
<1>6. ASSUME NEW d \in Decks, C!DeleteDeck(d) PROVE FALSE
  BY <1>2, <1>6 DEF C!DeleteDeck
<1> QED BY <1>3, <1>4, <1>5, <1>6 DEF C!Next

\* A card that was not there before is a new one or a copy.
LEMMA NewCardsFit ==
    ASSUME C!ContentAssumption, ContentInv, C!Next, NEW w \in Words, words[w] = None,
           words'[w] # None, words'[w].unit # None
    PROVE  units'[words'[w].unit].deck = words'[w].deck
<1>1. words \in [Words -> C!WordRow \cup {None}]
  BY DEF ContentInv, CardType
<1>2. ASSUME NEW r \in Requests, C!CreateWord(r)
      PROVE  units'[words'[w].unit].deck = words'[w].deck
  <2>1. Fitting(request[r].row) /\ C!Refers(request[r].row) /\ UNCHANGED units
    BY <1>2 DEF C!CreateWord, C!At, ContentInv, RequestsSound, Sound
  <2>2. words'[w] = request[r].row
    BY <1>1, <1>2 DEF C!CreateWord
  <2> QED BY <2>1, <2>2 DEF Fitting, Known, C!Refers
<1>3. ASSUME NEW r \in Requests, C!CopyDeck(r)
      PROVE  units'[words'[w].unit].deck = words'[w].deck
  <2>1. PICK d \in Decks, newUnits \in SUBSET Units, newWords \in SUBSET Words :
          Copied(d, newUnits, newWords)
    BY <1>3, CopyDeckCopies
  <2>2. w \in newWords
    BY <2>1 DEF Copied
  <2> QED BY <2>1, <2>2 DEF Copied
<1>4. ASSUME NEW r \in Requests, C!Begin(r) \/ C!Abort(r) \/ C!ReadCards(r) \/ C!StartWords(r)
                 \/ C!CreateUnit(r)
      PROVE  UNCHANGED words
  BY <1>4 DEF C!Begin, C!Starts, C!BeginCreateUnit, C!BeginStart, C!BeginCopy,
       C!BeginCreateWord, C!BeginUpdateWord, C!BeginDeleteUnit, C!BeginDeleteWord, C!BeginFill,
       C!Abort, C!ReadCards, C!StartWords, C!CreateUnit
<1>5. ASSUME NEW r \in Requests, C!DeleteUnit(r) \/ C!Fill(r) PROVE words'[w] = None
  BY <1>1, <1>5 DEF C!DeleteUnit, C!Loosened, C!Fill
<1>6. ASSUME NEW r \in Requests, C!UpdateWord(r) \/ C!DeleteWord(r) PROVE words'[w] = None
  <2>1. \E x, data : words' = [words EXCEPT ![x] = data] /\ (words[x] # None \/ data = None)
    BY <1>6 DEF C!UpdateWord, C!DeleteWord
  <2> QED BY <1>1, <2>1
<1>7. ASSUME NEW d \in Decks, C!DeleteDeck(d) PROVE words'[w] = None
  BY <1>7 DEF C!DeleteDeck, C!Loosened
<1>8. ASSUME NEW x \in Words, C!Unstart(x) PROVE UNCHANGED words
  BY <1>8 DEF C!Unstart
<1> QED BY <1>2, <1>3, <1>4, <1>5, <1>6, <1>7, <1>8 DEF C!Next, C!Commit

\* list_terms_missing_phonetic and copy_deck_to: what a person typed outlives
\* the worker's batch, and a copy is complete in itself, whatever is edited
\* between the reads and the commit.
THEOREM WritersStayApart == MCSpec => WritersKeepApart
<1> DEFINE Passes == \A w \in C!Cards : words[w].phonetic # None /\ words'[w] # None =>
                \A r \in Requests : C!At(r, "fill") /\ request'[r] = C!Idle =>
                    words'[w].phonetic = words[w].phonetic
           Fits == \A w \in Words : words[w] = None /\ words'[w] # None /\ words'[w].unit # None =>
                units'[words'[w].unit].deck = words'[w].deck
<1>1. SceneInv /\ [MCNext]_<<scene, contentVars, screenVars, planVars, vars>>
        => [Passes]_words /\ [Fits]_words
  <2> SUFFICES ASSUME SceneInv, [MCNext]_<<scene, contentVars, screenVars, planVars, vars>>,
                      words' # words
               PROVE  Passes /\ Fits
    OBVIOUS
  <2>1. ContentInv /\ C!Next
    BY DEF SceneInv, MCNext, contentVars
  <2>2. Passes
    BY <2>1, FillPassesOver
  <2>3. Fits
    BY <2>1, NewCardsFit, PartsAssumption
  <2> QED BY <2>2, <2>3
<1>2. MCSpec => [][Passes]_words /\ [][Fits]_words
  BY <1>1, SceneContent, PTL DEF MCSpec
<1> QED BY <1>2 DEF WritersKeepApart, C!NothingClobbered, C!CopyStandsAlone

(***************************************************************************)
(* The history of reviews                                                  *)
(***************************************************************************)

\* The job's second transaction works by the month of its first.
JobIsPast == job # Idle => job.since <= month

\* The months up to the last the job is good for have their partitions, and
\* this month is one of them or counted as lapsed.
WindowStands == \A m \in Nat : m >= month /\ m <= due => m \in partitions
LapseCounted == month > due => month \in lapsed

IInv ==
    /\ TypeOK /\ JobIsPast /\ WindowStands /\ LapseCounted
    /\ StrayOnlyAfterALapse

\* The migration's partitions reach to the month it says they do.
LEMMA InitIInv ==
    ASSUME WindowAssumption PROVE Init => IInv
BY DEF WindowAssumption, Init, Idle, IInv, TypeOK, JobIsPast, WindowStands, LapseCounted,
       StrayOnlyAfterALapse

\* Creating the window, pruning by an older month and moving strays leave no
\* hole between this month and the last the job is good for.
LEMMA NextIInv ==
    ASSUME WindowAssumption, IInv, [Next]_vars PROVE IInv'
<1> USE DEF WindowAssumption, Idle, IInv, TypeOK, JobIsPast, WindowStands, LapseCounted,
            StrayOnlyAfterALapse
<1>1. CASE NextMonth
  BY <1>1 DEF NextMonth
<1>2. CASE Review
  <2>1. month \notin partitions => month \in lapsed
    OBVIOUS
  <2>2. stray' \subseteq lapsed /\ stray' \subseteq Nat /\ reviews' \subseteq Nat
    BY <1>2, <2>1 DEF Review
  <2> QED BY <1>2, <2>2 DEF Review
<1>3. CASE Create
  <2>1. due' \in Nat /\ (due' = due \/ due' = month + Ahead)
    BY <1>3, month + Ahead \in Nat DEF Create
  <2>2. partitions' \subseteq Nat
    BY <1>3 DEF Create, Ensured, Window
  <2>3. WindowStands'
    BY <1>3, <2>1 DEF Create, Ensured, Window
  <2>4. job' \in [at : {"created"}, since : Nat] /\ job'.since <= month'
    BY <1>3 DEF Create
  <2>5. LapseCounted'
    BY <1>3 DEF Create
  <2> QED BY <1>3, <2>1, <2>2, <2>3, <2>4, <2>5 DEF Create
<1>4. CASE Prune
  <2>1. job.since \in Nat /\ job.since <= month
    BY <1>4 DEF Prune
  <2>2. ASSUME NEW m \in Nat, m >= month, m <= due PROVE m \in partitions'
    <3>1. ~IsExpired(m, job.since)
      BY <2>1, <2>2 DEF IsExpired
    <3> QED BY <1>4, <2>2, <3>1 DEF Prune
  <2> QED BY <1>4, <2>2 DEF Prune
<1>5. CASE Die
  BY <1>5 DEF Die
<1>6. CASE MoveStray
  BY <1>6 DEF MoveStray, Ensured
<1>7. CASE UNCHANGED vars
  BY <1>7 DEF vars
<1> QED BY <1>1, <1>2, <1>3, <1>4, <1>5, <1>6, <1>7 DEF Next

LEMMA SpecIInv ==
    ASSUME WindowAssumption PROVE Spec => []IInv
<1>1. Init => IInv
  BY InitIInv
<1>2. IInv /\ [Next]_vars => IInv'
  BY NextIInv
<1> QED BY <1>1, <1>2, PTL DEF Spec

\* partition_word_reviews.py: while the job runs at least once in its window,
\* no review goes to the default partition.
THEOREM SpecStrayOnlyAfterALapse ==
    ASSUME WindowAssumption PROVE Spec => []StrayOnlyAfterALapse
<1>1. IInv => StrayOnlyAfterALapse
  BY DEF IInv
<1> QED BY <1>1, SpecIInv, PTL

\* partition_word_reviews.py: no review inside the retention is deleted.
THEOREM SpecHistoryKept ==
    ASSUME WindowAssumption PROVE Spec => HistoryKept
<1> DEFINE Keeps ==
        \A m \in reviews \cup stray :
            (Retention = 0 \/ ~prune \/ m >= month - Retention) => m \in reviews' \cup stray'
<1>1. IInv /\ [Next]_vars => [Keeps]_<<reviews, stray>>
  <2> SUFFICES ASSUME IInv, Next PROVE Keeps
    BY DEF vars
  <2>1. CASE Prune
    <3>1. job.since \in Nat /\ job.since <= month /\ month \in Nat /\ Retention \in Nat
          /\ reviews \subseteq Nat
      BY <2>1 DEF Prune, IInv, TypeOK, JobIsPast, Idle, WindowAssumption
    <3>2. ASSUME NEW m \in reviews, m >= month - Retention PROVE ~IsExpired(m, job.since)
      BY <3>1, <3>2 DEF IsExpired
    <3> QED BY <2>1, <3>2 DEF Prune
  <2>2. CASE NextMonth \/ Review \/ Create \/ Die \/ MoveStray
    BY <2>2 DEF NextMonth, Review, Create, Die, MoveStray
  <2> QED BY <2>1, <2>2 DEF Next
<1>2. Spec => [][Keeps]_<<reviews, stray>>
  BY <1>1, SpecIInv, PTL DEF Spec
<1> QED BY <1>2 DEF HistoryKept

\* Both, as the run checks them.
THEOREM SpecHistoryStands ==
    ASSUME WindowAssumption PROVE Spec => HistoryStands
<1> QED BY SpecStrayOnlyAfterALapse, SpecHistoryKept, PTL DEF HistoryStands

\* The job and the migration beside the rest of what decks are.
THEOREM HistoryStaysKept == MCSpec => HistoryStands
<1>1. MCInit => Init
  BY DEF MCInit
<1>2. [MCNext]_<<scene, contentVars, screenVars, planVars, vars>> => [Next]_vars
  BY DEF MCNext
<1>3. WindowAssumption
  BY PartsAssumption
<1> QED BY <1>1, <1>2, <1>3, SpecHistoryStands, PTL DEF MCSpec, Spec

(***************************************************************************)
(* Plans                                                                   *)
(***************************************************************************)

\* A deck's row has its columns, and a command the version it was given.
DeckRow == [public : BOOLEAN, name : Versions, listing : Versions]

PlanType ==
    /\ built \in Seq(DeckRow)
    /\ command = [c \in Commands |-> command[c]]
    /\ \A c \in Commands : command[c].at # "idle" => command[c].version \in Versions

LEMMA PlanInit == P!Init => PlanType
BY DEF P!Init, PlanType, P!Idle

\* One command goes on; what it writes has its columns.
LEMMA CommandStep ==
    ASSUME PlanType, NEW c \in Commands, NEW work, command' = [command EXCEPT ![c] = work],
           work.at # "idle" => work.version \in Versions, built' \in Seq(DeckRow)
    PROVE  PlanType'
BY DEF PlanType

\* A deck is new and hidden, or its row is written without a look at `public`.
LEMMA BuiltAppended ==
    ASSUME PlanType, NEW version \in Versions,
           built' = Append(built, [public |-> FALSE, name |-> version, listing |-> version])
    PROVE  /\ built' \in Seq(DeckRow)
           /\ \A d \in DOMAIN built' :
                built'[d].public = IF d \in DOMAIN built THEN built[d].public ELSE FALSE
<1> DEFINE data == [public |-> FALSE, name |-> version, listing |-> version]
<1>1. data \in DeckRow /\ data.public = FALSE
  BY DEF DeckRow
<1>2. built \in Seq(DeckRow) /\ built' = Append(built, data)
  BY DEF PlanType
<1> HIDE DEF data
<1>3. built' \in Seq(DeckRow) /\ Len(built') = Len(built) + 1
      /\ (\A d \in 1..Len(built) : built'[d] = built[d]) /\ built'[Len(built) + 1] = data
  BY <1>1, <1>2, AppendProperties
<1>4. DOMAIN built' = 1..Len(built') /\ DOMAIN built = 1..Len(built) /\ Len(built) \in Nat
  BY <1>2, <1>3
<1>5. ASSUME NEW d \in DOMAIN built'
      PROVE  built'[d].public = IF d \in DOMAIN built THEN built[d].public ELSE FALSE
  <2>1. CASE d \in 1..Len(built)
    BY <1>3, <1>4, <2>1
  <2>2. CASE d \notin 1..Len(built)
    <3>1. d = Len(built) + 1
      BY <1>3, <1>4, <1>5, <2>2
    <3> QED BY <1>1, <1>3, <1>4, <2>2, <3>1
  <2> QED BY <2>1, <2>2
<1> QED BY <1>3, <1>5

LEMMA BuiltWritten ==
    ASSUME PlanType, NEW d, NEW data, built' = [built EXCEPT ![d] = data],
           d \in DOMAIN built => data \in DeckRow
    PROVE  /\ built' \in Seq(DeckRow) /\ DOMAIN built' = DOMAIN built
           /\ d \in DOMAIN built => built'[d] = data
           /\ \A e \in DOMAIN built : e # d => built'[e] = built[e]
<1>1. built \in Seq(DeckRow)
  BY DEF PlanType
<1>2. CASE d \in DOMAIN built
  <2>1. built' \in Seq(DeckRow)
    BY <1>1, <1>2, ExceptSeq
  <2> QED BY <1>1, <1>2, <2>1
<1>3. CASE d \notin DOMAIN built
  <2>1. Len(built) \in Nat /\ built \in [1..Len(built) -> DeckRow]
    BY <1>1, LenProperties
  <2>2. built' \in [1..Len(built) -> DeckRow]
        /\ \A e \in DOMAIN built : built'[e] = built[e]
    BY <1>3, <2>1
  <2>3. built' \in Seq(DeckRow) /\ DOMAIN built' = DOMAIN built
    BY <2>1, <2>2
  <2> QED BY <1>3, <2>2, <2>3
<1> QED BY <1>2, <1>3

LEMMA SyncedRow ==
    ASSUME PlanType, NEW c \in Commands, P!CommitSync(c), NEW data \in DeckRow
    PROVE  P!Synced(data, c) \in DeckRow /\ P!Synced(data, c).public = data.public
<1>1. command[c].version \in Versions
  BY DEF P!CommitSync, P!At, PlanType
<1> QED BY <1>1 DEF P!Synced, P!SyncedName, DeckRow

LEMMA BuiltRow ==
    ASSUME PlanType, NEW d \in DOMAIN built PROVE built[d] \in DeckRow
BY DEF PlanType

LEMMA PlanNext ==
    ASSUME PlanType, [P!Next]_P!vars PROVE PlanType'
<1>1. ASSUME NEW c \in Commands, NEW work, P!Begin(c, work), work.version \in Versions
      PROVE  PlanType'
  BY <1>1, CommandStep DEF P!Begin, PlanType
<1>2. ASSUME NEW c \in Commands, NEW version \in Versions, P!BeginPlan(c, version) \/ P!BeginSync(c, version)
      PROVE  PlanType'
  BY <1>1, <1>2 DEF P!BeginPlan, P!BeginSync
<1>3. ASSUME NEW c \in Commands, P!ActiveJobFor(c) PROVE PlanType'
  <2>1. command[c].version \in Versions /\ built' = built
    BY <1>3 DEF P!ActiveJobFor, P!At, PlanType
  <2>2. CASE P!Ended(c)
    BY <2>1, <2>2, CommandStep DEF P!Ended, P!Idle, PlanType
  <2>3. CASE command' = [command EXCEPT ![c].at = "insert"]
    BY <2>1, <2>3 DEF PlanType
  <2> QED BY <1>3, <2>2, <2>3 DEF P!ActiveJobFor
<1>4. ASSUME NEW c \in Commands, P!CommitPlan(c) PROVE PlanType'
  <2>1. command[c].version \in Versions /\ command' = [command EXCEPT ![c] = P!Idle]
    BY <1>4 DEF P!CommitPlan, P!At, P!Ended, PlanType
  <2>2. built' = built \/ built' = Append(built,
          [public |-> FALSE, name |-> command[c].version, listing |-> command[c].version])
    BY <1>4 DEF P!CommitPlan
  <2>3. built' \in Seq(DeckRow)
    BY <2>1, <2>2, BuiltAppended DEF PlanType
  <2> QED BY <2>1, <2>3, CommandStep DEF P!Idle
<1>5. ASSUME NEW c \in Commands, P!ReadListing(c) PROVE PlanType'
  <2> DEFINE work == [at |-> "write", version |-> command[c].version, deck |-> command[c].deck,
                      name |-> command[c].name, public |-> built[command[c].deck].public]
  <2>1. command[c].version \in Versions /\ built' = built
    BY <1>5 DEF P!ReadListing, P!At, PlanType
  <2>2. command' = [command EXCEPT ![c] = work] /\ work.version = command[c].version
    BY <1>5 DEF P!ReadListing
  <2> HIDE DEF work
  <2> QED BY <2>1, <2>2, CommandStep DEF PlanType
<1>6. ASSUME NEW c \in Commands, P!CommitSync(c) PROVE PlanType'
  <2>1. command' = [command EXCEPT ![c] = P!Idle]
    BY <1>6 DEF P!CommitSync, P!Ended
  <2>2. PICK d : built' = [built EXCEPT ![d] = P!Synced(built[d], c)]
    BY <1>6 DEF P!CommitSync
  <2>3. built' \in Seq(DeckRow)
    BY <1>6, <2>2, SyncedRow, BuiltRow, BuiltWritten
  <2> QED BY <2>1, <2>3, CommandStep DEF P!Idle
<1>7. ASSUME NEW j, NEW halted, P!Start(j) \/ P!Fail(j) \/ P!Cancel(j) \/ P!Retry(j) \/ P!Settle(j, halted)
      PROVE  PlanType'
  BY <1>7 DEF P!Start, P!Fail, P!Cancel, P!Retry, P!Settle, P!Job, PlanType
<1>8. ASSUME NEW d, NEW public \in BOOLEAN, P!Publish(d, public) PROVE PlanType'
  <2>1. built' = [built EXCEPT ![d] = [built[d] EXCEPT !.public = public]] /\ UNCHANGED command
    BY <1>8 DEF P!Publish
  <2>2. d \in DOMAIN built => [built[d] EXCEPT !.public = public] \in DeckRow
    BY BuiltRow DEF DeckRow
  <2>3. built' \in Seq(DeckRow)
    BY <2>1, <2>2, BuiltWritten
  <2> QED BY <2>1, <2>3 DEF PlanType
<1>9. CASE UNCHANGED P!vars
  BY <1>9 DEF P!vars, PlanType
<1> QED BY <1>2, <1>3, <1>4, <1>5, <1>6, <1>7, <1>8, <1>9 DEF P!Next

\* Of all that is done to a deck, only Publish is seen in Explore.
LEMMA OnlyPublishShows ==
    ASSUME PlanType, P!Next, NEW d \in DOMAIN built'
    PROVE  \/ \E public \in BOOLEAN : P!Publish(d, public)
           \/ built'[d].public = IF d \in DOMAIN built THEN built[d].public ELSE FALSE
<1>1. CASE built' = built
  BY <1>1
<1>2. ASSUME NEW c \in Commands, P!CommitPlan(c), built' # built
      PROVE  built'[d].public = IF d \in DOMAIN built THEN built[d].public ELSE FALSE
  <2>1. command[c].version \in Versions
    BY <1>2 DEF P!CommitPlan, P!At, PlanType
  <2>2. built' = Append(built,
          [public |-> FALSE, name |-> command[c].version, listing |-> command[c].version])
    BY <1>2 DEF P!CommitPlan
  <2> QED BY <2>1, <2>2, BuiltAppended
<1>3. ASSUME NEW c \in Commands, P!CommitSync(c)
      PROVE  d \in DOMAIN built /\ built'[d].public = built[d].public
  <2>1. PICK e : built' = [built EXCEPT ![e] = P!Synced(built[e], c)]
    BY <1>3 DEF P!CommitSync
  <2> QED BY <1>3, <2>1, SyncedRow, BuiltRow, BuiltWritten
<1>4. ASSUME NEW e \in DOMAIN jobs, NEW public \in BOOLEAN, P!Publish(e, public), e # d
      PROVE  d \in DOMAIN built /\ built'[d] = built[d]
  <2>1. built' = [built EXCEPT ![e] = [built[e] EXCEPT !.public = public]]
    BY <1>4 DEF P!Publish
  <2>2. e \in DOMAIN built => [built[e] EXCEPT !.public = public] \in DeckRow
    BY BuiltRow DEF DeckRow
  <2> QED BY <1>4, <2>1, <2>2, BuiltWritten
<1>5. ASSUME NEW c \in Commands, NEW version, P!BeginPlan(c, version) \/ P!BeginSync(c, version)
                 \/ P!ActiveJobFor(c) \/ P!ReadListing(c)
      PROVE  built' = built
  BY <1>5 DEF P!BeginPlan, P!BeginSync, P!Begin, P!ActiveJobFor, P!ReadListing
<1>6. ASSUME NEW j, NEW halted, P!Start(j) \/ P!Fail(j) \/ P!Cancel(j) \/ P!Retry(j) \/ P!Settle(j, halted)
      PROVE  built' = built
  BY <1>6 DEF P!Start, P!Fail, P!Cancel, P!Retry, P!Settle, P!Job
<1> QED BY <1>1, <1>2, <1>3, <1>4, <1>5, <1>6 DEF P!Next

\* sync_metadata: "Publishing stays the one deliberate act", for any number of
\* commands that run at a time.
THEOREM OnlyAdminsDo == MCSpec => OnlyAdminsPublish
<1> DEFINE Publishes == \A d \in DOMAIN built' :
                LET before == d \in DOMAIN built /\ built[d].public
                IN  built'[d].public # before => \E public \in BOOLEAN : P!Publish(d, public)
           Step == [MCNext]_<<scene, contentVars, screenVars, planVars, vars>>
<1>1. MCInit => PlanType
  BY PlanInit DEF MCInit
<1>2. PlanType /\ Step => PlanType'
  <2> SUFFICES ASSUME PlanType, Step PROVE PlanType'
    OBVIOUS
  <2>1. [P!Next]_P!vars
    BY DEF MCNext, planVars, P!vars
  <2> QED BY <2>1, PlanNext
<1>3. PlanType /\ Step => [Publishes]_P!vars
  <2> SUFFICES ASSUME PlanType, Step, P!vars' # P!vars PROVE Publishes
    OBVIOUS
  <2>1. P!Next
    BY DEF MCNext, planVars, P!vars
  <2>2. ASSUME NEW d \in DOMAIN built', d \in DOMAIN built
        PROVE  built[d].public \in BOOLEAN
    BY <2>2, BuiltRow DEF DeckRow
  <2>3. ASSUME NEW d \in DOMAIN built', ~(\E public \in BOOLEAN : P!Publish(d, public))
        PROVE  built'[d].public = (d \in DOMAIN built /\ built[d].public)
    <3>1. built'[d].public = IF d \in DOMAIN built THEN built[d].public ELSE FALSE
      BY <2>1, <2>3, OnlyPublishShows
    <3>2. CASE d \in DOMAIN built
      <4>1. built'[d].public = built[d].public
        BY <3>1, <3>2
      <4> QED BY <2>2, <3>2, <4>1, Zenon
    <3>3. CASE d \notin DOMAIN built
      <4>1. built'[d].public = FALSE
        BY <3>1, <3>3
      <4> QED BY <3>3, <4>1, Zenon
    <3> QED BY <3>2, <3>3
  <2> QED BY <2>3, Zenon
<1>4. MCSpec => [][Publishes]_P!vars
  BY <1>1, <1>2, <1>3, PTL DEF MCSpec
<1> QED BY <1>4 DEF OnlyAdminsPublish, P!OnlyAdminsPublish

(***************************************************************************)
(* Screens                                                                 *)
(***************************************************************************)

TheCards == {1, 2}

\* A row that is there, and a card that is there.
IsRow(data) ==
    /\ DOMAIN data = {"in", "deck", "box", "count", "due"}
    /\ data.in /\ data.box \in 1..5 /\ data.count \in Nat /\ data.due \in Int

IsCard(data) == DOMAIN data = {"in", "deck", "born"} /\ data.in /\ data.born \in Int

ScreenType ==
    /\ now \in Int /\ zone \in Int
    /\ card = [w \in TheCards |-> card[w]] /\ row = [w \in TheCards |-> row[w]]
    /\ \A w \in TheCards : card[w].in => IsCard(card[w])
    /\ \A w \in TheCards : row[w].in => card[w].in /\ IsRow(row[w])

LEMMA DayTypes ==
    ASSUME O!OverviewAssumption, NEW t \in Int, NEW z \in Int
    PROVE  /\ O!DayOf(t, z) \in Int /\ O!DayStart(t, z) \in Int
           /\ O!DayEnd(t, z) = O!DayStart(t, z) + TicksPerDay
           /\ O!DayStart(t, z) <= t /\ TicksPerDay \in Nat /\ TicksPerDay > 0
<1>1. TicksPerDay \in Nat /\ TicksPerDay > 0 /\ t - z \in Int
  BY DEF O!OverviewAssumption
<1>2. O!DayOf(t, z) \in Int
  BY <1>1 DEF O!DayOf
<1>3. O!DayOf(t, z) * TicksPerDay <= t - z
  BY <1>1 DEF O!DayOf
<1>4. O!DayOf(t, z) * TicksPerDay \in Int
  BY <1>1, <1>2
<1> QED BY <1>1, <1>2, <1>3, <1>4 DEF O!DayStart, O!DayEnd

LEMMA MinMaxOfTwo ==
    ASSUME NEW a \in Int, NEW b \in Int
    PROVE  O!Max({a, b}) \in {a, b} /\ O!Max({a, b}) >= a /\ O!Min({a, b}) \in {a, b}
           /\ O!Min({a, b}) <= b /\ O!Min({a, b}) <= a /\ O!Max({a, b}) >= b
<1>1. \E x \in {a, b} : \A y \in {a, b} : x >= y
  OBVIOUS
<1>2. \E x \in {a, b} : \A y \in {a, b} : x <= y
  OBVIOUS
<1>3. O!Max({a, b}) \in {a, b} /\ \A y \in {a, b} : O!Max({a, b}) >= y
  BY <1>1, Zenon DEF O!Max
<1>4. O!Min({a, b}) \in {a, b} /\ \A y \in {a, b} : O!Min({a, b}) <= y
  BY <1>2, Zenon DEF O!Min
<1> QED BY <1>3, <1>4

LEMMA BoxTypes ==
    ASSUME O!OverviewAssumption, NEW box \in 1..5
    PROVE  /\ \A grade \in O!Grades : O!NextBox(box, grade) \in 1..5
           /\ O!Interval(box) \in Int /\ O!Interval(box) >= TicksPerDay
<1>1. TicksPerDay \in Nat /\ TicksPerDay > 0
  BY DEF O!OverviewAssumption
<1>2. O!Interval(box) \in Int /\ O!Interval(box) >= TicksPerDay
  BY <1>1 DEF O!Interval
<1>3. ASSUME NEW grade \in O!Grades PROVE O!NextBox(box, grade) \in 1..5
  <2> DEFINE step == [again |-> 1 - box, hard |-> -1, good |-> 1, easy |-> 2][grade]
  <2>1. step \in Int /\ box + step \in Int
    BY <1>3 DEF O!Grades
  <2> HIDE DEF step
  <2>2. ASSUME NEW x \in Int PROVE O!Max({1, O!Min({5, x})}) \in 1..5
    <3>1. O!Min({5, x}) \in {5, x} /\ O!Min({5, x}) <= 5
      BY MinMaxOfTwo
    <3>2. ASSUME NEW y \in Int, y <= 5 PROVE O!Max({1, y}) \in 1..5
      BY <3>2, MinMaxOfTwo
    <3> QED BY <3>1, <3>2
  <2>3. O!Max({1, O!Min({5, box + step})}) \in 1..5
    BY <2>1, <2>2
  <2> QED BY <2>3 DEF O!NextBox, step
<1> QED BY <1>2, <1>3

\* What a step does to a card: nothing, or it is not due today, or it is gone,
\* moved or taken back.
NotToday(w) ==
    /\ now' = now
    /\ IF row'[w].in THEN row'[w].due >= O!DayEnd(now, zone)
       ELSE card'[w].born >= O!DayStart(now, zone)
Excused(w) ==
    \/ ~card'[w].in
    \/ card[w].in /\ card'[w].deck # card[w].deck
    \/ row[w].in /\ ~row'[w].in
Calm(w) == (UNCHANGED <<card[w], row[w]>>) \/ NotToday(w) \/ Excused(w)
CalmStep == ScreenType' /\ \A w \in TheCards : Calm(w)

LEMMA Today ==
    ASSUME O!OverviewAssumption, ScreenType
    PROVE  /\ O!DayStart(now, zone) \in Int /\ O!DayEnd(now, zone) \in Int
           /\ O!DayEnd(now, zone) = O!DayStart(now, zone) + TicksPerDay
           /\ O!FirstDueAt(O!DayStart(now, zone)) = O!DayEnd(now, zone)
           /\ O!DayStart(now, zone) <= now /\ TicksPerDay \in Nat /\ TicksPerDay > 0
<1>1. PICK t \in Int, z \in Int : t = now /\ z = zone
  BY DEF ScreenType
<1>2. /\ O!DayStart(t, z) \in Int /\ O!DayEnd(t, z) = O!DayStart(t, z) + TicksPerDay
      /\ O!DayStart(t, z) <= t /\ TicksPerDay \in Nat /\ TicksPerDay > 0
  BY DayTypes
<1>3. O!DayEnd(t, z) \in Int /\ O!FirstDueAt(O!DayStart(t, z)) = O!DayEnd(t, z)
  BY <1>2 DEF O!FirstDueAt
<1> QED BY <1>1, <1>2, <1>3

\* Rows are written with a day to come.
LEMMA RowsWritten ==
    ASSUME ScreenType, UNCHANGED <<now, zone, card>>, row' = [w \in TheCards |-> row'[w]],
           \A w \in TheCards : \/ row'[w] = row[w]
                               \/ /\ card[w].in /\ IsRow(row'[w])
                                  /\ row'[w].due >= O!DayEnd(now, zone)
    PROVE  CalmStep
<1>1. ScreenType'
  BY DEF ScreenType, IsRow, IsCard
<1>2. \A w \in TheCards : Calm(w)
  BY DEF Calm, NotToday, IsRow
<1> QED BY <1>1, <1>2 DEF CalmStep

LEMMA RowWritten ==
    ASSUME ScreenType, UNCHANGED <<now, zone, card>>, NEW w \in TheCards, NEW data, IsRow(data),
           card[w].in, row' = [row EXCEPT ![w] = data], data.due >= O!DayEnd(now, zone)
    PROVE  CalmStep
<1>1. row' = [v \in TheCards |-> row'[v]]
      /\ \A v \in TheCards : row'[v] = row[v] \/ row'[v] = data
  BY DEF ScreenType
<1> QED BY <1>1, RowsWritten

\* ToStudied has the columns of a row.
LEMMA StudiedType ==
    ASSUME O!OverviewAssumption, ScreenType, NEW w \in O!Visible
    PROVE  w \in TheCards /\ card[w].in /\ IsRow(O!ToStudied(w, now, zone))
<1>1. w \in TheCards /\ card[w].in
  BY DEF O!Visible, TheCards
<1>2. CASE row[w].in
  BY <1>1, <1>2 DEF O!ToStudied, ScreenType
<1>3. CASE ~row[w].in
  BY <1>1, <1>3, Today DEF O!ToStudied, IsRow
<1> QED BY <1>1, <1>2, <1>3

\* An answered card, or one that is put into a box, is not due before the
\* next day.
LEMMA Scheduled ==
    ASSUME O!OverviewAssumption, ScreenType, NEW w \in TheCards, NEW read, IsRow(read), card[w].in,
           NEW box \in 1..5, NEW count \in Nat, UNCHANGED <<now, zone, card>>,
           row' = [row EXCEPT ![w] = [read EXCEPT !.box = box, !.count = count,
                                        !.due = O!DayStart(now, zone) + O!Interval(box)]]
    PROVE  CalmStep
<1>1. PICK day : day = O!DayStart(now, zone) + O!Interval(box)
  OBVIOUS
<1>2. day \in Int /\ day >= O!DayEnd(now, zone)
  BY <1>1, BoxTypes, Today
<1> DEFINE data == [read EXCEPT !.box = box, !.count = count, !.due = day]
<1>3. IsRow(data) /\ data.due = day
  BY <1>2 DEF IsRow
<1>4. row' = [row EXCEPT ![w] = data]
  BY <1>1
<1> HIDE DEF data
<1> QED BY <1>2, <1>3, <1>4, RowWritten

LEMMA GradeStep ==
    ASSUME O!OverviewAssumption, ScreenType, NEW w \in TheCards, NEW grade \in O!Grades,
           O!Grade(w, grade)
    PROVE  CalmStep
<1>1. PICK read, box : read = O!ToStudied(w, now, zone) /\ box = O!NextBox(read.box, grade)
  OBVIOUS
<1>2. IsRow(read) /\ card[w].in
  BY <1>1, StudiedType DEF O!Grade
<1>3. read.box \in 1..5 /\ read.count + 1 \in Nat
  BY <1>2 DEF IsRow
<1>4. box \in 1..5
  BY <1>1, <1>3, BoxTypes
<1>5. /\ row' = [row EXCEPT ![w] = [read EXCEPT !.box = box, !.count = read.count + 1,
                                      !.due = O!DayStart(now, zone) + O!Interval(box)]]
      /\ UNCHANGED <<now, zone, card>>
  BY <1>1 DEF O!Grade
<1> QED BY <1>2, <1>3, <1>4, <1>5, Scheduled

LEMMA SetBoxStep ==
    ASSUME O!OverviewAssumption, ScreenType, NEW w \in TheCards, NEW box \in O!Boxes,
           O!SetBox(w, box)
    PROVE  CalmStep
<1>1. PICK read : read = O!ToStudied(w, now, zone)
  OBVIOUS
<1>2. IsRow(read) /\ card[w].in
  BY <1>1, StudiedType DEF O!SetBox
<1>3. read.count \in Nat /\ box \in 1..5
  BY <1>2 DEF IsRow, O!Boxes
<1>4. PICK day : day = O!DayStart(now, zone) + O!Interval(box)
  OBVIOUS
<1> DEFINE data == [read EXCEPT !.box = box, !.due = day]
<1>5. row' = [row EXCEPT ![w] = data] /\ UNCHANGED <<now, zone, card>>
  BY <1>1, <1>4 DEF O!SetBox
<1>6. day \in Int /\ day >= O!DayEnd(now, zone)
  BY <1>3, <1>4, BoxTypes, Today
<1>7. IsRow(data) /\ data.due = day
  BY <1>2, <1>3, <1>6 DEF IsRow
<1> HIDE DEF data
<1> QED BY <1>2, <1>5, <1>6, <1>7, RowWritten

\* The row of a card that is started by hand.
LEMMA FirstRow ==
    ASSUME O!OverviewAssumption, ScreenType, NEW d, NEW data,
           data = [in |-> TRUE, deck |-> d, box |-> 1, count |-> 0,
                   due |-> O!FirstDueAt(O!DayStart(now, zone))]
    PROVE  IsRow(data) /\ data.due = O!DayEnd(now, zone) /\ data.due \in Int /\ data.in
BY Today DEF IsRow

LEMMA StartCardsStep ==
    ASSUME O!OverviewAssumption, ScreenType, NEW d, NEW chosen, O!Start(d, chosen)
    PROVE  CalmStep
<1>1. PICK data : data = [in |-> TRUE, deck |-> d, box |-> 1, count |-> 0,
                          due |-> O!FirstDueAt(O!DayStart(now, zone))]
  OBVIOUS
<1>2. row' = [w \in TheCards |-> IF w \in chosen THEN data ELSE row[w]]
      /\ UNCHANGED <<now, zone, card>>
  BY <1>1 DEF O!Start, TheCards
<1>3. IsRow(data) /\ data.due >= O!DayEnd(now, zone)
  BY <1>1, FirstRow
<1>4. \A w \in TheCards : row'[w] = row[w] \/ (row'[w] = data /\ card[w].in)
  BY <1>2 DEF O!Start, O!Unstarted, O!InDeck, O!Visible
<1>5. row' = [w \in TheCards |-> row'[w]]
  BY <1>2
<1> QED BY <1>2, <1>3, <1>4, <1>5, RowsWritten

LEMMA AddCardStep ==
    ASSUME O!OverviewAssumption, ScreenType, NEW w \in TheCards, NEW d, O!AddCard(w, d)
    PROVE  CalmStep
<1>1. PICK data : data = [in |-> TRUE, deck |-> d, box |-> 1, count |-> 0,
                          due |-> O!FirstDueAt(O!DayStart(now, zone))]
  OBVIOUS
<1>2. /\ card' = [card EXCEPT ![w] = [in |-> TRUE, deck |-> d, born |-> now]]
      /\ UNCHANGED <<now, zone>> /\ ~card[w].in
  BY DEF O!AddCard
<1>3. row' = [row EXCEPT ![w] = data] \/ row' = row
  BY <1>1 DEF O!AddCard, ScreenType
<1>4. IsRow(data) /\ data.due = O!DayEnd(now, zone) /\ data.in
  BY <1>1, FirstRow
<1>5. card'[w].born = now /\ IsCard(card'[w]) /\ (row'[w] = data \/ row'[w] = row[w])
  BY <1>2, <1>3 DEF ScreenType, IsCard
<1>6. \A v \in TheCards : v # w => UNCHANGED <<card[v], row[v]>>
  BY <1>2, <1>3 DEF ScreenType
<1>7. card' = [v \in TheCards |-> card'[v]] /\ row' = [v \in TheCards |-> row'[v]]
  BY <1>2, <1>3 DEF ScreenType
<1>8. ~row[w].in
  BY <1>2 DEF ScreenType
<1>9. \A v \in TheCards : card'[v].in => IsCard(card'[v])
  BY <1>2, <1>5, <1>6 DEF ScreenType
<1>10. \A v \in TheCards : row'[v].in => card'[v].in /\ IsRow(row'[v])
  <2>1. card'[w].in
    BY <1>2 DEF ScreenType
  <2> QED BY <1>4, <1>5, <1>6, <1>8, <2>1 DEF ScreenType
<1>11. ScreenType'
  BY <1>2, <1>7, <1>9, <1>10 DEF ScreenType, IsRow, IsCard
<1>12. NotToday(w)
  BY <1>2, <1>4, <1>5, <1>8, Today DEF NotToday, ScreenType
<1> QED BY <1>6, <1>11, <1>12 DEF CalmStep, Calm

LEMMA DeleteCardStep ==
    ASSUME ScreenType, NEW w \in TheCards, O!DeleteCard(w) PROVE CalmStep
<1>1. /\ card' = [card EXCEPT ![w] = O!NoCard] /\ row' = [row EXCEPT ![w] = O!NoRow]
      /\ UNCHANGED <<now, zone>>
  BY DEF O!DeleteCard
<1>2. ~card'[w].in /\ ~row'[w].in
  BY <1>1 DEF ScreenType, O!NoCard, O!NoRow
<1>3. \A v \in TheCards : v # w => UNCHANGED <<card[v], row[v]>>
  BY <1>1 DEF ScreenType
<1>4. ScreenType'
  BY <1>1, <1>2, <1>3 DEF ScreenType, IsRow, IsCard
<1> QED BY <1>2, <1>3, <1>4 DEF CalmStep, Calm, Excused

LEMMA UnstartCardStep ==
    ASSUME ScreenType, NEW w \in TheCards, O!Unstart(w) PROVE CalmStep
<1>1. row' = [row EXCEPT ![w] = O!NoRow] /\ UNCHANGED <<now, zone, card>> /\ row[w].in
  BY DEF O!Unstart
<1>2. ~row'[w].in
  BY <1>1 DEF ScreenType, O!NoRow
<1>3. \A v \in TheCards : v # w => UNCHANGED <<card[v], row[v]>>
  BY <1>1 DEF ScreenType
<1>4. ScreenType'
  BY <1>1, <1>2, <1>3 DEF ScreenType, IsRow, IsCard
<1> QED BY <1>1, <1>2, <1>3, <1>4 DEF CalmStep, Calm, Excused

LEMMA MoveCardStep ==
    ASSUME ScreenType, NEW w \in TheCards, NEW d, O!MoveCard(w, d) PROVE CalmStep
<1>1. /\ card' = [card EXCEPT ![w] = [card[w] EXCEPT !.deck = d]]
      /\ row' = [row EXCEPT ![w] = IF row[w].in THEN [row[w] EXCEPT !.deck = d] ELSE row[w]]
      /\ UNCHANGED <<now, zone>> /\ card[w].in /\ d # card[w].deck
  BY DEF O!MoveCard, O!Visible
<1>2. IsCard([card[w] EXCEPT !.deck = d]) /\ [card[w] EXCEPT !.deck = d].deck = d
      /\ [card[w] EXCEPT !.deck = d].in
  BY <1>1 DEF ScreenType, IsCard
<1>3. IsRow(row[w]) => IsRow([row[w] EXCEPT !.deck = d])
  BY DEF IsRow
<1>4. card'[w] = [card[w] EXCEPT !.deck = d]
      /\ row'[w] = IF row[w].in THEN [row[w] EXCEPT !.deck = d] ELSE row[w]
  BY <1>1 DEF ScreenType
<1>5. \A v \in TheCards : v # w => UNCHANGED <<card[v], row[v]>>
  BY <1>1 DEF ScreenType
<1>6. ScreenType'
  <2>1. \A v \in TheCards : card'[v].in => IsCard(card'[v])
    BY <1>2, <1>4, <1>5 DEF ScreenType
  <2>2. \A v \in TheCards : row'[v].in => card'[v].in /\ IsRow(row'[v])
    BY <1>2, <1>3, <1>4, <1>5 DEF ScreenType
  <2>3. card' = [v \in TheCards |-> card'[v]] /\ row' = [v \in TheCards |-> row'[v]]
    BY <1>1 DEF ScreenType
  <2> QED BY <1>1, <2>1, <2>2, <2>3 DEF ScreenType, IsRow, IsCard
<1>7. card'[w].deck = d
  BY <1>2, <1>4
<1>8. Excused(w)
  BY <1>1, <1>7 DEF Excused
<1> QED BY <1>5, <1>6, <1>8 DEF CalmStep, Calm

LEMMA ScreenNext ==
    ASSUME O!OverviewAssumption, ScreenType, [O!Next]_O!vars PROVE CalmStep
<1> USE DEF TheCards
<1>1. ASSUME NEW d \in FirstDecks, NEW pace, O!Leave(d) \/ O!Join(d, pace) PROVE CalmStep
  BY <1>1 DEF O!Leave, O!Join, CalmStep, Calm, ScreenType, IsRow, IsCard
<1>2. ASSUME NEW z \in Zones, O!Travel(z) PROVE CalmStep
  BY <1>2 DEF O!Travel, CalmStep, Calm, ScreenType, IsRow, IsCard, O!OverviewAssumption
<1>3. CASE O!Tick \/ UNCHANGED O!vars
  BY <1>3 DEF O!Tick, O!vars, CalmStep, Calm, ScreenType, IsRow, IsCard
<1> QED BY <1>1, <1>2, <1>3, AddCardStep, DeleteCardStep, MoveCardStep, GradeStep, SetBoxStep,
           StartCardsStep, UnstartCardStep DEF O!Next

LEMMA ScreenInit ==
    ASSUME O!OverviewAssumption, O!Init PROVE ScreenType
<1>1. PICK d : card = [w \in TheCards |-> [in |-> TRUE, deck |-> d, born |-> 0]]
  BY DEF O!Init, TheCards
<1>2. IsCard([in |-> TRUE, deck |-> d, born |-> 0])
  BY DEF IsCard
<1>3. now \in Int /\ zone \in Int /\ row = [w \in TheCards |-> O!NoRow]
  BY DEF O!Init, O!OverviewAssumption, TheCards
<1> QED BY <1>1, <1>2, <1>3 DEF ScreenType, O!NoRow

\* StudyService.get_overview and build_session: today's queue only shrinks.
LEMMA QueueStep ==
    ASSUME O!OverviewAssumption, ScreenType, CalmStep, NEW w \in TheCards, w \in O!DueCards',
           UNCHANGED <<zone, seat, O!DayOf(now, zone)>>,
           ~(card[w].in /\ card[w].deck # card'[w].deck), ~(row[w].in /\ ~row'[w].in)
    PROVE  w \in O!DueCards
<1>1. O!DayStart(now', zone') = O!DayStart(now, zone) /\ O!DayEnd(now', zone') = O!DayEnd(now, zone)
  BY DEF O!DayStart, O!DayEnd
<1>2. card'[w].in /\ seat'[card'[w].deck] # "out" /\ O!IsStarted(w)' /\ O!IsDue(w, now, zone)'
  BY DEF O!DueCards, O!Visible
<1>3. ScreenType' /\ Calm(w)
  BY DEF CalmStep
<1>4. IF row'[w].in THEN row'[w].due < O!DayEnd(now, zone) ELSE card'[w].born < O!DayStart(now, zone)
  BY <1>1, <1>2 DEF O!IsDue
<1>5. ~NotToday(w)
  BY <1>3, <1>4, Today, <1>2 DEF NotToday, ScreenType, IsRow, IsCard
<1>6. UNCHANGED <<card[w], row[w]>>
  BY <1>2, <1>3, <1>5 DEF Calm, Excused
<1>7. O!IsStarted(w) /\ O!IsDue(w, now, zone)
  BY <1>2, <1>4, <1>6 DEF O!IsStarted, O!IsDue
<1> QED BY <1>2, <1>6, <1>7 DEF O!DueCards, O!Visible, TheCards

\* The two ways dueness is decided: list_due's query, and the entity.
LEMMA DuenessAgrees ==
    ASSUME O!OverviewAssumption, ScreenType PROVE O!OneDueness
<1> SUFFICES ASSUME NEW w \in O!Visible
             PROVE  O!IsDue(w, now, zone) <=> O!EntityIsDue(w, now, zone)
  BY DEF O!OneDueness
<1>1. CASE row[w].in
  BY <1>1 DEF O!IsDue, O!EntityIsDue, O!ToStudied
<1>2. CASE ~row[w].in
  <2>1. card[w].born \in Int
    BY DEF O!Visible, ScreenType, IsCard, TheCards
  <2> QED BY <1>2, <2>1, Today DEF O!IsDue, O!EntityIsDue, O!ToStudied
<1> QED BY <1>1, <1>2

\* StudyService.get_overview, list_due and grade: at every instant the query
\* and the entity call the same cards due, whatever the learner's zone was when
\* the row was written; and nothing but midnight, joining, moving, taking back
\* or travelling brings a card into today's queue.
THEOREM QueueStaysDown ==
    MCSpec => []O!OneDueness /\ O!QueueNeverClimbs
<1> DEFINE Step == [MCNext]_<<scene, contentVars, screenVars, planVars, vars>>
           Stays == \A w \in O!DueCards' \ O!DueCards :
                \/ O!DayOf(now', zone') # O!DayOf(now, zone)
                \/ zone' # zone \/ seat' # seat
                \/ card[w].in /\ card[w].deck # card[w].deck'
                \/ row[w].in /\ ~row[w].in'
<1>1. O!OverviewAssumption
  BY PartsAssumption
<1>2. MCInit => ScreenType
  BY <1>1, ScreenInit DEF MCInit
<1>3. ScreenType /\ Step => ScreenType' /\ [Stays]_O!vars
  <2> SUFFICES ASSUME ScreenType, Step PROVE ScreenType' /\ Stays
    OBVIOUS
  <2>1. [O!Next]_O!vars
    BY DEF MCNext, screenVars, O!vars
  <2>2. CalmStep
    BY <1>1, <2>1, ScreenNext
  <2>3. \A w \in O!DueCards' : w \in TheCards
    BY DEF O!DueCards, O!Visible, TheCards
  <2>4. Stays
    BY <1>1, <2>2, <2>3, QueueStep
  <2> QED BY <2>2, <2>4 DEF CalmStep
<1>4. ScreenType => O!OneDueness
  BY <1>1, DuenessAgrees
<1>5. MCSpec => []O!OneDueness /\ [][Stays]_O!vars
  BY <1>2, <1>3, <1>4, PTL DEF MCSpec
<1> QED BY <1>5 DEF O!QueueNeverClimbs
=============================================================================
