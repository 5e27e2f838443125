----------------------------- MODULE SenseRules -----------------------------
(***************************************************************************)
(* Which sense of a word a card shows: the validator that decides what a   *)
(* provider's answer may add to the lexicon, the chain of strategies that  *)
(* picks one stored sense, and the one enrichment a deck may buy when the  *)
(* chain was not sure.  Texts are left out: a suggestion is what the rules *)
(* tell apart, its part of speech and label, how many of the hint's (or a  *)
(* sentence's) words it says, whether it speaks of the deck's category,    *)
(* its example and its flaw.                                               *)
(***************************************************************************)
EXTENDS Naturals, Sequences, FiniteSets, SequencesExt

CONSTANTS
    Suggestions,  \* what a provider may suggest
    Hints,        \* what a template may say of the sense it wants
    Chains,       \* the strategies a template may list
    MaxStored,    \* senses a lexeme holds (MAX_SENSES_PER_LEXEME)
    MaxAnswered,  \* senses one answer to a lookup holds
    MaxEnriched,  \* senses one answer to an enrichment holds (MAX_ENRICHED_SENSES)
    None

VARIABLES
    hint,     \* what the deck asks for
    chain,    \* its strategies, in order
    answer,   \* what the provider answered last
    senses,   \* the lexeme's senses, in stored order
    choice,   \* the sense its card shows: an index, or None
    enriched  \* whether its one enrichment is spent

vars == <<hint, chain, answer, senses, choice, enriched>>

-----------------------------------------------------------------------------
(* The validator. *)

\* Two spellings of a part of speech and a label slug to one key.
KeyFor(s) == <<s.pos, s.label>>
KeysOf(list) == {KeyFor(list[i]) : i \in DOMAIN list}

\* No definition, no headline, a text too long, no grammatical name, a label
\* that reads as a definition, or the wrong script.
HardFailure(s) == s.flaw # None

Repeats(kept, s) ==
    \E i \in DOMAIN kept :
        \/ KeyFor(kept[i]) = KeyFor(s)
        \/ s.example # None /\ kept[i].example = s.example

\* MUTANT: only the suggestion before is compared.
AcceptByNeighbour(kept, s) ==
    IF Len(kept) >= MaxStored \/ HardFailure(s) \/ (kept # <<>> /\ Repeats(<<Last(kept)>>, s))
    THEN kept ELSE Append(kept, s)

\* A rejected suggestion claims neither its key nor its example.
Accept(kept, s) ==
    IF Len(kept) >= MaxStored \/ HardFailure(s) \/ Repeats(kept, s) THEN kept ELSE Append(kept, s)

Validate(list) == FoldLeft(Accept, <<>>, list)

\* MUTANT: the newest sense is shown first.
StoreInFront(stored, s) ==
    IF KeyFor(s) \in KeysOf(stored) \/ Len(stored) >= MaxStored THEN stored ELSE <<s>> \o stored

\* What of an answer is new to the lexeme, as far as there is room.  The first
\* of the stored senses keep their places.
Store(stored, s) ==
    IF KeyFor(s) \in KeysOf(stored) \/ Len(stored) >= MaxStored THEN stored ELSE Append(stored, s)

AppendSenses(stored, new) == FoldLeft(Store, stored, Validate(new))

-----------------------------------------------------------------------------
(* The strategies. *)

IsPinned == hint.pos # None /\ hint.label # None
IsEmpty == hint.pos = None /\ hint.label = None /\ hint.words = 0

Smaller(a, b) == IF a < b THEN a ELSE b

\* A score is its numerator over Whole, which makes a hint's shares of words and
\* the 0.15 of an agreeing part of speech whole numbers.
Whole == 20 * hint.words

\* Words of the hint a sense says: its coverage of them.
Said(s) == Smaller(s.says, hint.words)
Coverage(s) == 20 * Said(s)
Agrees(s) == hint.pos # None /\ s.pos = hint.pos
HintScore(s) == IF Agrees(s) THEN Smaller(Coverage(s) + 3 * hint.words, Whole) ELSE Coverage(s)

\* HINT_MIN_SCORE: 0.35
ClearsHintFloor(score) == 100 * score >= 35 * Whole

\* The best so far keeps its score rounded to thousandths.
Rounded(score) == (2000 * score + Whole) \div (2 * Whole)
Beats(score, best) == 1000 * score > Rounded(best) * Whole

BetterHint(list, best, i) ==
    LET score == HintScore(list[i]) IN
    IF ClearsHintFloor(score) /\ (best = None \/ Beats(score, HintScore(list[best]))) THEN i ELSE best

ByHint(list) ==
    IF hint.words = 0 THEN None
    ELSE LET better(best, i) == BetterHint(list, best, i)
         IN FoldLeft(better, None, [i \in DOMAIN list |-> i])

\* The first of a list that passes a test.
First(list, Test(_)) ==
    IF \E i \in DOMAIN list : Test(list[i])
    THEN CHOOSE i \in DOMAIN list : Test(list[i]) /\ \A j \in 1..(i - 1) : ~Test(list[j])
    ELSE None

\* A pin that matches nothing is no reason to guess.
Explicit(list) ==
    LET pinned(s) == KeyFor(s) = <<hint.pos, hint.label>>
    IN IF IsPinned THEN First(list, pinned) ELSE None

\* One of the category's words is half of what is conclusive, which is the
\* floor; two or more score 1.
ByCategory(list) ==
    LET conclusive(s) == s.hits >= 2
        strong(s) == s.hits = 1
    IN IF First(list, conclusive) # None THEN First(list, conclusive) ELSE First(list, strong)

\* "ai" and "manual" are never chosen by the chain.
Apply(strategy, list) ==
    CASE list = <<>> -> None
      [] strategy = "explicit" -> Explicit(list)
      [] strategy = "hint" -> ByHint(list)
      [] strategy = "category" -> ByCategory(list)
      [] strategy = "first" -> 1
      [] OTHER -> None

\* The strategy that answered, None when the chain ran out.
Deciding(list) ==
    LET answers(strategy) == Apply(strategy, list) # None
        at == First(chain, answers)
    IN IF at = None THEN None ELSE chain[at]

Select(list) == IF Deciding(list) = None THEN None ELSE Apply(Deciding(list), list)

\* A category or a fallback is not what was asked for.
IsConfident(list) == Deciding(list) \in {"explicit", "hint"}

-----------------------------------------------------------------------------
(* The item. *)

AnswersOf(most) == UNION {[1..n -> Suggestions] : n \in 0..most}

Init ==
    /\ hint \in Hints /\ chain \in Chains
    /\ answer \in AnswersOf(MaxAnswered)
    /\ senses = Validate(answer)
    /\ choice = Select(senses)
    /\ enriched = FALSE

WantsEnrichment == ~enriched /\ ~IsEmpty /\ ~IsConfident(senses)

\* _enrich and the second choice after it.  The attempt is spent whatever comes
\* of it, and nothing is asked for a lexeme that is full.
Enrich(new) ==
    /\ WantsEnrichment
    /\ answer' = IF Len(senses) < MaxStored THEN new ELSE answer
    /\ senses' = IF Len(senses) < MaxStored THEN AppendSenses(senses, new) ELSE senses
    /\ choice' = Select(senses')
    /\ enriched' = TRUE
    /\ UNCHANGED <<hint, chain>>

Next == \E new \in AnswersOf(MaxEnriched) : Enrich(new)

Spec == Init /\ [][Next]_vars

-----------------------------------------------------------------------------
(* The sentence a reader tapped in, its words counted as a hint's are. *)

OverlapCounts(list) == {Said(list[i]) : i \in DOMAIN list}

\* OVERLAP_MIN_SCORE: 0.12
Enough(best) == 100 * best >= 12 * hint.words

\* OVERLAP_MIN_MARGIN: 0.08
ClearMargin(best, other) == 100 * (best - other) >= 8 * hint.words

\* The first of the highest, when no other comes near it.
ChooseLocally(list) ==
    LET highest(s) == \A n \in OverlapCounts(list) : Said(s) >= n
        at == First(list, highest)
    IN CASE list = <<>> -> None
         [] Len(list) = 1 -> 1
         [] hint.words < 3 -> None
         [] /\ Len(list) > 1 /\ hint.words >= 3
            /\ Enough(Said(list[at]))
            /\ \A j \in DOMAIN list \ {at} : ClearMargin(Said(list[at]), Said(list[j])) -> at
         [] OTHER -> None

-----------------------------------------------------------------------------
(* Properties. *)

TypeOK ==
    /\ hint \in Hints /\ chain \in Chains
    /\ senses \in AnswersOf(MaxStored)
    /\ choice \in DOMAIN senses \cup {None}
    /\ enriched \in BOOLEAN

\* Validating an answer keeps a largest lot of fit suggestions that do not
\* repeat one another: nothing flawed or repeated is kept, nothing is dropped
\* that could have been kept, and validating again changes nothing.
KeepsWhatIsFit ==
    LET kept == Validate(answer) IN
    /\ \A i, j \in DOMAIN kept :
         i # j => KeyFor(kept[i]) # KeyFor(kept[j])
                  /\ (kept[i].example = None \/ kept[i].example # kept[j].example)
    /\ \A i \in DOMAIN answer :
         \/ \E k \in DOMAIN kept : kept[k] = answer[i]
         \/ answer[i].flaw # None
         \/ Repeats(kept, answer[i])
         \/ Len(kept) = MaxStored
    /\ \A k \in DOMAIN kept : kept[k].flaw = None
    /\ Validate(kept) = kept

\* The choice is made by the first strategy that has an answer, and no other
\* sense answers its question better: for a hint none scores higher, whatever
\* order the senses are stored in.
BestByTheChain ==
    /\ choice = None <=> \A k \in DOMAIN chain : Apply(chain[k], senses) = None
    /\ Deciding(senses) = "hint" =>
         \A i \in DOMAIN senses : HintScore(senses[i]) <= HintScore(senses[choice])
    /\ Deciding(senses) = "category" =>
         \A i \in DOMAIN senses : Smaller(senses[i].hits, 2) <= Smaller(senses[choice].hits, 2)

\* Whichever order two senses are stored in, a reader's sentence that decides
\* without the model decides for the same one.
SentenceDecidesAlike ==
    \A i, j \in DOMAIN senses :
        LET at == ChooseLocally(senses)
            swapped == [senses EXCEPT ![i] = senses[j], ![j] = senses[i]]
        IN (at = None) = (ChooseLocally(swapped) = None)
           /\ (at # None => swapped[ChooseLocally(swapped)] = senses[at])

\* SenseValidator and SenseSelector do what their references say.
RulesMatchTheirReference ==
    /\ KeepsWhatIsFit
    /\ BestByTheChain
    /\ SentenceDecidesAlike

\* How far up the chain the choice was made.
Rank(list) == CHOOSE k \in 1..(Len(chain) + 1) :
    IF Deciding(list) = None THEN k = Len(chain) + 1 ELSE k <= Len(chain) /\ chain[k] = Deciding(list)

Worth(strategy, s) ==
    CASE strategy = "hint" -> HintScore(s)
      [] strategy = "category" -> Smaller(s.hits, 2)
      [] OTHER -> 0

\* _enrich buys at most an improvement: senses keep their places, so decks that
\* point at one still do, and the card shows the sense it showed or one that the
\* chain ranks higher.
EnrichmentOnlyImproves ==
    [][/\ IsPrefix(senses, senses')
       /\ \/ choice' = choice
          \/ choice = None
          \/ Rank(senses') < Rank(senses)
          \/ /\ Rank(senses') = Rank(senses)
             /\ Worth(Deciding(senses), senses'[choice']) > Worth(Deciding(senses), senses[choice])]_vars

\* "Corroboration, not a match on its own": a hint is answered only by a sense
\* whose words alone clear the floor (the comment in _by_hint).  Not what the
\* code does: the bonus is added before the floor is compared.
WordsClearTheFloor == Deciding(senses) = "hint" => ClearsHintFloor(Coverage(senses[choice]))
=============================================================================
