----------------------------- MODULE Grounding -----------------------------
(***************************************************************************)
(* Cards made of a dictionary's senses: the model only translates the       *)
(* senses it picks, by their number, and its headlines are joined back to   *)
(* the dictionary's own definitions.  Whatever goes wrong on that path,     *)
(* full generation answers instead.                                         *)
(***************************************************************************)
EXTENDS Integers, Sequences

CONSTANTS
    Entries,     \* the dictionary's answers: None, or sequences of [definition, example]
    Answers,     \* the model's: None when it fails, or sequences of [index, says]
    Candidates,  \* senses the model may choose from
    MaxCards,
    None

VARIABLES
    groundable, \* whether the input could be a headword of an English dictionary
    entry,      \* what the dictionary has of it
    reply,      \* what the model answers
    rewrites,   \* whether the model rewrites the definitions it translates
    source,     \* who answered: None, "generation" or "dictionary"
    cards       \* the dictionary's answer, a sequence of [definition, says]

GroundingAssumption ==
    /\ Candidates \in Nat /\ MaxCards \in Nat \ {0} /\ None \notin {"generation", "dictionary"}
    /\ \A e \in Entries : e = None \/ e \in Seq([definition : STRING, example : BOOLEAN])
    /\ \A a \in Answers : a = None \/ a \in Seq([index : Int, says : STRING])

vars == <<groundable, entry, reply, rewrites, source, cards>>

Init ==
    /\ groundable \in BOOLEAN
    /\ entry \in Entries
    /\ reply \in Answers
    /\ rewrites \in BOOLEAN
    /\ source = None /\ cards = <<>>

-----------------------------------------------------------------------------
UpTo(n, s) == SubSeq(s, 1, IF Len(s) < n THEN Len(s) ELSE n)

\* What s has at the positions of P, in its order.
Picked(s, P) ==
    LET Sifted[i \in 0..Len(s)] ==
            IF i = 0 THEN <<>>
            ELSE IF i \in P THEN Append(Sifted[i - 1], s[i]) ELSE Sifted[i - 1]
    IN Sifted[Len(s)]

\* A lexicographer illustrates the senses people use.
Illustrated == {i \in DOMAIN entry : entry[i].example}
Bare == DOMAIN entry \ Illustrated

\* top: the senses with an example, then those without, as far as the model sees.
Top == UpTo(Candidates, Picked(entry, Illustrated) \o Picked(entry, Bare))

\* translate_only: what the model says of the senses it picked.
Translations == UpTo(MaxCards, reply)

\* Senses are numbered from 0.
IsUsable(index) == index \in 0..(Len(Top) - 1)

\* Mutant: every translation is joined, though two claim one sense.
AnyOfItsSense(i) == TRUE

\* A sense is on the first card that claims it.
FirstOfItsSense(i) == \A j \in 1..(i - 1) : Translations[j].index # Translations[i].index

\* Mutant: the numbers are taken for the dictionary's own order.
JoinedToUnranked(t) == entry[t.index + 1].definition

JoinedTo(t) == Top[t.index + 1].definition

\* A translation with an index out of range, or taken, is dropped.
Joinable == {i \in DOMAIN Translations : IsUsable(Translations[i].index) /\ FirstOfItsSense(i)}

Join ==
    LET kept == Picked(Translations, Joinable)
    IN [i \in DOMAIN kept |-> [definition |-> JoinedTo(kept[i]), says |-> kept[i].says]]

\* In the other mode the definitions are the model's, too.
Rewritten ==
    [i \in DOMAIN Translations |-> [definition |-> "rewritten", says |-> Translations[i].says]]

Complete(card) == card.definition # "" /\ card.says # ""

Usable ==
    LET built == IF rewrites THEN Rewritten ELSE Join
    IN Picked(built, {i \in DOMAIN built : Complete(built[i])})

\* The dictionary is asked about an English headword, and has it.
Consulted == groundable /\ entry # None

\* look_up_meanings: any miss, failure or empty answer falls through.
LookUp ==
    /\ source = None
    /\ IF Consulted /\ reply # None /\ Usable # <<>>
       THEN source' = "dictionary" /\ cards' = UpTo(MaxCards, Usable)
       ELSE source' = "generation" /\ cards' = <<>>
    /\ UNCHANGED <<groundable, entry, reply, rewrites>>

Next == LookUp

Spec == Init /\ [][Next]_vars

-----------------------------------------------------------------------------
(* A headline is never paired with another definition than the model chose  *)
(* it for, no sense is on two cards, and no card is blank or invented       *)
(* (grounded_ai_service.py:188-195, "pairing a Persian headline with the    *)
(* wrong English definition is the worst failure this card can have").      *)
HeadlinesKeepTheirSense ==
    source = "dictionary" =>
        /\ cards # <<>> /\ Len(cards) <= MaxCards
        /\ \A c \in DOMAIN cards : Complete(cards[c])
        /\ ~rewrites => \E chosen \in [DOMAIN cards -> DOMAIN reply] : \A c \in DOMAIN cards :
             LET index == reply[chosen[c]].index IN
             /\ reply[chosen[c]].says = cards[c].says
             /\ index \in 0..(Len(Top) - 1)
             /\ Top[index + 1].definition = cards[c].definition
             /\ \E i \in DOMAIN entry : entry[i] = Top[index + 1]
             /\ \A d \in DOMAIN cards : reply[chosen[d]].index = index => d = c
=============================================================================
