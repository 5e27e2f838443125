----------------------------- MODULE MCService -----------------------------
(***************************************************************************)
(* Looking a word up: what is stored of it, the gateways that are asked    *)
(* when nothing is, the dictionary they are grounded in and that gives     *)
(* cards their pronunciation, and which senses a card shows, each on a      *)
(* small instance.  The parts share no state, so a behaviour is about one  *)
(* of them, which the initial state says.                                  *)
(***************************************************************************)
EXTENDS Failover, Integers

CONSTANTS
    Lookups, MaxLookups, MaxUpsets, Keys, MaxIds, MaxSenses, Inputs, Headword, Langs, None,
    MaxStored, MaxAnswered, MaxEnriched,
    Candidates, MaxCards, Terms, Workers, BatchSize, MaxFaults

VARIABLES
    scene,
    senses, entries, aliases, claims, disabled, lookup, started, expiries, reviews,
    hint, chain, answer, listed, choice, enriched,
    groundable, entry, reply, rewrites, source, cards,
    covers, up, cached, phonetic, client, task, faults

lookupVars == <<senses, entries, aliases, claims, disabled, lookup, started, expiries, reviews>>

senseVars == <<hint, chain, answer, listed, choice, enriched>>

groundVars == <<groundable, entry, reply, rewrites, source, cards>>

spokenVars == <<covers, up, cached, phonetic, client, task, faults>>

\* Suggestions that clear the hint's floor, do so only with their part of
\* speech, tie, repeat one another or are flawed.
Sense(pos, label, says, hits, example, flaw) ==
    [pos |-> pos, label |-> label, says |-> says, hits |-> hits, example |-> example, flaw |-> flaw]
MCSuggestions == {
    Sense("verb", "general", 5, 0, None, None), Sense("verb", "management", 9, 1, "x", None),
    Sense("noun", "general", 6, 2, "x", None), Sense("verb", "general", 8, 0, "y", None),
    Sense("verb", "management", 9, 2, "y", "no headline")}
NoHint == [pos |-> None, label |-> None, words |-> 0]
MCHints == [pos : {None, "verb"}, label : {None, "management"}, words : {0, 20}]
MCChains == {<<"explicit", "hint", "category", "first">>, <<"category", "hint">>}

\* Entries whose order the examples change, and one short of the candidates;
\* replies that number a sense twice, out of range or leave it blank.
Entry(text, example) == [definition |-> text, example |-> example]
MCEntries == {
    None, <<Entry("a", FALSE)>>,
    <<Entry("a", FALSE), Entry("b", FALSE), Entry("c", TRUE)>>}
MCAnswers ==
    {None} \cup UNION {[1..n -> [index : -1..2, says : {"x", ""}]] : n \in 0..3}

\* Keys are interchangeable.
FirstKey == CHOOSE k \in Keys : TRUE

L == INSTANCE Lookup
R == INSTANCE SenseRules WITH
        senses <- listed, Suggestions <- MCSuggestions, Hints <- MCHints, Chains <- MCChains
G == INSTANCE Grounding WITH Entries <- MCEntries, Answers <- MCAnswers
D == INSTANCE Dictionary

ASSUME LookupsAssumption == L!LookupAssumption /\ L!RowsAssumption /\ D!DictionaryAssumption
ASSUME SensesAssumption == G!GroundingAssumption

allVars == <<scene, vars, lookupVars, senseVars, groundVars, spokenVars>>

\* The first gateway is of any kind.  Behind it stand gateways known not to honour
\* response_format, whose adapters start without it (supports_structured_output).
MCInit ==
    /\ scene \in {"gateways", "lookup", "senses", "grounding", "dictionary"}
    /\ Init /\ (scene # "gateways" => \A g \in Gateways : kind[g] = "strict" /\ well[g])
    /\ scene = "gateways" => \A g \in Gateways \ {1} : kind[g] = "ignores" /\ ~structured[g]
    /\ L!Init
    /\ senses[1] # None => scene = "lookup" /\ senses[1].key = FirstKey
    /\ hint \in (IF scene = "senses" THEN MCHints ELSE {NoHint})
    /\ chain \in (IF scene = "senses" THEN MCChains ELSE {<<"category", "hint">>})
    /\ answer \in (IF scene = "senses" THEN R!AnswersOf(MaxAnswered) ELSE {<<>>})
    /\ R!Init
    /\ IF scene = "grounding" THEN G!Init
       ELSE /\ groundable = FALSE /\ entry = None /\ reply = None /\ rewrites = FALSE
            /\ source = None /\ cards = <<>>
    /\ D!Init /\ (scene # "dictionary" => up /\ \A t \in Terms : covers[t] = "absent")

MCNext ==
    /\ \/ scene = "gateways" /\ Next
            /\ UNCHANGED <<lookupVars, senseVars, groundVars, spokenVars>>
       \/ scene = "lookup" /\ L!Next /\ UNCHANGED <<vars, senseVars, groundVars, spokenVars>>
       \/ scene = "senses" /\ R!Next /\ UNCHANGED <<vars, lookupVars, groundVars, spokenVars>>
       \/ scene = "grounding" /\ G!Next /\ UNCHANGED <<vars, lookupVars, senseVars, spokenVars>>
       \/ scene = "dictionary" /\ D!Next /\ UNCHANGED <<vars, lookupVars, senseVars, groundVars>>
    /\ UNCHANGED scene

\* The fairness of each part in its own scene; no step of a lookup or of a
\* worker's task but Begin and Expire is enabled in another.
Idly == UNCHANGED <<scene, lookupVars, senseVars, groundVars, spokenVars>>
MCSpec ==
    /\ MCInit /\ [][MCNext]_allVars
    /\ \A s \in Sessions :
         /\ WF_allVars(scene = "gateways" /\ Begin(s) /\ Idly)
         /\ WF_allVars(scene = "gateways" /\ Respond(s) /\ Idly)
    /\ WF_allVars(scene = "gateways" /\ Tick /\ Idly)
    /\ L!Fairness
    /\ WF_spokenVars(scene = "dictionary" /\ D!Recovery)
    /\ \A w \in Workers :
         WF_spokenVars(scene = "dictionary" /\ (D!Ask(w) \/ D!Commit(w) \/ D!Release(w)))
    /\ \A t \in Terms :
         /\ SF_spokenVars(scene = "dictionary" /\ D!BeginWith(t))
         /\ WF_spokenVars(scene = "dictionary" /\ D!Expire(t))

\* Failover: a gateway that is well is not blamed, every operation ends, and a
\* gateway that recovers for good serves again, where calls are made.
GatewaysServe ==
    /\ HealthyGatewayAnswers /\ OperationsEnd
    /\ (scene = "gateways" => RecoveredGatewayServes)

\* Failover: no outage and no empty answer takes the latch off, and once it is
\* off every session obeys it.
LatchStands == []LatchOnEvidence /\ LatchIsObeyed

\* Lookup: a known input leads to an answer, claims keep lookups few, and
\* approved senses stand.
AliasResolves == scene = "lookup" => L!AliasResolves
LexiconHolds == [](scene = "lookup" => L!FewOwners) /\ L!AppendOnly

\* SenseRules: the rules do what they are for, and enrichment only improves.
SenseRulesHold ==
    [](scene = "senses" => R!RulesMatchTheirReference) /\ R!EnrichmentOnlyImproves

\* Grounding: no headline on another sense's card.
HeadlinesKeepTheirSense == scene = "grounding" => G!HeadlinesKeepTheirSense

\* Dictionary: an outage marks no word.
SpokenAsCovered == scene = "dictionary" => D!OnlyWhatIsCovered

\* Lookup and Dictionary: every lookup ends, and every word that the dictionary
\* covers is spoken.
AnswersArrive ==
    /\ L!EveryLookupEnds
    /\ (scene = "dictionary" => D!EveryCoveredTermSpoken)

\* Not what the code does: see the comments at the definitions.
RejectedNotServed == L!RejectedNotServed
VerdictRemembered == L!VerdictRemembered
PositionsDiffer == L!PositionsDiffer
WordsClearTheFloor == R!WordsClearTheFloor
IdleHoldsNothing == D!IdleHoldsNothing
=============================================================================
