------------------------------ MODULE MCDecks ------------------------------
(***************************************************************************)
(* What decks hold, what a learner's screens read off them, where the      *)
(* history of reviews is kept and how the prepared decks are planned, each  *)
(* on a small instance.  The parts decide on no common row, so a behaviour *)
(* is about one of them, which the initial state says.  Ids are            *)
(* interchangeable, so the first card and its unit are named.              *)
(***************************************************************************)
EXTENDS Partitions, TLC

CONSTANTS
    Decks, Units, Words, Terms, Requests, MaxRequests, FirstDecks, None, u1, w1, run,
    TicksPerDay, Zones, LastTick, MaxWrites, SessionLimit,
    Commands, Versions, MaxJobs, MaxCommands

VARIABLES
    scene,
    decks, units, words, progress, drawn, request, started, stale,
    now, zone, seat, card, row, writes,
    owner, jobs, built, command, begun

contentVars == <<decks, units, words, progress, drawn, request, started, stale>>
screenVars == <<now, zone, seat, card, row, writes>>
planVars == <<owner, jobs, built, command, begun>>

C == INSTANCE DeckContent
O == INSTANCE Overview WITH Decks <- FirstDecks, Words <- {1, 2}
P == INSTANCE BuildPlan WITH decks <- built

ASSUME PartsAssumption ==
    C!ContentAssumption /\ O!OverviewAssumption /\ P!PlanAssumption /\ WindowAssumption

MCInit ==
    /\ scene \in {"content", "screens", "plans", "history"}
    /\ C!Init
    /\ units[u1] # None /\ words[w1] # None /\ words[w1].term = run
    /\ O!Init
    /\ card[1].deck = words[w1].deck
    /\ scene # "screens" => zone = 0 /\ \A d \in FirstDecks : seat[d] = "plain"
    /\ P!Init
    /\ scene # "plans" => owner
    /\ Init
    /\ scene # "history" => prune

MCNext ==
    /\ \/ scene = "content" /\ C!Next /\ UNCHANGED <<screenVars, planVars, vars>>
       \/ scene = "screens" /\ O!Next /\ UNCHANGED <<contentVars, planVars, vars>>
       \/ scene = "plans" /\ P!Next /\ UNCHANGED <<contentVars, screenVars, vars>>
       \/ scene = "history" /\ Next /\ UNCHANGED <<contentVars, screenVars, planVars>>
    /\ UNCHANGED scene

MCSpec == MCInit /\ [][MCNext]_<<scene, contentVars, screenVars, planVars, vars>>

\* Ids and spellings are interchangeable; sound for safety.
Symmetric ==
    Permutations(Requests) \cup Permutations(Words)
        \cup Permutations(Terms) \cup Permutations(FirstDecks)

\* Each is asked where its variables move, in the scene it is about.

\* DeckContent: cards stay in their units, spelt as spoken, in the boxes of
\* their deck; a worker, an editor and a copy keep out of each other's way.
CardsCohere == scene = "content" => C!CardsCohere
WritersKeepApart == C!NothingClobbered /\ C!CopyStandsAlone

\* Overview: the screens of a learner agree, and today's queue never climbs.
ScreensTell == [](scene = "screens" => O!ScreensAgree) /\ O!QueueNeverClimbs

\* BuildPlan: neither planning nor a sync publishes.
OnlyAdminsPublish == P!OnlyAdminsPublish

\* Not what the code does: see the comments at the definitions.
OneBuildAtATime == P!OneBuildAtATime
FinishedIsOver == P!FinishedIsOver
PresentedWhole == P!PresentedWhole
NoForeignUnit == C!NoForeignUnit
NoWrongPhonetic == C!NoWrongPhonetic
=============================================================================
