------------------------------ MODULE MCPeople ------------------------------
(***************************************************************************)
(* How people get into their accounts and into each other's decks, what    *)
(* they say of a looked-up word, and how the migrations carry what they    *)
(* have from one shape of the database to the next, each on a small        *)
(* instance.  The parts decide on no common row, so a behaviour is about   *)
(* one of them, which the initial state says.                              *)
(***************************************************************************)
EXTENDS Sharing, Sequences, TLC

CONSTANTS
    a1, p1, e1, g1, Identities, Phones, Emails, Subs, Names, MaxTries,
    d1, ann, bob,
    Cards, TopBox, PointCap, MaxWrites,
    Raters, Models, MaxRated

VARIABLES
    scene,
    users, erased, otp, link, signing, sent, signed, wrong,
    rev, schema, people, cards, progress, roster, log, rollup, xp, befriended, writes,
    shown, entry, config, verdicts, rating, rated

accountVars == <<users, erased, otp, link, signing, sent, signed, wrong>>
schemaVars ==
    <<rev, schema, people, cards, progress, roster, log, rollup, xp, befriended, writes>>
ratingVars == <<shown, entry, config, verdicts, rating, rated>>

\* Two learners: one may share another's name, and the two may spell one
\* address differently.
MCProfiles ==
    {[name |-> <<"ali">>, addr |-> "a", gmail |-> TRUE, google |-> TRUE, lower |-> low] :
        low \in BOOLEAN}
    \cup {[name |-> <<"admin">>, addr |-> "b", gmail |-> FALSE, google |-> TRUE, lower |-> TRUE]}

\* One account, by phone and Google; the other identity is free to sign up by
\* either.
SignedUp ==
    {[a \in Identities |->
        IF a # a1 THEN None
        ELSE [phone |-> p1, email |-> e1, verified |-> TRUE, sub |-> g1, handle |-> None]]}

A == INSTANCE Account WITH
        Signed <- SignedUp, Accounts <- Identities, Handles <- Names,
        request <- signing, codes <- sent, started <- signed
M == INSTANCE Schema WITH
        DeckOwner <- ann, Order <- <<ann, bob>>, Profiles <- MCProfiles, Reserved <- {<<"admin">>},
        members <- roster, links <- befriended
F == INSTANCE Feedback WITH
        Learners <- Raters, MaxRequests <- MaxRated, request <- rating, served <- rated

ASSUME PartsAssumption ==
    /\ A!CountsAssumption /\ A!NamesAssumption /\ A!SignedAssumption /\ A!RowsAssumption
    /\ SharingAssumption /\ M!SchemaAssumption

\* Ids are interchangeable, so the first deck and its owner are named.
MCInit ==
    /\ scene \in {"accounts", "decks", "migrations", "verdicts"}
    /\ A!Init /\ Init /\ M!Init /\ F!Init
    /\ decks[d1] # None /\ decks[d1].owner = ann
    /\ scene # "decks" => ~decks[d1].public
    /\ scene # "verdicts" => config = CHOOSE model \in Models : TRUE

MCNext ==
    /\ \/ scene = "accounts" /\ A!Next /\ UNCHANGED <<vars, schemaVars, ratingVars>>
       \/ scene = "decks" /\ Next /\ UNCHANGED <<accountVars, schemaVars, ratingVars>>
       \/ scene = "migrations" /\ M!Next /\ UNCHANGED <<accountVars, vars, ratingVars>>
       \/ scene = "verdicts" /\ F!Next /\ UNCHANGED <<accountVars, vars, schemaVars>>
    /\ UNCHANGED scene

MCSpec == MCInit /\ [][MCNext]_<<scene, accountVars, vars, schemaVars, ratingVars>>

\* Sound for safety only.
Symmetric == Permutations(Requests) \cup Permutations(Decks \ {d1})

\* Each is asked in the scene its variables move in.

\* Account: nobody is locked out, every guess counts, and an identifier needs
\* its own code.
AccountsHold ==
    /\ [](scene = "accounts" => A!NeverLockedOut /\ A!GuessesAreCounted)
    /\ A!LinkedByItsOwnCode

\* Friends and Sharing: nobody is listed, loses a friend, a role or a link's code
\* by what somebody else does.
ConsentKept ==
    /\ [](scene = "decks" => NothingJoinsUnasked)
    /\ FriendshipKept /\ RoleKept /\ CodeKept

\* Schema: every revision applies and rolls back from every state, and the rows
\* keep their form and what learners read in them.
MigrationsKeepRows ==
    /\ [](scene = "migrations" =>
            M!EveryRevisionApplies /\ M!RowsFitTheShape /\ M!CountersCoverTheirLogs)
    /\ M!UpgradeKeepsWhatIsRead /\ M!DowngradeKeepsWhatFits

\* Feedback: the word a verdict is about.
TermKept == F!TermKept

\* Not what the code does: see the comments at the definitions.
RemovedIdentityStaysOut == A!RemovedIdentityStaysOut
MasteredOncePerCard == M!MasteredOncePerCard
ReasonsAreComplaints == F!ReasonsAreComplaints
AuthorKept == F!AuthorKept
=============================================================================
