------------------------------ MODULE MCReader ------------------------------
(***************************************************************************)
(* The reader and the budgets of its requests on a small instance.  The    *)
(* life of a book, the taps in it and the limiter share no state that any  *)
(* of them decides on, so a behaviour is about one of the three, which the *)
(* initial state says.                                                     *)
(***************************************************************************)
EXTENDS Books, TLC

CONSTANTS
    e1, e2, Taps, MaxTaps, Workers, Budget, Window, MaxExceptions

VARIABLES
    scene,
    tap, hot, durable, off, decisive, begun,
    key, up, serving, local, shared, last, exceptions

MCEditions == {e1, e2}
MCLemmas == (e1 :> 2) @@ (e2 :> 1)

tapVars == <<tap, hot, durable, off, decisive, begun>>
limitVars == <<key, up, serving, local, shared, last, exceptions>>

T == INSTANCE Tap
Q == INSTANCE RateLimit WITH faults <- exceptions, MaxFaults <- MaxExceptions

ASSUME PartsAssumption == BooksAssumption /\ T!TapsAssumption /\ Q!LimitAssumption

MCInit ==
    /\ scene \in {"book", "tap", "limit"}
    /\ Init /\ T!Init /\ Q!Init
    /\ scene # "book" => book = None
    /\ scene = "book" => book = None \/ book.edition = e1
    /\ scene # "tap" => ~decisive

MCNext ==
    /\ \/ scene = "book" /\ Next /\ UNCHANGED <<tapVars, limitVars>>
       \/ scene = "tap" /\ T!Next /\ UNCHANGED <<vars, limitVars>>
       \/ scene = "limit" /\ Q!Next /\ UNCHANGED <<vars, tapVars>>
    /\ UNCHANGED scene

allVars == <<scene, vars, tapVars, limitVars>>

\* Of the books and the taps, what is fair in one scene is never enabled in
\* another; the limiter's steps always are, and are fair in theirs.
MCSpec ==
    /\ MCInit /\ [][MCNext]_allVars /\ Fairness /\ T!Fairness
    /\ WF_allVars(scene = "limit" /\ Q!Tick /\ UNCHANGED <<scene, vars, tapVars>>)
    /\ \A w \in Workers : WF_allVars(scene = "limit" /\ Q!Serve(w) /\ UNCHANGED <<scene, vars, tapVars>>)

\* Books, Tap and RateLimit: however often a slice fails, the warming of a book
\* comes to its end, and so does every tap; and no refusal is for good.
ReadingGoesOn ==
    /\ WarmingEnds /\ T!TapsEnd
    /\ scene = "limit" => Q!RefusalsEnd

\* Tap: one sense whichever answer comes first.
TapsAgree == scene = "tap" => T!SameSenseEitherWay /\ T!OnlyLookupFails

\* RateLimit: how far a budget stretches.
BudgetHolds == scene = "limit" => Q!TwiceTheBudget

\* Not what the code does: see the comment at the definition.
OneStatementAtATime == T!OneStatementAtATime
=============================================================================
