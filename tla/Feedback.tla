----------------------------- MODULE Feedback -----------------------------
(***************************************************************************)
(* The thumbs learners give one card back of a looked-up word.  A verdict  *)
(* is read, then written, by requests that a client may send again; it     *)
(* carries who wrote what it rates, copied from the cache entry while that  *)
(* is there and from the deployment's configuration when it is not.        *)
(***************************************************************************)
EXTENDS Naturals

CONSTANTS
    Learners,
    Requests,     \* being served at a time
    Models,       \* that may write a card back, and be configured
    MaxRequests,  \* ever served
    None

Ratings == {"up", "down"}

VARIABLES
    shown,    \* the model whose card back learners see; None before the lookup
    entry,    \* whether the lookup is in the cache: "none", "cached" or "swept"
    config,   \* the model this deployment is configured with
    verdicts, \* the row of each learner: None, or [rating, reason, term, model]
    request,  \* what each request being served has read
    served    \* requests taken up so far

vars == <<shown, entry, config, verdicts, request, served>>

Idle == [at |-> "idle"]

Init ==
    /\ shown = None /\ entry = "none"
    /\ config \in Models
    /\ verdicts = [l \in Learners |-> None]
    /\ request = [r \in Requests |-> Idle]
    /\ served = 0

-----------------------------------------------------------------------------
(* The lookup, the cache and the deployment. *)

\* The answer is shown whether or not the cache takes it.
LookUp ==
    /\ shown = None
    /\ shown' = config
    /\ entry' \in {"none", "cached"}
    /\ UNCHANGED <<config, verdicts, request, served>>

\* A later request stores what the first could not.
Cache ==
    /\ shown # None /\ entry = "none"
    /\ entry' = "cached"
    /\ UNCHANGED <<shown, config, verdicts, request, served>>

\* Entries of a prompt version that retired go; the card backs have been seen.
Sweep ==
    /\ entry = "cached"
    /\ entry' = "swept"
    /\ UNCHANGED <<shown, config, verdicts, request, served>>

Deploy(model) ==
    /\ config # model
    /\ config' = model
    /\ UNCHANGED <<shown, entry, verdicts, request, served>>

-----------------------------------------------------------------------------
(* rate_ai_sense: provenance, then the learner's row, then the write. *)

At(r, stage) == request[r].at = stage
Ended(r) == request' = [request EXCEPT ![r] = Idle]

\* lookup_provenance; a reason is kept with a thumbs-down only.
Verdict(rating, reason) ==
    [rating |-> rating,
     reason |-> IF rating = "down" THEN reason ELSE None,
     term |-> entry = "cached",
     model |-> IF entry = "cached" THEN shown ELSE config]

Begin(r, l, rating, reason) ==
    /\ At(r, "idle") /\ shown # None /\ served < MaxRequests
    /\ request' = [request EXCEPT ![r] =
           [at |-> "find", learner |-> l, verdict |-> Verdict(rating, reason)]]
    /\ served' = served + 1
    /\ UNCHANGED <<shown, entry, config, verdicts>>

Find(r) ==
    /\ At(r, "find")
    /\ request' = [request EXCEPT ![r] =
           [at |-> "write", learner |-> @.learner, verdict |-> @.verdict,
            found |-> verdicts[@.learner]]]
    /\ UNCHANGED <<shown, entry, config, verdicts, served>>

\* MUTANT: the provenance of the last request, known or not.
MovedWhole(found, verdict) == verdict

\* What the row object is set to: a term is kept where none is known now.
Moved(found, verdict) == [verdict EXCEPT !.term = @ \/ found.term]

\* An UPDATE writes the columns that differ from what was read.
Written(row, found, verdict) ==
    LET new == Moved(found, verdict)
    IN [column \in DOMAIN row |-> IF new[column] = found[column] THEN row[column] ELSE new[column]]

\* upsert_ai.  A first verdict that another request wrote meanwhile, or a row
\* withdrawn meanwhile, fails the request.
Commit(r) ==
    /\ At(r, "write")
    /\ LET row == request[r]
           l == row.learner
       IN CASE row.found = None /\ verdicts[l] = None ->
                 verdicts' = [verdicts EXCEPT ![l] = row.verdict]
            [] row.found # None /\ verdicts[l] # None ->
                 verdicts' = [verdicts EXCEPT ![l] = Written(@, row.found, row.verdict)]
            [] OTHER -> UNCHANGED verdicts
    /\ Ended(r)
    /\ UNCHANGED <<shown, entry, config, served>>

\* delete_ai: an unreadable rating withdraws.
Withdraw(l) ==
    /\ verdicts[l] # None /\ served < MaxRequests
    /\ verdicts' = [verdicts EXCEPT ![l] = None]
    /\ served' = served + 1
    /\ UNCHANGED <<shown, entry, config, request>>

Next ==
    \/ LookUp \/ Cache \/ Sweep
    \/ \E model \in Models : Deploy(model)
    \/ \E r \in Requests :
         \/ Find(r) \/ Commit(r)
         \/ \E l \in Learners, rating \in Ratings, reason \in {None, "example"} :
              Begin(r, l, rating, reason)
    \/ \E l \in Learners : Withdraw(l)

Spec == Init /\ [][Next]_vars

-----------------------------------------------------------------------------
(* Properties. *)

TypeOK ==
    /\ shown \in Models \cup {None} /\ entry \in {"none", "cached", "swept"} /\ config \in Models
    /\ \A l \in Learners : verdicts[l] \in {None} \cup
         [rating : Ratings, reason : {None, "example"}, term : BOOLEAN, model : Models]
    /\ \A r \in Requests : request[r].at \in {"idle", "find", "write"}
    /\ served \in 0..MaxRequests

\* "A blank term that can now be filled in should be": whichever of a learner's
\* requests comes last, the word a standing verdict is about, once known, stays
\* known after the entry that told it is swept.
TermKept ==
    [][\A l \in Learners :
         verdicts[l] # None /\ verdicts'[l] # None /\ verdicts[l].term => verdicts'[l].term]_vars

\* "The example was bad" never stands next to a positive verdict (the comment in
\* rate_ai_sense).  Not what the code does: of two taps served together, one
\* writes the reason and the other the rating.
ReasonsAreComplaints ==
    \A l \in Learners : verdicts[l] # None /\ verdicts[l].reason # None => verdicts[l].rating = "down"

\* A verdict "still answers which word, written by what once that entry has been
\* swept" (AIFeedbackModel).  Not what the code does: a second tap after the
\* sweep writes the deployment's model over the one that was known.
AuthorKept ==
    \A l \in Learners : verdicts[l] # None /\ verdicts[l].term => verdicts[l].model = shown
=============================================================================
