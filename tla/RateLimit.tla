----------------------------- MODULE RateLimit -----------------------------
(***************************************************************************)
(* The budget one learner has of some request: a fixed window in Redis,    *)
(* shared by every worker and made of separate commands, and a rolling     *)
(* window in each worker's memory for when Redis cannot be reached.  Time   *)
(* is kept as ages, so that no clock grows.                                *)
(***************************************************************************)
EXTENDS Integers

CONSTANTS
    Workers,    \* processes that serve requests
    Budget,        \* max_events: the budget
    Window,     \* ticks of a window
    MaxFaults,  \* crashes and outages
    None

\* Counts past the budget are alike.
Counters == [count : 1..(Budget + 1), ttl : {None} \cup 1..Window]

LimitAssumption ==
    /\ Budget \in Nat \ {0} /\ Window \in Nat \ {0} /\ MaxFaults \in Nat
    /\ None \notin Counters

Ages == 0..(Window - 1)

VARIABLES
    key,      \* the counter in Redis: None, or [count, ttl]
    up,       \* whether Redis can be reached
    serving,  \* what each worker has had from Redis for the request it serves
    local,    \* the rolling window of each worker: events by age
    shared,   \* requests Redis counted within the budget, by age of the INCR
    last,     \* what the last request was told
    faults

vars == <<key, up, serving, local, shared, last, faults>>

Idle == [at |-> "idle"]
NoEvents == [a \in Ages |-> 0]

\* How many of them happened less than n ticks ago, and how many in a window.
Younger(n, events) ==
    LET Sum[i \in 0..Window] == IF i = 0 THEN 0 ELSE Sum[i - 1] + events[i - 1] IN Sum[n]
Total(events) == Younger(Window, events)

Init ==
    /\ key = None /\ up = TRUE
    /\ serving = [w \in Workers |-> Idle]
    /\ local = [w \in Workers |-> NoEvents]
    /\ shared = NoEvents
    /\ last = "allowed"
    /\ faults = 0

At(w, stage) == serving[w].at = stage
Goes(w, stage) == serving' = [serving EXCEPT ![w] = [at |-> stage]]

Allow(w) == Goes(w, "idle") /\ last' = "allowed"
Refuse(w) == Goes(w, "idle") /\ last' = "refused"
Waits(w, stage) == Goes(w, stage) /\ UNCHANGED last

Happens(events) == [events EXCEPT ![0] = @ + 1]

-----------------------------------------------------------------------------
(* The window in memory. *)

\* SlidingWindowRateLimiter.allow, where any failure of Redis ends.
Fallback(w) ==
    LET fits == Total(local[w]) < Budget IN
    /\ local' = IF fits THEN [local EXCEPT ![w] = Happens(@)] ELSE local
    /\ last' = IF fits THEN "allowed" ELSE "refused"
    /\ Goes(w, "idle")
    /\ UNCHANGED <<key, shared>>

\* MUTANT: a failure of Redis lets the request pass.
FailOpen(w) ==
    /\ local' = [local EXCEPT ![w] = Happens(@)]
    /\ last' = "allowed"
    /\ Goes(w, "idle")
    /\ UNCHANGED <<key, shared>>

OnFailure(w) == Fallback(w)

-----------------------------------------------------------------------------
(* The window in Redis: INCR, then EXPIRE or TTL. *)

Count == IF key = None THEN 1 ELSE IF key.count > Budget THEN key.count ELSE key.count + 1

\* The first event opens the window; only a refusal looks at it again.
Incr(w) ==
    /\ At(w, "idle") /\ up
    /\ key' = [count |-> Count, ttl |-> IF key = None THEN None ELSE key.ttl]
    /\ CASE Count = 1 -> Waits(w, "expire")
         [] Count > Budget -> Waits(w, "ttl")
         [] OTHER -> Allow(w)
    /\ shared' = IF Count <= Budget THEN Happens(shared) ELSE shared
    /\ UNCHANGED local

Expired == IF key = None THEN None ELSE [key EXCEPT !.ttl = Window]

Expire(w) ==
    /\ At(w, "expire") /\ up
    /\ key' = Expired /\ Allow(w)
    /\ UNCHANGED <<local, shared>>

\* A process died between the two commands: the key would never expire.
Orphan == key # None /\ key.ttl = None

\* MUTANT: every refusal opens the window anew.
OrphanOrNot == key # None

Endless == Orphan

Ttl(w) ==
    /\ At(w, "ttl") /\ up
    /\ IF Endless THEN Waits(w, "repair") ELSE Refuse(w)
    /\ UNCHANGED <<key, local, shared>>

Repair(w) ==
    /\ At(w, "repair") /\ up
    /\ key' = Expired /\ Refuse(w)
    /\ UNCHANGED <<local, shared>>

\* A request, step by step, whether Redis answers or not.
Serve(w) ==
    /\ \/ Incr(w) \/ Expire(w) \/ Ttl(w) \/ Repair(w)
       \/ ~up /\ OnFailure(w)
    /\ UNCHANGED <<up, faults>>

-----------------------------------------------------------------------------
Older(events) == [a \in Ages |-> IF a = 0 THEN 0 ELSE events[a - 1]]

Tick ==
    /\ key' = IF key = None \/ key.ttl = None THEN key
              ELSE IF key.ttl = 1 THEN None ELSE [key EXCEPT !.ttl = @ - 1]
    /\ local' = [w \in Workers |-> Older(local[w])]
    /\ shared' = Older(shared)
    /\ UNCHANGED <<up, serving, last, faults>>

\* A worker that dies forgets its window and its request.
Crash(w) ==
    /\ faults < MaxFaults
    /\ Goes(w, "idle") /\ local' = [local EXCEPT ![w] = NoEvents]
    /\ faults' = faults + 1
    /\ UNCHANGED <<key, up, shared, last>>

Outage ==
    /\ faults < MaxFaults /\ up
    /\ up' = FALSE /\ faults' = faults + 1
    /\ UNCHANGED <<key, serving, local, shared, last>>

Restored == ~up /\ up' = TRUE /\ UNCHANGED <<key, serving, local, shared, last, faults>>

Next ==
    \/ \E w \in Workers : Serve(w) \/ Crash(w)
    \/ Tick \/ Outage \/ Restored

\* Workers answer what they took up, learners try again, and time passes.
Fairness == WF_vars(Tick) /\ \A w \in Workers : WF_vars(Serve(w))

Spec == Init /\ [][Next]_vars /\ Fairness

-----------------------------------------------------------------------------
(* Properties. *)

TypeOK ==
    /\ key \in Counters \cup {None}
    /\ up \in BOOLEAN
    /\ \A w \in Workers : serving[w].at \in {"idle", "expire", "ttl", "repair"}
    /\ local \in [Workers -> [Ages -> 0..Budget]]
    /\ shared \in [Ages -> Nat]
    /\ last \in {"allowed", "refused"}
    /\ faults \in 0..MaxFaults

\* "Its worst case — twice the budget across a window boundary", and "the limit
\* degrades from global to per-worker rather than disappearing": in any window's
\* time Redis counts at most twice the budget as within it, and each worker on its
\* own lets at most the budget pass, whatever commands, deaths and outages fall in
\* between.  It is the counting that is bounded: a worker held up between its two
\* commands lets the request in that it counted windows ago.
TwiceTheBudget ==
    /\ Total(shared) <= 2 * Budget
    /\ \A w \in Workers : Total(local[w]) <= Budget

\* No refusal is for good, though the process that was to set the time to live
\* may have died first: who keeps trying is let through again and again.
RefusalsEnd == []<>(last = "allowed")
=============================================================================
