------------------------------ MODULE Failover ------------------------------
(***************************************************************************)
(* Calling the gateways: the chain that tries one after the other, its     *)
(* circuit breakers, and the adapter of each gateway with its retries and  *)
(* its latch on structured output.                                         *)
(*                                                                         *)
(* A session is a request of the API or a batch of a worker.  It holds a   *)
(* chain of its own with breakers of its own (raw_ai_provider builds one   *)
(* each time), while the adapters, and so their latches, are one per       *)
(* process (provider_for is memoized).  The event loop may let another     *)
(* session run whenever one waits for a gateway.                           *)
(***************************************************************************)
EXTENDS Naturals

CONSTANTS
    Sessions,
    Last,        \* gateways are 1..Last, in the order they are tried
    Threshold,   \* ai_breaker_threshold
    Cooldown,    \* ai_breaker_cooldown_seconds, in ticks
    Deadline,    \* ai_failover_deadline_seconds
    Timeout,     \* a gateway's timeout_seconds
    MaxAttempts, \* _MAX_ATTEMPTS
    Retries      \* _TRANSPORT_RETRIES

ASSUME ParametersAssumption ==
    /\ Last \in Nat \ {0} /\ Threshold \in Nat \ {0} /\ Cooldown \in Nat
    /\ Deadline \in Nat /\ Timeout \in Nat /\ MaxAttempts \in Nat \ {0} /\ Retries \in Nat

Gateways == 1..Last

\* What a gateway does with response_format: holds to it, rejects the call with
\* a 400, or accepts it and may answer off-schema.  When they fail, all but the
\* strict also answer 400 for reasons of their own and cut their bodies short;
\* a strict one is out of reach, answers nothing or refuses.
Kinds == {"strict", "cuts", "rejects", "ignores"}
Honouring == {"strict", "cuts"}

VARIABLES
    kind,        \* kind[g]
    well,        \* well[g]: g answers what it is asked at the moment
    structured,  \* structured[g]: _structured_output of the adapter
    failures,    \* failures[s][g]: consecutive failures, as far as Threshold
    rest,        \* rest[s][g]: time until the breaker lets a call through
    call         \* call[s]: the operation s is in

vars == <<kind, well, structured, failures, rest, call>>

NoCall == [at |-> 0]

\* CircuitBreaker.__init__, one for each gateway of a chain.
Closed == [g \in Gateways |-> 0]

\* supports_structured_output is FALSE for a gateway known not to honour it.
Supported == {f \in [Gateways -> BOOLEAN] : \A g \in Gateways : ~f[g] => kind[g] \notin Honouring}

Init ==
    /\ kind \in [Gateways -> Kinds]
    /\ well \in [Gateways -> BOOLEAN]
    /\ structured \in Supported
    /\ failures = [s \in Sessions |-> Closed]
    /\ rest = [s \in Sessions |-> Closed]
    /\ call = [s \in Sessions |-> NoCall]

Calling(s) == call[s].at # 0

(***************************************************************************)
(* The chain                                                               *)
(***************************************************************************)

\* _within_budget: the gateway's timeout fits in what is left.
WithinBudget(spent) == spent + Timeout <= Deadline

\* The gateway to try next: not resting, and affordable unless it is the first.
NextFrom(resting, g, tried, spent) ==
    LET fit == {h \in g..Last : resting[h] = 0 /\ (tried => WithinBudget(spent))}
    IN  IF fit = {} THEN 0 ELSE CHOOSE h \in fit : \A k \in fit : h <= k

\* The request is sent with or without response_format, as the latch says.
Sent(mode, g, first, spent, faultless) ==
    IF g = 0 THEN NoCall
    ELSE [at |-> g, first |-> first, sent |-> mode[g], attempt |-> 1, retry |-> 0,
          waited |-> 0, spent |-> spent, faultless |-> faultless]

\* raw_ai_provider builds a chain with breakers of its own, or the session
\* goes on with the one it has.
Breakers(counts, s, new) == IF new THEN [counts EXCEPT ![s] = Closed] ELSE counts

\* An operation, on the chain in hand or on a new one.
Begin(s) ==
    /\ ~Calling(s)
    /\ \E new \in BOOLEAN :
         /\ rest' = Breakers(rest, s, new)
         /\ failures' = Breakers(failures, s, new)
         /\ LET g == NextFrom(rest'[s], 1, FALSE, 0)
            IN  call' = [call EXCEPT ![s] = Sent(structured, g, TRUE, 0, g # 0 /\ well[g])]
    /\ UNCHANGED <<kind, well, structured>>

\* record_success
Answered(s) ==
    /\ call' = [call EXCEPT ![s] = NoCall]
    /\ failures' = [failures EXCEPT ![s][call[s].at] = 0]
    /\ rest' = [rest EXCEPT ![s][call[s].at] = 0]

Capped(n) == IF n < Threshold THEN n ELSE Threshold

\* record_failure, and on to the next gateway.
Failed(s) ==
    LET g == call[s].at
        count == Capped(failures[s][g] + 1)
    IN  /\ failures' = [failures EXCEPT ![s][g] = count]
        /\ rest' = IF count = Threshold THEN [rest EXCEPT ![s][g] = Cooldown] ELSE rest
        /\ LET h == NextFrom(rest'[s], g + 1, TRUE, call[s].spent)
           IN  call' = [call EXCEPT
                 ![s] = Sent(structured', h, FALSE, call[s].spent, h # 0 /\ well[h])]

\* The session goes away: the client hangs up, the task's time is over.
Cancel(s) ==
    /\ Calling(s)
    /\ call' = [call EXCEPT ![s] = NoCall]
    /\ UNCHANGED <<kind, well, structured, failures, rest>>

(***************************************************************************)
(* The adapter                                                             *)
(***************************************************************************)

At(s, g) == call[s].at = g /\ g # 0

\* A session in the middle of a call to g finds the latch changed.
Latch(g) ==
    /\ structured' = [structured EXCEPT ![g] = FALSE]
    /\ UNCHANGED <<kind, well>>

Keep == UNCHANGED <<kind, well, structured>>

Resent(s, row) == call' = [call EXCEPT ![s] = row] /\ UNCHANGED <<failures, rest>>

\* A body that validates.
Valid(s, g) ==
    /\ At(s, g) /\ well[g]
    /\ call[s].sent => kind[g] # "rejects"
    /\ Answered(s) /\ Keep

\* Mutant: no second attempt.
AskedOnce(s, g) == Failed(s)

\* Mutant: the next attempt is sent as the first was.
AskedAsBefore(s, g) ==
    IF call[s].attempt = MaxAttempts THEN Failed(s)
    ELSE Resent(s, [call[s] EXCEPT !.attempt = @ + 1, !.retry = 0, !.waited = 0])

\* A last malformed body is a failure, an earlier one is asked for again.
Reasked(s, g) ==
    IF call[s].attempt = MaxAttempts THEN Failed(s)
    ELSE Resent(s, [call[s] EXCEPT !.attempt = @ + 1, !.sent = structured'[g],
                                   !.retry = 0, !.waited = 0])

\* 200 and a body that is not the schema's, or the first part of one that would
\* have been: one cut short (finish_reason "length", an incomplete response) is judged
\* like any other.
OffSchema(s, g) ==
    /\ At(s, g)
    /\ IF well[g] THEN call[s].sent /\ kind[g] = "ignores" ELSE kind[g] # "strict"
    /\ IF structured[g] THEN Latch(g) ELSE Keep
    /\ Reasked(s, g)

\* Mutant: an empty body counts as an answer off the schema.
EmptyLatches(g) == structured[g]

\* An empty body says nothing about the schema.
EmptyIsEvidence(g) == FALSE

\* 200 and nothing: a model that spent its output thinking.
Empty(s, g) ==
    /\ At(s, g) /\ ~well[g]
    /\ IF EmptyIsEvidence(g) THEN Latch(g) ELSE Keep
    /\ Reasked(s, g)

\* Mutant: the latch stays as it was.
LatchForgotten(g) == Keep

\* The first rejection takes response_format out for the process.
Unlatched(g) == Latch(g)

\* 400, for response_format or for something else: which of them is not asked.
\* Without response_format, as far as the latch says, it is final.
Rejected(s, g) ==
    /\ At(s, g)
    /\ IF well[g] THEN call[s].sent /\ kind[g] = "rejects" ELSE kind[g] # "strict"
    /\ IF structured[g]
       THEN /\ Unlatched(g)
            /\ Resent(s, [call[s] EXCEPT !.sent = structured'[g], !.retry = 0, !.waited = 0])
       ELSE Keep /\ Failed(s)

\* A connection error, a 5xx or a timeout: the SDK repeats the request.
Unreachable(s, g) ==
    /\ At(s, g) /\ ~well[g]
    /\ Keep
    /\ IF call[s].retry < Retries
       THEN Resent(s, [call[s] EXCEPT !.retry = @ + 1, !.waited = 0])
       ELSE Failed(s)

\* Another status, a refusal.
Refused(s, g) == At(s, g) /\ ~well[g] /\ Keep /\ Failed(s)

Respond(s) ==
    \E g \in Gateways :
        Valid(s, g) \/ OffSchema(s, g) \/ Empty(s, g) \/ Rejected(s, g) \/ Unreachable(s, g)
            \/ Refused(s, g)

(***************************************************************************)
(* The world                                                               *)
(***************************************************************************)

\* A gateway breaks down or recovers; calls to it are no longer faultless.
Turn(g) ==
    /\ well' = [well EXCEPT ![g] = ~@]
    /\ call' = [s \in Sessions |->
         IF At(s, g) THEN [call[s] EXCEPT !.faultless = FALSE] ELSE call[s]]
    /\ UNCHANGED <<kind, structured, failures, rest>>

\* Sessions of the process reach each other through the latch alone, so a
\* session not in Sessions is this step: it has met what g does.
Elsewhere(g) ==
    /\ structured[g] /\ kind[g] # "strict" /\ Latch(g)
    /\ UNCHANGED <<failures, rest, call>>

\* Mutant: a breaker that has opened stays open.
Never(t) == t

Cooled(t) == IF t = 0 THEN 0 ELSE t - 1

\* Time passes.  No call waits for longer than its timeout; a gateway that is
\* well answers before.  What is spent is counted as far as past the deadline.
Tick ==
    /\ \A s \in Sessions : Calling(s) => call[s].waited < Timeout
    /\ rest' = [s \in Sessions |-> [g \in Gateways |-> Cooled(rest[s][g])]]
    /\ call' = [s \in Sessions |->
         IF ~Calling(s) THEN call[s]
         ELSE [call[s] EXCEPT !.waited = @ + 1, !.spent = IF @ > Deadline THEN @ ELSE @ + 1]]
    /\ UNCHANGED <<kind, well, structured, failures>>

(***************************************************************************)
(* Specification                                                           *)
(***************************************************************************)

Next ==
    \/ \E s \in Sessions : Begin(s) \/ Respond(s) \/ Cancel(s)
    \/ \E g \in Gateways : Turn(g) \/ Elsewhere(g)
    \/ Tick

\* Sessions go on calling, gateways answer or time out, time passes.
Fairness ==
    /\ \A s \in Sessions : WF_vars(Begin(s)) /\ WF_vars(Respond(s))
    /\ WF_vars(Tick)

Spec == Init /\ [][Next]_vars /\ Fairness
(***************************************************************************)
(* Properties                                                              *)
(***************************************************************************)

CallRow == [at : Gateways, first : BOOLEAN, sent : BOOLEAN, attempt : 1..MaxAttempts, retry : 0..Retries,
            waited : 0..Timeout, spent : 0..Deadline + 1, faultless : BOOLEAN]

TypeOK ==
    /\ kind \in [Gateways -> Kinds]
    /\ well \in [Gateways -> BOOLEAN]
    /\ structured \in [Gateways -> BOOLEAN]
    /\ failures \in [Sessions -> [Gateways -> 0..Threshold]]
    /\ rest \in [Sessions -> [Gateways -> 0..Cooldown]]
    /\ call \in [Sessions -> CallRow \cup {NoCall}]

\* The adapter's latch: a gateway that never answers 400 nor with a body that does
\* not fit keeps structured output, whatever its outages and its empty answers
\* (the comment in _complete: "An empty body is not evidence").
LatchOnEvidence == \A g \in Gateways : ~structured[g] => kind[g] # "strict"

\* What s asks of g is asked as the latch says, unless it was under way already.
Obeyed(s, g) ==
    ~structured'[g] /\ At(s, g)' /\ call'[s].sent =>
        At(s, g) /\ call[s].sent /\ call'[s].attempt = call[s].attempt

\* From the moment any session takes the latch off, none asks for structured
\* output again: only what was under way carries response_format to the end of
\* its attempt (_complete: "The retry below uses the new mode").
LatchIsObeyed == [][\A s \in Sessions, g \in Gateways : Obeyed(s, g)]_vars

\* "Flipped off permanently the first time the endpoint proves it does not enforce
\* a JSON schema" (__init__).  Not what the code does: a body cut short and a 400
\* for another reason prove no such thing and take the latch off all the same.
HonouredFormatKept == \A g \in Gateways : ~structured[g] => kind[g] \notin Honouring

\* s has counted a failure of g.
Counted(s, g) == failures'[s][g] > failures[s][g] \/ rest'[s][g] > rest[s][g]

\* The latch was changed while s was waiting for its answer from g.
LatchedMeanwhile(s, g) == call[s].sent /\ ~structured[g]

\* _complete and _request between them: a gateway that is well throughout a
\* call answers it, whatever it makes of response_format, and is not counted
\* as failing; except when another session's answer flips the latch meanwhile.
HealthyGatewayAnswers ==
    [][\A s \in Sessions, g \in Gateways :
        At(s, g) /\ call[s].faultless /\ Counted(s, g) => LatchedMeanwhile(s, g)]_vars

\* The same without the exception: the comment in _request ("Drop to
\* prompt-enforced JSON for the rest of this process and retry once").
RejectedFormatRetried ==
    [][\A s \in Sessions, g \in Gateways :
        At(s, g) /\ call[s].faultless => ~Counted(s, g)]_vars

\* CircuitBreaker's docstring: "the API and each worker hold their own view".
OneViewPerProcess == \A s, t \in Sessions : rest[s] = rest[t]

\* A fallback is tried only if it can finish within the deadline
\* (_within_budget: "instead of blowing the budget halfway through"; the
\* adapter's timeout_seconds: "Worst-case wait for one call").
BudgetKept ==
    \A s \in Sessions : Calling(s) /\ ~call[s].first => call[s].spent <= Deadline

\* An operation ends, with an answer or with an error.
OperationsEnd == \A s \in Sessions : Calling(s) ~> ~Calling(s)

\* The breaker lets a gateway back in: the first gateway, once it is well for
\* good, serves every session that goes on asking, also on one same chain.
RecoveredGatewayServes ==
    \A s \in Sessions :
        <>[]well[1] /\ <>[][~Cancel(s)]_vars => []<><<Valid(s, 1)>>_vars
=============================================================================
