------------------------------ MODULE Account ------------------------------
(***************************************************************************)
(* How people get into their accounts: one-time codes by SMS, Google       *)
(* sign-in, linking and unlinking a phone or an email, claiming a handle,  *)
(* deleting the account.  Every request is one transaction over users,     *)
(* otp_challenges and account_link_challenges.                             *)
(*                                                                         *)
(* A request reads what is committed in one step and writes in a later     *)
(* one, its commit.  A guarded UPDATE or DELETE decides on the row as      *)
(* committed; the unit of work (session.flush) writes the columns that     *)
(* differ from those it holds, and no others.  A unique index or a CHECK   *)
(* that a write would break ends the request with nothing done.            *)
(***************************************************************************)
EXTENDS Naturals, FiniteSets

CONSTANTS
    Requests,   \* requests that can be in flight at once
    Accounts,   \* identities rows of users can have
    Phones, Emails, Subs, Handles,
    MaxTries,   \* MAX_OTP_ATTEMPTS, settings.link_otp_max_attempts
    MaxCodes,   \* bound: codes sent by SMS or by email
    MaxRequests,\* bound: requests started
    Signed,     \* the tables of users there may be at first
    None        \* NULL, or no row

CountsAssumption == MaxTries \in Nat \ {0} /\ MaxCodes \in Nat /\ MaxRequests \in Nat
NamesAssumption ==
    /\ None \notin Phones \cup Emails \cup Subs \cup Handles \cup Accounts
    /\ Phones \cap Emails = {}

Kinds == {"phone", "email"}
Targets(kind) == IF kind = "phone" THEN Phones ELSE Emails
Codes == 1..MaxCodes
WrongCode == 0

\* A row of users: the columns an identity is made of, and the handle.
UserRow ==
    [phone : Phones \cup {None}, email : Emails \cup {None}, verified : BOOLEAN,
     sub : Subs \cup {None}, handle : Handles \cup {None}]
Blank == [phone |-> None, email |-> None, verified |-> FALSE, sub |-> None, handle |-> None]

\* A row of otp_challenges.  Its key is its code, and codes are numbered in
\* the order of created_at; `age` is what the clock has made of it.
OtpRow ==
    [phone : Phones, attempts : Nat, consumed : BOOLEAN, age : {"fresh", "old", "expired"}]

\* A row of account_link_challenges, keyed by account and kind.
LinkRow == [target : Phones \cup Emails, code : Codes, left : 0..MaxTries, expired : BOOLEAN]

\* Accounts that signed up earlier came with a phone or with Google.
SignedAssumption ==
    \A rows \in Signed :
        /\ rows \in [Accounts -> UserRow \cup {None}]
        /\ \A a \in Accounts : rows[a] # None =>
             /\ rows[a].phone # None \/ rows[a].sub # None
             /\ rows[a].verified => rows[a].email # None
RowsAssumption == None \notin UserRow /\ None \notin OtpRow /\ None \notin LinkRow

Idle == [op |-> "idle", who |-> None, kind |-> "phone", target |-> None, code |-> WrongCode,
         tries |-> 0, seen |-> Blank, want |-> Blank]

VARIABLES
    users,      \* users[a]: the row, or None before it exists
    erased,     \* the accounts deleted; their ids never come back
    otp,        \* otp[c]: the challenge with code c, or None
    link,       \* link[<<a, kind>>]: the outstanding link challenge, or None
    request,    \* request[r]: what r has read and is about to write
    codes,      \* codes generated so far
    started,    \* requests started so far
    wrong       \* wrong[c]: wrong guesses answered while c was the challenge read

vars == <<users, erased, otp, link, request, codes, started, wrong>>

Init ==
    /\ users \in Signed
    /\ erased = {}
    /\ otp = [c \in Codes |-> None]
    /\ link = [m \in Accounts \X Kinds |-> None]
    /\ request = [r \in Requests |-> Idle]
    /\ codes = 0
    /\ started = 0
    /\ wrong = [c \in Codes |-> 0]

(***************************************************************************)
(* Reading                                                                 *)
(***************************************************************************)

Exists(a) == users[a] # None

GetByPhone(p) == {a \in Accounts : Exists(a) /\ users[a].phone = p}
GetByGoogleSub(s) == {a \in Accounts : Exists(a) /\ users[a].sub = s}
GetByVerifiedEmail(e) ==
    {a \in Accounts : Exists(a) /\ users[a].verified /\ users[a].email = e}
UsernameTaken(h) == \E a \in Accounts : Exists(a) /\ users[a].handle = h

\* User.holds: the identifier is the account's own, and proven.
Holds(row, kind, target) ==
    IF kind = "phone" THEN row.phone = target
                      ELSE row.verified /\ row.email = target

\* otp_challenges: the newest row of a phone that is not consumed.
Unconsumed(p) == {c \in Codes : otp[c] # None /\ otp[c].phone = p /\ ~otp[c].consumed}
ActiveByPhone(p) == {c \in Unconsumed(p) : \A d \in Unconsumed(p) : d <= c}

IsUsable(row) == ~row.consumed /\ row.age # "expired" /\ row.attempts < MaxTries
LinkIsUsable(row) == row.left > 0 /\ ~row.expired

(***************************************************************************)
(* Writing                                                                 *)
(***************************************************************************)

Starts(r, row) ==
    /\ request[r].op = "idle" /\ started < MaxRequests
    /\ started' = started + 1
    /\ request' = [request EXCEPT ![r] = row]
At(r, op) == request[r].op = op
Done(r) == request' = [request EXCEPT ![r] = Idle] /\ UNCHANGED started

\* The unique indexes of users, and the CHECK on the verified flag.
Unique(rows) ==
    \A a, b \in Accounts : a # b /\ rows[a] # None /\ rows[b] # None =>
        /\ rows[a].phone # None => rows[a].phone # rows[b].phone
        /\ rows[a].sub # None => rows[a].sub # rows[b].sub
        /\ rows[a].handle # None => rows[a].handle # rows[b].handle
VerifiedEmailUnique(rows) ==
    \A a, b \in Accounts : a # b /\ rows[a] # None /\ rows[b] # None =>
        ~(rows[a].verified /\ rows[b].verified /\ rows[a].email = rows[b].email)
VerifiedEmailPresent(row) == row.verified => row.email # None

Allowed(rows) ==
    /\ Unique(rows) /\ VerifiedEmailUnique(rows)
    /\ \A a \in Accounts : rows[a] # None => VerifiedEmailPresent(rows[a])

Store(a, row) ==
    /\ users' = [users EXCEPT ![a] = row]
    /\ Allowed(users')

\* UserRepository.update: flush writes the columns that differ from the row
\* as the session has it.  It holds its rows weakly: that is the row of the
\* request's first read, or the row read again now.
Flushed(now, held, wanted) ==
    [column \in DOMAIN now |->
        IF wanted[column] # held[column] THEN wanted[column] ELSE now[column]]
Update(a, read, wanted) ==
    Exists(a) /\ \E held \in {read, users[a]} : Store(a, Flushed(users[a], held, wanted))

\* UserRepository.add
Add(row) == \E a \in Accounts \ erased : ~Exists(a) /\ Store(a, row)

(***************************************************************************)
(* One-time codes                                                          *)
(***************************************************************************)

\* AuthService.request_otp, up to the cooldown.
BeginRequestOtp(r, p) ==
    /\ codes < MaxCodes
    /\ \A c \in ActiveByPhone(p) : otp[c].age # "fresh"
    /\ codes' = codes + 1
    /\ Starts(r, [Idle EXCEPT !.op = "otp", !.target = p, !.code = codes'])
    /\ UNCHANGED <<users, erased, otp, link, wrong>>

InvalidateForPhone(p) ==
    [c \in Codes |-> IF c \in Unconsumed(p) THEN [otp[c] EXCEPT !.consumed = TRUE] ELSE otp[c]]

\* The rest of it: the phone's open challenges are closed, a new one is sent.
StoreOtp(r) ==
    /\ At(r, "otp")
    /\ otp' = [InvalidateForPhone(request[r].target) EXCEPT
                   ![request[r].code] = [phone |-> request[r].target, attempts |-> 0,
                                         consumed |-> FALSE, age |-> "fresh"]]
    /\ Done(r)
    /\ UNCHANGED <<users, erased, link, codes, wrong>>

\* AuthService.verify_otp reads the challenge and compares the code.
BeginVerifyOtp(r, p, guess) ==
    \E c \in ActiveByPhone(p) :
        /\ IsUsable(otp[c])
        /\ Starts(r, [Idle EXCEPT !.op = IF guess = c THEN "right" ELSE "wrong",
                                  !.target = p, !.code = c, !.tries = otp[c].attempts])
        /\ UNCHANGED <<users, erased, otp, link, codes, wrong>>

\* Mutant: attempts is written back from the value 0 both guesses have read.
CountedFromRead(c) == [otp EXCEPT ![c].attempts = 1]

CountedAttempt(c) == [otp EXCEPT ![c].attempts = @ + 1]

\* A wrong code: the attempt is committed although the request fails.
RecordFailedAttempt(r) ==
    /\ At(r, "wrong")
    /\ otp' = CountedAttempt(request[r].code)
    /\ wrong' = [wrong EXCEPT ![request[r].code] = @ + 1]
    /\ Done(r)
    /\ UNCHANGED <<users, erased, link, codes>>

\* A right code: whose phone is it?
ReadPhoneHolder(r) ==
    /\ At(r, "right")
    /\ LET holders == GetByPhone(request[r].target)
           a == CHOOSE b \in holders : TRUE
       IN  request' = [request EXCEPT ![r] =
             IF holders = {} THEN [@ EXCEPT !.op = "enter"]
             ELSE [@ EXCEPT !.op = "enter", !.who = a, !.seen = users[a], !.want = users[a]]]
    /\ UNCHANGED <<users, erased, otp, link, codes, wrong, started>>

\* The challenge is consumed, and its attempts perhaps written back as read;
\* the holder is signed in or an account made.
EnterByPhone(r) ==
    /\ At(r, "enter")
    /\ \E attempts \in {request[r].tries, otp[request[r].code].attempts} :
         otp' = [otp EXCEPT ![request[r].code].consumed = TRUE,
                            ![request[r].code].attempts = attempts]
    /\ IF request[r].who = None
         THEN Add([Blank EXCEPT !.phone = request[r].target])
         ELSE Update(request[r].who, request[r].seen, request[r].want)
    /\ Done(r)
    /\ UNCHANGED <<erased, link, codes, wrong>>

(***************************************************************************)
(* Google                                                                  *)
(***************************************************************************)

\* AuthService.sign_in_with_google: the account by sub.  `kind` is "email"
\* when Google vouches for the address.
BeginGoogle(r, s, e, vouched) ==
    /\ Starts(r, [Idle EXCEPT !.op = "google", !.target = e,
                     !.kind = IF vouched THEN "email" ELSE "phone",
                     !.who = IF GetByGoogleSub(s) = {} THEN None
                             ELSE CHOOSE a \in GetByGoogleSub(s) : TRUE,
                     !.seen = IF GetByGoogleSub(s) = {} THEN Blank
                              ELSE users[CHOOSE a \in GetByGoogleSub(s) : TRUE],
                     !.want = [Blank EXCEPT !.sub = s, !.email = e, !.verified = vouched]])
    /\ UNCHANGED <<users, erased, otp, link, codes, wrong>>

\* What the sign-in makes of an account found by sub.
Adopted(row, email, vouched, owners) ==
    IF vouched /\ owners = {} /\ ~row.verified
    THEN [row EXCEPT !.email = email, !.verified = TRUE]
    ELSE row

\* The account that has verified the address Google vouches for, and what is
\* to be written.
ReadEmailOwner(r) ==
    /\ At(r, "google")
    /\ LET q == request[r]
           vouched == q.kind = "email"
           owners == IF vouched THEN GetByVerifiedEmail(q.target) ELSE {}
           owner == CHOOSE a \in owners : TRUE
       IN  request' = [request EXCEPT ![r] =
             IF q.who # None
               THEN [q EXCEPT !.op = "flush", !.want = Adopted(q.seen, q.target, vouched, owners)]
             ELSE IF owners # {}
               THEN [q EXCEPT !.op = "flush", !.who = owner, !.seen = users[owner],
                              !.want = [users[owner] EXCEPT !.sub = q.want.sub]]
             ELSE [q EXCEPT !.op = "flush"]]
    /\ UNCHANGED <<users, erased, otp, link, codes, wrong, started>>

\* The account is found and written, or made.
EnterByGoogle(r) ==
    /\ At(r, "flush")
    /\ IF request[r].who = None
         THEN Add(request[r].want)
         ELSE Update(request[r].who, request[r].seen, request[r].want)
    /\ Done(r)
    /\ UNCHANGED <<erased, otp, link, codes, wrong>>

(***************************************************************************)
(* Linking                                                                 *)
(***************************************************************************)

\* AccountLinkService.request_code, for an identifier not yet one's own.
BeginLink(r, a, k, t) ==
    /\ codes < MaxCodes
    /\ Exists(a) /\ ~Holds(users[a], k, t)
    /\ Starts(r, [Idle EXCEPT !.op = "ask", !.who = a, !.kind = k, !.target = t])
    /\ UNCHANGED <<users, erased, otp, link, codes, wrong>>

\* _ensure_free
EnsureFree(r) ==
    /\ At(r, "ask")
    /\ LET q == request[r]
           holders == IF q.kind = "phone" THEN GetByPhone(q.target)
                                          ELSE GetByVerifiedEmail(q.target)
       IN  IF holders \subseteq {q.who} THEN request' = [request EXCEPT ![r].op = "put"] /\ UNCHANGED started
                                        ELSE Done(r)
    /\ UNCHANGED <<users, erased, otp, link, codes, wrong>>

\* LinkChallengeRepository.put replaces whatever was outstanding.
PutChallenge(r) ==
    /\ At(r, "put") /\ codes < MaxCodes
    /\ Exists(request[r].who)
    /\ codes' = codes + 1
    /\ link' = [link EXCEPT ![<<request[r].who, request[r].kind>>] =
                   [target |-> request[r].target, code |-> codes', left |-> MaxTries,
                    expired |-> FALSE]]
    /\ Done(r)
    /\ UNCHANGED <<users, erased, otp, wrong>>

\* AccountLinkService.verify_code: not one's own yet.
BeginVerifyLink(r, a, k, t) ==
    /\ Exists(a) /\ ~Holds(users[a], k, t)
    /\ Starts(r, [Idle EXCEPT !.op = "verify", !.who = a, !.kind = k, !.target = t])
    /\ UNCHANGED <<users, erased, otp, link, codes, wrong>>

\* Mutant: a code answers for any target.
AnswerableForAny(row, target) == row # None /\ LinkIsUsable(row)

\* The challenge a verification may use.
Answerable(row, target) == row # None /\ row.target = target /\ LinkIsUsable(row)

ReadChallenge(r, right) ==
    /\ At(r, "verify")
    /\ LET row == link[<<request[r].who, request[r].kind>>]
       IN  request' = [request EXCEPT ![r] =
             IF Answerable(row, request[r].target)
             THEN [@ EXCEPT !.op = IF right THEN "consume" ELSE "spend", !.code = row.code]
             ELSE Idle]
    /\ UNCHANGED <<users, erased, otp, link, codes, wrong, started>>

\* Mutant: no attempts_left > 0 in the predicate of the UPDATE.
SpentUnguarded(row) == IF row # None THEN [row EXCEPT !.left = @ - 1] ELSE row

\* spend_attempt on a row of account_link_challenges.
Spent(row) == IF row # None /\ row.left > 0 THEN [row EXCEPT !.left = @ - 1] ELSE row

SpendAttempt(r) ==
    /\ At(r, "spend")
    /\ link' = [link EXCEPT ![<<request[r].who, request[r].kind>>] = Spent(@)]
    /\ wrong' = [wrong EXCEPT ![request[r].code] = @ + 1]
    /\ Done(r)
    /\ UNCHANGED <<users, erased, otp, codes>>

\* consume deletes the challenge whose code was checked, and no other.
Consumable(row, code) == row # None /\ row.code = code

Linked(row, kind, target) ==
    IF kind = "phone" THEN [row EXCEPT !.phone = target]
                      ELSE [row EXCEPT !.email = target, !.verified = TRUE]

ConsumeAndLink(r) ==
    LET q == request[r] IN
    /\ At(r, "consume")
    /\ \/ /\ Consumable(link[<<q.who, q.kind>>], q.code)
          /\ Exists(q.who)
          /\ link' = [link EXCEPT ![<<q.who, q.kind>>] = None]
          /\ Store(q.who, Linked(users[q.who], q.kind, q.target))
       \/ /\ ~Consumable(link[<<q.who, q.kind>>], q.code)
          /\ UNCHANGED <<link, users>>
    /\ Done(r)
    /\ UNCHANGED <<erased, otp, codes, wrong>>

(***************************************************************************)
(* Unlinking, the handle, the end of an account                            *)
(***************************************************************************)

\* The request loads the account it acts for.
BeginOwn(r, a, op, want) ==
    /\ Exists(a)
    /\ Starts(r, [Idle EXCEPT !.op = op, !.who = a, !.seen = users[a], !.want = want])
    /\ UNCHANGED <<users, erased, otp, link, codes, wrong>>

BeginUnlink(r, a) == \E op \in {"unlink_phone", "unlink_email"} : BeginOwn(r, a, op, Blank)

\* Mutant: the rule is checked on the account loaded with the request.
MayUnlinkAsLoaded(now, seen) == seen.sub # None

\* The predicate of the UPDATE: `now` is the row as committed, `seen` the one
\* the request has read.
MayUnlinkPhone(now, seen) == now.sub # None

MayUnlinkEmail(now, seen) == now.phone # None

UnlinkPhone(r) ==
    LET a == request[r].who IN
    /\ At(r, "unlink_phone")
    /\ IF Exists(a) /\ MayUnlinkPhone(users[a], request[r].seen)
         THEN Store(a, [users[a] EXCEPT !.phone = None])
         ELSE UNCHANGED users
    /\ Done(r)
    /\ UNCHANGED <<erased, otp, link, codes, wrong>>

UnlinkEmail(r) ==
    LET a == request[r].who IN
    /\ At(r, "unlink_email")
    /\ IF Exists(a) /\ MayUnlinkEmail(users[a], request[r].seen)
         THEN Store(a, [users[a] EXCEPT !.email = None, !.verified = FALSE, !.sub = None])
         ELSE UNCHANGED users
    /\ Done(r)
    /\ UNCHANGED <<erased, otp, link, codes, wrong>>

\* UserService._claim_username checks, the index decides.
BeginClaim(r, a, h) ==
    /\ Exists(a) /\ users[a].handle # h /\ ~UsernameTaken(h)
    /\ BeginOwn(r, a, "claim", [users[a] EXCEPT !.handle = h])

ClaimUsername(r) ==
    /\ At(r, "claim")
    /\ Update(request[r].who, request[r].seen, request[r].want)
    /\ Done(r)
    /\ UNCHANGED <<erased, otp, link, codes, wrong>>

\* UserService.delete_account; the account's challenges go with its row.
DeleteAccount(a) ==
    /\ Exists(a)
    /\ users' = [users EXCEPT ![a] = None]
    /\ erased' = erased \cup {a}
    /\ link' = [m \in Accounts \X Kinds |-> IF m[1] = a THEN None ELSE link[m]]
    /\ UNCHANGED <<otp, request, codes, wrong, started>>

\* A request fails, its SMS is not sent, an index refuses its row, or its
\* process dies: its transaction is rolled back.
Abort(r) ==
    /\ request[r].op # "idle"
    /\ Done(r)
    /\ UNCHANGED <<users, erased, otp, link, codes, wrong>>

(***************************************************************************)
(* The clock                                                               *)
(***************************************************************************)

AgeOtp(c) ==
    /\ otp[c] # None /\ otp[c].age # "expired"
    /\ otp' = [otp EXCEPT ![c].age = IF @ = "fresh" THEN "old" ELSE "expired"]
    /\ UNCHANGED <<users, erased, link, request, codes, wrong, started>>

AgeLink(a, k) ==
    /\ link[<<a, k>>] # None /\ ~link[<<a, k>>].expired
    /\ link' = [link EXCEPT ![<<a, k>>].expired = TRUE]
    /\ UNCHANGED <<users, erased, otp, request, codes, wrong, started>>

(***************************************************************************)
(* The specification                                                       *)
(***************************************************************************)

PhoneStep(r) ==
    \/ \E p \in Phones : BeginRequestOtp(r, p)
    \/ StoreOtp(r)
    \/ \E p \in Phones, guess \in Codes \cup {WrongCode} : BeginVerifyOtp(r, p, guess)
    \/ RecordFailedAttempt(r)
    \/ ReadPhoneHolder(r)
    \/ EnterByPhone(r)

GoogleStep(r) ==
    \/ \E s \in Subs, e \in Emails, vouched \in BOOLEAN : BeginGoogle(r, s, e, vouched)
    \/ ReadEmailOwner(r)
    \/ EnterByGoogle(r)

LinkStep(r) ==
    \/ \E a \in Accounts, k \in Kinds : \E t \in Targets(k) : BeginLink(r, a, k, t)
    \/ EnsureFree(r)
    \/ PutChallenge(r)
    \/ \E a \in Accounts, k \in Kinds : \E t \in Targets(k) : BeginVerifyLink(r, a, k, t)
    \/ \E right \in BOOLEAN : ReadChallenge(r, right)
    \/ SpendAttempt(r)
    \/ ConsumeAndLink(r)

OwnStep(r) ==
    \/ \E a \in Accounts : BeginUnlink(r, a)
    \/ UnlinkPhone(r)
    \/ UnlinkEmail(r)
    \/ \E a \in Accounts, h \in Handles : BeginClaim(r, a, h)
    \/ ClaimUsername(r)

Next ==
    \/ \E r \in Requests : PhoneStep(r) \/ GoogleStep(r) \/ LinkStep(r) \/ OwnStep(r) \/ Abort(r)
    \/ \E a \in Accounts : DeleteAccount(a)
    \/ \E c \in Codes : AgeOtp(c)
    \/ \E a \in Accounts, k \in Kinds : AgeLink(a, k)

Spec == Init /\ [][Next]_vars

(***************************************************************************)
(* Properties                                                              *)
(***************************************************************************)

RequestOps ==
    {"idle", "otp", "right", "wrong", "enter", "google", "flush", "ask", "put", "verify",
     "spend", "consume", "unlink_phone", "unlink_email", "claim"}
RequestRow ==
    [op : RequestOps, who : Accounts \cup {None}, kind : Kinds,
     target : Phones \cup Emails \cup {None}, code : Nat, tries : Nat,
     seen : UserRow, want : UserRow]

\* Every row and every request keeps to its domain, and an erased account
\* has no row (models/user.py, otp_challenge.py, link_challenge.py).
TypeOK ==
    /\ users \in [Accounts -> UserRow \cup {None}]
    /\ erased \in SUBSET Accounts
    /\ \A a \in erased : users[a] = None
    /\ otp \in [Codes -> OtpRow \cup {None}]
    /\ link \in [Accounts \X Kinds -> LinkRow \cup {None}]
    /\ request \in [Requests -> RequestRow]
    /\ codes \in 0..MaxCodes /\ started \in 0..MaxRequests
    /\ wrong \in [Codes -> Nat]

\* Whatever is unlinked, relinked and signed into at the same time, every
\* account keeps a phone or a Google identity to come in by (entities/user.py:
\* "At least one is always set").
NeverLockedOut == \A a \in Accounts : Exists(a) => users[a].phone # None \/ users[a].sub # None

\* Guesses sent side by side are all counted: a one-time code that can still be
\* used has as many attempts against it as wrong codes were answered, and a link code never has
\* more tries left than the wrong answers to it leave (record_failed_attempt,
\* spend_attempt).
GuessesAreCounted ==
    /\ \A c \in Codes : otp[c] # None /\ ~otp[c].consumed => otp[c].attempts = wrong[c]
    /\ \A a \in Accounts, k \in Kinds : link[<<a, k>>] # None =>
         link[<<a, k>>].left = 0 \/ link[<<a, k>>].left + wrong[link[<<a, k>>].code] <= MaxTries

\* An account exists, and its value of an identifier of a kind.
Identifier(rows, a, kind) ==
    IF kind = "phone" THEN rows[a].phone
    ELSE IF rows[a].verified THEN rows[a].email ELSE None

\* A Google sign-in that writes an account's address in this step.
ByGoogle(a) == \E r \in Requests : At(r, "flush") /\ request[r].who = a /\ request'[r] = Idle

\* A request that writes the account back as it has read it.
WrittenBack(a, kind, value) ==
    \E r \in Requests :
        /\ request[r].op \in {"enter", "flush", "claim"} /\ request[r].who = a
        /\ Identifier([b \in {a} |-> request[r].seen], a, kind) = value
        /\ request'[r] = Idle

\* An identifier the account did not have when the writer read it is attached
\* only by the code that was sent to that very identifier, and that code is
\* gone with it: it cannot attach another, nor the same one again.
LinkedByItsOwnCode ==
    [][\A a \in Accounts, k \in Kinds :
        LET new == Identifier(users', a, k) IN
        (/\ Exists(a) /\ users'[a] # None
         /\ new \notin {None, Identifier(users, a, k)}
         /\ ~(k = "email" /\ ByGoogle(a)) /\ ~WrittenBack(a, k, new))
        => /\ link[<<a, k>>] # None /\ link[<<a, k>>].target = new
           /\ link'[<<a, k>>] = None]_vars

\* UserRepository.unlink_email takes the Google identity with the email, so
\* that it does not let the Google account back in: an account that has none
\* gets one by a Google sign-in and not otherwise.
RemovedIdentityStaysOut ==
    [][\A a \in Accounts :
        Exists(a) /\ users'[a] # None /\ users[a].sub = None /\ users'[a].sub # None =>
            ByGoogle(a)]_vars
=============================================================================
