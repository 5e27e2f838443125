------------------------------ MODULE Friends ------------------------------
(***************************************************************************)
(* Friend requests and friendships: one row of friend_links per direction, *)
(* `links[<<u, f>>]`: u has asked f, or u has f in their list.                 *)
(*                                                                         *)
(* A request that is one statement on one row is one step: it decides on   *)
(* the row as committed.  Accepting is two statements, and holds the row   *)
(* it has updated until it commits.  Removing is one statement on two rows:*)
(* it works on the rows it saw when it began, waiting for a held one.      *)
(***************************************************************************)
EXTENDS Naturals, FiniteSets

CONSTANTS
    Users,
    Requests,    \* requests that can be in flight at once
    MaxRequests, \* bound: requests started
    None         \* NULL, or no row

RequestsAssumption == MaxRequests \in Nat
NoneAssumption == None \notin Users \cup {"asked", "friends"}

VARIABLES
    accounts,   \* the users that exist
    links,      \* links[<<u, f>>]: None, "asked" (accepted is false) or "friends"
    said,       \* <<u, f>>: u has said yes to f, or has sent f a deck
    request,    \* request[r]: what r is about to write
    started     \* requests started so far

friendVars == <<accounts, links, said, request, started>>

Idle == [op |-> "idle"]
Pairs == Users \X Users

FriendsInit ==
    /\ accounts = Users
    /\ links = [row \in Pairs |-> None]
    /\ said = {}
    /\ request = [r \in Requests |-> Idle]
    /\ started = 0

(***************************************************************************)
(* Requests                                                                *)
(***************************************************************************)

Counts == started < MaxRequests /\ started' = started + 1
Starts(r, row) == request[r] = Idle /\ Counts /\ request' = [request EXCEPT ![r] = row]
At(r, op) == request[r].op = op
Done(r) == request' = [request EXCEPT ![r] = Idle] /\ UNCHANGED started

\* A row updated by an acceptance that has not committed.
LockedBy(r, row) == At(r, "accepting") /\ row = <<request[r].other, request[r].who>>
Locked(row) == \E r \in Requests : LockedBy(r, row)

(***************************************************************************)
(* FriendRepository                                                        *)
(***************************************************************************)

ListForUser(u) == {f \in Users : links[<<u, f>>] = "friends"}
ListRequestsFor(u) == {f \in Users : links[<<f, u>>] = "asked"}
ListSentBy(u) == {f \in Users : links[<<u, f>>] = "asked"}

\* Mutant: the row takes the column's default, accepted.
RequestedByDefault(u, f) == [links EXCEPT ![<<u, f>>] = "friends"]

\* request: ON CONFLICT DO NOTHING.
Requested(u, f) == [links EXCEPT ![<<u, f>>] = IF @ = None THEN "asked" ELSE @]

\* link: the row is there afterwards, and accepted.
Linked(table, u, f) == [table EXCEPT ![<<u, f>>] = "friends"]

\* The rows of two people, as a statement on both finds them.
RowsOf(u, f) == {row \in {<<u, f>>, <<f, u>>} : links[row] # None}

\* Mutant: cancel does not look at accepted.
CancelledAnyway(u, f) == [links EXCEPT ![<<u, f>>] = None]

\* decline and cancel: only while nobody has answered.
Cancelled(u, f) == [links EXCEPT ![<<u, f>>] = IF @ = "asked" THEN None ELSE @]

(***************************************************************************)
(* FriendService                                                           *)
(***************************************************************************)

\* A handle resolves to somebody, and not to oneself.
Resolves(u, f) == u # f /\ {u, f} \subseteq accounts

Add(u, f) ==
    /\ Resolves(u, f) /\ Counts /\ ~Locked(<<u, f>>)
    /\ links' = Requested(u, f)
    /\ UNCHANGED <<accounts, said, request>>

\* accept: the asker's row is updated, if it is there and unanswered ...
Accept(r, u, f) ==
    /\ Resolves(u, f) /\ f \in ListRequestsFor(u) /\ ~Locked(<<f, u>>)
    /\ Starts(r, [op |-> "accepting", who |-> u, other |-> f])
    /\ UNCHANGED <<accounts, links, said>>

\* ... and the other half is linked.
LinkBack(r) ==
    /\ At(r, "accepting")
    /\ LET u == request[r].who
           f == request[r].other
       IN  /\ {u, f} \subseteq accounts /\ ~Locked(<<u, f>>)
           /\ links' = Linked(Linked(links, f, u), u, f)
           /\ said' = said \cup {<<u, f>>}
    /\ Done(r)
    /\ UNCHANGED accounts

Decline(u, f) ==
    /\ Resolves(u, f) /\ Counts /\ ~Locked(<<f, u>>)
    /\ links' = Cancelled(f, u)
    /\ UNCHANGED <<accounts, said, request>>

Cancel(u, f) ==
    /\ Resolves(u, f) /\ Counts /\ ~Locked(<<u, f>>)
    /\ links' = Cancelled(u, f)
    /\ UNCHANGED <<accounts, said, request>>

\* remove: the DELETE begins, with the rows there are ...
BeginRemove(r, u, f) ==
    /\ Resolves(u, f)
    /\ Starts(r, [op |-> "removing", rows |-> RowsOf(u, f)])
    /\ UNCHANGED <<accounts, links, said>>

\* ... and ends, a row at a time.
Remove(r) ==
    /\ At(r, "removing")
    /\ \A row \in request[r].rows : ~Locked(row)
    /\ links' = [row \in Pairs |-> IF row \in request[r].rows THEN None ELSE links[row]]
    /\ Done(r)
    /\ UNCHANGED <<accounts, said>>

\* A request that fails, or that the database ends to break a deadlock.
Abort(r) ==
    /\ request[r] # Idle /\ Done(r)
    /\ UNCHANGED <<accounts, links, said>>

FriendsNext ==
    \/ \E u, f \in Users : Add(u, f) \/ Decline(u, f) \/ Cancel(u, f)
    \/ \E r \in Requests, u, f \in Users : Accept(r, u, f) \/ BeginRemove(r, u, f)
    \/ \E r \in Requests : LinkBack(r) \/ Remove(r) \/ Abort(r)

FriendsSpec == FriendsInit /\ [][FriendsNext]_friendVars

(***************************************************************************)
(* Properties                                                              *)
(***************************************************************************)

\* FriendService.add asks: nobody joins a list until one of the two has
\* agreed, or the holder of the list has sent the other a deck.
NothingJoinsUnasked ==
    \A u, f \in Users : f \in ListForUser(u) => <<u, f>> \in said \/ <<f, u>> \in said

\* A friendship ends when somebody removes the friend or an account goes: not
\* by a request taken back or asked again from a list a poll behind.
FriendshipKept ==
    [][\A u, f \in Users :
        f \in ListForUser(u) /\ ~(f \in ListForUser(u))' =>
            \/ ~({u, f} \subseteq accounts')
            \/ \E r \in Requests :
                 At(r, "removing") /\ <<u, f>> \in request[r].rows /\ request'[r] = Idle
      ]_links

\* FriendRepository.unlink, as its comment has it: removing somebody who agreed
\* to be added removes you from their list too, so that one half of a mutual
\* friendship never outlives the other (nobody shares a deck here).
Mutual == \A u, f \in Users : f \in ListForUser(u) => u \in ListForUser(f)
=============================================================================
