------------------------------ MODULE Sharing ------------------------------
(***************************************************************************)
(* Who can open which deck: memberships and roles, the invite link, offers *)
(* of a deck to one person, published decks and the copies taken of them,  *)
(* deleting a deck and an account.  Offering a deck and taking it also     *)
(* write friend_links, so the module extends Friends and its requests.     *)
(*                                                                         *)
(* A request reads what is committed in one step (Begin...) and writes in  *)
(* a later one, its commit.  A foreign key that no longer holds ends it    *)
(* with nothing done.                                                      *)
(***************************************************************************)
EXTENDS Friends

CONSTANTS
    Decks,      \* ids decks can have
    MaxOffers,  \* bound: rows of deck_shares created
    MaxCodes    \* bound: invite codes drawn

Roles == {"owner", "editor", "viewer"}
DeckRow ==
    [owner : Users, public : BOOLEAN, saves : Nat, copyOf : Decks \cup {None}]

SharingAssumption ==
    /\ RequestsAssumption /\ NoneAssumption
    /\ MaxOffers \in Nat /\ MaxCodes \in Nat
    /\ None \notin Roles /\ None \notin DeckRow

VARIABLES
    decks,      \* decks[d]: the row, or None
    members,    \* members[<<d, u>>]: the role, or None
    invites,    \* invites[d]: the deck's link, or None
    shares,     \* shares[<<d, u>>]: the offer of d to u, or None
    offers,     \* ids of deck_shares drawn so far
    codes,      \* invite codes drawn so far
    ids,        \* ids drawn for decks; none is drawn twice
    taken       \* taken[d]: copies ever taken of d

deckVars == <<decks, members, invites, shares, offers, codes, ids, taken>>
vars == <<friendVars, deckVars>>

InviteRow == [code : 1..MaxCodes, role : Roles, open : BOOLEAN]
ShareRow == [id : 1..MaxOffers, from : Users \cup {None}, role : Roles]

NewDeck(u, source) == [owner |-> u, public |-> FALSE, saves |-> 0, copyOf |-> source]

\* Somebody has made a deck, private or published.
Init ==
    /\ FriendsInit
    /\ \E d \in Decks, u \in Users, public \in BOOLEAN :
         /\ decks = [x \in Decks |-> IF x = d THEN [NewDeck(u, None) EXCEPT !.public = public]
                                     ELSE None]
         /\ members = [m \in Decks \X Users |-> IF m = <<d, u>> THEN "owner" ELSE None]
         /\ ids = {d}
    /\ invites = [d \in Decks |-> None]
    /\ shares = [s \in Decks \X Users |-> None]
    /\ offers = 0
    /\ codes = 0
    /\ taken = [d \in Decks |-> 0]

(***************************************************************************)
(* Roles and access                                                        *)
(***************************************************************************)

Live(d) == decks[d] # None
\* Mutant: no foreign keys.
Unreferred(d, u) == TRUE

\* The foreign keys of a row about a deck and a user.
Refers(d, u) == decks[d] # None /\ u \in accounts

MayRead(d, u) == u \in accounts /\ members[<<d, u>>] # None
MayManage(d, u) == u \in accounts /\ members[<<d, u>>] = "owner"

\* Mutant: whoever is asked for is handed the role asked for.
OfferedAsAsked(role) == role

\* There is one owner: a role handed to somebody else is at most an editor's.
Offered(role) == IF role = "owner" THEN "viewer" ELSE role

\* Mutant: ON CONFLICT DO UPDATE of the role.
AddOrReplace(d, u, role) == [members EXCEPT ![<<d, u>>] = role]

AddIfAbsent(d, u, role) == [members EXCEPT ![<<d, u>>] = IF @ = None THEN role ELSE @]

Accepts(invite) == invite # None /\ invite.open

\* Mutant: the upsert replaces the code as well.
UpsertOfAll(d, code, role, open) ==
    [invites EXCEPT ![d] = [code |-> code, role |-> role, open |-> open]]

\* DeckInviteRepository.upsert: a row that is there keeps its code.
Upsert(d, code, role, open) ==
    [invites EXCEPT ![d] =
        [code |-> IF @ = None THEN code ELSE @.code, role |-> role, open |-> open]]

(***************************************************************************)
(* DeckSharingService: members                                             *)
(***************************************************************************)

OnlyMembers == UNCHANGED <<accounts, links, said, decks, invites, shares, offers, codes, ids, taken>>
OnlyReads == UNCHANGED <<accounts, links, said, deckVars>>

BeginAddMember(r, d, u, f, role) ==
    /\ MayManage(d, u) /\ Resolves(u, f)
    /\ Starts(r, [op |-> "add", deck |-> d, who |-> f, role |-> Offered(role)])
    /\ OnlyReads

\* join: by a code whose link is open.
BeginJoin(r, d, u) ==
    /\ u \in accounts /\ Accepts(invites[d])
    /\ Starts(r, [op |-> "add", deck |-> d, who |-> u, role |-> invites[d].role])
    /\ OnlyReads

AddMember(r) ==
    /\ At(r, "add") /\ Refers(request[r].deck, request[r].who)
    /\ members' = AddIfAbsent(request[r].deck, request[r].who, request[r].role)
    /\ Done(r) /\ OnlyMembers

BeginChangeRole(r, d, u, f, role) ==
    /\ MayManage(d, u) /\ members[<<d, f>>] \notin {None, "owner"}
    /\ Starts(r, [op |-> "role", deck |-> d, who |-> f, role |-> Offered(role)])
    /\ OnlyReads

\* The UPDATE of a membership that is gone fails.
ChangeRole(r) ==
    /\ At(r, "role") /\ members[<<request[r].deck, request[r].who>>] # None
    /\ members' = [members EXCEPT ![<<request[r].deck, request[r].who>>] = request[r].role]
    /\ Done(r) /\ OnlyMembers

\* leave and remove_member: everybody but the owner can go.
BeginLeave(r, d, u) ==
    /\ MayRead(d, u) /\ members[<<d, u>>] # "owner"
    /\ Starts(r, [op |-> "leave", deck |-> d, who |-> u])
    /\ OnlyReads

BeginRemoveMember(r, d, u, f) ==
    /\ MayManage(d, u) /\ members[<<d, f>>] \notin {None, "owner"}
    /\ Starts(r, [op |-> "leave", deck |-> d, who |-> f])
    /\ OnlyReads

RemoveMember(r) ==
    /\ At(r, "leave")
    /\ members' = [members EXCEPT ![<<request[r].deck, request[r].who>>] = None]
    /\ Done(r) /\ OnlyMembers

(***************************************************************************)
(* DeckSharingService: the invite link                                     *)
(***************************************************************************)

\* A code is drawn when the request finds no link.
BeginOpenInvite(r, d, u, role) ==
    /\ MayManage(d, u)
    /\ IF invites[d] = None THEN codes < MaxCodes /\ codes' = codes + 1 ELSE UNCHANGED codes
    /\ Starts(r, [op |-> "invite", deck |-> d, role |-> Offered(role), open |-> TRUE,
                  code |-> IF invites[d] = None THEN codes' ELSE invites[d].code])
    /\ UNCHANGED <<accounts, links, said, decks, members, invites, shares, offers, ids, taken>>

BeginCloseInvite(r, d, u) ==
    /\ MayManage(d, u) /\ invites[d] # None
    /\ Starts(r, [op |-> "invite", deck |-> d, role |-> invites[d].role, open |-> FALSE,
                  code |-> invites[d].code])
    /\ OnlyReads

PutInvite(r) ==
    /\ At(r, "invite") /\ Live(request[r].deck)
    /\ invites' = Upsert(request[r].deck, request[r].code, request[r].role, request[r].open)
    /\ Done(r)
    /\ UNCHANGED <<accounts, links, said, decks, members, shares, offers, codes, ids, taken>>

(***************************************************************************)
(* DeckDiscoveryService: offers                                            *)
(***************************************************************************)

BeginShare(r, d, u, f, role) ==
    /\ MayManage(d, u) /\ Resolves(u, f) /\ members[<<d, f>>] = None
    /\ Starts(r, [op |-> "share", deck |-> d, who |-> u, other |-> f, role |-> Offered(role)])
    /\ OnlyReads

\* offer and link: an offer that stands keeps its id.
Share(r) ==
    /\ At(r, "share")
    /\ LET d == request[r].deck
           u == request[r].who
           f == request[r].other
           new == shares[<<d, f>>] = None
       IN  /\ Refers(d, f) /\ u \in accounts /\ ~Locked(<<u, f>>)
           /\ new => offers < MaxOffers
           /\ offers' = IF new THEN offers + 1 ELSE offers
           /\ shares' = [shares EXCEPT ![<<d, f>>] =
                 [id |-> IF new THEN offers' ELSE @.id, from |-> u, role |-> request[r].role]]
           /\ links' = Linked(links, u, f)
           /\ said' = said \cup {<<u, f>>}
    /\ Done(r)
    /\ UNCHANGED <<accounts, decks, members, invites, codes, ids, taken>>

BeginAnswer(r, d, u, op) ==
    /\ u \in accounts /\ shares[<<d, u>>] # None
    /\ Starts(r, [op |-> op, deck |-> d, who |-> u, offer |-> shares[<<d, u>>]])
    /\ OnlyReads

\* withdraw: DELETE by id, whatever the row says by now.
Withdrawn(offer) ==
    [s \in Decks \X Users |->
        IF shares[s] # None /\ shares[s].id = offer.id THEN None ELSE shares[s]]

AcceptShare(r) ==
    /\ At(r, "take")
    /\ LET d == request[r].deck
           u == request[r].who
           offer == request[r].offer
       IN  /\ Refers(d, u)
           /\ members' = AddIfAbsent(d, u, offer.role)
           /\ IF offer.from = None
                THEN UNCHANGED <<links, said>>
                ELSE /\ offer.from \in accounts /\ ~Locked(<<u, offer.from>>)
                     /\ links' = Linked(links, u, offer.from)
                     /\ said' = said \cup {<<u, offer.from>>}
           /\ shares' = Withdrawn(offer)
    /\ Done(r)
    /\ UNCHANGED <<accounts, decks, invites, offers, codes, ids, taken>>

DeclineShare(r) ==
    /\ At(r, "refuse")
    /\ shares' = Withdrawn(request[r].offer)
    /\ Done(r)
    /\ UNCHANGED <<accounts, links, said, decks, members, invites, offers, codes, ids, taken>>

\* The inbox: what is offered, of decks its owner is not in.
ListSharesFor(u) == {d \in Decks : shares[<<d, u>>] # None /\ members[<<d, u>>] = None}

(***************************************************************************)
(* DeckDiscoveryService: published decks                                   *)
(***************************************************************************)

\* get_public
Published(d) == Live(d) /\ decks[d].public

BeginImport(r, d, u) ==
    /\ u \in accounts /\ Published(d)
    /\ Starts(r, [op |-> "import", deck |-> d, who |-> u, saves |-> decks[d].saves + 1])
    /\ OnlyReads

\* Mutant: the counter is written back from what was read with the deck.
SavesAsRead(r) == request[r].saves

\* increment_saves: one UPDATE that counts in the database.
IncrementedSaves(r) == decks[request[r].deck].saves + 1

\* copy_deck_to, the owner's membership, increment_saves.
Import(r) ==
    /\ At(r, "import")
    /\ LET d == request[r].deck
           u == request[r].who
       IN  \E copy \in Decks \ ids :
             /\ Refers(d, u)
             /\ ids' = ids \cup {copy}
             /\ decks' = [decks EXCEPT ![copy] = NewDeck(u, d), ![d].saves = IncrementedSaves(r)]
             /\ members' = [members EXCEPT ![<<copy, u>>] = "owner"]
             /\ taken' = [taken EXCEPT ![d] = @ + 1]
    /\ Done(r)
    /\ UNCHANGED <<accounts, links, said, invites, shares, offers, codes>>

\* set_published (an administrator's script): one UPDATE.
SetPublished(d, public) ==
    /\ Live(d) /\ Counts
    /\ decks' = [decks EXCEPT ![d].public = public]
    /\ UNCHANGED <<accounts, links, said, request, members, invites, shares, offers, codes, ids, taken>>

(***************************************************************************)
(* DeckService, UserService.delete_account                                 *)
(***************************************************************************)

Create(u) ==
    /\ u \in accounts /\ Counts
    /\ \E d \in Decks \ ids :
         /\ ids' = ids \cup {d}
         /\ decks' = [decks EXCEPT ![d] = NewDeck(u, None)]
         /\ members' = [members EXCEPT ![<<d, u>>] = "owner"]
    /\ UNCHANGED <<accounts, links, said, request, invites, shares, offers, codes, taken>>

\* What goes with decks, and with a user: the foreign keys' ON DELETE.
Erased(gone, users) ==
    /\ decks' = [d \in Decks |->
         IF ~Live(d) \/ d \in gone THEN None
         ELSE [decks[d] EXCEPT !.copyOf = IF @ \in gone THEN None ELSE @]]
    /\ members' = [m \in Decks \X Users |->
         IF m[1] \in gone \/ m[2] \in users THEN None ELSE members[m]]
    /\ invites' = [d \in Decks |-> IF d \in gone THEN None ELSE invites[d]]
    /\ shares' = [s \in Decks \X Users |->
         IF shares[s] = None \/ s[1] \in gone \/ s[2] \in users THEN None
         ELSE [shares[s] EXCEPT !.from = IF @ \in users THEN None ELSE @]]
    /\ links' = [p \in Pairs |-> IF p[1] \in users \/ p[2] \in users THEN None ELSE links[p]]
    /\ accounts' = accounts \ users
    /\ UNCHANGED <<said, offers, codes, ids, taken>>

BeginDelete(r, d, u) ==
    /\ MayManage(d, u)
    /\ Starts(r, [op |-> "delete", deck |-> d])
    /\ OnlyReads

Delete(r) == At(r, "delete") /\ Erased({request[r].deck}, {}) /\ Done(r)

OwnedDeckIds(u) == {d \in Decks : members[<<d, u>>] = "owner"}
SharedDecksOwnedBy(u) ==
    {d \in OwnedDeckIds(u) : \E f \in Users \ {u} : members[<<d, f>>] # None}

\* Refused while a deck of theirs has other people in it.
BeginDeleteAccount(r, u) ==
    /\ u \in accounts /\ SharedDecksOwnedBy(u) = {}
    /\ Starts(r, [op |-> "erase", who |-> u])
    /\ OnlyReads

DeleteAccount(r) ==
    /\ At(r, "erase")
    /\ \A f \in Users : ~Locked(<<f, request[r].who>>) /\ ~Locked(<<request[r].who, f>>)
    /\ Erased(OwnedDeckIds(request[r].who), {request[r].who})
    /\ Done(r)

(***************************************************************************)
(* Specification                                                           *)
(***************************************************************************)

Member(r, d, u) ==
    \/ BeginJoin(r, d, u) \/ BeginLeave(r, d, u) \/ BeginImport(r, d, u)
    \/ BeginAnswer(r, d, u, "take") \/ BeginAnswer(r, d, u, "refuse")

Owner(r, d, u) ==
    \/ BeginCloseInvite(r, d, u) \/ BeginDelete(r, d, u)
    \/ \E role \in Roles : BeginOpenInvite(r, d, u, role)
    \/ \E f \in Users :
         \/ BeginRemoveMember(r, d, u, f)
         \/ \E role \in Roles :
              BeginAddMember(r, d, u, f, role) \/ BeginChangeRole(r, d, u, f, role)
                \/ BeginShare(r, d, u, f, role)

Commit(r) ==
    \/ AddMember(r) \/ ChangeRole(r) \/ RemoveMember(r) \/ PutInvite(r) \/ Share(r)
    \/ AcceptShare(r) \/ DeclineShare(r) \/ Import(r) \/ Delete(r) \/ DeleteAccount(r)

Next ==
    \/ FriendsNext /\ UNCHANGED deckVars
    \/ \E r \in Requests :
         \/ Commit(r)
         \/ \E d \in Decks, u \in Users : Member(r, d, u) \/ Owner(r, d, u)
         \/ \E u \in Users : BeginDeleteAccount(r, u)
    \/ \E d \in Decks, public \in BOOLEAN : SetPublished(d, public)
    \/ \E u \in Users : Create(u)

Spec == Init /\ [][Next]_vars

(***************************************************************************)
(* Properties                                                              *)
(***************************************************************************)

\* Every row has its columns, and refers to rows that are there.
TypeOK ==
    /\ accounts \subseteq Users /\ said \subseteq Pairs
    /\ links \in [Pairs -> {None, "asked", "friends"}]
    /\ decks \in [Decks -> DeckRow \cup {None}]
    /\ members \in [Decks \X Users -> Roles \cup {None}]
    /\ invites \in [Decks -> InviteRow \cup {None}]
    /\ shares \in [Decks \X Users -> ShareRow \cup {None}]
    /\ \A d \in Decks, u \in Users : members[<<d, u>>] # None \/ shares[<<d, u>>] # None =>
         decks[d] # None /\ u \in accounts
    /\ \A row \in Pairs : links[row] # None => {row[1], row[2]} \subseteq accounts
    /\ ids \subseteq Decks /\ offers \in 0..MaxOffers /\ codes \in 0..MaxCodes /\ taken \in [Decks -> Nat]

\* DeckRole: a deck that exists has exactly one owner among its members, the
\* user of its row, whatever roles were asked for along whichever way in.
OneOwner ==
    \A d \in Decks, u \in Users :
        members[<<d, u>>] = "owner" <=> Live(d) /\ decks[d].owner = u

\* Joining or taking a deck twice is the same membership: a role changes only
\* because the owner changed it.
RoleKept ==
    [][\A d \in Decks, u \in Users :
        members[<<d, u>>] # None /\ members'[<<d, u>>] \notin {None, members[<<d, u>>]} =>
            \E r \in Requests : At(r, "role") /\ request'[r] = Idle
      ]_members

\* Re-opening the link reuses the row: a code handed to a class keeps working.
CodeKept ==
    [][\A d \in Decks :
        invites[d] # None /\ invites'[d] # None => invites'[d].code = invites[d].code
      ]_invites

\* increment_saves loses no copy, however many people take one at once.
SavesCounted == \A d \in Decks : Live(d) => decks[d].saves = taken[d]

\* The rows that say whose a deck is and how often it was copied agree with one
\* another, although they are written by different requests.
RowsAgree == OneOwner /\ SavesCounted

\* UserService.delete_account refuses while it still owns a shared deck: what
\* goes with an account has nobody else in it.
SharedDeckOutlivesAccount ==
    [][\A r \in Requests :
        At(r, "erase") /\ request'[r] = Idle /\ request[r].who \notin accounts' =>
            SharedDecksOwnedBy(request[r].who) = {}
      ]_vars
=============================================================================
