--------------------------- MODULE PeopleProofs ---------------------------
(***************************************************************************)
(* Owners, roles, links, friendships and counts of copies; the ways into   *)
(* an account; the word of a verdict: for any number of people, decks,     *)
(* identifiers and requests.                                               *)
(***************************************************************************)
EXTENDS MCPeople, TLAPS

Shape ==
    /\ accounts \subseteq Users /\ ids \subseteq Decks
    /\ decks \in [Decks -> DeckRow \cup {None}]
    /\ members = [m \in Decks \X Users |-> members[m]]
    /\ invites = [d \in Decks |-> invites[d]]
    /\ shares = [s \in Decks \X Users |-> shares[s]]
    /\ taken \in [Decks -> Nat]

\* An id that has not been drawn has nothing to it.
Known ==
    \A d \in Decks : d \notin ids =>
        decks[d] = None /\ taken[d] = 0 /\ \A u \in Users : members[<<d, u>>] = None

\* No link and no offer hands the ownership out.
NoneOffered ==
    /\ \A d \in Decks : invites[d] # None => invites[d].role # "owner"
    /\ \A d \in Decks, u \in Users : shares[<<d, u>>] # None =>
         /\ shares[<<d, u>>].role # "owner"
         /\ shares[<<d, u>>] = [id |-> shares[<<d, u>>].id, from |-> shares[<<d, u>>].from,
                               role |-> shares[<<d, u>>].role]

\* What a request has read and will write: no owner's role, and a change or
\* an end only of a membership that is not the owner's.
Sound(row, table, drawn) ==
    /\ row.op \in {"add", "role", "share", "invite"} => row.role # "owner"
    /\ row.op = "take" => row.offer.role # "owner"
    /\ row.op = "import" => row.deck \in Decks
    /\ row.op \in {"role", "leave"} =>
         row.deck \in drawn /\ (table[row.deck] # None => table[row.deck].owner # row.who)

RequestsSound ==
    /\ request = [r \in Requests |-> request[r]]
    /\ \A r \in Requests : Sound(request[r], decks, ids)

State == Shape /\ Known /\ NoneOffered /\ OneOwner /\ SavesCounted
IInv == State /\ RequestsSound

\* A deck that is there goes, or keeps its owner; ids are not drawn again.
DecksStay ==
    /\ ids \subseteq ids'
    /\ \A d \in ids : decks'[d] # None => decks[d] # None /\ decks'[d].owner = decks[d].owner

LEMMA IdleSound == \A table, drawn : Sound(Idle, table, drawn)
BY DEF Sound, Idle

LEMMA RequestStep ==
    ASSUME IInv, DecksStay, NEW r \in Requests, NEW row, Sound(row, decks', ids'),
           request' = [request EXCEPT ![r] = row]
    PROVE  RequestsSound'
<1>1. ASSUME NEW q \in Requests PROVE Sound(request'[q], decks', ids')
  <2>1. CASE q = r
    BY <2>1 DEF IInv, RequestsSound
  <2>2. CASE q # r
    <3>1. request'[q] = request[q] /\ Sound(request[q], decks, ids)
      BY <2>2 DEF IInv, RequestsSound
    <3> QED BY <3>1 DEF Sound, DecksStay
  <2> QED BY <2>1, <2>2
<1>2. request' = [q \in Requests |-> request'[q]]
  BY DEF IInv, RequestsSound
<1> QED BY <1>1, <1>2 DEF RequestsSound

LEMMA DoneStep ==
    ASSUME IInv, DecksStay, NEW r \in Requests, Done(r) PROVE RequestsSound'
BY RequestStep, IdleSound DEF Done

\* A request reads, and nothing but the request changes.
LEMMA BeginStep ==
    ASSUME IInv, NEW r \in Requests, NEW row, Sound(row, decks, ids), Starts(r, row),
           UNCHANGED <<accounts, decks, members, invites, shares, ids, taken>>
    PROVE  IInv'
<1>1. State'
  BY DEF IInv, State, Shape, Known, NoneOffered, OneOwner, SavesCounted, Live
<1>2. DecksStay
  BY DEF DecksStay
<1>3. RequestsSound'
  BY <1>2, RequestStep DEF Starts
<1> QED BY <1>1, <1>3 DEF IInv

LEMMA NotTheOwner ==
    ASSUME IInv, NEW d \in Decks, NEW u \in Users, members[<<d, u>>] \notin {None, "owner"}
    PROVE  d \in ids /\ (decks[d] # None => decks[d].owner # u)
BY DEF IInv, State, Known, OneOwner, Live

LEMMA MemberBegins ==
    ASSUME IInv, NEW r \in Requests, NEW d \in Decks, NEW u \in Users, Member(r, d, u)
    PROVE  IInv'
<1>1. CASE BeginJoin(r, d, u)
  <2> DEFINE row == [op |-> "add", deck |-> d, who |-> u, role |-> invites[d].role]
  <2>1. Sound(row, decks, ids)
    BY <1>1 DEF BeginJoin, Accepts, Sound, IInv, State, NoneOffered
  <2> QED BY <1>1, <2>1, BeginStep DEF BeginJoin, OnlyReads, deckVars
<1>2. CASE BeginLeave(r, d, u)
  <2> DEFINE row == [op |-> "leave", deck |-> d, who |-> u]
  <2>1. Sound(row, decks, ids)
    BY <1>2, NotTheOwner DEF BeginLeave, MayRead, Sound
  <2> QED BY <1>2, <2>1, BeginStep DEF BeginLeave, OnlyReads, deckVars
<1>3. CASE BeginImport(r, d, u)
  <2> DEFINE row == [op |-> "import", deck |-> d, who |-> u, saves |-> decks[d].saves + 1]
  <2>1. Sound(row, decks, ids)
    BY DEF Sound
  <2> QED BY <1>3, <2>1, BeginStep DEF BeginImport, OnlyReads, deckVars
<1>4. ASSUME NEW op \in {"take", "refuse"}, BeginAnswer(r, d, u, op) PROVE IInv'
  <2> DEFINE row == [op |-> op, deck |-> d, who |-> u, offer |-> shares[<<d, u>>]]
  <2>1. Sound(row, decks, ids)
    BY <1>4 DEF BeginAnswer, Sound, IInv, State, NoneOffered
  <2> QED BY <1>4, <2>1, BeginStep DEF BeginAnswer, OnlyReads, deckVars
<1> QED BY <1>1, <1>2, <1>3, <1>4 DEF Member

LEMMA OfferedIsNoOwner == \A role : Offered(role) # "owner"
BY DEF Offered

LEMMA OwnerBegins ==
    ASSUME IInv, NEW r \in Requests, NEW d \in Decks, NEW u \in Users, Owner(r, d, u)
    PROVE  IInv'
<1>1. CASE BeginCloseInvite(r, d, u)
  <2> DEFINE row == [op |-> "invite", deck |-> d, role |-> invites[d].role, open |-> FALSE,
                     code |-> invites[d].code]
  <2>1. Sound(row, decks, ids)
    BY <1>1 DEF BeginCloseInvite, Sound, IInv, State, NoneOffered
  <2> QED BY <1>1, <2>1, BeginStep DEF BeginCloseInvite, OnlyReads, deckVars
<1>2. CASE BeginDelete(r, d, u)
  <2> DEFINE row == [op |-> "delete", deck |-> d]
  <2>1. Sound(row, decks, ids)
    BY DEF Sound
  <2> QED BY <1>2, <2>1, BeginStep DEF BeginDelete, OnlyReads, deckVars
<1>3. ASSUME NEW role \in Roles, BeginOpenInvite(r, d, u, role) PROVE IInv'
  <2> DEFINE row == [op |-> "invite", deck |-> d, role |-> Offered(role), open |-> TRUE,
                     code |-> IF invites[d] = None THEN codes' ELSE invites[d].code]
  <2>1. Sound(row, decks, ids)
    BY OfferedIsNoOwner DEF Sound
  <2>2. Starts(r, row) /\ UNCHANGED <<accounts, decks, members, invites, shares, ids, taken>>
    BY <1>3 DEF BeginOpenInvite
  <2> HIDE DEF row
  <2> QED BY <2>1, <2>2, BeginStep
<1>4. ASSUME NEW f \in Users, BeginRemoveMember(r, d, u, f) PROVE IInv'
  <2> DEFINE row == [op |-> "leave", deck |-> d, who |-> f]
  <2>1. Sound(row, decks, ids)
    BY <1>4, NotTheOwner DEF BeginRemoveMember, Sound
  <2> QED BY <1>4, <2>1, BeginStep DEF BeginRemoveMember, OnlyReads, deckVars
<1>5. ASSUME NEW f \in Users, NEW role \in Roles, BeginAddMember(r, d, u, f, role) PROVE IInv'
  <2> DEFINE row == [op |-> "add", deck |-> d, who |-> f, role |-> Offered(role)]
  <2>1. Sound(row, decks, ids)
    BY OfferedIsNoOwner DEF Sound
  <2> QED BY <1>5, <2>1, BeginStep DEF BeginAddMember, OnlyReads, deckVars
<1>6. ASSUME NEW f \in Users, NEW role \in Roles, BeginChangeRole(r, d, u, f, role) PROVE IInv'
  <2> DEFINE row == [op |-> "role", deck |-> d, who |-> f, role |-> Offered(role)]
  <2>1. Sound(row, decks, ids)
    BY <1>6, NotTheOwner, OfferedIsNoOwner DEF BeginChangeRole, Sound
  <2> QED BY <1>6, <2>1, BeginStep DEF BeginChangeRole, OnlyReads, deckVars
<1>7. ASSUME NEW f \in Users, NEW role \in Roles, BeginShare(r, d, u, f, role) PROVE IInv'
  <2> DEFINE row == [op |-> "share", deck |-> d, who |-> u, other |-> f, role |-> Offered(role)]
  <2>1. Sound(row, decks, ids)
    BY OfferedIsNoOwner DEF Sound
  <2> QED BY <1>7, <2>1, BeginStep DEF BeginShare, OnlyReads, deckVars
<1> QED BY <1>1, <1>2, <1>3, <1>4, <1>5, <1>6, <1>7 DEF Owner

\* Friends touch no deck.
LEMMA FriendsKeep ==
    ASSUME IInv, FriendsNext, UNCHANGED deckVars PROVE IInv'
<1>1. UNCHANGED <<accounts, decks, members, invites, shares, ids, taken>>
  BY DEF FriendsNext, Add, Decline, Cancel, Accept, BeginRemove, LinkBack, Remove, Abort, deckVars
<1>2. CASE \E u, f \in Users : Add(u, f) \/ Decline(u, f) \/ Cancel(u, f)
  <2>1. UNCHANGED request
    BY <1>2 DEF Add, Decline, Cancel
  <2> QED BY <1>1, <2>1 DEF IInv, State, Shape, Known, NoneOffered, OneOwner, SavesCounted, Live,
          RequestsSound
<1>3. ASSUME NEW r \in Requests, NEW u \in Users, NEW f \in Users, Accept(r, u, f) PROVE IInv'
  <2> DEFINE row == [op |-> "accepting", who |-> u, other |-> f]
  <2>1. Sound(row, decks, ids)
    BY DEF Sound
  <2> QED BY <1>1, <1>3, <2>1, BeginStep DEF Accept
<1>4. ASSUME NEW r \in Requests, NEW u \in Users, NEW f \in Users, BeginRemove(r, u, f) PROVE IInv'
  <2> DEFINE row == [op |-> "removing", rows |-> RowsOf(u, f)]
  <2>1. Sound(row, decks, ids)
    BY DEF Sound
  <2> QED BY <1>1, <1>4, <2>1, BeginStep DEF BeginRemove
<1>5. ASSUME NEW r \in Requests, LinkBack(r) \/ Remove(r) \/ Abort(r) PROVE IInv'
  <2>1. Done(r)
    BY <1>5 DEF LinkBack, Remove, Abort
  <2>2. DecksStay
    BY <1>1 DEF DecksStay
  <2>3. RequestsSound'
    BY <2>1, <2>2, DoneStep
  <2>4. State'
    BY <1>1 DEF IInv, State, Shape, Known, NoneOffered, OneOwner, SavesCounted, Live
  <2> QED BY <2>3, <2>4 DEF IInv
<1> QED BY <1>2, <1>3, <1>4, <1>5 DEF FriendsNext

\* Memberships change, and the decks stay.
LEMMA MembersStep ==
    ASSUME SharingAssumption, IInv, UNCHANGED <<accounts, decks, ids, taken>>,
           members' = [m \in Decks \X Users |-> members'[m]],
           invites' = [d \in Decks |-> invites'[d]],
           shares' = [s \in Decks \X Users |-> shares'[s]],
           NoneOffered',
           \A d \in Decks, u \in Users :
               \/ members'[<<d, u>>] = members[<<d, u>>]
               \/ /\ members'[<<d, u>>] # "owner"
                  /\ d \in ids /\ (decks[d] # None => decks[d].owner # u)
    PROVE  State' /\ DecksStay
<1>1. Shape' /\ DecksStay
  BY DEF IInv, State, Shape, DecksStay
<1>2. Known'
  BY DEF IInv, State, Known
<1>3. OneOwner'
  BY DEF IInv, State, OneOwner, Live
<1>4. SavesCounted'
  BY DEF IInv, State, SavesCounted, Live
<1> QED BY <1>1, <1>2, <1>3, <1>4 DEF State

\* A membership is added where there is none, so not to the owner.
LEMMA AddedRole ==
    ASSUME SharingAssumption, IInv, NEW d, NEW u, decks[d] # None, NEW role, role # "owner",
           members' = AddIfAbsent(d, u, role)
    PROVE  /\ members' = [m \in Decks \X Users |-> members'[m]]
           /\ \A e \in Decks, v \in Users :
                \/ members'[<<e, v>>] = members[<<e, v>>]
                \/ /\ members'[<<e, v>>] # "owner"
                   /\ e \in ids /\ (decks[e] # None => decks[e].owner # v)
<1>1. members' = [members EXCEPT ![<<d, u>>] = IF members[<<d, u>>] = None THEN role ELSE members[<<d, u>>]]
  BY DEF AddIfAbsent
<1>2. members = [m \in Decks \X Users |-> members[m]]
  BY DEF IInv, State, Shape
<1>3. ASSUME NEW e \in Decks, NEW v \in Users, members'[<<e, v>>] # members[<<e, v>>]
      PROVE  e = d /\ v = u /\ members'[<<e, v>>] = role /\ members[<<e, v>>] = None
  BY <1>1, <1>2, <1>3
<1>4. ASSUME NEW e \in Decks, NEW v \in Users, e = d, v = u, members[<<e, v>>] = None
      PROVE  e \in ids /\ decks[e].owner # v
  BY <1>4 DEF IInv, State, Known, OneOwner, Live, SharingAssumption, Roles
<1> QED BY <1>1, <1>2, <1>3, <1>4

LEMMA AddMemberKeeps ==
    ASSUME SharingAssumption, IInv, NEW r \in Requests, AddMember(r) PROVE IInv'
<1>1. request[r].role # "owner" /\ decks[request[r].deck] # None
  BY DEF AddMember, At, Refers, IInv, RequestsSound, Sound
<1>2. State' /\ DecksStay
  <2>1. UNCHANGED <<accounts, decks, ids, taken, invites, shares>>
    BY DEF AddMember, OnlyMembers
  <2>2. members' = AddIfAbsent(request[r].deck, request[r].who, request[r].role)
    BY DEF AddMember
  <2>3. NoneOffered' /\ invites' = [d \in Decks |-> invites'[d]]
        /\ shares' = [s \in Decks \X Users |-> shares'[s]]
    BY <2>1 DEF IInv, State, Shape, NoneOffered
  <2> QED BY <1>1, <2>1, <2>2, <2>3, AddedRole, MembersStep
<1>3. RequestsSound'
  BY <1>2, DoneStep DEF AddMember
<1> QED BY <1>2, <1>3 DEF IInv

LEMMA ChangedKeeps ==
    ASSUME SharingAssumption, IInv, NEW r \in Requests, ChangeRole(r) \/ RemoveMember(r)
    PROVE  IInv'
<1> DEFINE d == request[r].deck
           u == request[r].who
<1>1. d \in ids /\ (decks[d] # None => decks[d].owner # u)
  BY DEF ChangeRole, RemoveMember, At, IInv, RequestsSound, Sound
<1>2. PICK role : role # "owner" /\ members' = [members EXCEPT ![<<d, u>>] = role]
  <2>1. CASE ChangeRole(r)
    BY <2>1 DEF ChangeRole, At, IInv, RequestsSound, Sound
  <2>2. CASE RemoveMember(r)
    BY <2>2 DEF RemoveMember, SharingAssumption, Roles
  <2> QED BY <2>1, <2>2
<1>3. UNCHANGED <<accounts, decks, ids, taken, invites, shares>> /\ Done(r)
  BY DEF ChangeRole, RemoveMember, OnlyMembers
<1> HIDE DEF d, u
<1>4. State' /\ DecksStay
  <2>1. members = [m \in Decks \X Users |-> members[m]]
    BY DEF IInv, State, Shape
  <2>2. \A e \in Decks, v \in Users :
          members'[<<e, v>>] = members[<<e, v>>] \/ (e = d /\ v = u /\ members'[<<e, v>>] = role)
    BY <1>2, <2>1
  <2>3. members' = [m \in Decks \X Users |-> members'[m]]
    BY <1>2, <2>1
  <2>4. NoneOffered' /\ invites' = [e \in Decks |-> invites'[e]]
        /\ shares' = [s \in Decks \X Users |-> shares'[s]]
    BY <1>3 DEF IInv, State, Shape, NoneOffered
  <2> QED BY <1>1, <1>2, <1>3, <2>2, <2>3, <2>4, MembersStep
<1> QED BY <1>3, <1>4, DoneStep DEF IInv

LEMMA PutInviteKeeps ==
    ASSUME SharingAssumption, IInv, NEW r \in Requests, PutInvite(r) PROVE IInv'
<1>1. request[r].role # "owner"
  BY DEF PutInvite, At, IInv, RequestsSound, Sound
<1>2. invites' = [invites EXCEPT ![request[r].deck] =
        [code |-> IF invites[request[r].deck] = None THEN request[r].code
                  ELSE invites[request[r].deck].code,
         role |-> request[r].role, open |-> request[r].open]]
  BY DEF PutInvite, Upsert
<1>3. UNCHANGED <<accounts, decks, members, shares, ids, taken>> /\ Done(r)
  BY DEF PutInvite
<1>4. NoneOffered' /\ invites' = [d \in Decks |-> invites'[d]]
  BY <1>1, <1>2, <1>3 DEF IInv, State, Shape, NoneOffered
<1>5. State' /\ DecksStay
  <2>1. members' = [m \in Decks \X Users |-> members'[m]]
        /\ shares' = [s \in Decks \X Users |-> shares'[s]]
    BY <1>3 DEF IInv, State, Shape
  <2> QED BY <1>3, <1>4, <2>1, MembersStep
<1> QED BY <1>3, <1>5, DoneStep DEF IInv

LEMMA ShareKeeps ==
    ASSUME SharingAssumption, IInv, NEW r \in Requests, Share(r) PROVE IInv'
<1> DEFINE d == request[r].deck
           f == request[r].other
<1>1. request[r].role # "owner"
  BY DEF Share, At, IInv, RequestsSound, Sound
<1>2. PICK id : shares' = [shares EXCEPT ![<<d, f>>] =
        [id |-> id, from |-> request[r].who, role |-> request[r].role]]
  BY DEF Share
<1>3. UNCHANGED <<accounts, decks, members, invites, ids, taken>> /\ Done(r)
  BY DEF Share
<1> HIDE DEF d, f
<1>4. NoneOffered' /\ shares' = [s \in Decks \X Users |-> shares'[s]]
  BY <1>1, <1>2, <1>3 DEF IInv, State, Shape, NoneOffered
<1>5. State' /\ DecksStay
  <2>1. members' = [m \in Decks \X Users |-> members'[m]]
        /\ invites' = [e \in Decks |-> invites'[e]]
    BY <1>3 DEF IInv, State, Shape
  <2> QED BY <1>3, <1>4, <2>1, MembersStep
<1> QED BY <1>3, <1>5, DoneStep DEF IInv

\* Withdrawing offers hands nothing out.
LEMMA WithdrawnOffers ==
    ASSUME IInv, NEW offer, shares' = Withdrawn(offer), UNCHANGED invites
    PROVE  NoneOffered' /\ shares' = [s \in Decks \X Users |-> shares'[s]]
           /\ invites' = [d \in Decks |-> invites'[d]]
BY DEF IInv, State, Shape, NoneOffered, Withdrawn

LEMMA AcceptShareKeeps ==
    ASSUME SharingAssumption, IInv, NEW r \in Requests, AcceptShare(r) PROVE IInv'
<1>1. request[r].offer.role # "owner" /\ decks[request[r].deck] # None
  BY DEF AcceptShare, At, Refers, IInv, RequestsSound, Sound
<1>2. /\ members' = AddIfAbsent(request[r].deck, request[r].who, request[r].offer.role)
      /\ shares' = Withdrawn(request[r].offer)
      /\ UNCHANGED <<accounts, decks, invites, ids, taken>> /\ Done(r)
  BY DEF AcceptShare
<1>3. State' /\ DecksStay
  BY <1>1, <1>2, AddedRole, WithdrawnOffers, MembersStep
<1> QED BY <1>2, <1>3, DoneStep DEF IInv

LEMMA DeclineShareKeeps ==
    ASSUME SharingAssumption, IInv, NEW r \in Requests, DeclineShare(r) PROVE IInv'
<1>1. /\ shares' = Withdrawn(request[r].offer)
      /\ UNCHANGED <<accounts, decks, members, invites, ids, taken>> /\ Done(r)
  BY DEF DeclineShare
<1>2. members' = [m \in Decks \X Users |-> members'[m]]
  BY <1>1 DEF IInv, State, Shape
<1>3. State' /\ DecksStay
  BY <1>1, <1>2, WithdrawnOffers, MembersStep
<1> QED BY <1>1, <1>3, DoneStep DEF IInv

\* A new deck, whose id had nothing to it, and its one member; `table` is what
\* becomes of the decks there were.
DrawsOne(copy, u, source, table) ==
    /\ table \in [Decks -> DeckRow \cup {None}]
    /\ \A d \in ids :
         /\ table[d] # None <=> decks[d] # None
         /\ decks[d] # None => table[d].owner = decks[d].owner /\ table[d].saves = taken'[d]
    /\ \A d \in Decks \ ids : d # copy => table[d] = None /\ taken'[d] = 0
    /\ taken' \in [Decks -> Nat] /\ taken'[copy] = 0
    /\ decks' = [table EXCEPT ![copy] = NewDeck(u, source)]
    /\ members' = [members EXCEPT ![<<copy, u>>] = "owner"]
    /\ ids' = ids \cup {copy}
    /\ UNCHANGED <<accounts, invites, shares>>

LEMMA NewDeckStep ==
    ASSUME SharingAssumption, IInv, NEW copy \in Decks \ ids, NEW u \in accounts,
           NEW source \in Decks \cup {None}, NEW table, DrawsOne(copy, u, source, table)
    PROVE  State' /\ DecksStay
<1>1. NewDeck(u, source) \in DeckRow /\ NewDeck(u, source) # None
      /\ NewDeck(u, source).owner = u /\ NewDeck(u, source).saves = 0
  <2>1. u \in Users
    BY DEF IInv, State, Shape
  <2>2. NewDeck(u, source) = [owner |-> u, public |-> FALSE, saves |-> 0, copyOf |-> source]
    BY DEF NewDeck
  <2>3. NewDeck(u, source) \in DeckRow
    BY <2>1, <2>2 DEF DeckRow
  <2>4. NewDeck(u, source) # None
    BY <2>3 DEF SharingAssumption
  <2> QED BY <2>2, <2>3, <2>4
<1> USE DEF DrawsOne
<1>2. decks'[copy] = NewDeck(u, source) /\ \A d \in Decks : d # copy => decks'[d] = table[d]
  OBVIOUS
<1>3. members = [m \in Decks \X Users |-> members[m]] /\ u \in Users /\ ids \subseteq Decks
  BY DEF IInv, State, Shape
<1>4. /\ members' = [m \in Decks \X Users |-> members'[m]]
      /\ \A d \in Decks, v \in Users :
           members'[<<d, v>>] = IF d = copy /\ v = u THEN "owner" ELSE members[<<d, v>>]
  BY <1>3
<1>5. Shape' /\ DecksStay
  <2>1. decks' \in [Decks -> DeckRow \cup {None}]
    BY <1>1
  <2> QED BY <1>2, <1>3, <1>4, <2>1 DEF IInv, State, Shape, DecksStay
<1>6. Known'
  <2>1. ASSUME NEW d \in Decks, d \notin ids'
        PROVE  /\ decks'[d] = None /\ taken'[d] = 0
               /\ \A v \in Users : members'[<<d, v>>] = None
    <3>1. d # copy /\ d \notin ids
      BY <2>1
    <3>2. decks'[d] = None /\ taken'[d] = 0
      BY <1>2, <3>1
    <3>3. \A v \in Users : members[<<d, v>>] = None
      BY <3>1 DEF IInv, State, Known
    <3> QED BY <1>4, <3>1, <3>2, <3>3
  <2> QED BY <2>1 DEF Known
<1>7. NoneOffered'
  BY DEF IInv, State, NoneOffered
<1>8. OneOwner'
  <2> SUFFICES ASSUME NEW d \in Decks, NEW v \in Users
               PROVE  members'[<<d, v>>] = "owner" <=> decks'[d] # None /\ decks'[d].owner = v
    BY DEF OneOwner, Live
  <2>1. CASE d = copy
    <3>1. members[<<d, v>>] = None /\ None # "owner"
      BY <2>1 DEF IInv, State, Known, SharingAssumption, Roles
    <3> QED BY <1>1, <1>2, <1>4, <2>1, <3>1
  <2>2. CASE d # copy /\ d \in ids
    <3>1. members[<<d, v>>] = "owner" <=> decks[d] # None /\ decks[d].owner = v
      BY DEF IInv, State, OneOwner, Live
    <3> QED BY <1>2, <1>4, <2>2, <3>1
  <2>3. CASE d # copy /\ d \notin ids
    <3>1. members[<<d, v>>] = None /\ None # "owner"
      BY <2>3 DEF IInv, State, Known, SharingAssumption, Roles
    <3> QED BY <1>2, <1>4, <2>3, <3>1
  <2> QED BY <2>1, <2>2, <2>3
<1>9. SavesCounted'
  BY <1>1, <1>2 DEF SavesCounted, Live
<1> QED BY <1>5, <1>6, <1>7, <1>8, <1>9 DEF State

LEMMA ImportKeeps ==
    ASSUME SharingAssumption, IInv, NEW r \in Requests, Import(r) PROVE IInv'
<1> DEFINE d == request[r].deck
           u == request[r].who
           table == [decks EXCEPT ![d].saves = decks[d].saves + 1]
<1>1. d \in Decks /\ decks[d] # None /\ u \in accounts /\ d \in ids
  BY DEF Import, At, Refers, IInv, RequestsSound, Sound, State, Known
<1>2. decks \in [Decks -> DeckRow \cup {None}] /\ taken \in [Decks -> Nat]
  BY DEF IInv, State, Shape
<1>3. PICK copy \in Decks \ ids :
        /\ ids' = ids \cup {copy}
        /\ decks' = [decks EXCEPT ![copy] = NewDeck(u, d), ![d].saves = decks[d].saves + 1]
        /\ members' = [members EXCEPT ![<<copy, u>>] = "owner"]
        /\ taken' = [taken EXCEPT ![d] = taken[d] + 1]
  BY DEF Import, IncrementedSaves
<1>4. UNCHANGED <<accounts, invites, shares>> /\ Done(r)
  BY DEF Import
<1>5. decks[d] \in DeckRow /\ [decks[d] EXCEPT !.saves = decks[d].saves + 1] \in DeckRow
      /\ [decks[d] EXCEPT !.saves = decks[d].saves + 1].saves = decks[d].saves + 1
      /\ [decks[d] EXCEPT !.saves = decks[d].saves + 1].owner = decks[d].owner
  BY <1>1, <1>2 DEF DeckRow
<1>6. /\ table \in [Decks -> DeckRow \cup {None}]
      /\ table[d] = [decks[d] EXCEPT !.saves = decks[d].saves + 1]
      /\ \A e \in Decks : e # d => table[e] = decks[e]
  BY <1>1, <1>2, <1>5
<1>7. copy # d /\ decks' = [table EXCEPT ![copy] = NewDeck(u, d)]
  BY <1>1, <1>2, <1>3
<1> HIDE DEF d, u, table
<1>8. \A e \in ids : e \in Decks /\ (table[e] # None <=> decks[e] # None)
        /\ (decks[e] # None => table[e].owner = decks[e].owner)
  <2>1. ids \subseteq Decks /\ table[d] # None
    BY <1>5, <1>6 DEF IInv, State, Shape, SharingAssumption
  <2> QED BY <1>1, <1>5, <1>6, <2>1
<1>9. /\ taken' \in [Decks -> Nat] /\ taken'[copy] = 0
      /\ \A e \in Decks \ ids : e # copy => table[e] = None /\ taken'[e] = 0
  BY <1>1, <1>2, <1>3, <1>6, <1>7 DEF IInv, State, Known
<1>10. \A e \in ids : decks[e] # None => table[e].saves = taken'[e]
  BY <1>1, <1>2, <1>3, <1>5, <1>6, <1>8 DEF IInv, State, SavesCounted, Live
<1>11. State' /\ DecksStay
  <2>1. d \in Decks \cup {None} /\ table \in [Decks -> DeckRow \cup {None}]
    BY <1>1, <1>6
  <2>2. \A e \in ids : (table[e] # None <=> decks[e] # None)
          /\ (decks[e] # None => table[e].owner = decks[e].owner)
    BY <1>8
  <2>3. DrawsOne(copy, u, d, table)
    BY <1>3, <1>4, <1>7, <1>9, <1>10, <2>1, <2>2 DEF DrawsOne
  <2> QED BY <1>1, <2>1, <2>3, NewDeckStep
<1> QED BY <1>4, <1>11, DoneStep DEF IInv

LEMMA CreateKeeps ==
    ASSUME SharingAssumption, IInv, NEW u \in Users, Create(u) PROVE IInv'
<1>1. PICK d \in Decks \ ids :
        /\ ids' = ids \cup {d}
        /\ decks' = [decks EXCEPT ![d] = NewDeck(u, None)]
        /\ members' = [members EXCEPT ![<<d, u>>] = "owner"]
  BY DEF Create
<1>2. u \in accounts /\ UNCHANGED <<accounts, request, invites, shares, taken>>
  BY DEF Create
<1>3. /\ decks \in [Decks -> DeckRow \cup {None}]
      /\ taken' \in [Decks -> Nat] /\ taken'[d] = 0
      /\ \A e \in Decks \ ids : e # d => decks[e] = None /\ taken'[e] = 0
      /\ \A e \in ids : decks[e] # None => decks[e].saves = taken'[e]
  BY <1>2 DEF IInv, State, Shape, Known, SavesCounted, Live
<1>4. State' /\ DecksStay
  <2>1. DrawsOne(d, u, None, decks)
    BY <1>1, <1>2, <1>3 DEF DrawsOne
  <2> QED BY <1>2, <2>1, NewDeckStep
<1>5. RequestsSound'
  BY <1>2, <1>4 DEF IInv, RequestsSound, Sound, DecksStay
<1> QED BY <1>4, <1>5 DEF IInv

LEMMA OtherSender ==
    ASSUME NEW row, NEW from, row = [id |-> row.id, from |-> row.from, role |-> row.role]
    PROVE  [row EXCEPT !.from = from] = [id |-> row.id, from |-> from, role |-> row.role]
<1>1. [[id |-> row.id, from |-> row.from, role |-> row.role] EXCEPT !.from = from] =
        [id |-> row.id, from |-> from, role |-> row.role]
  OBVIOUS
<1> QED BY <1>1, Zenon

\* ON DELETE leaves of a deck all or nothing, its owner's membership included.
LEMMA ErasedStep ==
    ASSUME SharingAssumption, IInv, NEW gone, NEW persons, Erased(gone, persons),
           \A d \in Decks : decks[d] # None /\ decks[d].owner \in persons => d \in gone
    PROVE  State' /\ DecksStay
<1>1. \A d \in Decks :
        /\ decks'[d] # None <=> decks[d] # None /\ d \notin gone
        /\ decks'[d] # None => decks'[d] \in DeckRow /\ decks'[d].owner = decks[d].owner
                               /\ decks'[d].saves = decks[d].saves
  <2> SUFFICES ASSUME NEW d \in Decks
               PROVE  /\ decks'[d] # None <=> decks[d] # None /\ d \notin gone
                      /\ decks'[d] # None => decks'[d] \in DeckRow
                             /\ decks'[d].owner = decks[d].owner
                             /\ decks'[d].saves = decks[d].saves
    OBVIOUS
  <2>1. decks'[d] = IF decks[d] = None \/ d \in gone THEN None
                    ELSE [decks[d] EXCEPT !.copyOf = IF decks[d].copyOf \in gone THEN None
                                                     ELSE decks[d].copyOf]
    BY DEF Erased, Live
  <2>2. CASE decks[d] = None \/ d \in gone
    BY <2>1, <2>2
  <2>3. CASE decks[d] # None /\ d \notin gone
    <3>1. decks[d] \in DeckRow
      BY <2>3 DEF IInv, State, Shape
    <3>2. [decks[d] EXCEPT !.copyOf = IF decks[d].copyOf \in gone THEN None
                                      ELSE decks[d].copyOf] \in DeckRow
      BY <3>1 DEF DeckRow
    <3>3. decks'[d] \in DeckRow /\ decks'[d].owner = decks[d].owner
          /\ decks'[d].saves = decks[d].saves
      BY <2>1, <2>3, <3>1, <3>2 DEF DeckRow
    <3> QED BY <2>3, <3>3 DEF SharingAssumption
  <2> QED BY <2>2, <2>3
<1>2. /\ members' = [m \in Decks \X Users |-> members'[m]]
      /\ \A d \in Decks, u \in Users :
           members'[<<d, u>>] = IF d \in gone \/ u \in persons THEN None ELSE members[<<d, u>>]
  BY DEF Erased
<1>3. UNCHANGED <<ids, taken>> /\ accounts' \subseteq accounts
  BY DEF Erased
<1>4. decks' = [d \in Decks |-> decks'[d]]
  BY DEF Erased
<1>5. /\ invites' = [d \in Decks |-> invites'[d]]
      /\ \A d \in Decks : invites'[d] \in {None, invites[d]}
  BY DEF Erased
<1>6. /\ shares' = [s \in Decks \X Users |-> shares'[s]]
      /\ \A d \in Decks, u \in Users :
           shares'[<<d, u>>] # None => shares[<<d, u>>] # None
               /\ shares'[<<d, u>>] = [shares[<<d, u>>] EXCEPT !.from =
                    IF shares[<<d, u>>].from \in persons THEN None ELSE shares[<<d, u>>].from]
  BY DEF Erased
<1>7. Shape'
  <2>1. decks' \in [Decks -> DeckRow \cup {None}]
    BY <1>1, <1>4
  <2> QED BY <1>2, <1>3, <1>5, <1>6, <2>1 DEF IInv, State, Shape
<1>8. DecksStay
  BY <1>1, <1>3 DEF DecksStay, IInv, State, Shape
<1>9. Known'
  BY <1>1, <1>2, <1>3 DEF IInv, State, Known
<1>10. NoneOffered'
  <2>1. ASSUME NEW d \in Decks, NEW u \in Users, shares'[<<d, u>>] # None
        PROVE  /\ shares'[<<d, u>>].role # "owner"
               /\ shares'[<<d, u>>] = [id |-> shares'[<<d, u>>].id, from |-> shares'[<<d, u>>].from,
                                      role |-> shares'[<<d, u>>].role]
    <3> DEFINE row == shares[<<d, u>>]
    <3>1. /\ row.role # "owner"
          /\ row = [id |-> row.id, from |-> row.from, role |-> row.role]
      BY <1>6, <2>1 DEF IInv, State, NoneOffered
    <3> DEFINE from == IF row.from \in persons THEN None ELSE row.from
    <3>2. shares'[<<d, u>>] = [row EXCEPT !.from = from]
      BY <1>6, <2>1, Zenon
    <3> HIDE DEF row, from
    <3>3. shares'[<<d, u>>] = [id |-> row.id, from |-> from, role |-> row.role]
      BY <3>1, <3>2, OtherSender
    <3> QED BY <3>1, <3>3
  <2> QED BY <1>5, <2>1 DEF IInv, State, NoneOffered
<1>11. OneOwner'
  <2>1. None # "owner"
    BY DEF SharingAssumption, Roles
  <2>2. ASSUME NEW d \in Decks, NEW u \in Users
        PROVE  members'[<<d, u>>] = "owner" <=> decks'[d] # None /\ decks'[d].owner = u
    <3>1. members[<<d, u>>] = "owner" <=> decks[d] # None /\ decks[d].owner = u
      BY DEF IInv, State, OneOwner, Live
    <3> QED BY <1>1, <1>2, <2>1, <3>1
  <2> QED BY <2>2 DEF OneOwner, Live
<1>12. SavesCounted'
  BY <1>1, <1>3 DEF IInv, State, SavesCounted, Live
<1> QED BY <1>7, <1>8, <1>9, <1>10, <1>11, <1>12 DEF State

LEMMA DeleteKeeps ==
    ASSUME SharingAssumption, IInv, NEW r \in Requests, Delete(r) \/ DeleteAccount(r) PROVE IInv'
<1>1. State' /\ DecksStay
  <2>1. CASE Delete(r)
    BY <2>1, ErasedStep DEF Delete
  <2>2. CASE DeleteAccount(r)
    <3>1. \A d \in Decks : decks[d] # None /\ decks[d].owner \in {request[r].who} =>
            d \in OwnedDeckIds(request[r].who)
      <4> SUFFICES ASSUME NEW d \in Decks, decks[d] # None, decks[d].owner = request[r].who
                   PROVE  members[<<d, request[r].who>>] = "owner"
        BY DEF OwnedDeckIds
      <4>1. decks[d].owner \in Users
        BY DEF IInv, State, Shape, DeckRow
      <4> QED BY <4>1 DEF IInv, State, OneOwner, Live
    <3> QED BY <2>2, <3>1, ErasedStep DEF DeleteAccount
  <2> QED BY <2>1, <2>2
<1>2. Done(r)
  BY DEF Delete, DeleteAccount
<1> QED BY <1>1, <1>2, DoneStep DEF IInv

LEMMA SetPublishedKeeps ==
    ASSUME SharingAssumption, IInv, NEW d \in Decks, NEW public \in BOOLEAN,
           SetPublished(d, public)
    PROVE  IInv'
<1>1. decks[d] \in DeckRow /\ decks \in [Decks -> DeckRow \cup {None}]
  BY DEF SetPublished, Live, IInv, State, Shape
<1>2. [decks[d] EXCEPT !.public = public] \in DeckRow
  BY <1>1 DEF DeckRow
<1>3. /\ decks' \in [Decks -> DeckRow \cup {None}]
      /\ \A e \in Decks : e # d => decks'[e] = decks[e]
      /\ decks'[d] \in DeckRow /\ decks'[d].owner = decks[d].owner /\ decks'[d].saves = decks[d].saves
  BY <1>1, <1>2 DEF SetPublished, DeckRow
<1>4. decks[d] # None /\ decks'[d] # None /\ d \in ids
  BY <1>3 DEF SetPublished, Live, IInv, State, Known, SharingAssumption
<1>5. UNCHANGED <<accounts, request, members, invites, shares, ids, taken>>
  BY DEF SetPublished
<1>6. Shape' /\ NoneOffered' /\ DecksStay
  BY <1>3, <1>4, <1>5 DEF IInv, State, Shape, NoneOffered, DecksStay
<1>7. Known'
  BY <1>3, <1>4, <1>5 DEF IInv, State, Known
<1>8. OneOwner' /\ SavesCounted'
  BY <1>3, <1>4, <1>5 DEF IInv, State, OneOwner, SavesCounted, Live
<1>9. RequestsSound'
  BY <1>5, <1>6 DEF IInv, RequestsSound, Sound, DecksStay
<1> QED BY <1>6, <1>7, <1>8, <1>9 DEF IInv, State

LEMMA NextKeeps ==
    ASSUME SharingAssumption, IInv, [Next]_vars PROVE IInv'
<1>1. ASSUME NEW r \in Requests, Commit(r) PROVE IInv'
  BY <1>1, AddMemberKeeps, ChangedKeeps, PutInviteKeeps, ShareKeeps, AcceptShareKeeps,
     DeclineShareKeeps, ImportKeeps, DeleteKeeps DEF Commit
<1>2. ASSUME NEW r \in Requests, NEW u \in Users, BeginDeleteAccount(r, u) PROVE IInv'
  <2> DEFINE row == [op |-> "erase", who |-> u]
  <2>1. Sound(row, decks, ids)
    BY DEF Sound
  <2> QED BY <1>2, <2>1, BeginStep DEF BeginDeleteAccount, OnlyReads, deckVars
<1>3. CASE UNCHANGED vars
  BY <1>3 DEF vars, friendVars, deckVars, IInv, State, Shape, Known, NoneOffered, OneOwner,
     SavesCounted, Live, RequestsSound
<1> QED BY <1>1, <1>2, <1>3, FriendsKeep, MemberBegins, OwnerBegins, SetPublishedKeeps, CreateKeeps
        DEF Next

LEMMA InitKeeps ==
    ASSUME SharingAssumption, Init PROVE IInv
<1>1. PICK d \in Decks, u \in Users, public \in BOOLEAN :
        /\ decks = [x \in Decks |->
             IF x = d THEN [NewDeck(u, None) EXCEPT !.public = public] ELSE None]
        /\ members = [m \in Decks \X Users |-> IF m = <<d, u>> THEN "owner" ELSE None]
        /\ ids = {d}
  BY DEF Init
<1>2. [NewDeck(u, None) EXCEPT !.public = public] =
        [owner |-> u, public |-> public, saves |-> 0, copyOf |-> None]
  BY DEF NewDeck
<1>3. [owner |-> u, public |-> public, saves |-> 0, copyOf |-> None] \in DeckRow
  BY DEF DeckRow
<1>4. /\ accounts = Users /\ request = [r \in Requests |-> Idle]
      /\ invites = [x \in Decks |-> None] /\ shares = [s \in Decks \X Users |-> None]
      /\ taken = [x \in Decks |-> 0]
  BY DEF Init, FriendsInit
<1>5. Shape /\ Known /\ NoneOffered
  BY <1>1, <1>2, <1>3, <1>4 DEF Shape, Known, NoneOffered
<1>6. OneOwner /\ SavesCounted
  BY <1>1, <1>2, <1>3, <1>4 DEF OneOwner, SavesCounted, Live, SharingAssumption, Roles
<1>7. RequestsSound
  BY <1>4, IdleSound DEF RequestsSound
<1> QED BY <1>5, <1>6, <1>7 DEF IInv, State

LEMMA SpecIInv ==
    ASSUME SharingAssumption PROVE Spec => []IInv
<1>1. Init => IInv
  BY InitKeeps
<1>2. IInv /\ [Next]_vars => IInv'
  BY NextKeeps
<1> QED BY <1>1, <1>2, PTL DEF Spec

\* DeckRole: a deck has exactly one owner, whatever roles are asked for along
\* whichever way in, and whoever goes meanwhile.
THEOREM SpecOneOwner ==
    ASSUME SharingAssumption PROVE Spec => []OneOwner
<1>1. IInv => OneOwner
  BY DEF IInv, State
<1> QED BY <1>1, SpecIInv, PTL

\* increment_saves: the counter of a published deck loses no copy, however
\* many requests take one at once.
THEOREM SpecSavesCounted ==
    ASSUME SharingAssumption PROVE Spec => []SavesCounted
<1>1. IInv => SavesCounted
  BY DEF IInv, State
<1> QED BY <1>1, SpecIInv, PTL

\* Both, as the runs check them.
THEOREM SpecRowsAgree ==
    ASSUME SharingAssumption PROVE Spec => []RowsAgree
<1>1. OneOwner /\ SavesCounted => RowsAgree
  BY DEF RowsAgree
<1> QED BY <1>1, SpecOneOwner, SpecSavesCounted, PTL

\* Only the owner's change of a role replaces one.
LEMMA RoleSteps ==
    ASSUME SharingAssumption, IInv, Next, NEW d \in Decks, NEW u \in Users,
           members[<<d, u>>] # None, members'[<<d, u>>] \notin {None, members[<<d, u>>]}
    PROVE  \E r \in Requests : At(r, "role") /\ request'[r] = Idle
<1>1. /\ members = [m \in Decks \X Users |-> members[m]]
      /\ request = [r \in Requests |-> request[r]]
      /\ d \in ids
  BY DEF IInv, State, Shape, Known, RequestsSound
<1>2. ASSUME NEW r \in Requests, Commit(r)
      PROVE  \E q \in Requests : At(q, "role") /\ request'[q] = Idle
  <2>1. CASE ChangeRole(r)
    BY <1>1, <2>1 DEF ChangeRole, Done
  <2>2. CASE AddMember(r) \/ AcceptShare(r)
    <3>1. PICK e, v, role : members' = AddIfAbsent(e, v, role)
      BY <2>2 DEF AddMember, AcceptShare
    <3> QED BY <1>1, <3>1 DEF AddIfAbsent
  <2>3. CASE RemoveMember(r)
    BY <1>1, <2>3 DEF RemoveMember
  <2>4. CASE Import(r)
    <3>1. PICK copy \in Decks \ ids : members' = [members EXCEPT ![<<copy, request[r].who>>] = "owner"]
      BY <2>4 DEF Import
    <3> QED BY <1>1, <3>1
  <2>5. CASE Delete(r) \/ DeleteAccount(r)
    BY <2>5 DEF Delete, DeleteAccount, Erased
  <2>6. CASE PutInvite(r) \/ Share(r) \/ DeclineShare(r)
    BY <2>6 DEF PutInvite, Share, DeclineShare
  <2> QED BY <1>2, <2>1, <2>2, <2>3, <2>4, <2>5, <2>6 DEF Commit
<1>3. ASSUME NEW v \in Users, Create(v) PROVE FALSE
  <2>1. PICK e \in Decks \ ids : members' = [members EXCEPT ![<<e, v>>] = "owner"]
    BY <1>3 DEF Create
  <2> QED BY <1>1, <2>1
<1>4. CASE FriendsNext /\ UNCHANGED deckVars
  BY <1>4 DEF deckVars
<1>5. ASSUME NEW r \in Requests, NEW e \in Decks, NEW v \in Users, Member(r, e, v) \/ Owner(r, e, v)
      PROVE  FALSE
  BY <1>5 DEF Member, Owner, BeginJoin, BeginLeave, BeginImport, BeginAnswer, BeginCloseInvite,
     BeginDelete, BeginOpenInvite, BeginRemoveMember, BeginAddMember, BeginChangeRole, BeginShare,
     OnlyReads, deckVars
<1>6. ASSUME NEW r \in Requests, NEW v \in Users, BeginDeleteAccount(r, v) PROVE FALSE
  BY <1>6 DEF BeginDeleteAccount, OnlyReads, deckVars
<1>7. ASSUME NEW e \in Decks, NEW public \in BOOLEAN, SetPublished(e, public) PROVE FALSE
  BY <1>7 DEF SetPublished
<1> QED BY <1>2, <1>3, <1>4, <1>5, <1>6, <1>7 DEF Next

\* DeckSharingService: joining or taking a deck again is the same membership;
\* a role changes only because the owner changed it.
THEOREM SpecRoleKept ==
    ASSUME SharingAssumption PROVE Spec => RoleKept
<1> DEFINE Kept ==
      \A d \in Decks, u \in Users :
        members[<<d, u>>] # None /\ members'[<<d, u>>] \notin {None, members[<<d, u>>]} =>
            \E r \in Requests : At(r, "role") /\ request'[r] = Idle
<1>1. IInv /\ [Next]_vars => [Kept]_members
  <2>1. IInv /\ Next => Kept
    BY RoleSteps
  <2>2. UNCHANGED vars => UNCHANGED members
    BY DEF vars, deckVars
  <2> QED BY <2>1, <2>2
<1>2. Spec => [][Kept]_members
  BY <1>1, SpecIInv, PTL DEF Spec
<1> QED BY <1>2 DEF RoleKept
-----------------------------------------------------------------------------
(* Account: the rows of the accounts, the codes and the requests. *)

Ways == {row \in A!UserRow : row.phone # None \/ row.sub # None}

AccountTyped ==
    /\ users \in [Identities -> A!UserRow \cup {None}]
    /\ otp \in [A!Codes -> A!OtpRow \cup {None}]
    /\ link \in [Identities \X A!Kinds -> A!LinkRow \cup {None}]
    /\ signing \in [Requests -> A!RequestRow]
    /\ sent \in 0..MaxCodes /\ wrong \in [A!Codes -> Nat]

\* What a request has read, and will write: `seen` was a row of the account,
\* and what is wanted of it differs in the columns the request is about.
Told(q) ==
    /\ q.op \in {"otp", "right", "wrong", "enter"} => q.target \in Phones /\ q.code \in A!Codes
    /\ q.op = "right" => q.who = None /\ q.want = q.seen
    /\ q.op = "google" => q.want.sub \in Subs /\ q.target \in Emails
    /\ q.op = "flush" /\ q.who = None => q.want.sub \in Subs
    /\ q.op \in {"enter", "google", "flush", "claim"} /\ q.who # None => q.seen \in Ways
    /\ q.op = "enter" => q.want = q.seen
    /\ q.op = "flush" /\ q.who # None =>
         q.want.phone = q.seen.phone /\ q.want.sub \in {q.seen.sub} \cup Subs
    /\ q.op = "claim" => q.want = [q.seen EXCEPT !.handle = q.want.handle]
    /\ q.op \in {"ask", "put", "verify", "spend", "consume"} => q.target \in A!Targets(q.kind)
    /\ q.op \in {"ask", "put", "verify", "spend", "consume", "unlink_phone", "unlink_email", "claim"}
         => q.who \in Identities

\* A code belongs to one request that will send it, to one challenge of a
\* phone, or to one challenge of an account.
Coded(q) ==
    /\ q.op = "otp" =>
         /\ q.code <= sent /\ otp[q.code] = None /\ wrong[q.code] = 0
         /\ \A m \in Identities \X A!Kinds : link[m] # None => link[m].code # q.code
    /\ q.op \in {"right", "wrong", "enter"} => otp[q.code] # None
    /\ q.op \in {"spend", "consume"} =>
         /\ q.code \in A!Codes /\ q.code <= sent /\ otp[q.code] = None
         /\ \A m \in Identities \X A!Kinds : link[m] # None /\ link[m].code = q.code =>
              m = <<q.who, q.kind>> /\ link[m].target = q.target
Apart(p, q) ==
    p.op = "otp" /\ q.op \in {"otp", "spend", "consume"} => p.code # q.code

RequestsTold == \A r \in Requests : Told(signing[r])
RequestsApart ==
    /\ \A r \in Requests : Coded(signing[r])
    /\ \A r, q \in Requests : r # q => Apart(signing[r], signing[q])
LinksApart ==
    \A m \in Identities \X A!Kinds : link[m] # None =>
        /\ link[m].code <= sent /\ otp[link[m].code] = None
        /\ \A n \in Identities \X A!Kinds :
             link[n] # None /\ link[n].code = link[m].code => m = n
Undrawn == \A c \in A!Codes : c > sent => otp[c] = None /\ wrong[c] = 0

AccountInv ==
    /\ AccountTyped /\ A!NeverLockedOut /\ RequestsTold
    /\ RequestsApart /\ LinksApart /\ Undrawn /\ A!GuessesAreCounted

\* What there is once a request has been given its next row.
LEMMA SigningStep ==
    ASSUME AccountTyped, NEW r \in Requests, NEW next \in A!RequestRow,
           signing' = [signing EXCEPT ![r] = next]
    PROVE  /\ signing' \in [Requests -> A!RequestRow]
           /\ signing'[r] = next
           /\ \A q \in Requests : q # r => signing'[q] = signing[q]
BY DEF AccountTyped

LEMMA BlankIs ==
    /\ A!Blank = [phone |-> None, email |-> None, verified |-> FALSE, sub |-> None, handle |-> None]
    /\ A!Blank \in A!UserRow
BY DEF A!Blank, A!UserRow

LEMMA IdleIs ==
    A!Idle = [op |-> "idle", who |-> None, kind |-> "phone", target |-> None, code |-> 0,
              tries |-> 0, seen |-> A!Blank, want |-> A!Blank]
BY DEF A!Idle, A!WrongCode

LEMMA IdleIsTold == A!Idle \in A!RequestRow /\ Told(A!Idle) /\ A!Idle.op = "idle"
<1>1. A!Idle \in A!RequestRow
  BY IdleIs, BlankIs DEF A!RequestRow, A!RequestOps, A!Kinds
<1> QED BY <1>1, IdleIs DEF Told

\* Requests at these stages have no code of their own.
Codeless == A!RequestOps \ {"otp", "right", "wrong", "enter", "spend", "consume"}

LEMMA CodelessIsCoded ==
    \A q : q.op \in Codeless => Coded(q) /\ \A p : Apart(p, q) /\ Apart(q, p)
BY DEF Codeless, A!RequestOps, Coded, Apart

\* A request goes on, and the codes stay as they are.
LEMMA CodesStay ==
    ASSUME AccountInv, NEW r \in Requests, NEW next \in A!RequestRow, Told(next), Coded(next),
           \A q \in Requests : q # r => Apart(signing[q], next) /\ Apart(next, signing[q]),
           signing' = [signing EXCEPT ![r] = next],
           UNCHANGED <<otp, link, sent, wrong>>,
           users' \in [Identities -> A!UserRow \cup {None}], A!NeverLockedOut'
    PROVE  AccountInv'
<1>1. /\ signing' \in [Requests -> A!RequestRow]
      /\ signing'[r] = next
      /\ \A q \in Requests : q # r => signing'[q] = signing[q]
  BY SigningStep DEF AccountInv
<1>2. AccountTyped'
  BY <1>1 DEF AccountInv, AccountTyped
<1>3. RequestsTold'
  BY <1>1 DEF AccountInv, RequestsTold, Told
<1>4. RequestsApart'
  <2>1. (\A q \in Requests : Coded(signing[q]))'
    <3>1. \A q \in Requests : Coded(signing'[q])
      BY <1>1 DEF AccountInv, RequestsApart
    <3> QED BY <3>1 DEF Coded
  <2>2. ASSUME NEW p \in Requests, NEW q \in Requests, p # q PROVE Apart(signing'[p], signing'[q])
    BY <1>1, <2>2 DEF AccountInv, RequestsApart
  <2>3. (\A p, q \in Requests : p # q => Apart(signing[p], signing[q]))'
    BY <2>2
  <2> QED BY <2>1, <2>3 DEF RequestsApart
<1>5. LinksApart' /\ Undrawn' /\ A!GuessesAreCounted'
  BY DEF AccountInv, LinksApart, Undrawn, A!GuessesAreCounted
<1> QED BY <1>2, <1>3, <1>4, <1>5 DEF AccountInv

\* The same for a request that has no code at its next stage.
LEMMA GoesOn ==
    ASSUME AccountInv, NEW r \in Requests, NEW next \in A!RequestRow, Told(next),
           next.op \in Codeless, signing' = [signing EXCEPT ![r] = next],
           UNCHANGED <<otp, link, sent, wrong>>,
           users' \in [Identities -> A!UserRow \cup {None}], A!NeverLockedOut'
    PROVE  AccountInv'
BY CodelessIsCoded, CodesStay

LEMMA Ends ==
    ASSUME AccountInv, NEW r \in Requests, A!Done(r), UNCHANGED <<otp, link, sent, wrong>>,
           users' \in [Identities -> A!UserRow \cup {None}], A!NeverLockedOut'
    PROVE  AccountInv'
<1>1. A!Idle.op \in Codeless
  BY IdleIsTold DEF Codeless, A!RequestOps
<1> QED BY <1>1, IdleIsTold, GoesOn DEF A!Done

LEMMA Reads ==
    ASSUME AccountInv, NEW r \in Requests, NEW next \in A!RequestRow, Told(next),
           next.op \in Codeless, signing' = [signing EXCEPT ![r] = next],
           UNCHANGED <<users, otp, link, sent, wrong>>
    PROVE  AccountInv'
<1>1. users' \in [Identities -> A!UserRow \cup {None}] /\ A!NeverLockedOut'
  BY DEF AccountInv, AccountTyped, A!NeverLockedOut, A!Exists
<1> QED BY <1>1, GoesOn

-----------------------------------------------------------------------------
(* Account: what is written to a row of users. *)

LEMMA AccountNames ==
    /\ A!CountsAssumption /\ A!NamesAssumption /\ A!SignedAssumption /\ A!RowsAssumption
BY PartsAssumption

LEMMA Stored ==
    ASSUME AccountInv, NEW a \in Identities, NEW new \in Ways, users' = [users EXCEPT ![a] = new]
    PROVE  users' \in [Identities -> A!UserRow \cup {None}] /\ A!NeverLockedOut'
BY DEF AccountInv, AccountTyped, A!NeverLockedOut, A!Exists, Ways

LEMMA RowIsAWay ==
    ASSUME AccountInv, NEW a \in Identities, users[a] # None PROVE users[a] \in Ways
BY DEF AccountInv, AccountTyped, A!NeverLockedOut, A!Exists, Ways

\* session.flush, whether it compares with the row as it was read or as it is.
LEMMA FlushedRow ==
    ASSUME NEW now \in A!UserRow, NEW held \in A!UserRow, NEW wanted \in A!UserRow
    PROVE  /\ A!Flushed(now, held, wanted) \in A!UserRow
           /\ A!Flushed(now, held, wanted).phone =
                IF wanted.phone # held.phone THEN wanted.phone ELSE now.phone
           /\ A!Flushed(now, held, wanted).email =
                IF wanted.email # held.email THEN wanted.email ELSE now.email
           /\ A!Flushed(now, held, wanted).verified =
                IF wanted.verified # held.verified THEN wanted.verified ELSE now.verified
           /\ A!Flushed(now, held, wanted).sub =
                IF wanted.sub # held.sub THEN wanted.sub ELSE now.sub
<1> DEFINE f == A!Flushed(now, held, wanted)
           Columns == {"phone", "email", "verified", "sub", "handle"}
<1>1. DOMAIN now = Columns
  BY DEF A!UserRow
<1>2. f = [c \in Columns |-> IF wanted[c] # held[c] THEN wanted[c] ELSE now[c]]
  BY <1>1 DEF A!Flushed
<1>3. /\ f["phone"] = IF wanted.phone # held.phone THEN wanted.phone ELSE now.phone
      /\ f["email"] = IF wanted.email # held.email THEN wanted.email ELSE now.email
      /\ f["verified"] = IF wanted.verified # held.verified THEN wanted.verified ELSE now.verified
      /\ f["sub"] = IF wanted.sub # held.sub THEN wanted.sub ELSE now.sub
      /\ f["handle"] = IF wanted.handle # held.handle THEN wanted.handle ELSE now.handle
  BY <1>2
<1>4. DOMAIN f = Columns /\ f = [c \in Columns |-> f[c]]
  BY <1>2
<1> HIDE DEF f
<1>5. f = [phone |-> f.phone, email |-> f.email, verified |-> f.verified, sub |-> f.sub,
           handle |-> f.handle]
  BY <1>4
<1>6. /\ f.phone \in Phones \cup {None} /\ f.email \in Emails \cup {None} /\ f.verified \in BOOLEAN
      /\ f.sub \in Subs \cup {None} /\ f.handle \in Names \cup {None}
  BY <1>3 DEF A!UserRow
<1>7. f \in A!UserRow
  BY <1>5, <1>6 DEF A!UserRow
<1> QED BY <1>3, <1>7 DEF f

\* What is wanted of a row keeps the way in that the row as read had.
Keeps(seen, wanted) ==
    /\ seen \in Ways /\ wanted \in A!UserRow
    /\ wanted.phone = seen.phone /\ wanted.sub \in {seen.sub} \cup Subs

LEMMA Updated ==
    ASSUME AccountInv, NEW a \in Identities, NEW seen, NEW wanted, Keeps(seen, wanted),
           A!Update(a, seen, wanted)
    PROVE  users' \in [Identities -> A!UserRow \cup {None}] /\ A!NeverLockedOut'
<1>1. PICK held \in {seen, users[a]} :
        users' = [users EXCEPT ![a] = A!Flushed(users[a], held, wanted)]
  BY DEF A!Update, A!Store
<1>2. users[a] \in Ways
  BY RowIsAWay DEF A!Update, A!Exists
<1> DEFINE new == A!Flushed(users[a], held, wanted)
<1>3. /\ new \in A!UserRow
      /\ new.phone = IF wanted.phone # held.phone THEN wanted.phone ELSE users[a].phone
      /\ new.sub = IF wanted.sub # held.sub THEN wanted.sub ELSE users[a].sub
  BY <1>2, FlushedRow DEF Ways, Keeps
<1> HIDE DEF new
<1>4. new \in Ways
  <2>1. CASE held = seen
    BY <1>2, <1>3, <2>1, AccountNames DEF Ways, Keeps, A!NamesAssumption
  <2>2. CASE held = users[a]
    BY <1>2, <1>3, <2>2, AccountNames DEF Ways, Keeps, A!NamesAssumption
  <2> QED BY <2>1, <2>2
<1> QED BY <1>1, <1>4, Stored DEF new

LEMMA Added ==
    ASSUME AccountInv, NEW new \in Ways, A!Add(new)
    PROVE  users' \in [Identities -> A!UserRow \cup {None}] /\ A!NeverLockedOut'
BY Stored DEF A!Add, A!Store

LEMMA RequestIs ==
    ASSUME AccountInv, NEW r \in Requests
    PROVE  signing[r] \in A!RequestRow /\ Told(signing[r]) /\ Coded(signing[r])
BY DEF AccountInv, AccountTyped, RequestsTold, RequestsApart

-----------------------------------------------------------------------------
(* Account: the actions. *)

LEMMA VerifyOtpBegins ==
    ASSUME AccountInv, NEW r \in Requests, NEW p \in Phones,
           NEW guess \in A!Codes \cup {A!WrongCode}, A!BeginVerifyOtp(r, p, guess)
    PROVE  AccountInv'
<1>1. PICK c \in A!ActiveByPhone(p) :
        /\ signing' = [signing EXCEPT ![r] =
             [A!Idle EXCEPT !.op = IF guess = c THEN "right" ELSE "wrong",
                            !.target = p, !.code = c, !.tries = otp[c].attempts]]
        /\ UNCHANGED <<users, otp, link, sent, wrong>>
  BY DEF A!BeginVerifyOtp, A!Starts
<1>2. c \in A!Codes /\ otp[c] # None
  BY DEF A!ActiveByPhone, A!Unconsumed
<1>3. otp[c].attempts \in Nat /\ c \in Nat
  BY <1>2, AccountNames DEF AccountInv, AccountTyped, A!OtpRow, A!Codes, A!CountsAssumption
<1> DEFINE next == [A!Idle EXCEPT !.op = IF guess = c THEN "right" ELSE "wrong",
                                  !.target = p, !.code = c, !.tries = otp[c].attempts]
<1>4. signing' = [signing EXCEPT ![r] = next]
  BY <1>1
<1>5. /\ next.op \in {"right", "wrong"} /\ next.target = p /\ next.code = c
      /\ next.who = None /\ next.seen = next.want
  BY IdleIs
<1>6. next \in A!RequestRow
  BY <1>3, IdleIsTold DEF A!RequestRow, A!RequestOps
<1> HIDE DEF next
<1>7. Told(next)
  BY <1>2, <1>5 DEF Told
<1>8. Coded(next) /\ \A q : Apart(q, next) /\ Apart(next, q)
  BY <1>2, <1>5 DEF Coded, Apart
<1>9. users' \in [Identities -> A!UserRow \cup {None}] /\ A!NeverLockedOut'
  BY <1>1 DEF AccountInv, AccountTyped, A!NeverLockedOut, A!Exists
<1> QED BY <1>1, <1>4, <1>6, <1>7, <1>8, <1>9, CodesStay

LEMMA PhoneHolderRead ==
    ASSUME AccountInv, NEW r \in Requests, A!ReadPhoneHolder(r) PROVE AccountInv'
<1> DEFINE q == signing[r]
           holders == A!GetByPhone(q.target)
           a == CHOOSE b \in holders : TRUE
<1>1. q \in A!RequestRow /\ Told(q) /\ Coded(q) /\ q.op = "right"
  BY RequestIs DEF A!ReadPhoneHolder, A!At
<1>2. signing' = [signing EXCEPT ![r] =
        IF holders = {} THEN [q EXCEPT !.op = "enter"]
        ELSE [q EXCEPT !.op = "enter", !.who = a, !.seen = users[a], !.want = users[a]]]
  BY DEF A!ReadPhoneHolder
<1>3. UNCHANGED <<users, otp, link, sent, wrong>>
  BY DEF A!ReadPhoneHolder
<1>4. holders # {} => a \in holders
  OBVIOUS
<1>5. holders # {} => a \in Identities /\ users[a] # None
  BY <1>4 DEF A!GetByPhone, A!Exists
<1> HIDE DEF q, holders, a
<1>6. holders # {} => users[a] \in Ways
  BY <1>5, RowIsAWay
<1> DEFINE next == IF holders = {} THEN [q EXCEPT !.op = "enter"]
                   ELSE [q EXCEPT !.op = "enter", !.who = a, !.seen = users[a], !.want = users[a]]
<1>7. next \in A!RequestRow
  BY <1>1, <1>5, <1>6 DEF A!RequestRow, A!RequestOps, Ways
<1>8. Told(next) /\ next.op = "enter" /\ next.code = q.code
  BY <1>1, <1>5, <1>6 DEF Told, A!RequestRow
<1>9. Coded(next) /\ \A p : Apart(p, next) /\ Apart(next, p)
  BY <1>1, <1>8 DEF Coded, Apart
<1>10. users' \in [Identities -> A!UserRow \cup {None}] /\ A!NeverLockedOut'
  BY <1>3 DEF AccountInv, AccountTyped, A!NeverLockedOut, A!Exists
<1>11. signing' = [signing EXCEPT ![r] = next]
  BY <1>2
<1> HIDE DEF next
<1> QED BY <1>3, <1>7, <1>8, <1>9, <1>10, <1>11, CodesStay

LEMMA GoogleBegins ==
    ASSUME AccountInv, NEW r \in Requests, NEW s \in Subs, NEW e \in Emails,
           NEW vouched \in BOOLEAN, A!BeginGoogle(r, s, e, vouched)
    PROVE  AccountInv'
<1> DEFINE holders == A!GetByGoogleSub(s)
           a == CHOOSE b \in holders : TRUE
           want == [A!Blank EXCEPT !.sub = s, !.email = e, !.verified = vouched]
           next == [A!Idle EXCEPT !.op = "google", !.target = e,
                     !.kind = IF vouched THEN "email" ELSE "phone",
                     !.who = IF holders = {} THEN None ELSE a,
                     !.seen = IF holders = {} THEN A!Blank ELSE users[a],
                     !.want = want]
<1>1. signing' = [signing EXCEPT ![r] = next] /\ UNCHANGED <<users, otp, link, sent, wrong>>
  BY DEF A!BeginGoogle, A!Starts
<1>2. holders # {} => a \in holders
  OBVIOUS
<1>3. holders # {} => a \in Identities /\ users[a] # None
  BY <1>2 DEF A!GetByGoogleSub, A!Exists
<1> HIDE DEF a, holders
<1>4. want \in A!UserRow /\ want.sub = s
  BY BlankIs DEF A!UserRow
<1> HIDE DEF want
<1>5. holders # {} => users[a] \in Ways
  BY <1>3, RowIsAWay
<1>6. /\ next.op = "google" /\ next.target = e /\ next.want = want
      /\ next.who = IF holders = {} THEN None ELSE a
      /\ next.seen = IF holders = {} THEN A!Blank ELSE users[a]
  BY IdleIs
<1>7. next \in A!RequestRow
  BY <1>3, <1>4, <1>5, BlankIs, IdleIsTold DEF A!RequestRow, A!RequestOps, A!Kinds, Ways
<1> HIDE DEF next
<1>8. Told(next) /\ next.op \in Codeless
  BY <1>3, <1>4, <1>5, <1>6 DEF Told, Codeless, A!RequestOps
<1> QED BY <1>1, <1>7, <1>8, Reads

LEMMA EmailOwnerRead ==
    ASSUME AccountInv, NEW r \in Requests, A!ReadEmailOwner(r) PROVE AccountInv'
<1> DEFINE q == signing[r]
           vouched == q.kind = "email"
           owners == IF vouched THEN A!GetByVerifiedEmail(q.target) ELSE {}
           owner == CHOOSE a \in owners : TRUE
           adopted == A!Adopted(q.seen, q.target, vouched, owners)
           next == IF q.who # None THEN [q EXCEPT !.op = "flush", !.want = adopted]
                   ELSE IF owners # {}
                   THEN [q EXCEPT !.op = "flush", !.who = owner, !.seen = users[owner],
                                  !.want = [users[owner] EXCEPT !.sub = q.want.sub]]
                   ELSE [q EXCEPT !.op = "flush"]
<1>1. q \in A!RequestRow /\ Told(q) /\ q.op = "google"
  BY RequestIs DEF A!ReadEmailOwner, A!At
<1>2. signing' = [signing EXCEPT ![r] = next] /\ UNCHANGED <<users, otp, link, sent, wrong>>
  BY DEF A!ReadEmailOwner
<1>3. owners # {} => owner \in owners
  OBVIOUS
<1>4. owners # {} => owner \in Identities /\ users[owner] # None /\ vouched
  BY <1>3 DEF A!GetByVerifiedEmail, A!Exists
<1>5. vouched /\ owners = {} => q.target \in Emails \cup Phones \cup {None}
  BY <1>1 DEF A!RequestRow
<1> HIDE DEF owner
<1>6. owners # {} => users[owner] \in Ways
  BY <1>4, RowIsAWay
<1>7. q.who # None => adopted \in A!UserRow /\ adopted.phone = q.seen.phone
                      /\ adopted.sub = q.seen.sub
  <2>1. q.who # None => q.seen \in A!UserRow
    BY <1>1 DEF A!RequestRow
  <2>2. q.target \in Emails \cup {None}
    BY <1>1 DEF Told
  <2> QED BY <2>1, <2>2 DEF A!Adopted, A!UserRow
<1>8. owners # {} =>
        /\ [users[owner] EXCEPT !.sub = q.want.sub] \in A!UserRow
        /\ [users[owner] EXCEPT !.sub = q.want.sub].phone = users[owner].phone
        /\ [users[owner] EXCEPT !.sub = q.want.sub].sub = q.want.sub
  BY <1>1, <1>6 DEF Ways, A!UserRow, Told
<1> HIDE DEF owners, adopted, vouched, q
<1>9. next \in A!RequestRow
  BY <1>1, <1>4, <1>6, <1>7, <1>8 DEF A!RequestRow, A!RequestOps, Ways
<1>10. Told(next) /\ next.op \in Codeless
  BY <1>1, <1>4, <1>6, <1>7, <1>8 DEF Told, A!RequestRow, Codeless, A!RequestOps
<1> HIDE DEF next
<1> QED BY <1>2, <1>9, <1>10, Reads

LEMMA GoogleEnters ==
    ASSUME AccountInv, NEW r \in Requests, A!EnterByGoogle(r) PROVE AccountInv'
<1>1. /\ signing[r] \in A!RequestRow /\ Told(signing[r]) /\ signing[r].op = "flush"
      /\ A!Done(r) /\ UNCHANGED <<otp, link, sent, wrong>>
  BY RequestIs DEF A!EnterByGoogle, A!At
<1>2. users' \in [Identities -> A!UserRow \cup {None}] /\ A!NeverLockedOut'
  <2>1. CASE signing[r].who = None
    <3>1. signing[r].want \in Ways
      BY <1>1, <2>1, AccountNames DEF Told, A!RequestRow, Ways, A!NamesAssumption
    <3> QED BY <2>1, <3>1, Added DEF A!EnterByGoogle
  <2>2. CASE signing[r].who # None
    <3>1. signing[r].who \in Identities /\ Keeps(signing[r].seen, signing[r].want)
      BY <1>1, <2>2 DEF Told, A!RequestRow, Keeps
    <3> QED BY <2>2, <3>1, Updated DEF A!EnterByGoogle
  <2> QED BY <2>1, <2>2
<1> QED BY <1>1, <1>2, Ends

LEMMA LinkBegins ==
    ASSUME AccountInv, NEW r \in Requests, NEW a \in Identities, NEW k \in A!Kinds,
           NEW t \in A!Targets(k), A!BeginLink(r, a, k, t) \/ A!BeginVerifyLink(r, a, k, t)
    PROVE  AccountInv'
<1>1. PICK op \in {"ask", "verify"} :
        /\ signing' = [signing EXCEPT ![r] =
             [A!Idle EXCEPT !.op = op, !.who = a, !.kind = k, !.target = t]]
        /\ UNCHANGED <<users, otp, link, sent, wrong>>
  BY DEF A!BeginLink, A!BeginVerifyLink, A!Starts
<1> DEFINE next == [A!Idle EXCEPT !.op = op, !.who = a, !.kind = k, !.target = t]
<1>2. signing' = [signing EXCEPT ![r] = next]
  BY <1>1
<1>3. next.op = op /\ next.who = a /\ next.kind = k /\ next.target = t
  BY IdleIs
<1>4. next \in A!RequestRow
  BY IdleIsTold DEF A!RequestRow, A!RequestOps, A!Targets
<1> HIDE DEF next
<1>5. Told(next) /\ next.op \in Codeless
  BY <1>3 DEF Told, Codeless, A!RequestOps
<1> QED BY <1>1, <1>2, <1>4, <1>5, Reads

LEMMA FreeEnsured ==
    ASSUME AccountInv, NEW r \in Requests, A!EnsureFree(r) PROVE AccountInv'
<1>1. /\ signing[r] \in A!RequestRow /\ Told(signing[r]) /\ signing[r].op = "ask"
      /\ UNCHANGED <<users, otp, link, sent, wrong>>
  BY RequestIs DEF A!EnsureFree, A!At
<1>2. CASE A!Done(r)
  <2>1. A!Idle.op \in Codeless
    BY IdleIsTold DEF Codeless, A!RequestOps
  <2> QED BY <1>1, <1>2, <2>1, IdleIsTold, Reads DEF A!Done
<1>3. CASE signing' = [signing EXCEPT ![r].op = "put"]
  <2> DEFINE next == [signing[r] EXCEPT !.op = "put"]
  <2>1. next \in A!RequestRow
    BY <1>1 DEF A!RequestRow, A!RequestOps
  <2>2. Told(next) /\ next.op \in Codeless
    BY <1>1 DEF Told, A!RequestRow, Codeless, A!RequestOps
  <2>3. signing' = [signing EXCEPT ![r] = next]
    BY <1>3
  <2> HIDE DEF next
  <2> QED BY <1>1, <2>1, <2>2, <2>3, Reads
<1> QED BY <1>2, <1>3 DEF A!EnsureFree

LEMMA ChallengeRead ==
    ASSUME AccountInv, NEW r \in Requests, NEW right \in BOOLEAN, A!ReadChallenge(r, right)
    PROVE  AccountInv'
<1> DEFINE q == signing[r]
           m == <<q.who, q.kind>>
<1>1. /\ q \in A!RequestRow /\ Told(q) /\ q.op = "verify"
      /\ UNCHANGED <<users, otp, link, sent, wrong>>
      /\ signing' = [signing EXCEPT ![r] =
           IF A!Answerable(link[m], q.target)
           THEN [q EXCEPT !.op = IF right THEN "consume" ELSE "spend", !.code = link[m].code]
           ELSE A!Idle]
  BY RequestIs DEF A!ReadChallenge, A!At
<1>2. q.who \in Identities /\ q.kind \in A!Kinds /\ m \in Identities \X A!Kinds
  BY <1>1 DEF Told, A!RequestRow
<1>3. CASE ~A!Answerable(link[m], q.target)
  <2>1. A!Idle.op \in Codeless
    BY IdleIsTold DEF Codeless, A!RequestOps
  <2> QED BY <1>1, <1>3, <2>1, IdleIsTold, Reads
<1>4. CASE A!Answerable(link[m], q.target)
  <2> DEFINE op == IF right THEN "consume" ELSE "spend"
             next == [q EXCEPT !.op = op, !.code = link[m].code]
  <2>1. link[m] # None /\ link[m].target = q.target
    BY <1>4 DEF A!Answerable
  <2>2. link[m].code \in A!Codes /\ link[m].code \in Nat
    BY <1>2, <2>1, AccountNames DEF AccountInv, AccountTyped, A!LinkRow, A!Codes, A!CountsAssumption
  <2>3. next \in A!RequestRow
    BY <1>1, <2>2 DEF A!RequestRow, A!RequestOps
  <2>4. Told(next) /\ next.op \in {"spend", "consume"} /\ next.code = link[m].code
        /\ next.who = q.who /\ next.kind = q.kind /\ next.target = q.target
    BY <1>1, <1>2, <2>2 DEF Told, A!RequestRow
  <2>5. signing' = [signing EXCEPT ![r] = next]
    BY <1>1, <1>4
  <2> HIDE DEF next, q
  <2>6. Coded(next)
    <3>1. /\ link[m].code <= sent /\ otp[link[m].code] = None
          /\ \A n \in Identities \X A!Kinds :
               link[n] # None /\ link[n].code = link[m].code => m = n
      BY <1>2, <2>1 DEF AccountInv, LinksApart
    <3> QED BY <2>1, <2>2, <2>4, <3>1 DEF Coded
  <2>7. \A p \in Requests : Apart(signing[p], next) /\ Apart(next, signing[p])
    <3>1. \A p \in Requests : signing[p].op = "otp" => signing[p].code # link[m].code
      BY <1>2, <2>1 DEF AccountInv, RequestsApart, Coded
    <3> QED BY <2>4, <3>1 DEF Apart
  <2>8. users' \in [Identities -> A!UserRow \cup {None}] /\ A!NeverLockedOut'
    BY <1>1 DEF AccountInv, AccountTyped, A!NeverLockedOut, A!Exists
  <2> QED BY <1>1, <2>3, <2>4, <2>5, <2>6, <2>7, <2>8, CodesStay
<1> QED BY <1>3, <1>4

LEMMA OwnBegins ==
    ASSUME AccountInv, NEW r \in Requests, NEW a \in Identities, NEW op, NEW want,
           A!BeginOwn(r, a, op, want), want \in A!UserRow,
           \/ op \in {"unlink_phone", "unlink_email"}
           \/ op = "claim" /\ want = [users[a] EXCEPT !.handle = want.handle]
    PROVE  AccountInv'
<1>1. /\ signing' = [signing EXCEPT ![r] =
             [A!Idle EXCEPT !.op = op, !.who = a, !.seen = users[a], !.want = want]]
      /\ UNCHANGED <<users, otp, link, sent, wrong>> /\ users[a] # None
  BY DEF A!BeginOwn, A!Starts, A!Exists
<1> DEFINE next == [A!Idle EXCEPT !.op = op, !.who = a, !.seen = users[a], !.want = want]
<1>2. signing' = [signing EXCEPT ![r] = next]
  BY <1>1
<1>3. users[a] \in Ways
  BY <1>1, RowIsAWay
<1>4. next.op = op /\ next.who = a /\ next.seen = users[a] /\ next.want = want
  BY IdleIs
<1>5. next \in A!RequestRow
  BY <1>3, IdleIsTold DEF A!RequestRow, A!RequestOps, Ways
<1> HIDE DEF next
<1>6. Told(next) /\ next.op \in Codeless
  BY <1>3, <1>4 DEF Told, Codeless, A!RequestOps
<1> QED BY <1>1, <1>2, <1>5, <1>6, Reads

LEMMA UnlinkBegins ==
    ASSUME AccountInv, NEW r \in Requests, NEW a \in Identities, A!BeginUnlink(r, a)
    PROVE  AccountInv'
BY BlankIs, OwnBegins DEF A!BeginUnlink

LEMMA ClaimBegins ==
    ASSUME AccountInv, NEW r \in Requests, NEW a \in Identities, NEW h \in Names,
           A!BeginClaim(r, a, h)
    PROVE  AccountInv'
<1> DEFINE want == [users[a] EXCEPT !.handle = h]
<1>1. users[a] \in A!UserRow
  BY RowIsAWay DEF A!BeginClaim, A!Exists, Ways
<1>2. want \in A!UserRow /\ want = [users[a] EXCEPT !.handle = want.handle]
  BY <1>1 DEF A!UserRow
<1>3. A!BeginOwn(r, a, "claim", want)
  BY DEF A!BeginClaim
<1> HIDE DEF want
<1> QED BY <1>2, <1>3, OwnBegins

\* The rules of unlinking leave the other way in, on the row as committed.
LEMMA Unlinks ==
    ASSUME AccountInv, NEW r \in Requests, A!UnlinkPhone(r) \/ A!UnlinkEmail(r)
    PROVE  AccountInv'
<1> DEFINE a == signing[r].who
           now == users[a]
<1>1. a \in Identities /\ A!Done(r) /\ UNCHANGED <<otp, link, sent, wrong>>
  BY RequestIs DEF A!UnlinkPhone, A!UnlinkEmail, A!At, Told
<1>2. now # None => now \in Ways
  BY <1>1, RowIsAWay
<1>3. \/ UNCHANGED users
      \/ \E new \in Ways : users' = [users EXCEPT ![a] = new]
  <2>1. CASE A!UnlinkPhone(r)
    <3>1. CASE A!Exists(a) /\ A!MayUnlinkPhone(now, signing[r].seen)
      <4>1. [now EXCEPT !.phone = None] \in Ways
        BY <1>2, <3>1 DEF Ways, A!UserRow, A!Exists, A!MayUnlinkPhone
      <4>2. users' = [users EXCEPT ![a] = [now EXCEPT !.phone = None]]
        BY <2>1, <3>1 DEF A!UnlinkPhone, A!Store
      <4> QED BY <4>1, <4>2
    <3>2. CASE ~(A!Exists(a) /\ A!MayUnlinkPhone(now, signing[r].seen))
      BY <2>1, <3>2 DEF A!UnlinkPhone
    <3> QED BY <3>1, <3>2
  <2>2. CASE A!UnlinkEmail(r)
    <3>1. CASE A!Exists(a) /\ A!MayUnlinkEmail(now, signing[r].seen)
      <4>1. [now EXCEPT !.email = None, !.verified = FALSE, !.sub = None] \in Ways
        BY <1>2, <3>1 DEF Ways, A!UserRow, A!Exists, A!MayUnlinkEmail
      <4>2. users' = [users EXCEPT ![a] =
                        [now EXCEPT !.email = None, !.verified = FALSE, !.sub = None]]
        BY <2>2, <3>1 DEF A!UnlinkEmail, A!Store
      <4> QED BY <4>1, <4>2
    <3>2. CASE ~(A!Exists(a) /\ A!MayUnlinkEmail(now, signing[r].seen))
      BY <2>2, <3>2 DEF A!UnlinkEmail
    <3> QED BY <3>1, <3>2
  <2> QED BY <2>1, <2>2
<1> HIDE DEF a, now
<1>4. users' \in [Identities -> A!UserRow \cup {None}] /\ A!NeverLockedOut'
  <2>1. CASE UNCHANGED users
    BY <2>1 DEF AccountInv, AccountTyped, A!NeverLockedOut, A!Exists
  <2> QED BY <1>1, <1>3, <2>1, Stored
<1> QED BY <1>1, <1>4, Ends

LEMMA Claims ==
    ASSUME AccountInv, NEW r \in Requests, A!ClaimUsername(r) PROVE AccountInv'
<1> DEFINE q == signing[r]
<1>1. /\ q \in A!RequestRow /\ Told(q) /\ q.op = "claim"
      /\ A!Done(r) /\ UNCHANGED <<otp, link, sent, wrong>>
  BY RequestIs DEF A!ClaimUsername, A!At
<1>2. q.who \in Identities /\ q.who # None /\ q.seen \in Ways
      /\ q.want = [q.seen EXCEPT !.handle = q.want.handle] /\ q.want \in A!UserRow
  BY <1>1, AccountNames DEF Told, A!NamesAssumption, A!RequestRow
<1>3. q.want.phone = q.seen.phone /\ q.want.sub = q.seen.sub
  BY <1>2 DEF Ways, A!UserRow
<1>4. Keeps(q.seen, q.want)
  BY <1>2, <1>3 DEF Keeps
<1>5. A!Update(q.who, q.seen, q.want)
  BY DEF A!ClaimUsername
<1> HIDE DEF q
<1>6. users' \in [Identities -> A!UserRow \cup {None}] /\ A!NeverLockedOut'
  BY <1>2, <1>4, <1>5, Updated
<1> QED BY <1>1, <1>6, Ends

LEMMA Aborts ==
    ASSUME AccountInv, NEW r \in Requests, A!Abort(r) PROVE AccountInv'
<1>1. users' \in [Identities -> A!UserRow \cup {None}] /\ A!NeverLockedOut'
  BY DEF A!Abort, AccountInv, AccountTyped, A!NeverLockedOut, A!Exists
<1> QED BY <1>1, Ends DEF A!Abort

-----------------------------------------------------------------------------
(* Account: the actions that write challenges. *)

\* Every request goes on as it is, or has ended.
SomeEnd ==
    /\ signing' \in [Requests -> A!RequestRow]
    /\ \A q \in Requests : signing'[q] \in {signing[q], A!Idle}

LEMMA DoneEnds ==
    ASSUME AccountInv, NEW r \in Requests, A!Done(r) PROVE SomeEnd
BY IdleIsTold, SigningStep DEF A!Done, SomeEnd, AccountInv

LEMMA SomeEndTold ==
    ASSUME AccountInv, SomeEnd PROVE RequestsTold'
BY IdleIsTold DEF AccountInv, RequestsTold, SomeEnd, Told

LEMMA SomeEndApart ==
    ASSUME AccountInv, SomeEnd
    PROVE  /\ \A q \in Requests : Coded(signing'[q])
           /\ (\A p, q \in Requests : p # q => Apart(signing[p], signing[q]))'
<1>1. A!Idle.op \in Codeless
  BY IdleIsTold DEF Codeless, A!RequestOps
<1>2. \A q : Coded(A!Idle) /\ Apart(q, A!Idle) /\ Apart(A!Idle, q)
  BY <1>1, CodelessIsCoded
<1>3. ASSUME NEW p \in Requests, NEW q \in Requests, p # q PROVE Apart(signing'[p], signing'[q])
  BY <1>2, <1>3 DEF AccountInv, RequestsApart, SomeEnd
<1> QED BY <1>2, <1>3 DEF AccountInv, RequestsApart, SomeEnd

\* Challenges of phones change, and none comes or goes.
LEMMA OtpStep ==
    ASSUME AccountInv, SomeEnd, UNCHANGED <<link, sent>>,
           otp' \in [A!Codes -> A!OtpRow \cup {None}],
           \A c \in A!Codes : otp'[c] = None <=> otp[c] = None,
           wrong' \in [A!Codes -> Nat],
           \A c \in A!Codes : otp[c] = None => wrong'[c] = wrong[c],
           \A c \in A!Codes : otp'[c] # None /\ ~otp'[c].consumed => otp'[c].attempts = wrong'[c],
           users' \in [Identities -> A!UserRow \cup {None}], A!NeverLockedOut'
    PROVE  AccountInv'
<1>1. AccountTyped'
  BY DEF AccountInv, AccountTyped, SomeEnd
<1>2. \A m \in Identities \X A!Kinds : link[m] # None => link[m].code \in A!Codes
  BY DEF AccountInv, AccountTyped, A!LinkRow
<1>3. LinksApart' /\ Undrawn'
  BY <1>2 DEF AccountInv, LinksApart, Undrawn
<1>4. A!GuessesAreCounted'
  <2>1. ASSUME NEW a \in Identities, NEW k \in A!Kinds, link[<<a, k>>] # None
        PROVE  wrong'[link[<<a, k>>].code] = wrong[link[<<a, k>>].code]
    BY <1>2, <2>1 DEF AccountInv, LinksApart
  <2> QED BY <2>1 DEF AccountInv, A!GuessesAreCounted
<1>5. (\A q \in Requests : Coded(signing[q]))'
  <2>1. ASSUME NEW q \in Requests, signing'[q].op \in {"otp", "right", "wrong", "enter"}
        PROVE  signing'[q].code \in A!Codes
    BY <2>1, SomeEndTold DEF RequestsTold, Told
  <2>2. ASSUME NEW q \in Requests, signing'[q].op \in {"spend", "consume"}
        PROVE  signing'[q].code \in A!Codes
    BY <2>2, SomeEndApart DEF Coded
  <2> QED BY <2>1, <2>2, SomeEndApart DEF Coded
<1> QED BY <1>1, <1>3, <1>4, <1>5, SomeEndTold, SomeEndApart DEF AccountInv, RequestsApart

LEMMA AttemptRecorded ==
    ASSUME AccountInv, NEW r \in Requests, A!RecordFailedAttempt(r) PROVE AccountInv'
<1> DEFINE c == signing[r].code
<1>1. c \in A!Codes /\ otp[c] # None
  BY RequestIs DEF A!RecordFailedAttempt, A!At, Told, Coded
<1>2. /\ otp' = [otp EXCEPT ![c].attempts = otp[c].attempts + 1]
      /\ wrong' = [wrong EXCEPT ![c] = wrong[c] + 1]
      /\ A!Done(r) /\ UNCHANGED <<users, link, sent>>
  BY DEF A!RecordFailedAttempt, A!CountedAttempt
<1> HIDE DEF c
<1>3. otp \in [A!Codes -> A!OtpRow \cup {None}] /\ wrong \in [A!Codes -> Nat] /\ otp[c] \in A!OtpRow
  BY <1>1 DEF AccountInv, AccountTyped
<1>4. otp'[c] = [otp[c] EXCEPT !.attempts = otp[c].attempts + 1]
      /\ \A d \in A!Codes : d # c => otp'[d] = otp[d]
  BY <1>1, <1>2, <1>3
<1>5. otp'[c] \in A!OtpRow /\ otp'[c].attempts = otp[c].attempts + 1
      /\ otp'[c].consumed = otp[c].consumed
  BY <1>3, <1>4 DEF A!OtpRow
<1>6. otp'[c] # None
  BY <1>5, AccountNames DEF A!RowsAssumption
<1>7. otp' \in [A!Codes -> A!OtpRow \cup {None}] /\ wrong' \in [A!Codes -> Nat]
  BY <1>1, <1>2, <1>3, <1>4, <1>5
<1>8. \A d \in A!Codes : otp'[d] # None /\ ~otp'[d].consumed => otp'[d].attempts = wrong'[d]
  BY <1>1, <1>2, <1>3, <1>4, <1>5 DEF AccountInv, A!GuessesAreCounted
<1>9. users' \in [Identities -> A!UserRow \cup {None}] /\ A!NeverLockedOut'
  BY <1>2 DEF AccountInv, AccountTyped, A!NeverLockedOut, A!Exists
<1> QED BY <1>1, <1>2, <1>3, <1>4, <1>6, <1>7, <1>8, <1>9, DoneEnds, OtpStep

LEMMA PhoneEnters ==
    ASSUME AccountInv, NEW r \in Requests, A!EnterByPhone(r) PROVE AccountInv'
<1> DEFINE q == signing[r]
           c == q.code
<1>1. q \in A!RequestRow /\ Told(q) /\ q.op = "enter" /\ c \in A!Codes /\ otp[c] # None
  BY RequestIs DEF A!EnterByPhone, A!At, Told, Coded
<1>2. PICK attempts \in {q.tries, otp[c].attempts} :
        otp' = [otp EXCEPT ![c].consumed = TRUE, ![c].attempts = attempts]
  BY DEF A!EnterByPhone
<1>3. A!Done(r) /\ UNCHANGED <<link, sent, wrong>>
  BY DEF A!EnterByPhone
<1>4. users' \in [Identities -> A!UserRow \cup {None}] /\ A!NeverLockedOut'
  <2>1. CASE q.who = None
    <3> DEFINE new == [A!Blank EXCEPT !.phone = q.target]
    <3>1. new.phone = q.target
      BY BlankIs
    <3>2. q.target \in Phones /\ q.target # None
      BY <1>1, AccountNames DEF Told, A!NamesAssumption
    <3>3. new \in Ways
      BY <3>1, <3>2, BlankIs DEF Ways, A!UserRow
    <3>4. A!Add(new)
      BY <2>1 DEF A!EnterByPhone
    <3> QED BY <3>3, <3>4, Added
  <2>2. CASE q.who # None
    <3>1. q.who \in Identities /\ Keeps(q.seen, q.want)
      BY <1>1, <2>2 DEF Told, A!RequestRow, Keeps
    <3> QED BY <2>2, <3>1, Updated DEF A!EnterByPhone
  <2> QED BY <2>1, <2>2
<1>5. otp \in [A!Codes -> A!OtpRow \cup {None}] /\ wrong \in [A!Codes -> Nat]
      /\ otp[c] \in A!OtpRow /\ q.tries \in Nat
  BY <1>1 DEF AccountInv, AccountTyped, A!RequestRow
<1> HIDE DEF q, c
<1>6. otp'[c] = [otp[c] EXCEPT !.consumed = TRUE, !.attempts = attempts]
      /\ \A d \in A!Codes : d # c => otp'[d] = otp[d]
  BY <1>1, <1>2, <1>5
<1>7. otp'[c] \in A!OtpRow /\ otp'[c].consumed
  BY <1>5, <1>6 DEF A!OtpRow
<1>8. otp'[c] # None
  BY <1>7, AccountNames DEF A!RowsAssumption
<1>9. otp' \in [A!Codes -> A!OtpRow \cup {None}] /\ wrong' \in [A!Codes -> Nat]
  BY <1>1, <1>2, <1>3, <1>5, <1>6, <1>7
<1>10. \A d \in A!Codes : otp'[d] # None /\ ~otp'[d].consumed => otp'[d].attempts = wrong'[d]
  BY <1>3, <1>6, <1>7 DEF AccountInv, A!GuessesAreCounted
<1> QED BY <1>1, <1>3, <1>4, <1>6, <1>8, <1>9, <1>10, DoneEnds, OtpStep

LEMMA OtpAges ==
    ASSUME AccountInv, NEW c \in A!Codes, A!AgeOtp(c) PROVE AccountInv'
<1>1. /\ otp[c] # None /\ UNCHANGED <<users, link, signing, sent, wrong>>
      /\ otp' = [otp EXCEPT ![c].age = IF otp[c].age = "fresh" THEN "old" ELSE "expired"]
  BY DEF A!AgeOtp
<1>2. otp \in [A!Codes -> A!OtpRow \cup {None}] /\ wrong \in [A!Codes -> Nat] /\ otp[c] \in A!OtpRow
  BY <1>1 DEF AccountInv, AccountTyped
<1> DEFINE age == IF otp[c].age = "fresh" THEN "old" ELSE "expired"
<1>3. otp'[c] = [otp[c] EXCEPT !.age = age] /\ \A d \in A!Codes : d # c => otp'[d] = otp[d]
  BY <1>1, <1>2
<1>4. otp'[c] \in A!OtpRow /\ otp'[c].consumed = otp[c].consumed
      /\ otp'[c].attempts = otp[c].attempts
  BY <1>2, <1>3 DEF A!OtpRow
<1>5. otp'[c] # None
  BY <1>4, AccountNames DEF A!RowsAssumption
<1>6. otp' \in [A!Codes -> A!OtpRow \cup {None}] /\ wrong' \in [A!Codes -> Nat]
  BY <1>1, <1>2, <1>3, <1>4
<1>7. \A d \in A!Codes : otp'[d] # None /\ ~otp'[d].consumed => otp'[d].attempts = wrong'[d]
  BY <1>1, <1>3, <1>4 DEF AccountInv, A!GuessesAreCounted
<1>8. users' \in [Identities -> A!UserRow \cup {None}] /\ A!NeverLockedOut'
  BY <1>1 DEF AccountInv, AccountTyped, A!NeverLockedOut, A!Exists
<1>9. SomeEnd
  BY <1>1 DEF SomeEnd, AccountInv, AccountTyped
<1> QED BY <1>1, <1>3, <1>5, <1>6, <1>7, <1>8, <1>9, OtpStep

\* A code is drawn for a phone, that no other request and no challenge has.
LEMMA RequestOtpBegins ==
    ASSUME AccountInv, NEW r \in Requests, NEW p \in Phones, A!BeginRequestOtp(r, p)
    PROVE  AccountInv'
<1>1. /\ sent < MaxCodes /\ sent' = sent + 1 /\ UNCHANGED <<users, otp, link, wrong>>
      /\ signing' = [signing EXCEPT ![r] = [A!Idle EXCEPT !.op = "otp", !.target = p, !.code = sent']]
  BY DEF A!BeginRequestOtp, A!Starts
<1> DEFINE next == [A!Idle EXCEPT !.op = "otp", !.target = p, !.code = sent + 1]
<1>2. signing' = [signing EXCEPT ![r] = next]
  BY <1>1
<1>3. sent \in Nat /\ MaxCodes \in Nat /\ sent + 1 \in A!Codes
  BY <1>1, AccountNames DEF AccountInv, AccountTyped, A!Codes, A!CountsAssumption
<1>4. next.op = "otp" /\ next.target = p /\ next.code = sent + 1
  BY IdleIs
<1>5. next \in A!RequestRow
  <2>1. sent + 1 \in Nat
    BY <1>3
  <2> QED BY <2>1, IdleIsTold DEF A!RequestRow, A!RequestOps
<1> HIDE DEF next
<1>6. Told(next) /\ next.op = "otp" /\ next.code = sent + 1
  BY <1>3, <1>4 DEF Told
<1>7. /\ signing' \in [Requests -> A!RequestRow] /\ signing'[r] = next
      /\ \A q \in Requests : q # r => signing'[q] = signing[q]
  BY <1>2, <1>5, SigningStep DEF AccountInv
<1>8. AccountTyped'
  BY <1>1, <1>3, <1>7 DEF AccountInv, AccountTyped
<1>9. \A q \in Requests : signing[q].op \in {"otp", "spend", "consume"} =>
        signing[q].code <= sent /\ signing[q].code \in A!Codes
  BY DEF AccountInv, RequestsApart, RequestsTold, Coded, Told
<1>10. \A q \in Requests : signing[q].op \in {"otp", "spend", "consume"} =>
        signing[q].code # sent + 1
  BY <1>3, <1>9 DEF A!Codes
<1>11. \A m \in Identities \X A!Kinds : link[m] # None =>
         link[m].code <= sent /\ link[m].code \in A!Codes /\ link[m].code # sent + 1
  BY <1>3 DEF AccountInv, AccountTyped, LinksApart, A!LinkRow, A!Codes
<1>12. RequestsTold'
  BY <1>6, <1>7 DEF AccountInv, RequestsTold
<1>13. RequestsApart'
  <2>1. (\A q \in Requests : Coded(signing[q]))'
    <3>1. ASSUME NEW q \in Requests, q # r, NEW row, row = signing[q], Coded(row)
          PROVE  Coded(row)'
      BY <1>1, <1>3, <1>9, <3>1 DEF Coded, A!Codes
    <3>2. ASSUME NEW row, row = next PROVE Coded(row)'
      BY <1>1, <1>3, <1>6, <1>11, <3>2 DEF AccountInv, Undrawn, Coded
    <3>3. \A q \in Requests : q # r => Coded(signing[q])
      BY DEF AccountInv, RequestsApart
    <3> QED BY <1>7, <3>1, <3>2, <3>3
  <2>2. (\A q, s \in Requests : q # s => Apart(signing[q], signing[s]))'
    BY <1>6, <1>7, <1>10 DEF AccountInv, RequestsApart, Apart
  <2> QED BY <2>1, <2>2 DEF RequestsApart
<1>14. LinksApart'
  BY <1>1, <1>3, <1>11 DEF AccountInv, LinksApart, A!Codes
<1>15. Undrawn'
  BY <1>1, <1>3 DEF AccountInv, Undrawn, A!Codes
<1>16. A!GuessesAreCounted' /\ A!NeverLockedOut'
  BY <1>1 DEF AccountInv, A!GuessesAreCounted, A!NeverLockedOut, A!Exists
<1> QED BY <1>8, <1>12, <1>13, <1>14, <1>15, <1>16 DEF AccountInv

LEMMA OtpStored ==
    ASSUME AccountInv, NEW r \in Requests, A!StoreOtp(r) PROVE AccountInv'
<1> DEFINE q == signing[r]
           c == q.code
           new == [phone |-> q.target, attempts |-> 0, consumed |-> FALSE, age |-> "fresh"]
<1>1. q \in A!RequestRow /\ q.op = "otp" /\ q.target \in Phones /\ c \in A!Codes
      /\ c <= sent /\ otp[c] = None /\ wrong[c] = 0
      /\ \A m \in Identities \X A!Kinds : link[m] # None => link[m].code # c
  BY RequestIs DEF A!StoreOtp, A!At, Told, Coded
<1>2. /\ otp' = [A!InvalidateForPhone(q.target) EXCEPT ![c] = new]
      /\ A!Done(r) /\ UNCHANGED <<users, link, sent, wrong>>
  BY DEF A!StoreOtp
<1>3. new \in A!OtpRow /\ ~new.consumed /\ new.attempts = 0
  BY <1>1 DEF A!OtpRow
<1>4. new # None
  BY <1>3, AccountNames DEF A!RowsAssumption
<1>5. \A p \in Requests : signing'[p].op \in {"otp", "spend", "consume"} => signing'[p].code # c
  <2>1. \A p \in Requests : p # r /\ signing[p].op \in {"otp", "spend", "consume"} =>
          signing[p].code # c
    BY <1>1 DEF AccountInv, RequestsApart, Apart
  <2>2. signing'[r] = A!Idle /\ \A p \in Requests : p # r => signing'[p] = signing[p]
    BY <1>2, IdleIsTold, SigningStep DEF A!Done, AccountInv
  <2> QED BY <2>1, <2>2, IdleIsTold
<1> HIDE DEF q, c, new
<1>6. /\ otp'[c] = new
      /\ \A d \in A!Codes : d # c =>
           otp'[d] = IF d \in A!Unconsumed(q.target) THEN [otp[d] EXCEPT !.consumed = TRUE]
                     ELSE otp[d]
      /\ otp' = [d \in A!Codes |-> otp'[d]]
  BY <1>1, <1>2 DEF A!InvalidateForPhone
<1>7. ASSUME NEW d \in A!Codes, d # c
      PROVE  /\ otp'[d] \in A!OtpRow \cup {None} /\ (otp'[d] = None <=> otp[d] = None)
             /\ otp'[d] # None /\ ~otp'[d].consumed => otp'[d] = otp[d]
  <2>1. CASE d \in A!Unconsumed(q.target)
    <3>1. otp[d] # None /\ otp[d] \in A!OtpRow
      BY <2>1 DEF A!Unconsumed, AccountInv, AccountTyped
    <3>2. [otp[d] EXCEPT !.consumed = TRUE] \in A!OtpRow
          /\ [otp[d] EXCEPT !.consumed = TRUE].consumed
      BY <3>1 DEF A!OtpRow
    <3> QED BY <1>6, <1>7, <2>1, <3>1, <3>2, AccountNames DEF A!RowsAssumption
  <2>2. CASE d \notin A!Unconsumed(q.target)
    BY <1>6, <1>7, <2>2 DEF AccountInv, AccountTyped
  <2> QED BY <2>1, <2>2
<1>8. SomeEnd
  BY <1>2, DoneEnds
<1>9. AccountTyped'
  <2>1. otp' \in [A!Codes -> A!OtpRow \cup {None}]
    BY <1>3, <1>6, <1>7
  <2> QED BY <1>2, <1>8, <2>1 DEF AccountInv, AccountTyped, SomeEnd
<1>10. \A d \in A!Codes : otp'[d] = None => otp[d] = None
  BY <1>4, <1>6, <1>7
<1>11. \A d \in A!Codes : d # c /\ otp[d] = None => otp'[d] = None
  BY <1>7
<1>12. LinksApart'
  <2>1. \A m \in Identities \X A!Kinds : link[m] # None => link[m].code \in A!Codes
    BY DEF AccountInv, AccountTyped, A!LinkRow
  <2> QED BY <1>1, <1>2, <1>11, <2>1 DEF AccountInv, LinksApart
<1>13. Undrawn'
  <2>1. \A d \in A!Codes : d > sent => d # c
    BY <1>1 DEF A!Codes, AccountInv, AccountTyped
  <2> QED BY <1>2, <1>11, <2>1 DEF AccountInv, Undrawn
<1>14. A!GuessesAreCounted'
  BY <1>1, <1>2, <1>3, <1>6, <1>7 DEF AccountInv, A!GuessesAreCounted
<1>15. RequestsApart'
  <2>1. ASSUME NEW p \in Requests
        PROVE  /\ signing'[p].op \in {"otp", "right", "wrong", "enter"} =>
                    signing'[p].code \in A!Codes
               /\ Coded(signing'[p])
    BY <1>8, SomeEndTold, SomeEndApart DEF RequestsTold, Told
  <2>2. (\A p \in Requests : Coded(signing[p]))'
    BY <1>2, <1>5, <1>10, <1>11, <2>1 DEF Coded
  <2> QED BY <1>8, <2>2, SomeEndApart DEF RequestsApart
<1>16. A!NeverLockedOut'
  BY <1>2 DEF AccountInv, A!NeverLockedOut, A!Exists
<1> QED BY <1>8, <1>9, <1>12, <1>13, <1>14, <1>15, <1>16, SomeEndTold DEF AccountInv

\* A challenge of an account is drawn with a code nothing else has.
LEMMA ChallengePut ==
    ASSUME AccountInv, NEW r \in Requests, A!PutChallenge(r) PROVE AccountInv'
<1> DEFINE q == signing[r]
           at == <<q.who, q.kind>>
           new == [target |-> q.target, code |-> sent + 1, left |-> MaxTries, expired |-> FALSE]
<1>1. q \in A!RequestRow /\ q.op = "put" /\ q.who \in Identities /\ q.target \in A!Targets(q.kind)
  BY RequestIs DEF A!PutChallenge, A!At, Told
<1>2. /\ sent < MaxCodes /\ sent' = sent + 1 /\ link' = [link EXCEPT ![at] = new]
      /\ A!Done(r) /\ UNCHANGED <<users, otp, wrong>>
  BY DEF A!PutChallenge
<1>3. sent \in Nat /\ MaxCodes \in Nat /\ MaxTries \in Nat /\ sent + 1 \in A!Codes
      /\ at \in Identities \X A!Kinds
  BY <1>1, <1>2, AccountNames DEF AccountInv, AccountTyped, A!Codes, A!CountsAssumption, A!RequestRow
<1>4. new \in A!LinkRow /\ new.code = sent + 1 /\ new.left = MaxTries
  BY <1>1, <1>3 DEF A!LinkRow, A!Targets
<1> HIDE DEF q, at, new
<1>5. link'[at] = new /\ \A m \in Identities \X A!Kinds : m # at => link'[m] = link[m]
  BY <1>2, <1>3 DEF AccountInv, AccountTyped
<1>6. SomeEnd
  BY <1>2, DoneEnds
<1>7. AccountTyped'
  BY <1>2, <1>3, <1>4, <1>5, <1>6 DEF AccountInv, AccountTyped, SomeEnd
<1>8. \A m \in Identities \X A!Kinds : link[m] # None =>
         link[m].code <= sent /\ link[m].code \in A!Codes /\ link[m].code # sent + 1
  BY <1>3 DEF AccountInv, AccountTyped, LinksApart, A!LinkRow, A!Codes
<1>9. otp[sent + 1] = None /\ wrong[sent + 1] = 0
  BY <1>3 DEF AccountInv, Undrawn
<1>10. LinksApart'
  BY <1>2, <1>3, <1>4, <1>5, <1>8, <1>9 DEF AccountInv, LinksApart, A!Codes
<1>11. Undrawn'
  BY <1>2, <1>3 DEF AccountInv, Undrawn, A!Codes
<1>12. A!GuessesAreCounted'
  <2>1. ASSUME NEW m \in Identities \X A!Kinds, link'[m] # None
        PROVE  link'[m].left = 0 \/ link'[m].left + wrong'[link'[m].code] <= MaxTries
    <3>1. CASE m = at
      BY <1>2, <1>3, <1>4, <1>5, <1>9, <3>1
    <3>2. CASE m # at
      <4> PICK a \in Identities, k \in A!Kinds : m = <<a, k>>
        OBVIOUS
      <4> QED BY <1>2, <1>5, <2>1, <3>2 DEF AccountInv, A!GuessesAreCounted
    <3> QED BY <3>1, <3>2
  <2> QED BY <1>2, <2>1 DEF AccountInv, A!GuessesAreCounted
<1>13. RequestsApart'
  <2>1. ASSUME NEW p \in Requests
        PROVE  /\ Coded(signing'[p])
               /\ signing'[p].op \in {"otp", "spend", "consume"} =>
                    signing'[p].code <= sent /\ signing'[p].code \in A!Codes
                    /\ signing'[p].code # sent + 1
    <3>1. Coded(signing'[p]) /\ Told(signing'[p])
      BY <1>6, SomeEndTold, SomeEndApart DEF RequestsTold
    <3> QED BY <1>3, <3>1 DEF Coded, Told, A!Codes
  <2>2. (\A p \in Requests : Coded(signing[p]))'
    <3>1. ASSUME NEW row, Coded(row), row.op \in {"otp", "spend", "consume"} =>
                   row.code <= sent /\ row.code \in A!Codes /\ row.code # sent + 1
          PROVE  Coded(row)'
      BY <1>2, <1>3, <1>4, <1>5, <3>1 DEF Coded, A!Codes
    <3> QED BY <2>1, <3>1
  <2> QED BY <1>6, <2>2, SomeEndApart DEF RequestsApart
<1>14. A!NeverLockedOut'
  BY <1>2 DEF AccountInv, A!NeverLockedOut, A!Exists
<1> QED BY <1>6, <1>7, <1>10, <1>11, <1>12, <1>13, <1>14, SomeEndTold DEF AccountInv

\* Challenges of accounts lose attempts, expire or go, and wrong guesses are
\* counted against codes no phone has.
LEMMA LinkStep ==
    ASSUME AccountInv, SomeEnd, UNCHANGED <<otp, sent>>,
           link' \in [Identities \X A!Kinds -> A!LinkRow \cup {None}],
           \A m \in Identities \X A!Kinds : link'[m] # None =>
               /\ link[m] # None
               /\ link'[m].code = link[m].code /\ link'[m].target = link[m].target
               /\ link'[m].left = 0 \/ link'[m].left + wrong'[link'[m].code] <= MaxTries,
           wrong' \in [A!Codes -> Nat],
           \A c \in A!Codes :
               \/ wrong'[c] = wrong[c]
               \/ /\ c <= sent /\ otp[c] = None
                  /\ \A q \in Requests : signing'[q].op = "otp" => signing'[q].code # c,
           users' \in [Identities -> A!UserRow \cup {None}], A!NeverLockedOut'
    PROVE  AccountInv'
<1>1. AccountTyped'
  BY DEF AccountInv, AccountTyped, SomeEnd
<1>2. LinksApart'
  BY DEF AccountInv, LinksApart
<1>3. Undrawn'
  BY DEF AccountInv, AccountTyped, Undrawn, A!Codes
<1>4. A!GuessesAreCounted'
  <2>1. \A c \in A!Codes : otp[c] # None => wrong'[c] = wrong[c]
    OBVIOUS
  <2>2. \A a \in Identities, k \in A!Kinds : <<a, k>> \in Identities \X A!Kinds
    OBVIOUS
  <2> QED BY <2>1, <2>2 DEF AccountInv, A!GuessesAreCounted
<1>5. (\A q \in Requests : Coded(signing[q]))'
  <2>1. ASSUME NEW q \in Requests
        PROVE  /\ Coded(signing'[q])
               /\ signing'[q].op = "otp" => signing'[q].code \in A!Codes
    BY SomeEndTold, SomeEndApart DEF RequestsTold, Told
  <2>2. ASSUME NEW q \in Requests, NEW row, row = signing'[q] PROVE Coded(row)'
    <3>1. Coded(row) /\ (row.op = "otp" => row.code \in A!Codes /\ wrong'[row.code] = wrong[row.code])
      BY <2>1, <2>2
    <3> QED BY <3>1 DEF Coded
  <2> QED BY <2>2
<1> QED BY <1>1, <1>2, <1>3, <1>4, <1>5, SomeEndTold, SomeEndApart DEF AccountInv, RequestsApart

LEMMA AttemptSpent ==
    ASSUME AccountInv, NEW r \in Requests, A!SpendAttempt(r) PROVE AccountInv'
<1> DEFINE q == signing[r]
           at == <<q.who, q.kind>>
           c == q.code
<1>1. /\ q \in A!RequestRow /\ q.op = "spend" /\ at \in Identities \X A!Kinds
      /\ c \in A!Codes /\ c <= sent /\ otp[c] = None
      /\ \A m \in Identities \X A!Kinds : link[m] # None /\ link[m].code = c => m = at
  BY RequestIs DEF A!SpendAttempt, A!At, Told, Coded, A!RequestRow
<1>2. /\ link' = [link EXCEPT ![at] = A!Spent(link[at])]
      /\ wrong' = [wrong EXCEPT ![c] = wrong[c] + 1]
      /\ A!Done(r) /\ UNCHANGED <<users, otp, sent>>
  BY DEF A!SpendAttempt
<1>3. \A p \in Requests : signing'[p].op = "otp" => signing'[p].code # c
  <2>1. \A p \in Requests : p # r /\ signing[p].op = "otp" => signing[p].code # c
    BY <1>1 DEF AccountInv, RequestsApart, Apart
  <2>2. signing'[r] = A!Idle /\ \A p \in Requests : p # r => signing'[p] = signing[p]
    BY <1>2, IdleIsTold, SigningStep DEF A!Done, AccountInv
  <2> QED BY <2>1, <2>2, IdleIsTold
<1> HIDE DEF q, at, c
<1>4. /\ link'[at] = A!Spent(link[at])
      /\ \A m \in Identities \X A!Kinds : m # at => link'[m] = link[m]
      /\ wrong' \in [A!Codes -> Nat]
      /\ wrong'[c] = wrong[c] + 1 /\ \A d \in A!Codes : d # c => wrong'[d] = wrong[d]
  BY <1>1, <1>2 DEF AccountInv, AccountTyped
<1>5. ASSUME NEW m \in Identities \X A!Kinds, link[m] # None
      PROVE  /\ link[m] \in A!LinkRow /\ link[m].code \in A!Codes /\ link[m].left \in Nat
             /\ link[m].left = 0 \/ link[m].left + wrong[link[m].code] <= MaxTries
             /\ wrong[link[m].code] \in Nat /\ MaxTries \in Nat
  <2> PICK a \in Identities, k \in A!Kinds : m = <<a, k>>
    OBVIOUS
  <2> QED BY <1>5, AccountNames
          DEF AccountInv, AccountTyped, A!LinkRow, A!GuessesAreCounted, A!CountsAssumption
<1>6. link[at] # None =>
        /\ A!Spent(link[at]) \in A!LinkRow /\ A!Spent(link[at]) # None
        /\ A!Spent(link[at]).code = link[at].code /\ A!Spent(link[at]).target = link[at].target
        /\ A!Spent(link[at]).left = IF link[at].left > 0 THEN link[at].left - 1 ELSE 0
  <2> SUFFICES ASSUME link[at] # None
               PROVE  /\ A!Spent(link[at]) \in A!LinkRow
                      /\ A!Spent(link[at]).code = link[at].code
                      /\ A!Spent(link[at]).target = link[at].target
                      /\ A!Spent(link[at]).left = IF link[at].left > 0 THEN link[at].left - 1 ELSE 0
    BY AccountNames DEF A!RowsAssumption
  <2>1. link[at] \in A!LinkRow /\ MaxTries \in Nat
    BY <1>1, <1>5
  <2>2. CASE link[at].left > 0
    <3>1. A!Spent(link[at]) = [link[at] EXCEPT !.left = link[at].left - 1]
      BY <2>2 DEF A!Spent
    <3>2. link[at].left - 1 \in 0..MaxTries
      BY <2>1, <2>2 DEF A!LinkRow
    <3> QED BY <2>1, <2>2, <3>1, <3>2 DEF A!LinkRow
  <2>3. CASE ~(link[at].left > 0)
    BY <2>1, <2>3 DEF A!Spent, A!LinkRow
  <2> QED BY <2>2, <2>3
<1>7. link[at] = None => A!Spent(link[at]) = None
  BY DEF A!Spent
<1>8. ASSUME NEW m \in Identities \X A!Kinds, link'[m] # None
      PROVE  /\ link[m] # None
             /\ link'[m].code = link[m].code /\ link'[m].target = link[m].target
             /\ link'[m].left = 0 \/ link'[m].left + wrong'[link'[m].code] <= MaxTries
  <2>1. CASE m = at
    <3>1. wrong'[link[m].code] <= wrong[link[m].code] + 1 /\ wrong'[link[m].code] \in Nat
      BY <1>4, <1>5, <1>7, <1>8, <2>1
    <3> QED BY <1>4, <1>5, <1>6, <1>7, <1>8, <2>1, <3>1
  <2>2. CASE m # at
    <3>1. link'[m] = link[m] /\ link[m].code # c
      BY <1>1, <1>4, <1>8, <2>2
    <3> QED BY <1>4, <1>5, <1>8, <3>1
  <2> QED BY <2>1, <2>2
<1>9. link' \in [Identities \X A!Kinds -> A!LinkRow \cup {None}]
  BY <1>1, <1>2, <1>6, <1>7 DEF AccountInv, AccountTyped
<1>10. users' \in [Identities -> A!UserRow \cup {None}] /\ A!NeverLockedOut'
  BY <1>2 DEF AccountInv, AccountTyped, A!NeverLockedOut, A!Exists
<1> QED BY <1>1, <1>2, <1>3, <1>4, <1>8, <1>9, <1>10, DoneEnds, LinkStep

\* Challenges go, or only their clocks run.
LEMMA LinksGo ==
    ASSUME AccountInv, SomeEnd, UNCHANGED <<otp, sent, wrong>>,
           link' \in [Identities \X A!Kinds -> A!LinkRow \cup {None}],
           \A m \in Identities \X A!Kinds : link'[m] # None =>
               /\ link[m] # None /\ link'[m].code = link[m].code
               /\ link'[m].target = link[m].target /\ link'[m].left = link[m].left,
           users' \in [Identities -> A!UserRow \cup {None}], A!NeverLockedOut'
    PROVE  AccountInv'
<1>1. ASSUME NEW m \in Identities \X A!Kinds, link'[m] # None
      PROVE  link'[m].left = 0 \/ link'[m].left + wrong'[link'[m].code] <= MaxTries
  <2> PICK a \in Identities, k \in A!Kinds : m = <<a, k>>
    OBVIOUS
  <2> QED BY <1>1 DEF AccountInv, A!GuessesAreCounted
<1>2. wrong' \in [A!Codes -> Nat]
  BY DEF AccountInv, AccountTyped
<1> QED BY <1>1, <1>2, LinkStep

LEMMA ConsumesAndLinks ==
    ASSUME AccountInv, NEW r \in Requests, A!ConsumeAndLink(r) PROVE AccountInv'
<1> DEFINE q == signing[r]
           at == <<q.who, q.kind>>
           new == A!Linked(users[q.who], q.kind, q.target)
<1>1. /\ q \in A!RequestRow /\ q.op = "consume" /\ q.who \in Identities
      /\ q.target \in A!Targets(q.kind) /\ at \in Identities \X A!Kinds
      /\ A!Done(r) /\ UNCHANGED <<otp, sent, wrong>>
  BY RequestIs DEF A!ConsumeAndLink, A!At, Told, A!RequestRow
<1>2. \/ /\ users[q.who] # None /\ link' = [link EXCEPT ![at] = None]
         /\ users' = [users EXCEPT ![q.who] = new]
      \/ UNCHANGED <<link, users>>
  BY DEF A!ConsumeAndLink, A!Exists, A!Store
<1>3. users' \in [Identities -> A!UserRow \cup {None}] /\ A!NeverLockedOut'
  <2>1. CASE UNCHANGED users
    BY <2>1 DEF AccountInv, AccountTyped, A!NeverLockedOut, A!Exists
  <2>2. CASE users[q.who] # None /\ users' = [users EXCEPT ![q.who] = new]
    <3>1. users[q.who] \in Ways
      BY <1>1, <2>2, RowIsAWay
    <3>2. new \in Ways
      BY <1>1, <3>1, AccountNames
         DEF A!Linked, A!Targets, A!Kinds, Ways, A!UserRow, A!NamesAssumption
    <3> QED BY <1>1, <2>2, <3>2, Stored
  <2> QED BY <1>2, <2>1, <2>2
<1> HIDE DEF q, at, new
<1>4. /\ link' \in [Identities \X A!Kinds -> A!LinkRow \cup {None}]
      /\ \A m \in Identities \X A!Kinds : link'[m] # None => link'[m] = link[m]
  BY <1>1, <1>2 DEF AccountInv, AccountTyped
<1> QED BY <1>1, <1>3, <1>4, DoneEnds, LinksGo

LEMMA AccountGoes ==
    ASSUME AccountInv, NEW a \in Identities, A!DeleteAccount(a) PROVE AccountInv'
<1>1. /\ users' = [users EXCEPT ![a] = None] /\ UNCHANGED <<otp, signing, sent, wrong>>
      /\ link' = [m \in Identities \X A!Kinds |-> IF m[1] = a THEN None ELSE link[m]]
  BY DEF A!DeleteAccount
<1>2. SomeEnd
  BY <1>1 DEF SomeEnd, AccountInv, AccountTyped
<1>3. /\ link' \in [Identities \X A!Kinds -> A!LinkRow \cup {None}]
      /\ \A m \in Identities \X A!Kinds : link'[m] # None => link'[m] = link[m]
  BY <1>1 DEF AccountInv, AccountTyped
<1>4. users' \in [Identities -> A!UserRow \cup {None}] /\ A!NeverLockedOut'
  BY <1>1 DEF AccountInv, AccountTyped, A!NeverLockedOut, A!Exists
<1> QED BY <1>1, <1>2, <1>3, <1>4, LinksGo

LEMMA LinkAges ==
    ASSUME AccountInv, NEW a \in Identities, NEW k \in A!Kinds, A!AgeLink(a, k) PROVE AccountInv'
<1> DEFINE at == <<a, k>>
<1>1. /\ link[at] # None /\ at \in Identities \X A!Kinds
      /\ link' = [link EXCEPT ![at].expired = TRUE]
      /\ UNCHANGED <<users, otp, signing, sent, wrong>>
  BY DEF A!AgeLink
<1> HIDE DEF at
<1>2. link[at] \in A!LinkRow
  BY <1>1 DEF AccountInv, AccountTyped
<1>3. /\ link'[at] = [link[at] EXCEPT !.expired = TRUE]
      /\ \A m \in Identities \X A!Kinds : m # at => link'[m] = link[m]
  BY <1>1 DEF AccountInv, AccountTyped
<1>4. /\ link'[at] \in A!LinkRow /\ link'[at].code = link[at].code
      /\ link'[at].target = link[at].target /\ link'[at].left = link[at].left
  BY <1>2, <1>3 DEF A!LinkRow
<1>5. link' \in [Identities \X A!Kinds -> A!LinkRow \cup {None}]
  BY <1>1, <1>3, <1>4 DEF AccountInv, AccountTyped
<1>6. SomeEnd
  BY <1>1 DEF SomeEnd, AccountInv, AccountTyped
<1>7. users' \in [Identities -> A!UserRow \cup {None}] /\ A!NeverLockedOut'
  BY <1>1 DEF AccountInv, AccountTyped, A!NeverLockedOut, A!Exists
<1> QED BY <1>1, <1>3, <1>4, <1>5, <1>6, <1>7, LinksGo

LEMMA AccountNext ==
    ASSUME AccountInv, [A!Next]_(A!vars) PROVE AccountInv'
<1>1. ASSUME NEW r \in Requests, A!PhoneStep(r) PROVE AccountInv'
  BY <1>1, RequestOtpBegins, OtpStored, VerifyOtpBegins, AttemptRecorded, PhoneHolderRead, PhoneEnters
     DEF A!PhoneStep
<1>2. ASSUME NEW r \in Requests, A!GoogleStep(r) PROVE AccountInv'
  BY <1>2, GoogleBegins, EmailOwnerRead, GoogleEnters DEF A!GoogleStep
<1>3. ASSUME NEW r \in Requests, A!LinkStep(r) PROVE AccountInv'
  BY <1>3, LinkBegins, FreeEnsured, ChallengePut, ChallengeRead, AttemptSpent, ConsumesAndLinks
     DEF A!LinkStep
<1>4. ASSUME NEW r \in Requests, A!OwnStep(r) PROVE AccountInv'
  BY <1>4, UnlinkBegins, Unlinks, ClaimBegins, Claims DEF A!OwnStep
<1>5. CASE UNCHANGED A!vars
  BY <1>5 DEF A!vars, AccountInv, AccountTyped, A!NeverLockedOut, A!Exists, RequestsTold,
     RequestsApart, Coded, Apart, LinksApart, Undrawn, A!GuessesAreCounted
<1> QED BY <1>1, <1>2, <1>3, <1>4, <1>5, Aborts, AccountGoes, OtpAges, LinkAges DEF A!Next

LEMMA AccountInit == A!Init => AccountInv
<1> SUFFICES ASSUME A!Init PROVE AccountInv
  OBVIOUS
<1>1. /\ users \in SignedUp /\ otp = [c \in A!Codes |-> None]
      /\ link = [m \in Identities \X A!Kinds |-> None]
      /\ signing = [r \in Requests |-> A!Idle] /\ sent = 0
      /\ wrong = [c \in A!Codes |-> 0]
  BY DEF A!Init
<1>2. /\ users \in [Identities -> A!UserRow \cup {None}]
      /\ \A a \in Identities : users[a] # None => users[a].phone # None \/ users[a].sub # None
  BY <1>1, AccountNames DEF A!SignedAssumption
<1>3. AccountTyped
  BY <1>1, <1>2, IdleIsTold, AccountNames DEF AccountTyped, A!CountsAssumption
<1>4. A!NeverLockedOut
  BY <1>2 DEF A!NeverLockedOut, A!Exists
<1>5. A!Idle.op \in Codeless
  BY IdleIsTold DEF Codeless, A!RequestOps
<1>6. RequestsTold /\ RequestsApart
  BY <1>1, <1>5, IdleIsTold, CodelessIsCoded DEF RequestsTold, RequestsApart
<1>7. LinksApart /\ Undrawn /\ A!GuessesAreCounted
  BY <1>1 DEF LinksApart, Undrawn, A!GuessesAreCounted
<1> QED BY <1>3, <1>4, <1>6, <1>7 DEF AccountInv

LEMMA SpecAccountInv == A!Spec => []AccountInv
<1>1. AccountInv /\ [A!Next]_(A!vars) => AccountInv'
  BY AccountNext
<1> QED BY <1>1, AccountInit, PTL DEF A!Spec

-----------------------------------------------------------------------------
(* Account: where an identifier comes from. *)

Ident(row, kind) ==
    IF kind = "phone" THEN row.phone ELSE IF row.verified THEN row.email ELSE None

LEMMA IdentifierIs ==
    /\ \A a, k : A!Identifier(users, a, k) = Ident(users[a], k)
    /\ \A a, k : A!Identifier(users', a, k) = Ident(users'[a], k)
    /\ \A a, k, row : A!Identifier([b \in {a} |-> row], a, k) = Ident(row, k)
BY DEF A!Identifier, Ident

\* A row that is written back has what it had, or what the writer has read.
LEMMA UpdatedIdent ==
    ASSUME AccountInv, NEW b \in Identities, NEW seen, NEW wanted, Keeps(seen, wanted),
           A!Update(b, seen, wanted), NEW k \in A!Kinds,
           \/ k = "phone"
           \/ wanted.email = seen.email /\ wanted.verified = seen.verified
    PROVE  /\ \A a \in Identities : a # b => users'[a] = users[a]
           /\ Ident(users'[b], k) \in {Ident(users[b], k), Ident(seen, k)}
<1>1. PICK held \in {seen, users[b]} :
        users' = [users EXCEPT ![b] = A!Flushed(users[b], held, wanted)]
  BY DEF A!Update, A!Store
<1>2. users[b] \in Ways
  BY RowIsAWay DEF A!Update, A!Exists
<1> DEFINE new == A!Flushed(users[b], held, wanted)
<1>3. /\ new.phone = IF wanted.phone # held.phone THEN wanted.phone ELSE users[b].phone
      /\ new.email = IF wanted.email # held.email THEN wanted.email ELSE users[b].email
      /\ new.verified = IF wanted.verified # held.verified THEN wanted.verified ELSE users[b].verified
  BY <1>2, FlushedRow DEF Ways, Keeps
<1>4. users'[b] = new /\ \A a \in Identities : a # b => users'[a] = users[a]
  BY <1>1 DEF AccountInv, AccountTyped
<1> HIDE DEF new
<1>5. /\ users[b].verified \in BOOLEAN /\ seen.verified \in BOOLEAN /\ wanted.verified \in BOOLEAN
  BY <1>2 DEF Ways, Keeps, A!UserRow
<1>6. CASE k = "phone"
  BY <1>3, <1>4, <1>6 DEF Ident, Keeps
<1>7. CASE k = "email" /\ wanted.email = seen.email /\ wanted.verified = seen.verified
  <2>1. CASE held = seen
    <3>1. new.email = users[b].email /\ new.verified = users[b].verified
      BY <1>3, <1>7, <2>1
    <3> QED BY <1>4, <1>7, <3>1 DEF Ident
  <2>2. CASE held = users[b]
    <3>1. new.email = seen.email /\ new.verified = seen.verified
      BY <1>3, <1>7, <2>2
    <3> QED BY <1>4, <1>7, <3>1 DEF Ident
  <2> QED BY <2>1, <2>2
<1> QED BY <1>4, <1>6, <1>7 DEF A!Kinds

\* What LinkedByItsOwnCode says of one step.
Attached(a, k) ==
    (/\ A!Exists(a) /\ users'[a] # None
     /\ Ident(users'[a], k) \notin {None, Ident(users[a], k)}
     /\ ~(k = "email" /\ A!ByGoogle(a)) /\ ~A!WrittenBack(a, k, Ident(users'[a], k)))
    => /\ link[<<a, k>>] # None /\ link[<<a, k>>].target = Ident(users'[a], k)
       /\ link'[<<a, k>>] = None

LEMMA EndedIsIdle ==
    ASSUME AccountInv, NEW r \in Requests, A!Done(r) PROVE signing'[r] = A!Idle
BY DEF A!Done, AccountInv, AccountTyped

\* A step that only writes the account's row back attaches nothing.
LEMMA BackAttachesNone ==
    ASSUME AccountInv, NEW r \in Requests, A!Done(r), NEW a \in Identities, NEW k \in A!Kinds,
           signing[r].op \in {"enter", "flush", "claim"},
           Keeps(signing[r].seen, signing[r].want),
           signing[r].who \in Identities,
           A!Update(signing[r].who, signing[r].seen, signing[r].want),
           \/ k = "phone"
           \/ /\ signing[r].want.email = signing[r].seen.email
              /\ signing[r].want.verified = signing[r].seen.verified
    PROVE  Attached(a, k)
<1> DEFINE q == signing[r]
<1>1. /\ a # q.who => users'[a] = users[a]
      /\ Ident(users'[q.who], k) \in {Ident(users[q.who], k), Ident(q.seen, k)}
  BY UpdatedIdent
<1>2. CASE a # q.who
  BY <1>1, <1>2 DEF Attached
<1>3. CASE a = q.who /\ Ident(users'[a], k) = Ident(users[a], k)
  BY <1>3 DEF Attached
<1>4. CASE a = q.who /\ Ident(users'[a], k) = Ident(q.seen, k)
  <2>1. A!Identifier([b \in {a} |-> signing[r].seen], a, k) = Ident(users'[a], k)
    <3>1. A!Identifier([b \in {a} |-> signing[r].seen], a, k) = Ident(signing[r].seen, k)
      BY DEF A!Identifier, Ident
    <3> QED BY <1>4, <3>1
  <2>2. signing'[r] = A!Idle /\ signing[r].who = a
    BY <1>4, EndedIsIdle
  <2>3. A!WrittenBack(a, k, Ident(users'[a], k))
    BY <2>1, <2>2, Zenon DEF A!WrittenBack
  <2> QED BY <2>3 DEF Attached
<1> QED BY <1>1, <1>2, <1>3, <1>4

\* A new row belongs to nobody yet.
LEMMA AddAttachesNone ==
    ASSUME AccountInv, NEW new, A!Add(new), NEW a \in Identities, NEW k PROVE Attached(a, k)
BY DEF A!Add, A!Store, A!Exists, Attached, AccountInv, AccountTyped

LEMMA AccountAttaches ==
    ASSUME AccountInv, A!Next, NEW a \in Identities, NEW k \in A!Kinds PROVE Attached(a, k)
<1>1. ASSUME NEW r \in Requests, A!EnterByPhone(r) PROVE Attached(a, k)
  <2>1. /\ Told(signing[r]) /\ signing[r].op = "enter" /\ A!Done(r)
        /\ signing[r] \in A!RequestRow
    BY <1>1, RequestIs DEF A!EnterByPhone, A!At
  <2>2. CASE signing[r].who = None
    BY <1>1, <2>2, AddAttachesNone DEF A!EnterByPhone
  <2>3. CASE signing[r].who # None
    <3>1. signing[r].who \in Identities /\ Keeps(signing[r].seen, signing[r].want)
          /\ signing[r].want = signing[r].seen
      BY <2>1, <2>3 DEF Told, A!RequestRow, Keeps
    <3>2. A!Update(signing[r].who, signing[r].seen, signing[r].want)
      BY <1>1, <2>3 DEF A!EnterByPhone
    <3> QED BY <2>1, <3>1, <3>2, BackAttachesNone
  <2> QED BY <2>2, <2>3
<1>2. ASSUME NEW r \in Requests, A!EnterByGoogle(r) PROVE Attached(a, k)
  <2>1. /\ Told(signing[r]) /\ signing[r].op = "flush" /\ A!Done(r)
        /\ signing[r] \in A!RequestRow
    BY <1>2, RequestIs DEF A!EnterByGoogle, A!At
  <2>2. CASE signing[r].who = None
    BY <1>2, <2>2, AddAttachesNone DEF A!EnterByGoogle
  <2>3. CASE signing[r].who # None
    <3>1. signing[r].who \in Identities /\ Keeps(signing[r].seen, signing[r].want)
      BY <2>1, <2>3 DEF Told, A!RequestRow, Keeps
    <3>2. A!Update(signing[r].who, signing[r].seen, signing[r].want)
      BY <1>2, <2>3 DEF A!EnterByGoogle
    <3>3. CASE k = "phone"
      BY <2>1, <3>1, <3>2, <3>3, BackAttachesNone
    <3>4. CASE k = "email" /\ a = signing[r].who
      <4>1. A!ByGoogle(a)
        BY <2>1, <3>4, EndedIsIdle DEF A!ByGoogle, A!At
      <4> QED BY <3>4, <4>1 DEF Attached
    <3>5. CASE a # signing[r].who
      <4>1. users'[a] = users[a]
        BY <3>1, <3>2, <3>5, UpdatedIdent DEF A!Kinds
      <4> QED BY <4>1 DEF Attached
    <3> QED BY <3>3, <3>4, <3>5 DEF A!Kinds
  <2> QED BY <2>2, <2>3
<1>3. ASSUME NEW r \in Requests, A!ClaimUsername(r) PROVE Attached(a, k)
  <2> DEFINE q == signing[r]
  <2>1. /\ Told(q) /\ q.op = "claim" /\ A!Done(r) /\ q \in A!RequestRow
    BY <1>3, RequestIs DEF A!ClaimUsername, A!At
  <2>2. q.who \in Identities /\ q.who # None /\ q.seen \in Ways
        /\ q.want = [q.seen EXCEPT !.handle = q.want.handle] /\ q.want \in A!UserRow
    BY <2>1, AccountNames DEF Told, A!NamesAssumption, A!RequestRow
  <2>3. /\ q.want.phone = q.seen.phone /\ q.want.sub = q.seen.sub
        /\ q.want.email = q.seen.email /\ q.want.verified = q.seen.verified
    BY <2>2 DEF Ways, A!UserRow
  <2>4. Keeps(q.seen, q.want)
    BY <2>2, <2>3 DEF Keeps
  <2>5. A!Update(q.who, q.seen, q.want)
    BY <1>3 DEF A!ClaimUsername
  <2> QED BY <2>1, <2>2, <2>3, <2>4, <2>5, BackAttachesNone
<1>4. ASSUME NEW r \in Requests, A!UnlinkPhone(r) \/ A!UnlinkEmail(r) PROVE Attached(a, k)
  <2> DEFINE b == signing[r].who
  <2>1. b \in Identities
    BY <1>4, RequestIs DEF A!UnlinkPhone, A!UnlinkEmail, A!At, Told
  <2>2. \/ UNCHANGED users
        \/ /\ users[b] # None
           /\ users' = [users EXCEPT ![b] = [users[b] EXCEPT !.phone = None]]
        \/ /\ users[b] # None
           /\ users' = [users EXCEPT ![b] =
                [users[b] EXCEPT !.email = None, !.verified = FALSE, !.sub = None]]
    BY <1>4 DEF A!UnlinkPhone, A!UnlinkEmail, A!Store, A!Exists
  <2>3. users[b] # None => users[b] \in A!UserRow
    BY <2>1, RowIsAWay DEF Ways
  <2> HIDE DEF b
  <2>4. users[a] # None => Ident(users'[a], k) \in {None, Ident(users[a], k)}
    <3>1. CASE a # b \/ UNCHANGED users
      <4>1. users'[a] = users[a]
        BY <2>1, <2>2, <3>1 DEF AccountInv, AccountTyped
      <4> QED BY <4>1
    <3>2. CASE /\ a = b /\ users[b] # None
               /\ users' = [users EXCEPT ![b] = [users[b] EXCEPT !.phone = None]]
      <4>1. users'[a] = [users[a] EXCEPT !.phone = None]
        BY <3>2 DEF AccountInv, AccountTyped
      <4>2. users'[a].phone = None /\ users'[a].email = users[a].email
            /\ users'[a].verified = users[a].verified
        BY <2>3, <3>2, <4>1 DEF A!UserRow
      <4> QED BY <4>2 DEF Ident
    <3>3. CASE /\ a = b /\ users[b] # None
               /\ users' = [users EXCEPT ![b] =
                    [users[b] EXCEPT !.email = None, !.verified = FALSE, !.sub = None]]
      <4>1. users'[a] = [users[a] EXCEPT !.email = None, !.verified = FALSE, !.sub = None]
        BY <3>3 DEF AccountInv, AccountTyped
      <4>2. users[a] \in A!UserRow
        BY <2>3, <3>3
      <4>3. [users[a] EXCEPT !.email = None, !.verified = FALSE, !.sub = None].phone = users[a].phone
            /\ [users[a] EXCEPT !.email = None, !.verified = FALSE, !.sub = None].verified = FALSE
        BY <4>2 DEF A!UserRow
      <4> QED BY <4>1, <4>3 DEF Ident
    <3> QED BY <2>2, <3>1, <3>2, <3>3
  <2> QED BY <2>4 DEF Attached, A!Exists
<1>5. ASSUME NEW r \in Requests, A!ConsumeAndLink(r) PROVE Attached(a, k)
  <2> DEFINE q == signing[r]
             at == <<q.who, q.kind>>
             new == A!Linked(users[q.who], q.kind, q.target)
  <2>1. /\ q.who \in Identities /\ q.kind \in A!Kinds /\ at \in Identities \X A!Kinds
        /\ \A m \in Identities \X A!Kinds : link[m] # None /\ link[m].code = q.code =>
             m = at /\ link[m].target = q.target
    BY <1>5, RequestIs DEF A!ConsumeAndLink, A!At, Told, Coded, A!RequestRow
  <2>2. \/ /\ link[at] # None /\ link[at].code = q.code /\ users[q.who] # None
           /\ link' = [link EXCEPT ![at] = None]
           /\ users' = [users EXCEPT ![q.who] = new]
        \/ UNCHANGED <<link, users>>
    BY <1>5 DEF A!ConsumeAndLink, A!Consumable, A!Exists, A!Store
  <2>3. CASE UNCHANGED <<link, users>>
    BY <2>3 DEF Attached
  <2>4. CASE /\ link[at] # None /\ link[at].code = q.code /\ users[q.who] # None
             /\ link' = [link EXCEPT ![at] = None]
             /\ users' = [users EXCEPT ![q.who] = new]
    <3>1. link[at].target = q.target /\ link'[at] = None
      BY <2>1, <2>4 DEF AccountInv, AccountTyped
    <3>2. users'[q.who] = new /\ \A b \in Identities : b # q.who => users'[b] = users[b]
      BY <2>1, <2>4 DEF AccountInv, AccountTyped
    <3>3. users[q.who] \in A!UserRow
      BY <2>1, <2>4, RowIsAWay DEF Ways
    <3>4. Ident(new, k) = IF k = q.kind THEN q.target ELSE Ident(users[q.who], k)
      BY <2>1, <3>3 DEF A!Linked, A!Kinds, A!UserRow, Ident
    <3> HIDE DEF q, new
    <3>5. CASE a = q.who /\ k = q.kind
      BY <2>4, <3>1, <3>2, <3>4, <3>5 DEF Attached
    <3>6. CASE a # q.who \/ k # q.kind
      BY <3>2, <3>4, <3>6 DEF Attached
    <3> QED BY <3>5, <3>6
  <2> QED BY <2>2, <2>3, <2>4
<1>6. ASSUME NEW b \in Identities, A!DeleteAccount(b) PROVE Attached(a, k)
  <2>1. a # b => users'[a] = users[a]
    BY <1>6 DEF A!DeleteAccount, AccountInv, AccountTyped
  <2>2. users'[b] = None
    BY <1>6 DEF A!DeleteAccount, AccountInv, AccountTyped
  <2> QED BY <2>1, <2>2 DEF Attached
<1>7. CASE UNCHANGED users
  BY <1>7 DEF Attached
<1>8. ASSUME NEW r \in Requests, A!PhoneStep(r) PROVE A!EnterByPhone(r) \/ UNCHANGED users
  <2>1. (\E p \in Phones : A!BeginRequestOtp(r, p)) \/ A!StoreOtp(r) => UNCHANGED users
    <3>1. (\E p \in Phones : A!BeginRequestOtp(r, p)) => UNCHANGED users
      BY DEF A!BeginRequestOtp
    <3>2. A!StoreOtp(r) => UNCHANGED users
      BY Zenon DEF A!StoreOtp
    <3> QED BY <3>1, <3>2
  <2>2. (\E p \in Phones, guess \in A!Codes \cup {A!WrongCode} : A!BeginVerifyOtp(r, p, guess))
          => UNCHANGED users
    BY DEF A!BeginVerifyOtp
  <2>3. A!RecordFailedAttempt(r) \/ A!ReadPhoneHolder(r) => UNCHANGED users
    BY DEF A!RecordFailedAttempt, A!ReadPhoneHolder
  <2> QED BY <1>8, <2>1, <2>2, <2>3 DEF A!PhoneStep
<1>9. ASSUME NEW r \in Requests, A!GoogleStep(r) PROVE A!EnterByGoogle(r) \/ UNCHANGED users
  <2>1. (\E s \in Subs, e \in Emails, vouched \in BOOLEAN : A!BeginGoogle(r, s, e, vouched))
          => UNCHANGED users
    BY DEF A!BeginGoogle
  <2>2. A!ReadEmailOwner(r) => UNCHANGED users
    BY DEF A!ReadEmailOwner
  <2> QED BY <1>9, <2>1, <2>2 DEF A!GoogleStep
<1>10. ASSUME NEW r \in Requests, A!LinkStep(r) PROVE A!ConsumeAndLink(r) \/ UNCHANGED users
  <2>1. (\E b \in Identities, j \in A!Kinds : \E t \in A!Targets(j) :
           A!BeginLink(r, b, j, t) \/ A!BeginVerifyLink(r, b, j, t)) => UNCHANGED users
    BY DEF A!BeginLink, A!BeginVerifyLink
  <2>2. A!EnsureFree(r) \/ A!PutChallenge(r) => UNCHANGED users
    BY DEF A!EnsureFree, A!PutChallenge
  <2>3. (\E right \in BOOLEAN : A!ReadChallenge(r, right)) \/ A!SpendAttempt(r) => UNCHANGED users
    <3>1. (\E right \in BOOLEAN : A!ReadChallenge(r, right)) => UNCHANGED users
      BY Zenon DEF A!ReadChallenge
    <3>2. A!SpendAttempt(r) => UNCHANGED users
      BY DEF A!SpendAttempt
    <3> QED BY <3>1, <3>2
  <2> QED BY <1>10, <2>1, <2>2, <2>3 DEF A!LinkStep
<1>11. ASSUME NEW r \in Requests, A!OwnStep(r)
       PROVE  A!UnlinkPhone(r) \/ A!UnlinkEmail(r) \/ A!ClaimUsername(r) \/ UNCHANGED users
  <2>1. (\E b \in Identities : A!BeginUnlink(r, b)) => UNCHANGED users
    BY DEF A!BeginUnlink, A!BeginOwn
  <2>2. (\E b \in Identities, h \in Names : A!BeginClaim(r, b, h)) => UNCHANGED users
    BY DEF A!BeginClaim, A!BeginOwn
  <2> QED BY <1>11, <2>1, <2>2 DEF A!OwnStep
<1>12. (\E r \in Requests : A!Abort(r)) \/ (\E c \in A!Codes : A!AgeOtp(c))
         \/ (\E b \in Identities, j \in A!Kinds : A!AgeLink(b, j)) => UNCHANGED users
  BY DEF A!Abort, A!AgeOtp, A!AgeLink
<1> QED BY <1>1, <1>2, <1>3, <1>4, <1>5, <1>6, <1>7, <1>8, <1>9, <1>10, <1>11, <1>12 DEF A!Next

-----------------------------------------------------------------------------
(* Feedback: the word of a verdict. *)

VerdictRow ==
    [rating : F!Ratings, reason : {None, "example"}, term : BOOLEAN, model : Models \cup {None}]

VerdictsTyped ==
    /\ shown \in Models \cup {None} /\ config \in Models
    /\ verdicts \in [Raters -> VerdictRow \cup {None}]
    /\ rating = [r \in Requests |-> rating[r]]
    /\ \A r \in Requests : rating[r].at \in {"find", "write"} =>
         rating[r].learner \in Raters /\ rating[r].verdict \in VerdictRow
    /\ \A r \in Requests : rating[r].at = "write" => rating[r].found \in VerdictRow \cup {None}

LEMMA WrittenTerm ==
    ASSUME NEW row \in VerdictRow, NEW found \in VerdictRow, NEW verdict \in VerdictRow
    PROVE  /\ F!Written(row, found, verdict) \in VerdictRow
           /\ row.term => F!Written(row, found, verdict).term
<1> DEFINE new == F!Moved(found, verdict)
           f == F!Written(row, found, verdict)
           Columns == {"rating", "reason", "term", "model"}
<1>1. new \in VerdictRow /\ new.term = (verdict.term \/ found.term)
  BY DEF F!Moved, VerdictRow
<1> HIDE DEF new
<1>2. DOMAIN row = Columns
  BY DEF VerdictRow
<1>3. f = [c \in Columns |-> IF new[c] = found[c] THEN row[c] ELSE new[c]]
  BY <1>2 DEF F!Written, new
<1>4. /\ f["rating"] = IF new.rating = found.rating THEN row.rating ELSE new.rating
      /\ f["reason"] = IF new.reason = found.reason THEN row.reason ELSE new.reason
      /\ f["term"] = IF new.term = found.term THEN row.term ELSE new.term
      /\ f["model"] = IF new.model = found.model THEN row.model ELSE new.model
  BY <1>3
<1>5. DOMAIN f = Columns /\ f = [c \in Columns |-> f[c]]
  BY <1>3
<1> HIDE DEF f
<1>6. f = [rating |-> f.rating, reason |-> f.reason, term |-> f.term, model |-> f.model]
  BY <1>5
<1>7. /\ f.rating \in F!Ratings /\ f.reason \in {None, "example"} /\ f.term \in BOOLEAN
      /\ f.model \in Models \cup {None}
  BY <1>1, <1>4 DEF VerdictRow
<1>8. f \in VerdictRow
  BY <1>6, <1>7 DEF VerdictRow
<1>9. row.term => f.term
  BY <1>1, <1>4 DEF VerdictRow
<1> QED BY <1>8, <1>9 DEF f

\* The write of a verdict, as one row and the rest of the table.
LEMMA VerdictWritten ==
    ASSUME VerdictsTyped, NEW r \in Requests, F!Commit(r), NEW l \in Raters
    PROVE  /\ verdicts'[l] \in VerdictRow \cup {None}
           /\ verdicts[l] # None /\ verdicts'[l] # None /\ verdicts[l].term => verdicts'[l].term
<1> DEFINE q == rating[r]
<1>1. /\ q.learner \in Raters /\ q.verdict \in VerdictRow /\ q.found \in VerdictRow \cup {None}
      /\ verdicts[l] \in VerdictRow \cup {None} /\ verdicts[q.learner] \in VerdictRow \cup {None}
  BY DEF F!Commit, F!At, VerdictsTyped
<1>2. CASE q.found = None /\ verdicts[q.learner] = None
  <2>1. verdicts' = [verdicts EXCEPT ![q.learner] = q.verdict]
    BY <1>2 DEF F!Commit
  <2> QED BY <1>1, <1>2, <2>1 DEF VerdictsTyped
<1>3. CASE q.found # None /\ verdicts[q.learner] # None
  <2> DEFINE new == F!Written(verdicts[q.learner], q.found, q.verdict)
  <2>1. verdicts' = [verdicts EXCEPT ![q.learner] = new]
    BY <1>3 DEF F!Commit
  <2>2. new \in VerdictRow /\ (verdicts[q.learner].term => new.term)
    BY <1>1, <1>3, WrittenTerm
  <2>3. verdicts'[l] = IF l = q.learner THEN new ELSE verdicts[l]
    BY <2>1 DEF VerdictsTyped
  <2> HIDE DEF new
  <2>4. CASE l = q.learner
    BY <2>2, <2>3, <2>4
  <2>5. CASE l # q.learner
    BY <1>1, <2>3, <2>5
  <2> QED BY <2>4, <2>5
<1>4. CASE ~(q.found = None /\ verdicts[q.learner] = None)
             /\ ~(q.found # None /\ verdicts[q.learner] # None)
  <2>1. UNCHANGED verdicts
    BY <1>4 DEF F!Commit
  <2> QED BY <1>1, <2>1
<1> QED BY <1>2, <1>3, <1>4

LEMMA VerdictsStep ==
    ASSUME VerdictsTyped, [F!Next]_(F!vars)
    PROVE  /\ VerdictsTyped'
           /\ \A l \in Raters : verdicts[l] # None /\ verdicts'[l] # None /\ verdicts[l].term =>
                                  verdicts'[l].term
<1> DEFINE Kept ==
      \A l \in Raters : verdicts[l] # None /\ verdicts'[l] # None /\ verdicts[l].term =>
                          verdicts'[l].term
<1>1. ASSUME UNCHANGED <<verdicts, rating>>, shown' \in Models \cup {None}, config' \in Models
      PROVE  VerdictsTyped' /\ Kept
  BY <1>1 DEF VerdictsTyped
<1>2. CASE F!LookUp \/ F!Cache \/ F!Sweep \/ UNCHANGED F!vars
  BY <1>1, <1>2 DEF F!LookUp, F!Cache, F!Sweep, F!vars, VerdictsTyped
<1>3. ASSUME NEW model \in Models, F!Deploy(model) PROVE VerdictsTyped' /\ Kept
  BY <1>1, <1>3 DEF F!Deploy, VerdictsTyped
<1>4. ASSUME NEW r \in Requests, NEW l \in Raters, NEW thumb \in F!Ratings,
             NEW reason \in {None, "example"}, F!Begin(r, l, thumb, reason)
      PROVE  VerdictsTyped' /\ Kept
  <2> DEFINE verdict == F!Verdict(thumb, reason)
             row == [at |-> "find", learner |-> l, verdict |-> verdict]
  <2>1. verdict \in VerdictRow
    BY DEF F!Verdict, VerdictRow, VerdictsTyped
  <2> HIDE DEF verdict
  <2>2. row.at = "find" /\ row.learner \in Raters /\ row.verdict \in VerdictRow
    BY <2>1
  <2>3. rating' = [rating EXCEPT ![r] = row] /\ UNCHANGED <<shown, config, verdicts>>
    BY <1>4 DEF F!Begin, verdict
  <2> HIDE DEF row
  <2>4. \A q \in Requests : rating'[q] = IF q = r THEN row ELSE rating[q]
    BY <2>3 DEF VerdictsTyped
  <2>5. rating' = [q \in Requests |-> rating'[q]]
    BY <2>3 DEF VerdictsTyped
  <2> QED BY <2>2, <2>3, <2>4, <2>5 DEF VerdictsTyped
<1>5. ASSUME NEW r \in Requests, F!Find(r) PROVE VerdictsTyped' /\ Kept
  <2> DEFINE q == rating[r]
             row == [at |-> "write", learner |-> q.learner, verdict |-> q.verdict,
                     found |-> verdicts[q.learner]]
  <2>1. /\ row.at = "write" /\ row.learner \in Raters /\ row.verdict \in VerdictRow
        /\ row.found \in VerdictRow \cup {None}
    BY <1>5 DEF F!Find, F!At, VerdictsTyped
  <2>2. rating' = [rating EXCEPT ![r] = row] /\ UNCHANGED <<shown, config, verdicts>>
    BY <1>5 DEF F!Find, VerdictsTyped
  <2> HIDE DEF row
  <2>4. \A p \in Requests : rating'[p] = IF p = r THEN row ELSE rating[p]
    BY <2>2 DEF VerdictsTyped
  <2>5. rating' = [p \in Requests |-> rating'[p]]
    BY <2>2 DEF VerdictsTyped
  <2> QED BY <2>1, <2>2, <2>4, <2>5 DEF VerdictsTyped
<1>6. ASSUME NEW r \in Requests, F!Commit(r) PROVE VerdictsTyped' /\ Kept
  <2>1. \A l \in Raters : /\ verdicts'[l] \in VerdictRow \cup {None}
                          /\ verdicts[l] # None /\ verdicts'[l] # None /\ verdicts[l].term =>
                               verdicts'[l].term
    BY <1>6, VerdictWritten
  <2>2. verdicts' = [l \in Raters |-> verdicts'[l]]
    BY <1>6 DEF F!Commit, VerdictsTyped
  <2>3. rating' = [rating EXCEPT ![r] = F!Idle] /\ UNCHANGED <<shown, config>>
    BY <1>6 DEF F!Commit, F!Ended
  <2>4. /\ \A p \in Requests : rating'[p] = IF p = r THEN F!Idle ELSE rating[p]
        /\ rating' = [p \in Requests |-> rating'[p]]
    BY <2>3 DEF VerdictsTyped
  <2>5. F!Idle.at = "idle"
    BY DEF F!Idle
  <2>6. VerdictsTyped'
    BY <2>1, <2>2, <2>3, <2>4, <2>5 DEF VerdictsTyped
  <2> QED BY <2>1, <2>6
<1>7. ASSUME NEW l \in Raters, F!Withdraw(l) PROVE VerdictsTyped' /\ Kept
  <2>1. verdicts' = [verdicts EXCEPT ![l] = None] /\ UNCHANGED <<shown, config, rating>>
    BY <1>7 DEF F!Withdraw
  <2>2. /\ verdicts' \in [Raters -> VerdictRow \cup {None}]
        /\ \A k \in Raters : verdicts'[k] = IF k = l THEN None ELSE verdicts[k]
    BY <2>1 DEF VerdictsTyped
  <2> QED BY <2>1, <2>2 DEF VerdictsTyped
<1> QED BY <1>2, <1>3, <1>4, <1>5, <1>6, <1>7 DEF F!Next

LEMMA VerdictsInit == F!Init => VerdictsTyped
BY DEF F!Init, F!Idle, VerdictsTyped

\* rate_ai_sense: whichever of a learner's requests comes last, the word that a
\* standing verdict is about stays known.
THEOREM SpecTermKept == F!Spec => F!TermKept
<1> DEFINE Kept ==
      \A l \in Raters : verdicts[l] # None /\ verdicts'[l] # None /\ verdicts[l].term =>
                          verdicts'[l].term
<1>1. VerdictsTyped /\ [F!Next]_(F!vars) => VerdictsTyped' /\ Kept
  BY VerdictsStep
<1> HIDE DEF Kept
<1>2. F!Spec => [][Kept]_(F!vars)
  BY <1>1, VerdictsInit, PTL DEF F!Spec
<1> QED BY <1>2 DEF F!TermKept, Kept
-----------------------------------------------------------------------------
(* Friends and Sharing: what nobody else can do. *)

LinksShaped == links = [row \in Pairs |-> links[row]]
Consent == LinksShaped /\ NothingJoinsUnasked

\* What ends a friendship: taking the friend off the list, or an account that goes.
FriendshipEnds(u, f) ==
    \/ ~({u, f} \subseteq accounts')
    \/ \E r \in Requests : At(r, "removing") /\ <<u, f>> \in request[r].rows /\ request'[r] = Idle

\* What a step may do to the row of u about f.
LawfulStep(u, f) ==
    LET row == <<u, f>>
    IN  /\ links'[row] = "friends" => links[row] = "friends" \/ row \in said' \/ <<f, u>> \in said'
        /\ links[row] = "friends" => links'[row] = "friends" \/ FriendshipEnds(u, f)

Lawful ==
    /\ LinksShaped' /\ said \subseteq said'
    /\ \A u, f \in Users : LawfulStep(u, f)

LEMMA LinkedIs ==
    ASSUME LinksShaped, NEW u, NEW f, links' = Linked(links, u, f), said' = said \cup {<<u, f>>}
    PROVE  Lawful
<1>1. \A row \in Pairs : links'[row] = IF row = <<u, f>> THEN "friends" ELSE links[row]
  BY DEF Linked, LinksShaped
<1>2. LinksShaped'
  BY DEF Linked, LinksShaped
<1>3. \A v, g \in Users : <<v, g>> \in Pairs
  BY DEF Pairs
<1> QED BY <1>1, <1>2, <1>3 DEF Lawful, LawfulStep

LEMMA LinksStand == ASSUME LinksShaped, UNCHANGED <<links, said>> PROVE Lawful
BY DEF Lawful, LawfulStep, LinksShaped

LEMMA FriendsLawful ==
    ASSUME NoneAssumption, RequestsSound, LinksShaped, FriendsNext PROVE Lawful
<1>0. None # "friends" /\ \A v, g \in Users : <<v, g>> \in Pairs
  BY DEF NoneAssumption, Pairs
<1>1. ASSUME NEW u \in Users, NEW f \in Users, Add(u, f) PROVE Lawful
  <2>1. links' = [links EXCEPT ![<<u, f>>] = IF links[<<u, f>>] = None THEN "asked" ELSE links[<<u, f>>]]
        /\ said' = said
    BY <1>1 DEF Add, Requested
  <2>2. LinksShaped' /\ \A row \in Pairs : links'[row] = links[row]
                                             \/ (links[row] = None /\ links'[row] = "asked")
    BY <2>1 DEF LinksShaped
  <2> QED BY <1>0, <2>1, <2>2 DEF Lawful, LawfulStep
<1>2. ASSUME NEW u, NEW f, links' = Cancelled(u, f), said' = said PROVE Lawful
  <2>1. links' = [links EXCEPT ![<<u, f>>] = IF links[<<u, f>>] = "asked" THEN None ELSE links[<<u, f>>]]
    BY <1>2 DEF Cancelled
  <2>2. LinksShaped' /\ \A row \in Pairs : links'[row] = links[row]
                                             \/ (links[row] = "asked" /\ links'[row] = None)
    BY <2>1 DEF LinksShaped
  <2> QED BY <1>0, <1>2, <2>2 DEF Lawful, LawfulStep
<1>3. ASSUME NEW u \in Users, NEW f \in Users, Decline(u, f) \/ Cancel(u, f) PROVE Lawful
  <2>1. (links' = Cancelled(f, u) \/ links' = Cancelled(u, f)) /\ said' = said
    BY <1>3 DEF Decline, Cancel
  <2> QED BY <1>2, <2>1
<1>4. ASSUME NEW r \in Requests, NEW u \in Users, NEW f \in Users,
             Accept(r, u, f) \/ BeginRemove(r, u, f)
      PROVE  Lawful
  <2>1. UNCHANGED <<links, said>>
    BY <1>4 DEF Accept, BeginRemove
  <2> QED BY <2>1, LinksStand
<1>5. ASSUME NEW r \in Requests, LinkBack(r) PROVE Lawful
  <2>1. PICK u, f : links' = Linked(Linked(links, f, u), u, f) /\ said' = said \cup {<<u, f>>}
    BY <1>5 DEF LinkBack
  <2>2. links' = [[links EXCEPT ![<<f, u>>] = "friends"] EXCEPT ![<<u, f>>] = "friends"]
    BY <2>1 DEF Linked
  <2>3. LinksShaped' /\ \A row \in Pairs :
          links'[row] = IF row = <<u, f>> \/ row = <<f, u>> THEN "friends" ELSE links[row]
    BY <2>2 DEF LinksShaped
  <2> QED BY <1>0, <2>1, <2>3 DEF Lawful, LawfulStep
<1>6. ASSUME NEW r \in Requests, Remove(r) PROVE Lawful
  <2>1. /\ links' = [row \in Pairs |-> IF row \in request[r].rows THEN None ELSE links[row]]
        /\ said' = said
    BY <1>6 DEF Remove
  <2>2. At(r, "removing") /\ request'[r] = Idle
    BY <1>6 DEF Remove, Done, RequestsSound
  <2>3. \A v, g \in Users : <<v, g>> \in request[r].rows => FriendshipEnds(v, g)
    BY <2>2 DEF FriendshipEnds
  <2>4. \A row \in Pairs : links'[row] = IF row \in request[r].rows THEN None ELSE links[row]
    BY <2>1
  <2>5. LinksShaped'
    BY <2>1 DEF LinksShaped
  <2> QED BY <1>0, <2>1, <2>3, <2>4, <2>5 DEF Lawful, LawfulStep
<1>7. ASSUME NEW r \in Requests, Abort(r) PROVE Lawful
  <2>1. UNCHANGED <<links, said>>
    BY <1>7 DEF Abort
  <2> QED BY <2>1, LinksStand
<1> QED BY <1>1, <1>3, <1>4, <1>5, <1>6, <1>7 DEF FriendsNext

LEMMA ErasedLawful ==
    ASSUME NoneAssumption, LinksShaped, NEW gone, NEW persons, Erased(gone, persons) PROVE Lawful
<1>1. /\ links' = [p \in Pairs |-> IF p[1] \in persons \/ p[2] \in persons THEN None ELSE links[p]]
      /\ accounts' = accounts \ persons /\ said' = said
  BY DEF Erased
<1>2. LinksShaped'
  BY <1>1 DEF LinksShaped
<1>3. ASSUME NEW u \in Users, NEW f \in Users PROVE LawfulStep(u, f)
  <2>1. links'[<<u, f>>] = IF u \in persons \/ f \in persons THEN None ELSE links[<<u, f>>]
    BY <1>1 DEF Pairs
  <2>2. u \in persons \/ f \in persons => FriendshipEnds(u, f)
    BY <1>1 DEF FriendshipEnds
  <2> QED BY <2>1, <2>2 DEF NoneAssumption, LawfulStep
<1> QED BY <1>1, <1>2, <1>3 DEF Lawful

LEMMA NextLawful ==
    ASSUME SharingAssumption, IInv, LinksShaped, [Next]_vars PROVE Lawful
<1>0. NoneAssumption /\ RequestsSound
  BY DEF SharingAssumption, IInv
<1>1. ASSUME NEW r \in Requests, Commit(r) PROVE Lawful
  <2>1. CASE AddMember(r) \/ ChangeRole(r) \/ RemoveMember(r) \/ PutInvite(r) \/ DeclineShare(r)
                \/ Import(r)
    <3>1. UNCHANGED <<links, said>>
      BY <2>1 DEF AddMember, ChangeRole, RemoveMember, OnlyMembers, PutInvite, DeclineShare, Import
    <3> QED BY <3>1, LinksStand
  <2>2. CASE Share(r)
    <3>1. PICK u, f : links' = Linked(links, u, f) /\ said' = said \cup {<<u, f>>}
      BY <2>2 DEF Share
    <3> QED BY <3>1, LinkedIs
  <2>3. CASE AcceptShare(r)
    <3>1. \/ UNCHANGED <<links, said>>
          \/ \E u, f : links' = Linked(links, u, f) /\ said' = said \cup {<<u, f>>}
      BY <2>3 DEF AcceptShare
    <3> QED BY <3>1, LinkedIs, LinksStand
  <2>4. CASE Delete(r) \/ DeleteAccount(r)
    <3>1. \E gone, persons : Erased(gone, persons)
      BY <2>4 DEF Delete, DeleteAccount
    <3> QED BY <1>0, <3>1, ErasedLawful
  <2> QED BY <1>1, <2>1, <2>2, <2>3, <2>4 DEF Commit
<1>2. ASSUME NEW r \in Requests, NEW d \in Decks, NEW u \in Users, Member(r, d, u) \/ Owner(r, d, u)
      PROVE  Lawful
  <2>1. UNCHANGED <<links, said>>
    BY <1>2 DEF Member, Owner, BeginJoin, BeginLeave, BeginImport, BeginAnswer, BeginCloseInvite,
       BeginDelete, BeginOpenInvite, BeginRemoveMember, BeginAddMember, BeginChangeRole, BeginShare,
       OnlyReads
  <2> QED BY <2>1, LinksStand
<1>3. ASSUME NEW r \in Requests, NEW u \in Users, BeginDeleteAccount(r, u) PROVE Lawful
  BY <1>3, LinksStand DEF BeginDeleteAccount, OnlyReads
<1>4. ASSUME NEW d \in Decks, NEW public \in BOOLEAN, SetPublished(d, public) PROVE Lawful
  BY <1>4, LinksStand DEF SetPublished
<1>5. ASSUME NEW u \in Users, Create(u) PROVE Lawful
  BY <1>5, LinksStand DEF Create
<1>6. CASE UNCHANGED vars
  BY <1>6, LinksStand DEF vars, friendVars
<1> QED BY <1>0, <1>1, <1>2, <1>3, <1>4, <1>5, <1>6, FriendsLawful DEF Next

\* FriendService.add asks: nobody joins a list until one of the two has agreed,
\* or the holder of the list has sent the other a deck.
THEOREM SpecNothingJoinsUnasked ==
    ASSUME SharingAssumption PROVE Spec => []NothingJoinsUnasked
<1>1. Init => Consent
  <2>1. ASSUME Init PROVE links = [row \in Pairs |-> None]
    BY <2>1 DEF Init, FriendsInit
  <2>2. None # "friends" /\ \A v, g \in Users : <<v, g>> \in Pairs
    BY DEF SharingAssumption, NoneAssumption, Pairs
  <2> QED BY <2>1, <2>2 DEF Consent, LinksShaped, NothingJoinsUnasked, ListForUser
<1>2. IInv /\ Consent /\ [Next]_vars => Consent'
  <2> SUFFICES ASSUME IInv, Consent, [Next]_vars PROVE Consent'
    OBVIOUS
  <2>1. Lawful
    BY NextLawful DEF Consent
  <2>2. ASSUME NEW u \in Users, NEW f \in Users, links'[<<u, f>>] = "friends"
        PROVE  <<u, f>> \in said' \/ <<f, u>> \in said'
    <3>1. links[<<u, f>>] = "friends" => <<u, f>> \in said \/ <<f, u>> \in said
      BY DEF Consent, NothingJoinsUnasked, ListForUser
    <3> QED BY <2>1, <2>2, <3>1 DEF Lawful, LawfulStep
  <2> QED BY <2>1, <2>2 DEF Lawful, Consent, NothingJoinsUnasked, ListForUser
<1>3. Consent => NothingJoinsUnasked
  BY DEF Consent
<1> QED BY <1>1, <1>2, <1>3, SpecIInv, PTL DEF Spec

LEMMA SpecLinksShaped ==
    ASSUME SharingAssumption PROVE Spec => []LinksShaped
<1>1. Init => LinksShaped
  BY DEF Init, FriendsInit, LinksShaped
<1>2. IInv /\ LinksShaped /\ [Next]_vars => LinksShaped'
  BY NextLawful DEF Lawful
<1> QED BY <1>1, <1>2, SpecIInv, PTL DEF Spec

\* A friendship ends when somebody removes the friend or an account goes, and
\* not by a request that is taken back or asked again from a list a poll behind.
THEOREM SpecFriendshipKept ==
    ASSUME SharingAssumption PROVE Spec => FriendshipKept
<1> DEFINE Kept ==
      \A u, f \in Users :
        f \in ListForUser(u) /\ ~(f \in ListForUser(u))' =>
            \/ ~({u, f} \subseteq accounts')
            \/ \E r \in Requests :
                 At(r, "removing") /\ <<u, f>> \in request[r].rows /\ request'[r] = Idle
<1>1. IInv /\ LinksShaped /\ [Next]_vars => [Kept]_links
  <2>1. ASSUME IInv, LinksShaped, [Next]_vars PROVE Kept
    BY <2>1, NextLawful DEF Lawful, LawfulStep, FriendshipEnds, ListForUser
  <2> QED BY <2>1
<1>2. Spec => [][Kept]_links
  BY <1>1, SpecIInv, SpecLinksShaped, PTL DEF Spec
<1> QED BY <1>2 DEF FriendshipKept

LEMMA CodeSteps ==
    ASSUME SharingAssumption, IInv, [Next]_vars, NEW d \in Decks,
           invites[d] # None, invites'[d] # None
    PROVE  invites'[d].code = invites[d].code
<1>1. ASSUME NEW r \in Requests, PutInvite(r) PROVE invites'[d].code = invites[d].code
  <2>1. invites' = [invites EXCEPT ![request[r].deck] =
        [code |-> IF invites[request[r].deck] = None THEN request[r].code
                  ELSE invites[request[r].deck].code,
         role |-> request[r].role, open |-> request[r].open]]
    BY <1>1 DEF PutInvite, Upsert
  <2>2. invites = [e \in Decks |-> invites[e]]
    BY DEF IInv, State, Shape
  <2> QED BY <2>1, <2>2
<1>2. ASSUME NEW gone, NEW persons, Erased(gone, persons) PROVE invites'[d] = invites[d]
  <2>1. invites' = [e \in Decks |-> IF e \in gone THEN None ELSE invites[e]]
    BY <1>2 DEF Erased
  <2> QED BY <2>1
<1>3. ASSUME NEW r \in Requests, Commit(r) PROVE invites'[d].code = invites[d].code
  <2>1. CASE AddMember(r) \/ ChangeRole(r) \/ RemoveMember(r) \/ DeclineShare(r) \/ Import(r)
               \/ Share(r) \/ AcceptShare(r)
    BY <2>1 DEF AddMember, ChangeRole, RemoveMember, OnlyMembers, Share, AcceptShare, DeclineShare,
       Import
  <2>2. CASE Delete(r) \/ DeleteAccount(r)
    BY <1>2, <2>2 DEF Delete, DeleteAccount
  <2> QED BY <1>1, <1>3, <2>1, <2>2 DEF Commit
<1>4. ASSUME NEW r \in Requests, NEW e \in Decks, NEW u \in Users, Member(r, e, u) \/ Owner(r, e, u)
      PROVE  UNCHANGED invites
  BY <1>4 DEF Member, Owner, BeginJoin, BeginLeave, BeginImport, BeginAnswer, BeginCloseInvite,
     BeginDelete, BeginOpenInvite, BeginRemoveMember, BeginAddMember, BeginChangeRole, BeginShare,
     OnlyReads, deckVars
<1>5. ASSUME NEW r \in Requests, NEW u \in Users, BeginDeleteAccount(r, u) PROVE UNCHANGED invites
  BY <1>5 DEF BeginDeleteAccount, OnlyReads, deckVars
<1>6. ASSUME NEW e \in Decks, NEW public \in BOOLEAN, SetPublished(e, public) PROVE UNCHANGED invites
  BY <1>6 DEF SetPublished
<1>7. ASSUME NEW u \in Users, Create(u) PROVE UNCHANGED invites
  BY <1>7 DEF Create
<1>8. CASE UNCHANGED vars \/ (FriendsNext /\ UNCHANGED deckVars)
  BY <1>8 DEF vars, deckVars
<1> QED BY <1>3, <1>4, <1>5, <1>6, <1>7, <1>8 DEF Next

\* DeckInviteRepository.upsert: opening a link again reuses its row, so the code
\* that has been handed out keeps working.
THEOREM SpecCodeKept ==
    ASSUME SharingAssumption PROVE Spec => CodeKept
<1> DEFINE Kept ==
      \A d \in Decks :
        invites[d] # None /\ invites'[d] # None => invites'[d].code = invites[d].code
<1>1. IInv /\ [Next]_vars => [Kept]_invites
  BY CodeSteps
<1>2. Spec => [][Kept]_invites
  BY <1>1, SpecIInv, PTL DEF Spec
<1> QED BY <1>2 DEF CodeKept

\* An identifier that the account did not have when the writer read it is
\* attached only by the code that was sent to that very identifier, which is
\* gone with it (LinkRepository, AccountLinkingService).
THEOREM SpecLinkedByItsOwnCode == A!Spec => A!LinkedByItsOwnCode
<1> DEFINE OwnCode ==
      \A a \in Identities, k \in A!Kinds :
        LET new == A!Identifier(users', a, k) IN
        (/\ A!Exists(a) /\ users'[a] # None
         /\ new \notin {None, A!Identifier(users, a, k)}
         /\ ~(k = "email" /\ A!ByGoogle(a)) /\ ~A!WrittenBack(a, k, new))
        => /\ link[<<a, k>>] # None /\ link[<<a, k>>].target = new
           /\ link'[<<a, k>>] = None
<1>1. AccountInv /\ [A!Next]_(A!vars) => [OwnCode]_(A!vars)
  <2>1. ASSUME AccountInv, A!Next PROVE OwnCode
    <3> SUFFICES ASSUME NEW a \in Identities, NEW k \in A!Kinds
                 PROVE  LET new == A!Identifier(users', a, k) IN
                        (/\ A!Exists(a) /\ users'[a] # None
                         /\ new \notin {None, A!Identifier(users, a, k)}
                         /\ ~(k = "email" /\ A!ByGoogle(a)) /\ ~A!WrittenBack(a, k, new))
                        => /\ link[<<a, k>>] # None /\ link[<<a, k>>].target = new
                           /\ link'[<<a, k>>] = None
      OBVIOUS
    <3>1. Attached(a, k)
      BY <2>1, AccountAttaches
    <3>2. A!Identifier(users', a, k) = Ident(users'[a], k) /\ A!Identifier(users, a, k) = Ident(users[a], k)
      BY IdentifierIs
    <3> QED BY <3>1, <3>2 DEF Attached
  <2> QED BY <2>1
<1>2. A!Spec => [][OwnCode]_(A!vars)
  BY <1>1, SpecAccountInv, PTL DEF A!Spec
<1> QED BY <1>2 DEF A!LinkedByItsOwnCode

-----------------------------------------------------------------------------
(* The behaviours that the runs are about: of one part, the others still. *)

LEMMA SceneSteps ==
    MCSpec => A!Spec /\ Spec /\ F!Spec
<1>1. MCInit => A!Init /\ Init /\ F!Init
  BY DEF MCInit
<1>2. [MCNext]_<<scene, accountVars, vars, schemaVars, ratingVars>> =>
        [A!Next]_(A!vars) /\ [Next]_vars /\ [F!Next]_(F!vars)
  BY DEF MCNext, accountVars, ratingVars, A!vars, F!vars
<1> QED BY <1>1, <1>2, PTL DEF MCSpec, A!Spec, Spec, F!Spec

LEMMA SharingHolds == SharingAssumption
BY PartsAssumption

\* DeckRole and increment_saves: a deck has one owner and its counter loses no
\* copy, whatever is asked for and whoever goes meanwhile.
THEOREM RowsStayAgreed == MCSpec => []RowsAgree
BY SceneSteps, SharingHolds, SpecRowsAgree, PTL

\* Nobody is listed unasked, loses a friend, a role or a link's code by what
\* somebody else does.
THEOREM ConsentStaysKept == MCSpec => ConsentKept
<1>1. NothingJoinsUnasked => (scene = "decks" => NothingJoinsUnasked)
  OBVIOUS
<1>2. MCSpec => [](scene = "decks" => NothingJoinsUnasked)
  BY <1>1, SceneSteps, SharingHolds, SpecNothingJoinsUnasked, PTL
<1> QED BY <1>2, SceneSteps, SharingHolds, SpecCodeKept, SpecRoleKept, SpecFriendshipKept, PTL
        DEF ConsentKept

\* Nobody is locked out of their account, every wrong guess at a code counts,
\* and an identifier is attached by its own code.
THEOREM AccountsStayHeld == MCSpec => AccountsHold
<1>1. AccountInv => (scene = "accounts" => A!NeverLockedOut /\ A!GuessesAreCounted)
  BY DEF AccountInv
<1>2. MCSpec => [](scene = "accounts" => A!NeverLockedOut /\ A!GuessesAreCounted)
  BY <1>1, SceneSteps, SpecAccountInv, PTL
<1> QED BY <1>2, SceneSteps, SpecLinkedByItsOwnCode, PTL DEF AccountsHold

\* rate_ai_sense: the word that a standing verdict is about stays known.
THEOREM TermsStayKept == MCSpec => TermKept
BY SceneSteps, SpecTermKept, PTL DEF TermKept
=============================================================================
