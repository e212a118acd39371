-------------------------------- MODULE Office --------------------------------
(* The people and the stores of one tenant and the places its plan has for    *)
(* them: invitations (modules/invitations/tenant-invitation.service.ts),       *)
(* memberships (user.service.ts), stores (store.service.ts) and the quotas     *)
(* (TenantQuotaService).                                                      *)
(*                                                                            *)
(* A request is one READ COMMITTED transaction: what it reads first may be old *)
(* when it writes, and its advisory locks last to its end.                     *)
EXTENDS Naturals, Sequences, FiniteSets

CONSTANTS
    People,     \* addresses that can be invited, the owner's among them
    Owner,      \* who registered the tenant
    Shops,      \* stores that may be created
    NoShop,     \* no primary store
    Desks,      \* requests in flight
    MaxStores,  \* the stores of the plan
    Days,       \* what a behaviour is about: its operations (ops) and how many
                \* people the plan of the tenant allows (seats)
    Aside,      \* those that run beside another one
    MaxLetters  \* bound on the invitations posted

ASSUME OfficeAssumption ==
    /\ Owner \in People /\ NoShop \notin Shops
    /\ IsFiniteSet(People) /\ IsFiniteSet(Shops)
    /\ (\A d \in Days : d.seats \in Nat) /\ MaxStores \in Nat /\ MaxLetters \in Nat

Roles == {"OWNER", "ADMIN", "SELLER"}

\* membershipRoleRank.
Rank == [OWNER |-> 50, ADMIN |-> 40, SELLER |-> 20]

VARIABLES
    day,        \* the day of this behaviour
    member,     \* table TenantMembership: status and role of a person
    letters,    \* table TenantInvitation
    posted,     \* how many letters were posted: a letter's token
    shop,       \* table Store
    mainShop,   \* Tenant.primaryStoreId
    works,      \* table UserStoreAssignment of type PRIMARY
    desk        \* requests in flight

officeVars == <<day, member, letters, posted, shop, mainShop, works, desk>>

NoMember == [status |-> "NONE", role |-> "SELLER"]
FreeDesk == [op |-> "none"]

OfficeInit ==
    /\ day \in Days
    /\ member = [p \in People |-> IF p = Owner THEN [status |-> "ACTIVE", role |-> "OWNER"] ELSE NoMember]
    /\ letters = <<>>
    /\ posted = 0
    /\ shop = [s \in Shops |-> "NONE"]
    /\ mainShop = NoShop
    /\ works = {}
    /\ desk = [d \in Desks |-> FreeDesk]

ActiveMember(p) == member[p].status = "ACTIVE"
At(d, ops) == desk[d].op \in ops
Waiting(i) == letters[i].status = "PENDING"

\* A request that starts; not every operation is tried beside another.
Sit(d, rec) ==
    /\ desk[d] = FreeDesk /\ rec.op \in day.ops
    /\ \A e \in Desks : desk[e] = FreeDesk \/ {rec.op, desk[e].op} \subseteq Aside
    /\ desk' = [desk EXCEPT ![d] = rec]
    /\ UNCHANGED <<day, member, letters, posted, shop, mainShop, works>>

Leave(d) == desk' = [desk EXCEPT ![d] = FreeDesk]
Turned(d) == Leave(d) /\ UNCHANGED <<day, member, letters, posted, shop, mainShop, works>>

-----------------------------------------------------------------------------
(* Quotas: TenantQuotaService.lock() and assertAvailable().                   *)

\* The advisory lock of the people of the tenant, or of its stores.
LockFree(d, ops) == \A e \in Desks \ {d} : ~(At(e, ops) /\ desk[e].stage = "counted")

ActiveMembers == {p \in People : ActiveMember(p)}
Invited == {i \in DOMAIN letters : Waiting(i) /\ ~letters[i].late}
ActiveShops == {s \in Shops : shop[s] = "ACTIVE"}

\* A mutant: the place that is asked for is not counted.
PlaceIfNotOver(used, limit) == used <= limit

Place(used, limit) == used + 1 <= limit

-----------------------------------------------------------------------------
(* Invitations.                                                               *)

\* assertCanInvite(), assertCanAssignInvitationRole().
MayInvite(role, given) == role \in {"OWNER", "ADMIN"} /\ (given = "ADMIN" => role = "OWNER")

\* One request for a recipient at a time.  A mutant: without that lock.
AloneUnlocked(d, p) == TRUE

Alone(d, p) == \A e \in Desks \ {d} : ~(At(e, {"invite"}) /\ desk[e].to = p)

Invite(d, actor, p, role) ==
    /\ ActiveMember(actor) /\ MayInvite(member[actor].role, role)
    /\ Alone(d, p)
    /\ Sit(d, [op |-> "invite", by |-> actor, as |-> member[actor].role, to |-> p, role |-> role,
               stage |-> "read", used |-> 0, old |-> 0])

\* The inviter is read again; members are refused; the place of a letter that
\* is pending is taken again, any other waits for the lock and is counted.
PendingFor(p) == {i \in DOMAIN letters : letters[i].to = p /\ Waiting(i) /\ ~letters[i].late}

CountMembers(d) ==
    /\ At(d, {"invite"}) /\ desk[d].stage = "read"
    /\ LET r == desk[d]
           good == /\ ActiveMember(r.by) /\ member[r.by].role = r.as
                   /\ member[r.to].status = "NONE"
       IN  \/ ~good /\ Turned(d)
           \/ /\ good /\ PendingFor(r.to) # {}
              /\ desk' = [desk EXCEPT ![d].stage = "again",
                                      ![d].old = CHOOSE i \in PendingFor(r.to) : TRUE]
              /\ UNCHANGED <<day, member, letters, posted, shop, mainShop, works>>
           \/ /\ good /\ PendingFor(r.to) = {} /\ LockFree(d, {"invite"})
              /\ desk' = [desk EXCEPT ![d].stage = "counted", ![d].used = Cardinality(ActiveMembers)]
              /\ UNCHANGED <<day, member, letters, posted, shop, mainShop, works>>

\* The letters of the recipient that are overdue expire in the same request.
Expired(p) == [i \in DOMAIN letters |->
    IF letters[i].to = p /\ Waiting(i) /\ letters[i].late THEN [letters[i] EXCEPT !.status = "EXPIRED"]
    ELSE letters[i]]

SendLetter(d) ==
    /\ At(d, {"invite"}) /\ desk[d].stage = "counted"
    /\ LET r == desk[d]
       IN  \/ /\ ~Place(r.used + Cardinality(Invited), day.seats)
              /\ letters' = Expired(r.to)
              /\ UNCHANGED posted
           \/ /\ Place(r.used + Cardinality(Invited), day.seats)
              /\ posted' = posted + 1
              /\ letters' = Append(Expired(r.to), [to |-> r.to, role |-> r.role, status |-> "PENDING",
                                                  token |-> posted + 1, late |-> FALSE])
    /\ Leave(d)
    /\ UNCHANGED <<day, member, shop, mainShop, works>>

\* The row is written whatever became of it since.
SendAgain(d) ==
    /\ At(d, {"invite"}) /\ desk[d].stage = "again"
    /\ posted' = posted + 1
    /\ letters' = [letters EXCEPT ![desk[d].old].role = desk[d].role,
                                  ![desk[d].old].token = posted + 1, ![desk[d].old].late = FALSE]
    /\ Leave(d)
    /\ UNCHANGED <<day, member, shop, mainShop, works>>

GoesLate(i) ==
    /\ i \in DOMAIN letters /\ Waiting(i) /\ ~letters[i].late
    /\ letters' = [letters EXCEPT ![i].late = TRUE]
    /\ UNCHANGED <<day, member, posted, shop, mainShop, works, desk>>

\* list(), inspect(): what is overdue is marked.
Expire(i) ==
    /\ i \in DOMAIN letters /\ Waiting(i) /\ letters[i].late
    /\ letters' = [letters EXCEPT ![i].status = "EXPIRED"]
    /\ UNCHANGED <<day, member, posted, shop, mainShop, works, desk>>

Revoke(i) ==
    /\ i \in DOMAIN letters /\ Waiting(i)
    /\ letters' = [letters EXCEPT ![i].status = "REVOKED"]
    /\ UNCHANGED <<day, member, posted, shop, mainShop, works, desk>>

\* accept() of a token that is pending and not overdue, one request for a token
\* at a time; an inactive membership is refused.
Accept(d, i) ==
    /\ i \in DOMAIN letters /\ Waiting(i) /\ ~letters[i].late
    /\ member[letters[i].to].status # "INACTIVE"
    /\ \A e \in Desks : ~(At(e, {"accept"}) /\ desk[e].letter = i /\ desk[e].token = letters[i].token)
    /\ Sit(d, [op |-> "accept", letter |-> i, token |-> letters[i].token, role |-> letters[i].role,
               joined |-> ActiveMember(letters[i].to), stage |-> "read"])

\* The letter is still the one that was read.  A mutant: its status alone.
StillAnyPending(d) == Waiting(desk[d].letter)

StillPending(d) == Waiting(desk[d].letter) /\ letters[desk[d].letter].token = desk[d].token

\* The primary store; without one an active one (the oldest, here any).  A
\* mutant: whatever the tenant says, also when it says nothing.
HomeShopsUnchecked == {mainShop}

HomeShops ==
    IF mainShop # NoShop THEN {s \in {mainShop} : shop[s] = "ACTIVE"} ELSE ActiveShops

Join(d) ==
    /\ At(d, {"accept"})
    /\ LET r == desk[d]
           p == letters[r.letter].to
           fits == StillPending(d) /\ (~r.joined => member[p] = NoMember)
       IN  \/ ~fits /\ Turned(d)
           \/ /\ fits
              /\ letters' = [letters EXCEPT ![r.letter].status = "ACCEPTED"]
              /\ member' = IF r.joined THEN member
                           ELSE [member EXCEPT ![p] = [status |-> "ACTIVE", role |-> r.role]]
              /\ \/ HomeShops = {} /\ works' = works
                 \/ \E s \in HomeShops : works' = works \union {<<p, s>>}
              /\ Leave(d)
              /\ UNCHANGED <<day, posted, shop, mainShop>>

-----------------------------------------------------------------------------
(* Memberships: UserService.update() and delete().                            *)

\* assertTenantMembershipMutationAllowed().  A mutant: equals may change equals.
OutranksOrEquals(actor, target) == Rank[actor] >= Rank[target]

Outranks(actor, target) == Rank[actor] > Rank[target]

UpdateMember(d, actor, p, change) ==
    /\ ActiveMember(actor) /\ actor # p
    /\ member[p].status # "NONE" /\ member[p].role # "OWNER"
    /\ Outranks(member[actor].role, member[p].role)
    /\ change \in Roles => Outranks(member[actor].role, change)
    /\ Sit(d, [op |-> "update", by |-> actor, to |-> p, change |-> change, stage |-> "read"])

WriteMember(d) ==
    /\ At(d, {"update"})
    /\ LET r == desk[d]
       IN  member' = IF r.change \in Roles THEN [member EXCEPT ![r.to].role = r.change]
                     ELSE [member EXCEPT ![r.to].status = r.change]
    /\ Leave(d)
    /\ UNCHANGED <<day, letters, posted, shop, mainShop, works>>

-----------------------------------------------------------------------------
(* Stores.                                                                    *)

\* createStore(): a store that is to be active takes a place under the lock.
NewStore(d, s) == shop[s] = "NONE" /\ \A e \in Desks : ~(At(e, {"createStore"}) /\ desk[e].store = s)

CreateClosed(d, s) ==
    /\ "createStore" \in day.ops /\ NewStore(d, s)
    /\ shop' = [shop EXCEPT ![s] = "INACTIVE"]
    /\ UNCHANGED <<day, member, letters, posted, mainShop, works, desk>>

CreateStore(d, s) ==
    /\ NewStore(d, s)
    /\ LockFree(d, {"createStore", "updateStore"})
    /\ Sit(d, [op |-> "createStore", store |-> s, used |-> Cardinality(ActiveShops), stage |-> "counted"])

\* The first store is that of everybody.
OpenStore(d) ==
    /\ At(d, {"createStore"})
    /\ LET s == desk[d].store
           first == mainShop = NoShop
       IN  \/ ~Place(desk[d].used, MaxStores) /\ Turned(d)
           \/ /\ Place(desk[d].used, MaxStores)
              /\ shop' = [shop EXCEPT ![s] = "ACTIVE"]
              /\ mainShop' = IF first THEN s ELSE mainShop
              /\ works' = IF first THEN works \union (ActiveMembers \X {s}) ELSE works
              /\ Leave(d)
              /\ UNCHANGED <<day, member, letters, posted>>

\* updateStore() to active: the store is read before the lock is asked for.
UpdateStore(d, s) ==
    /\ shop[s] # "NONE"
    /\ Sit(d, [op |-> "updateStore", store |-> s, was |-> shop[s], stage |-> "read"])

ActivateStore(d) ==
    /\ At(d, {"updateStore"}) /\ LockFree(d, {"createStore", "updateStore"})
    /\ IF desk[d].was = "INACTIVE" /\ ~Place(Cardinality(ActiveShops), MaxStores) THEN Turned(d)
       ELSE /\ shop' = [shop EXCEPT ![desk[d].store] = "ACTIVE"]
            /\ Leave(d)
            /\ UNCHANGED <<day, member, letters, posted, mainShop, works>>

DeactivateStore(s) ==
    /\ shop[s] # "NONE"
    /\ shop' = [shop EXCEPT ![s] = "INACTIVE"]
    /\ UNCHANGED <<day, member, letters, posted, mainShop, works, desk>>

SetPrimaryStore(actor, s) ==
    /\ ActiveMember(actor) /\ member[actor].role \in {"OWNER", "ADMIN"}
    /\ shop[s] = "ACTIVE"
    /\ mainShop' = s
    /\ UNCHANGED <<day, member, letters, posted, shop, works, desk>>

-----------------------------------------------------------------------------
\* The requests that may start, and the users who may ask for something.
Vacant == {d \in Desks : desk[d] = FreeDesk}
Acting == {p \in People : ActiveMember(p)}

OfficeNext ==
    \/ \E d \in Vacant :
          \/ posted < MaxLetters /\ \E a, p \in People, role \in Roles \ {"OWNER"} : Invite(d, a, p, role)
          \/ \E i \in DOMAIN letters : Accept(d, i)
          \/ \E a \in Acting, p \in People, change \in (Roles \ {"OWNER"}) \union {"ACTIVE", "INACTIVE"} :
                UpdateMember(d, a, p, change)
          \/ \E s \in Shops : CreateStore(d, s) \/ UpdateStore(d, s)
    \/ \E d \in Desks :
          \/ CountMembers(d) \/ SendLetter(d) \/ SendAgain(d)
          \/ Join(d)
          \/ WriteMember(d)
          \/ \E s \in Shops : CreateClosed(d, s)
          \/ OpenStore(d) \/ ActivateStore(d)
    \/ \E i \in DOMAIN letters : GoesLate(i) \/ Expire(i) \/ Revoke(i)
    \/ \E s \in Shops : DeactivateStore(s) \/ \E a \in Acting : SetPrimaryStore(a, s)

OfficeSpec == OfficeInit /\ [][OfficeNext]_officeVars

-----------------------------------------------------------------------------
OfficeTypeOK ==
    /\ member \in [People -> [status : {"NONE", "ACTIVE", "INACTIVE"}, role : Roles]]
    /\ \A i \in DOMAIN letters :
          letters[i] \in [to : People, role : Roles \ {"OWNER"}, token : 1..posted, late : BOOLEAN,
                          status : {"PENDING", "ACCEPTED", "REVOKED", "EXPIRED"}]
    /\ shop \in [Shops -> {"NONE", "ACTIVE", "INACTIVE"}]
    /\ mainShop \in Shops \union {NoShop} /\ works \subseteq People \X Shops
    /\ member[Owner] = [status |-> "ACTIVE", role |-> "OWNER"]

\* A person has one letter that can be accepted at most.
OneLetter == \A i, j \in Invited : letters[i].to = letters[j].to => i = j

\* A new letter fits in the plan with the members and the open letters, unless
\* somebody joined after the members were counted.
LettersFit ==
    [][\A d \in Desks :
          Len(letters') > Len(letters) /\ desk'[d] # desk[d] /\ Cardinality(ActiveMembers) <= desk[d].used
              => Cardinality(ActiveMembers \union {letters'[i].to : i \in Invited'}) <= day.seats]_officeVars

\* Stores that are opened one after the other, or at once, fit in the plan.
StoresHold == Cardinality(ActiveShops) <= MaxStores

\* Who joins has a letter that was pending until then, and gets the role that
\* this letter has; a letter that was revoked or expired brings nobody.
JoinedByLetter ==
    [][\A p \in People :
          member[p] = NoMember /\ member'[p] # NoMember =>
              \E i \in DOMAIN letters :
                  /\ letters[i].to = p /\ Waiting(i) /\ letters'[i].status = "ACCEPTED"
                  /\ member'[p].role = letters[i].role]_officeVars

\* Only the owner makes an administrator, or changes one.
AdminsByOwner ==
    [][\A d \in Desks : desk'[d] = FreeDesk /\ At(d, {"update"}) =>
          LET p == desk[d].to
          IN  "ADMIN" \in {member[p].role, member'[p].role} /\ member'[p] # member[p]
                  => member[desk[d].by].role = "OWNER"]_officeVars

\* No two requests that run at once give one place away twice.
PlacesHold == OneLetter /\ StoresHold

\* Members come and rise as the rules of the plan and of the ranks say.
MembersByTheBook == LettersFit /\ JoinedByLetter /\ AdminsByOwner
=============================================================================
