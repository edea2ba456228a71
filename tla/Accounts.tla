-------------------------------- MODULE Accounts --------------------------------
(***************************************************************************)
(* The accounts of staff and customers: roles (auth/claimsManager.ts,      *)
(* staffInvite.ts), erasure (accountDeletion.ts, triggers.ts), the token   *)
(* of one device (core/deviceTokenRegister.ts, unregisterToken.ts) and the *)
(* migration of one guest session (guestMigration.ts).                     *)
(*                                                                         *)
(* Nothing here runs in one transaction from end to end: a role is written *)
(* to Firebase Auth, to users/{uid} and to admins/{uid} one after another, *)
(* a device is detached in two commits, a guest is moved in batches.  A    *)
(* call is one execution of any of these routes; callers are authorised    *)
(* and the guest's proof is checked before anything is read.               *)
(***************************************************************************)
EXTENDS Naturals, FiniteSets, SequencesExt

CONSTANTS Account,
          BonusKey,     \* what the bonus of an account is keyed by: its
                        \* verified phone, or the uid when it has none
          Order,        \* orders and tickets placed under the guest session
          BatchLimit,   \* MIGRATION_CHUNK_LIMIT
          Call,         \* executions of the routes
          MaxCalls,     \* bound: routes called
          MaxFailures,    \* bound: executions that die, writes that fail
          Nobody

ASSUME AccountsAssumption ==
    /\ IsFiniteSet(Account) /\ DOMAIN BonusKey = Account
    /\ IsFiniteSet(Order) /\ Order \cap {"profile", "cart", "empty"} = {}
    /\ BatchLimit \in Nat \ {0}
    /\ MaxCalls \in Nat /\ MaxFailures \in Nat
    /\ Account \cap {Nobody, "guest", "ownerless"} = {}

VARIABLES
    auth,        \* Firebase Auth: has the account come, has it gone
    claims,      \* its custom claims: the role
    users,       \* users/{uid}.role
    admins,      \* admins/{uid}.role, Nobody without a document
    toClean,     \* deleted accounts whose onDelete trigger has not run
    clean,       \* history: the last change of the account's role ran alone
    owner,       \* device_tokens/{token}.userId
    listed,      \* accounts whose fcmTokens name the token
    customerId,  \* of the guest session's orders
    guestCart,   \* carts/guest_{session} has items
    carts,       \* accounts whose cart has the guest's items
    granted,     \* coin_transactions/welcome_bonus_{key}
    coins,       \* welcome bonuses in customers/{uid}.loyaltyPoints
    claimed,     \* users/{uid}.hasClaimedWelcomeBonus
    migrated,    \* accounts whose migration was answered
    call, begun, faults

roleVars == <<auth, claims, users, admins, toClean, clean>>
deviceVars == <<owner, listed>>
bonusVars == <<granted, coins, claimed>>
guestVars == <<customerId, guestCart, carts, bonusVars, migrated>>
accountsVars == <<roleVars, deviceVars, guestVars, call, begun, faults>>

Role == {"customer", "branch_staff", "brand_owner"}
Step == {"idle", "invite", "profile", "registry", "named",
         "holders", "prune", "scrub", "self", "scanned", "chunks", "award"}

AccountsTypeOK ==
    /\ auth \in [Account -> {"absent", "live", "gone"}]
    /\ claims \in [Account -> Role] /\ users \in [Account -> Role]
    /\ admins \in [Account -> Role \cup {Nobody}]
    /\ toClean \subseteq Account /\ clean \in [Account -> BOOLEAN]
    /\ owner \in Account \cup {Nobody, "ownerless"} /\ listed \subseteq Account
    /\ customerId \in [Order -> Account \cup {"guest"}]
    /\ guestCart \in BOOLEAN /\ carts \subseteq Account
    /\ granted \subseteq Range(BonusKey) /\ coins \in [Account -> Nat]
    /\ claimed \subseteq Account /\ migrated \subseteq Account
    /\ \A c \in Call : call[c].step \in Step
    /\ begun \in 0..MaxCalls /\ faults \in 0..MaxFailures

(* A call at work: for whom, with which role, what it has read and what is *)
(* left to write.                                                          *)
At(step, u) == [step |-> step, uid |-> u, role |-> Nobody, invite |-> FALSE,
                alone |-> TRUE, seen |-> {}, todo |-> <<>>, bonus |-> FALSE]
Idle == At("idle", Nobody)

(* The token may be an account's, or come from an older client that wrote  *)
(* tokens and lists without asking for ownership.                          *)
AccountsInit ==
    /\ auth \in [Account -> {"absent", "live"}]
    /\ claims = [u \in Account |-> "customer"] /\ users = claims
    /\ admins = [u \in Account |-> Nobody]
    /\ toClean = {} /\ clean = [u \in Account |-> TRUE]
    /\ listed \in SUBSET {u \in Account : auth[u] = "live"}
    /\ owner \in listed \cup {Nobody, "ownerless"}
    /\ customerId = [o \in Order |-> "guest"] /\ guestCart = TRUE /\ carts = {}
    /\ granted = {} /\ coins = [u \in Account |-> 0] /\ claimed = {}
    /\ migrated = {}
    /\ call = [c \in Call |-> Idle] /\ begun = 0 /\ faults = 0

May(c) == call[c].step = "idle" /\ begun < MaxCalls /\ begun' = begun + 1
Begin(c, work) == May(c) /\ call' = [call EXCEPT ![c] = work]
Goto(c, step) == call' = [call EXCEPT ![c].step = step] /\ UNCHANGED begun
Return(c) == call' = [call EXCEPT ![c] = Idle] /\ UNCHANGED begun
Fault == faults < MaxFailures /\ faults' = faults + 1

-----------------------------------------------------------------------------
(* Roles.                                                                  *)

ChangingRole(u) ==
    {c \in Call : call[c].uid = u /\ call[c].step \in {"profile", "registry", "named"}}

(* Every change of u's role in progress is no longer the only one.         *)
Disturbed(u) ==
    [c \in Call |-> [call[c] EXCEPT !.alone = @ /\ c \notin ChangingRole(u)]]

(* setUserCustomClaims, its first write: the claims in Firebase Auth.      *)
StampClaims(c, u, role, invite) ==
    /\ claims' = [claims EXCEPT ![u] = role]
    /\ clean' = [clean EXCEPT ![u] = FALSE]
    /\ call' = [Disturbed(u) EXCEPT
                  ![c] = [At("profile", u) EXCEPT !.role = role, !.invite = invite,
                                                  !.alone = ChangingRole(u) = {}]]
    /\ UNCHANGED <<users, admins, toClean, deviceVars, guestVars, faults>>

(* assignUserRole, and revokeUserRole for the role of a customer.          *)
AssignRole(c, u, role) ==
    /\ May(c) /\ auth[u] = "live"
    /\ StampClaims(c, u, role, FALSE)
    /\ UNCHANGED auth

(* inviteStaffMember: the account of that e-mail, created if there is none.*)
Invite(c, u, role) ==
    /\ auth[u] # "gone" /\ role # "customer"
    /\ Begin(c, [At("invite", u) EXCEPT !.role = role])
    /\ auth' = [auth EXCEPT ![u] = "live"]
    /\ UNCHANGED <<claims, users, admins, toClean, clean, deviceVars, guestVars, faults>>

InviteClaims(c) ==
    /\ call[c].step = "invite" /\ auth[call[c].uid] = "live"
    /\ StampClaims(c, call[c].uid, call[c].role, TRUE)
    /\ UNCHANGED <<auth, begun>>

(* There is no account left to set claims of.                              *)
InviteThrows(c) ==
    /\ call[c].step = "invite" /\ auth[call[c].uid] = "gone"
    /\ Return(c)
    /\ UNCHANGED <<roleVars, deviceVars, guestVars, faults>>

WriteProfile(c) ==
    /\ call[c].step = "profile"
    /\ users' = [users EXCEPT ![call[c].uid] = call[c].role]
    /\ Goto(c, "registry")
    /\ UNCHANGED <<auth, claims, admins, toClean, clean, deviceVars, guestVars, faults>>

(* Mutant: a demotion leaves the registry alone.                           *)
Registered_Kept(u, role) == IF role = "customer" THEN admins[u] ELSE role

(* Staff have a document in the registry, customers have none.             *)
Registered(u, role) == IF role = "customer" THEN Nobody ELSE role

(* The change is over; an invitation writes the profile once more.         *)
EndOfRole(c, alone) ==
    IF call[c].invite
      THEN call' = [call EXCEPT ![c].step = "named", ![c].alone = alone]
           /\ UNCHANGED <<clean, begun>>
      ELSE Return(c) /\ clean' = [clean EXCEPT ![call[c].uid] = alone]

WriteRegistry(c) ==
    /\ call[c].step = "registry"
    /\ admins' = [admins EXCEPT ![call[c].uid] = Registered(call[c].uid, call[c].role)]
    /\ EndOfRole(c, call[c].alone)
    /\ UNCHANGED <<auth, claims, users, toClean, deviceVars, guestVars, faults>>

(* A delete that fails is taken for a document that was not there.         *)
RegistryDeleteFails(c) ==
    /\ call[c].step = "registry" /\ call[c].role = "customer"
    /\ Fault
    /\ EndOfRole(c, FALSE)
    /\ UNCHANGED <<auth, claims, users, admins, toClean, deviceVars, guestVars>>

NameInvited(c) ==
    /\ call[c].step = "named"
    /\ users' = [users EXCEPT ![call[c].uid] = call[c].role]
    /\ clean' = [clean EXCEPT ![call[c].uid] = call[c].alone]
    /\ Return(c)
    /\ UNCHANGED <<auth, claims, admins, toClean, deviceVars, guestVars, faults>>

(* deleteUserAccount; the trigger follows.                                 *)
DeleteAccount(u) ==
    /\ auth[u] = "live" /\ begun < MaxCalls /\ begun' = begun + 1
    /\ auth' = [auth EXCEPT ![u] = "gone"]
    /\ toClean' = toClean \cup {u}
    /\ clean' = [clean EXCEPT ![u] = FALSE]
    /\ call' = Disturbed(u)
    /\ UNCHANGED <<claims, users, admins, deviceVars, guestVars, faults>>

(* onUserDeletedCleanup: one batch.  The token of the account's device and *)
(* its list stay.                                                          *)
CleanUp(u) ==
    /\ u \in toClean
    /\ toClean' = toClean \ {u}
    /\ admins' = [admins EXCEPT ![u] = Nobody]
    /\ users' = [users EXCEPT ![u] = "customer"]
    /\ carts' = carts \ {u}
    /\ clean' = [clean EXCEPT ![u] = ChangingRole(u) = {}]
    /\ UNCHANGED <<auth, claims, deviceVars, customerId, guestCart, bonusVars,
                   migrated, call, begun, faults>>

(* A failure is caught and logged, and nothing runs again.                 *)
CleanUpFails(u) ==
    /\ u \in toClean /\ Fault
    /\ toClean' = toClean \ {u}
    /\ UNCHANGED <<auth, claims, users, admins, clean, deviceVars, guestVars, call, begun>>

-----------------------------------------------------------------------------
(* The token of a device.                                                  *)

(* registerDeviceToken: one transaction claims a token nobody has, or      *)
(* refreshes one's own; another's, or one without an owner, is refused.    *)
Register(c, u) ==
    /\ auth[u] = "live"
    /\ IF owner \in {Nobody, u}
         THEN /\ owner' = u /\ listed' = listed \cup {u}
              /\ Begin(c, At(IF owner = u THEN "holders" ELSE "idle", u))
         ELSE Begin(c, Idle) /\ UNCHANGED deviceVars
    /\ UNCHANGED <<roleVars, guestVars, faults>>

(* pruneStaleHolders: a query, then a write for each holder it found.      *)
FindHolders(c) ==
    /\ call[c].step = "holders"
    /\ call' = [call EXCEPT ![c].step = "prune", ![c].seen = listed \ {call[c].uid}]
    /\ UNCHANGED <<roleVars, deviceVars, guestVars, begun, faults>>

(* Each write for itself; what was found may have changed hands since.     *)
Prune(c) ==
    /\ call[c].step = "prune"
    /\ \E v \in call[c].seen :
         /\ listed' = listed \ {v}
         /\ call' = [call EXCEPT ![c].seen = @ \ {v}]
    /\ UNCHANGED <<owner, roleVars, guestVars, begun, faults>>

(* The query failed, or every holder is done with.                         *)
Pruned(c) ==
    /\ \/ call[c].step = "holders" /\ Fault
       \/ call[c].step = "prune" /\ call[c].seen = {} /\ UNCHANGED faults
    /\ Return(c)
    /\ UNCHANGED <<roleVars, deviceVars, guestVars>>

(* A write of a holder fails and the next one is tried.                    *)
PruneFails(c) ==
    /\ call[c].step = "prune" /\ Fault
    /\ \E v \in call[c].seen : call' = [call EXCEPT ![c].seen = @ \ {v}]
    /\ UNCHANGED <<roleVars, deviceVars, guestVars, begun>>

(* unregisterDeviceToken: one transaction gives up one's own token.  One   *)
(* nobody provably has is only taken off the caller's own list, another    *)
(* account's is left as it is.                                             *)
Unregister(c, u) ==
    /\ auth[u] = "live"
    /\ \/ owner = u /\ owner' = Nobody /\ Begin(c, At("scrub", u))
       \/ owner \in {Nobody, "ownerless"} /\ Begin(c, At("self", u)) /\ UNCHANGED owner
       \/ owner \in Account \ {u} /\ Begin(c, Idle) /\ UNCHANGED owner
    /\ UNCHANGED <<listed, roleVars, guestVars, faults>>

(* Mutant: the scrub trusts the transaction before it.                     *)
Holders_Unread == {}

(* What the scrub leaves listed: everyone, when it finds the token again.  *)
Holders == IF owner = Nobody THEN {} ELSE listed

Scrub(c) ==
    /\ call[c].step = "scrub"
    /\ listed' = Holders
    /\ Return(c)
    /\ UNCHANGED <<owner, roleVars, guestVars, faults>>

SelfScrub(c) ==
    /\ call[c].step = "self"
    /\ listed' = listed \ {call[c].uid}
    /\ Return(c)
    /\ UNCHANGED <<owner, roleVars, guestVars, faults>>

-----------------------------------------------------------------------------
(* The guest session.                                                      *)

(* isGuestOwnedDoc: what an account already has is not taken from it.      *)
GuestOwned == {o \in Order : customerId[o] = "guest"}

(* migrateGuestAccount, its first reads.                                   *)
Migrate(c, u) ==
    /\ auth[u] = "live"
    /\ Begin(c, [At("scanned", u) EXCEPT !.seen = GuestOwned])
    /\ UNCHANGED <<roleVars, deviceVars, guestVars, faults>>

(* Mutant: the cart is emptied first.                                      *)
CartWrites_Swapped == IF guestCart THEN <<"empty", "cart">> ELSE <<>>

(* The guest's cart is written to the account, then deleted.               *)
CartWrites == IF guestCart THEN <<"cart", "empty">> ELSE <<>>

(* verifyBonusEligibility.                                                 *)
Eligible(u) == u \notin claimed /\ BonusKey[u] \notin granted

(* The reads of the profile, the bonus and the cart: everything there is   *)
(* to write is known.                                                      *)
ReadGuest(c) ==
    /\ call[c].step = "scanned"
    /\ call' = [call EXCEPT
                  ![c].step = "chunks",
                  ![c].todo = SetToSeq(call[c].seen) \o <<"profile">> \o CartWrites,
                  ![c].bonus = Eligible(call[c].uid)]
    /\ UNCHANGED <<roleVars, deviceVars, guestVars, begun, faults>>

Chunk(c) == SubSeq(call[c].todo, 1, Min({BatchLimit, Len(call[c].todo)}))

Remaining(c) == SubSeq(call[c].todo, BatchLimit + 1, Len(call[c].todo))

(* One batch.  Nothing of it looks at what it writes over.                 *)
CommitChunk(c) ==
    LET now == Range(Chunk(c))
    IN  /\ call[c].step = "chunks" /\ call[c].todo # <<>>
        /\ customerId' = [o \in Order |->
                            IF o \in now THEN call[c].uid ELSE customerId[o]]
        /\ carts' = IF "cart" \in now THEN carts \cup {call[c].uid} ELSE carts
        /\ guestCart' = (guestCart /\ "empty" \notin now)
        /\ call' = [call EXCEPT ![c].todo = Remaining(c)]
        /\ UNCHANGED <<roleVars, deviceVars, bonusVars, migrated, begun, faults>>

(* Mutant: the eligibility read before the batches is taken for granted.   *)
Ungranted_Unread(u) == TRUE

(* The row of the bonus, read in the transaction that awards it.           *)
Ungranted(u) == BonusKey[u] \notin granted

(* The bonus: row, balance and flag in one transaction after the batches.  *)
Award(c) ==
    LET u == call[c].uid
    IN  /\ call[c].step = "chunks" /\ call[c].todo = <<>> /\ call[c].bonus
        /\ IF Ungranted(u)
             THEN /\ granted' = granted \cup {BonusKey[u]}
                  /\ coins' = [coins EXCEPT ![u] = @ + 1]
                  /\ claimed' = claimed \cup {u}
             ELSE UNCHANGED bonusVars
        /\ migrated' = migrated \cup {u}
        /\ Return(c)
        /\ UNCHANGED <<roleVars, deviceVars, customerId, guestCart, carts, faults>>

AnswerMigrated(c) ==
    /\ call[c].step = "chunks" /\ call[c].todo = <<>> /\ ~call[c].bonus
    /\ migrated' = migrated \cup {call[c].uid}
    /\ Return(c)
    /\ UNCHANGED <<roleVars, deviceVars, customerId, guestCart, carts, bonusVars, faults>>

(* A read, a write or a batch throws, or the function is killed.           *)
Abort(c) ==
    /\ call[c].step # "idle" /\ Fault
    /\ Return(c)
    /\ UNCHANGED <<roleVars, deviceVars, guestVars>>

-----------------------------------------------------------------------------
RoleStep(c) ==
    \/ \E u \in Account, r \in Role : AssignRole(c, u, r) \/ Invite(c, u, r)
    \/ InviteClaims(c) \/ InviteThrows(c) \/ WriteProfile(c)
    \/ WriteRegistry(c) \/ RegistryDeleteFails(c) \/ NameInvited(c)

DeviceStep(c) ==
    \/ \E u \in Account : Register(c, u) \/ Unregister(c, u)
    \/ FindHolders(c) \/ Prune(c) \/ Pruned(c) \/ PruneFails(c)
    \/ Scrub(c) \/ SelfScrub(c)

MigrationStep(c) ==
    \/ \E u \in Account : Migrate(c, u)
    \/ ReadGuest(c) \/ CommitChunk(c) \/ Award(c) \/ AnswerMigrated(c)

AccountsNext ==
    \/ \E c \in Call : RoleStep(c) \/ DeviceStep(c) \/ MigrationStep(c) \/ Abort(c)
    \/ \E u \in Account : DeleteAccount(u) \/ CleanUp(u) \/ CleanUpFails(u)

AccountsSpec == AccountsInit /\ [][AccountsNext]_accountsVars

-----------------------------------------------------------------------------
(* Properties *)

(* The role an account answers to: its claims, while it exists.            *)
Held(u) == IF auth[u] = "live" THEN claims[u] ELSE "customer"

(* requireRole falls back to the registry when claims are stale: once the  *)
(* last change of a role ran to its end, with no other change or erasure   *)
(* of the account beside it, profile and registry say what the claims say. *)
RolesInStep ==
    \A u \in Account :
        clean[u] =>
            /\ users[u] = Held(u)
            /\ admins[u] = IF Held(u) = "customer" THEN Nobody ELSE Held(u)

(* The owner of a token stays on the list its messages are sent by: only a *)
(* prune that found it before it became the owner, or its own late logout, *)
(* takes it off; a detach that lost its race with a registration does not. *)
OwnerStaysListed ==
    [][\A u \in Account :
         owner = u /\ owner' = u /\ u \in listed /\ u \notin listed' =>
             \E c \in Call :
                 \/ call[c].step = "prune" /\ u \in call[c].seen
                 \/ call[c].step = "self" /\ call[c].uid = u]_accountsVars

(* One bonus per phone (or account without one), however many accounts,    *)
(* retries and racing migrations ask for it.                               *)
OneBonusPerKey ==
    \A k \in Range(BonusKey) :
        SumFunctionOnSet(coins, {u \in Account : BonusKey[u] = k})
            = IF k \in granted THEN 1 ELSE 0

(* A migration moves its guest whole: once one was answered no order and   *)
(* no cart is left behind and its bonus was granted, whatever batches of   *)
(* others died or interleaved; and the items of the cart are never on      *)
(* neither side, between two batches included.                             *)
GuestIsMovedWhole ==
    /\ migrated # {} => ~guestCart /\ "guest" \notin Range(customerId)
    /\ \A u \in migrated : BonusKey[u] \in granted
    /\ guestCart \/ carts # {} \/ \E u \in Account : auth[u] = "gone"
=============================================================================
