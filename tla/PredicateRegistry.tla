--------------------------- MODULE PredicateRegistry ---------------------------
(***************************************************************************)
(* The EVM registry (src/src/PredicateRegistry.sol): ownership, attester   *)
(* list with an index mapping, client policies, and validation of          *)
(* attestations with one-shot UUIDs.                                       *)
(*                                                                         *)
(* Several registries are modelled at once, because the hazards are about  *)
(* signatures shown to a registry they were not meant for: every state     *)
(* variable of the contract is a function of the registry.  A registry     *)
(* lives on the chain ChainOf[r]; all chains share one clock.  An external *)
(* call runs alone and a revert undoes it, so a call is one action whose   *)
(* guard is the conjunction of its require()s.                             *)
(***************************************************************************)
EXTENDS AttesterList, FiniteSets

CONSTANTS
    Registries,     \* deployed registries
    ChainOf,        \* block.chainid of the chain a registry lives on
    Upgraded,       \* registries upgraded from a version with no attesterIndex
    Accounts,       \* senders of administrative calls, the zero address included
    ZeroAddress,
    Attesters,      \* addresses that may be registered as attesters
    Callers,        \* addresses that call setPolicyID and validateAttestation
    UUIDs,
    Calls,          \* what is authorised: msgSender, msgValue, encodedSigAndArgs
    Policies,       \* policy identifiers, the empty string included
    NoPolicy,       \* the empty string
    Expirations,    \* expiration times an attestation may carry
    MaxTime,        \* bound: the clock stops here
    MaxSignatures   \* bound: how many signatures the attesters make

ASSUME ChainAssumption == ChainOf \in [Registries -> Nat]
ASSUME UpgradedAssumption == Upgraded \subseteq Registries
ASSUME AccountAssumption == ZeroAddress \in Accounts
ASSUME PolicyAssumption == NoPolicy \in Policies
ASSUME TimeAssumption == Expirations \subseteq Nat /\ MaxTime \in Nat
ASSUME SignatureAssumption == MaxSignatures \in Nat
ASSUME AttesterAssumption == IsFiniteSet(Attesters)

VARIABLES
    initialized, owner, pendingOwner,                         \* Ownable2Step
    registeredAttesters, isAttesterRegistered, attesterIndex,
    clientToPolicy, usedStatementUUIDs,
    validated,      \* the StatementValidated events, in order
    signatures,     \* what the attesters have signed off-chain
    now,            \* block.timestamp
    upgrade         \* history: has the index mapping been populated in time?

ownership == <<initialized, owner, pendingOwner>>
attesters == <<registeredAttesters, isAttesterRegistered, attesterIndex, upgrade>>
validation == <<usedStatementUUIDs, validated>>
environment == <<signatures, now>>
vars == <<ownership, attesters, clientToPolicy, validation, environment>>

Chains == {ChainOf[r] : r \in Registries}

Statement ==
    [uuid : UUIDs, call : Calls, target : Callers, policy : Policies,
     expiration : Expirations]

\* The words abi.encode feeds to keccak256.  The hash is collision-free, so a
\* digest is the tuple itself.
Digest ==
    [chain : Chains, uuid : UUIDs, call : Calls, target : Callers,
     policy : Policies, expiration : Expirations]

Signature == [signer : Attesters, digest : Digest]

\* An event as emitted, with two fields only the history needs: the contract
\* that really called the registry, and the time of the call.
Event ==
    [uuid : UUIDs, call : Calls, target : Callers, policy : Policies,
     expiration : Expirations, attester : Attesters, caller : Callers, at : Nat]

TypeOK ==
    /\ initialized \in [Registries -> BOOLEAN]
    /\ owner \in [Registries -> Accounts]
    /\ pendingOwner \in [Registries -> Accounts]
    /\ registeredAttesters \in [Registries -> Seq(Attesters)]
    /\ isAttesterRegistered \in [Registries -> [Attesters -> BOOLEAN]]
    /\ attesterIndex \in [Registries -> [Attesters -> Nat]]
    /\ upgrade \in [Registries -> {"unmigrated", "migrated", "misordered"}]
    /\ clientToPolicy \in [Registries -> [Callers -> Policies]]
    /\ usedStatementUUIDs \in [Registries -> SUBSET UUIDs]
    /\ validated \in [Registries -> Seq(Event)]
    /\ signatures \in SUBSET Signature
    /\ now \in Nat

Registered(r) == {a \in Attesters : isAttesterRegistered[r][a]}

(***************************************************************************)
(* A new registry is all zeroes behind its proxy until initialize runs.    *)
(* One upgraded from the version without attesterIndex is in use: it has   *)
(* an owner, a list of attesters that agrees with the flags, policies and  *)
(* spent UUIDs, and an index mapping that still reads 0 everywhere.        *)
(***************************************************************************)
FreshRegistry(r) ==
    /\ initialized[r] = FALSE
    /\ owner[r] = ZeroAddress
    /\ registeredAttesters[r] = << >>
    /\ clientToPolicy[r] = [c \in Callers |-> NoPolicy]
    /\ usedStatementUUIDs[r] = {}
    /\ upgrade[r] = "migrated"

UpgradedRegistry(r) ==
    /\ initialized[r] = TRUE
    /\ NoDuplicates(registeredAttesters[r])
    /\ upgrade[r] = "unmigrated"

\* The duplicate-free lists over S.
Lists(S) ==
    UNION {{l \in [1 .. n -> S] : NoDuplicates(l)} : n \in 0 .. Cardinality(S)}

Init ==
    /\ initialized \in [Registries -> BOOLEAN]
    /\ owner \in [Registries -> Accounts]
    /\ pendingOwner = [r \in Registries |-> ZeroAddress]
    /\ registeredAttesters \in [Registries -> Lists(Attesters)]
    /\ clientToPolicy \in [Registries -> [Callers -> Policies]]
    /\ usedStatementUUIDs \in [Registries -> SUBSET UUIDs]
    /\ upgrade \in [Registries -> {"unmigrated", "migrated"}]
    /\ \A r \in Registries :
           IF r \in Upgraded THEN UpgradedRegistry(r) ELSE FreshRegistry(r)
    /\ isAttesterRegistered =
           [r \in Registries |->
               [a \in Attesters |-> a \in Range(registeredAttesters[r])]]
    /\ attesterIndex = [r \in Registries |-> [a \in Attesters |-> 0]]
    /\ validated = [r \in Registries |-> << >>]
    /\ signatures = {}
    /\ now = 0

-------------------------------------------------------------------------------
(* Ownership: Ownable2StepUpgradeable.                                      *)

\* msg.sender is never the zero address.
OnlyOwner(r, sender) == sender # ZeroAddress /\ sender = owner[r]

Initialize(r, o) ==
    /\ ~initialized[r]
    /\ o # ZeroAddress
    /\ initialized' = [initialized EXCEPT ![r] = TRUE]
    /\ owner' = [owner EXCEPT ![r] = o]
    /\ UNCHANGED <<pendingOwner, attesters, clientToPolicy, validation, environment>>

\* Proposing the zero address cancels an earlier proposal.
TransferOwnership(r, sender, o) ==
    /\ OnlyOwner(r, sender)
    /\ pendingOwner' = [pendingOwner EXCEPT ![r] = o]
    /\ UNCHANGED <<initialized, owner, attesters, clientToPolicy, validation, environment>>

\* Mutant: an accepted or renounced ownership leaves the proposal standing.
MoveOwnershipKeepingProposal(r, o) ==
    /\ owner' = [owner EXCEPT ![r] = o]
    /\ UNCHANGED <<initialized, pendingOwner, attesters, clientToPolicy, validation, environment>>

\* _transferOwnership clears the proposal whoever becomes the owner.
MoveOwnership(r, o) ==
    /\ owner' = [owner EXCEPT ![r] = o]
    /\ pendingOwner' = [pendingOwner EXCEPT ![r] = ZeroAddress]
    /\ UNCHANGED <<initialized, attesters, clientToPolicy, validation, environment>>

AcceptOwnership(r, sender) ==
    /\ sender # ZeroAddress
    /\ sender = pendingOwner[r]
    /\ MoveOwnership(r, sender)

RenounceOwnership(r, sender) ==
    /\ OnlyOwner(r, sender)
    /\ MoveOwnership(r, ZeroAddress)

-------------------------------------------------------------------------------
(* Attesters.                                                               *)

\* Mutant: "already registered" is not checked.
RegistrableAgain(r, a) == a \in Attesters

Registrable(r, a) == ~isAttesterRegistered[r][a]

RegisterAttester(r, sender, a) ==
    /\ OnlyOwner(r, sender)
    /\ Registrable(r, a)
    /\ attesterIndex' = [attesterIndex EXCEPT ![r][a] = Len(registeredAttesters[r])]
    /\ registeredAttesters' = [registeredAttesters EXCEPT ![r] = Append(@, a)]
    /\ isAttesterRegistered' = [isAttesterRegistered EXCEPT ![r][a] = TRUE]
    /\ UNCHANGED <<ownership, upgrade, clientToPolicy, validation, environment>>

\* Mutant: the attester that fills the gap keeps its old index.
IndicesAfterRemovalUnmoved(list, index, a) == [index EXCEPT ![a] = 0]

\* Unless the last position itself is freed, the last attester takes over the
\* index that becomes free; then a's entry is deleted.
IndicesAfterRemoval(list, index, a) ==
    [index EXCEPT ![list[Len(list)]] = IF index[a] = Len(list) - 1 THEN @ ELSE index[a],
                  ![a] = 0]

\* The subtraction is checked and so is the array access: with an index at or
\* beyond the length, or an empty array, the call reverts.
DeregisterAttester(r, sender, a) ==
    LET list == registeredAttesters[r]
        position == attesterIndex[r][a] + 1
    IN  /\ OnlyOwner(r, sender)
        /\ isAttesterRegistered[r][a]
        /\ position <= Len(list)
        /\ registeredAttesters' = [registeredAttesters EXCEPT ![r] = SwapAndPop(list, position)]
        /\ attesterIndex' = [attesterIndex EXCEPT ![r] = IndicesAfterRemoval(list, @, a)]
        /\ isAttesterRegistered' = [isAttesterRegistered EXCEPT ![r][a] = FALSE]
        /\ upgrade' = [upgrade EXCEPT ![r] = IF @ = "unmigrated" THEN "misordered" ELSE @]
        /\ UNCHANGED <<ownership, clientToPolicy, validation, environment>>

\* Mutants: positions counted from one; positions shifted down by one.
MigratedIndexFromOne(list, a) == LastPosition(list, a)
MigratedIndexShifted(list, a) == LastPosition(list, a) - 2

MigratedIndex(list, a) == LastPosition(list, a) - 1

\* The loop writes positions in order, so the last occurrence wins; an attester
\* that is not in the list keeps its entry.
MigrateAttesterIndices(r, sender) ==
    LET list == registeredAttesters[r]
    IN  /\ OnlyOwner(r, sender)
        /\ attesterIndex' =
               [attesterIndex EXCEPT ![r] =
                   [a \in Attesters |->
                       IF a \in Range(list) THEN MigratedIndex(list, a) ELSE @[a]]]
        /\ upgrade' = [upgrade EXCEPT ![r] = IF @ = "unmigrated" THEN "migrated" ELSE @]
        /\ UNCHANGED <<ownership, registeredAttesters, isAttesterRegistered,
                       clientToPolicy, validation, environment>>

-------------------------------------------------------------------------------
(* Policies.                                                                *)

SetPolicyID(r, sender, p) ==
    /\ clientToPolicy' = [clientToPolicy EXCEPT ![r][sender] = p]
    /\ UNCHANGED <<ownership, attesters, validation, environment>>

-------------------------------------------------------------------------------
(* Attestations.                                                            *)

\* Mutant: block.chainid is not part of the hash.
HashForAnyChain(r, st, target) ==
    [chain |-> 1, uuid |-> st.uuid, call |-> st.call, target |-> target,
     policy |-> st.policy, expiration |-> st.expiration]

HashFor(r, st, target) ==
    [chain |-> ChainOf[r], uuid |-> st.uuid, call |-> st.call, target |-> target,
     policy |-> st.policy, expiration |-> st.expiration]

\* What an attester signs, off-chain: the statement names its own target.
HashStatementWithExpiry(r, st) == HashFor(r, st, st.target)

\* Mutant: the registry verifies the target the statement names.
HashStatementNamed(r, sender, st) == HashFor(r, st, st.target)

\* What the registry verifies: the target is whoever called it.
HashStatementSafe(r, sender, st) == HashFor(r, st, sender)

\* ECDSA.recover(hash, signature) = a.  Over a hash that was not signed it
\* recovers an address nobody holds, which is no attester.
Recovers(hash, signature, a) == signature = [signer |-> a, digest |-> hash]

\* Mutants: no expiry; no replay protection.
NeverExpired(t) == t \in Expirations
AlwaysUnused(r, uuid) == uuid \in UUIDs

NotExpired(t) == now <= t
Unused(r, uuid) == uuid \notin usedStatementUUIDs[r]

Validates(r, sender, st, att) ==
    /\ NotExpired(att.expiration)
    /\ Unused(r, st.uuid)
    /\ st.uuid = att.uuid
    /\ st.expiration = att.expiration
    /\ Recovers(HashStatementSafe(r, sender, st), att.signature, att.attester)
    /\ att.attester \in Registered(r)

\* The event carries the target the statement names.
StatementValidated(sender, st, att) ==
    [uuid |-> st.uuid, call |-> st.call, target |-> st.target, policy |-> st.policy,
     expiration |-> st.expiration, attester |-> att.attester,
     caller |-> sender, at |-> now]

\* What a successful validateAttestation writes in its registry.
Spend(r, sender, st, att) ==
    /\ Validates(r, sender, st, att)
    /\ usedStatementUUIDs' = [usedStatementUUIDs EXCEPT ![r] = @ \cup {st.uuid}]
    /\ validated' = [validated EXCEPT ![r] = Append(@, StatementValidated(sender, st, att))]

\* An attestation is calldata: any fields, with a signature somebody made.
Attestation ==
    [uuid : UUIDs, expiration : Expirations, attester : Attesters, signature : signatures]

ValidateAttestation(r, sender, st, att) ==
    /\ Spend(r, sender, st, att)
    /\ UNCHANGED <<ownership, attesters, clientToPolicy, environment>>

-------------------------------------------------------------------------------
(* The world around: attesters that sign, and the clock.                    *)

Sign(r, a, st) ==
    /\ Cardinality(signatures) < MaxSignatures
    /\ signatures' = signatures \cup
           {[signer |-> a, digest |-> HashStatementWithExpiry(r, st)]}
    /\ UNCHANGED <<ownership, attesters, clientToPolicy, validation, now>>

Tick ==
    /\ now < MaxTime
    /\ now' = now + 1
    /\ UNCHANGED <<ownership, attesters, clientToPolicy, validation, signatures>>

Administration(r) ==
    \/ \E o \in Accounts : Initialize(r, o)
    \/ \E sender, o \in Accounts : TransferOwnership(r, sender, o)
    \/ \E sender \in Accounts : AcceptOwnership(r, sender)
    \/ \E sender \in Accounts : RenounceOwnership(r, sender)
    \/ \E sender \in Accounts, a \in Attesters : RegisterAttester(r, sender, a)
    \/ \E sender \in Accounts, a \in Attesters : DeregisterAttester(r, sender, a)
    \/ \E sender \in Accounts : MigrateAttesterIndices(r, sender)

Next ==
    \/ \E r \in Registries : Administration(r)
    \/ \E r \in Registries, c \in Callers, p \in Policies : SetPolicyID(r, c, p)
    \/ \E r \in Registries, c \in Callers, st \in Statement, att \in Attestation :
           ValidateAttestation(r, c, st, att)
    \/ \E r \in Registries, a \in Attesters, st \in Statement : Sign(r, a, st)
    \/ Tick

Spec == Init /\ [][Next]_vars

-------------------------------------------------------------------------------
(* What must hold.                                                          *)

\* getRegisteredAttesters returns "the complete list": unless an attester was
\* removed before the index migration, the array holds every registered
\* attester once and nobody else.
ListSound ==
    \A r \in Registries : upgrade[r] # "misordered" =>
        /\ NoDuplicates(registeredAttesters[r])
        /\ Range(registeredAttesters[r]) = Registered(r)

\* Once the mapping has been populated every listed attester's index is its
\* position, whatever swap-and-pop moved since.
IndexSound ==
    \A r \in Registries : upgrade[r] = "migrated" =>
        \A i \in DOMAIN registeredAttesters[r] :
            attesterIndex[r][registeredAttesters[r][i]] = i - 1

\* The owner can always revoke a registered attester: its index is inside the
\* array, so deregisterAttester neither underflows nor runs off the end.  This
\* holds even when attesters were removed before the migration.
RevocationPossible ==
    \A r \in Registries : \A a \in Registered(r) :
        attesterIndex[r][a] < Len(registeredAttesters[r])

\* A renounced registry stays without an owner and its attesters stay as they
\* are: no pending proposal survives to be accepted later.
RenouncedIsFinal ==
    [][\A r \in Registries : initialized[r] /\ owner[r] = ZeroAddress =>
           owner'[r] = ZeroAddress /\ Registered(r)' = Registered(r)]_vars

\* "Marks UUID as spent to prevent replay attacks": no two accepted
\* statements of one registry carry the same UUID.
NeverTwice ==
    \A r \in Registries : \A i, j \in DOMAIN validated[r] :
        validated[r][i].uuid = validated[r][j].uuid => i = j

\* Every accepted statement was signed, by the attester the event names, for
\* this chain and for the contract that called, and was accepted in time.
AcceptedWasSigned ==
    \A r \in Registries : \A e \in Range(validated[r]) :
        /\ [signer |-> e.attester,
            digest |-> [chain |-> ChainOf[r], uuid |-> e.uuid, call |-> e.call,
                        target |-> e.caller, policy |-> e.policy,
                        expiration |-> e.expiration]] \in signatures
        /\ e.at <= e.expiration

\* The signatures a registry would accept now from the contract they name.
Usable(r, s) ==
    /\ s.digest.chain = ChainOf[r]
    /\ s.signer \in Registered(r)
    /\ s.digest.uuid \notin usedStatementUUIDs[r]
    /\ now <= s.digest.expiration

\* Nobody but the contract an attester named can use up its UUID: a usable
\* signature whose UUID was given to one target only stops being usable by
\* lapsing, by the deregistration of its signer, or by a call of that target.
UsableUntilSpent ==
    [][\A r \in Registries : \A s \in signatures :
           /\ Usable(r, s)
           /\ \A t \in signatures :
                  t.digest.uuid = s.digest.uuid => t.digest.target = s.digest.target
           => \/ s \in signatures' /\ Usable(r, s)'
              \/ now' > s.digest.expiration
              \/ s.signer \notin Registered(r)'
              \/ /\ Len(validated'[r]) > Len(validated[r])
                 /\ validated'[r][Len(validated'[r])].caller = s.digest.target]_vars

-------------------------------------------------------------------------------
(* Each registry is a one-shot authorisation for its chain.                 *)

Permitted(d) == [call |-> d.call, target |-> d.target, policy |-> d.policy]

\* A signature is a permit, an accepted statement the permit it was granted on.
PermitOf(s) ==
    [issuer |-> s.signer, serial |-> s.digest.uuid, action |-> Permitted(s.digest),
     deadline |-> s.digest.expiration]

GrantOf(e) ==
    [issuer |-> e.attester, serial |-> e.uuid, deadline |-> e.expiration,
     action |-> [call |-> e.call, target |-> e.caller, policy |-> e.policy]]

Permits(r) == {PermitOf(s) : s \in {t \in signatures : t.digest.chain = ChainOf[r]}}
Grants(r) == {GrantOf(e) : e \in Range(validated[r])}

Authorization(r) == INSTANCE OneShotAuthorization WITH
    Issuers <- Attesters,
    Serials <- UUIDs,
    Actions <- [call : Calls, target : Callers, policy : Policies],
    Deadlines <- Expirations,
    trusted <- Registered(r),
    permits <- Permits(r),
    spent <- usedStatementUUIDs[r],
    granted <- Grants(r),
    time <- now

\* Every registry implements the one-shot authorisation: each of its steps is
\* an abstract step or invisible.
ImplementsAuthorization ==
    /\ \A r \in Registries : Authorization(r)!Init
    /\ [][\A r \in Registries :
             [Authorization(r)!Next]_(Authorization(r)!vars)]_vars
===============================================================================
