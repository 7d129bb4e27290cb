---------------------------- MODULE SorobanRegistry ----------------------------
(***************************************************************************)
(* The Soroban registry (src/soroban/predicate-registry/src): ownership    *)
(* by proposal, the vector of attesters, client policies, and validation   *)
(* of attestations with one-shot UUIDs.                                    *)
(*                                                                         *)
(* What sets it apart from the EVM registry is storage that expires.  The  *)
(* contract's own entry (owner, proposal, attesters), every policy and     *)
(* every replay marker is live up to some ledger; writing an entry does    *)
(* not keep it live for ever, only extend_ttl prolongs it.  An archived    *)
(* contract cannot be called until somebody restores it.  An archived      *)
(* policy or marker reads as absent, as the comments in the code have it;  *)
(* a host that refuses the read instead only forbids more.                 *)
(*                                                                         *)
(* A call runs alone, and an Err or a trap undoes it.  One ledger closes   *)
(* per unit of time, so the ledger number also is the timestamp.           *)
(***************************************************************************)
EXTENDS AttesterList, FiniteSets

CONSTANTS
    Networks,       \* network ids an attester may sign for
    Network,        \* the one this registry runs on
    Accounts,       \* addresses that may own the registry
    NoAccount,      \* no pending owner
    Attesters,      \* keys that may be registered as attesters
    Callers,        \* contracts and accounts that set policies and validate
    UUIDs,
    Calls,          \* msg_sender, msg_value and encoded_sig_and_args
    Policies,       \* policy identifiers, the empty string included
    NoPolicy,       \* the empty string
    Expirations,
    Codes,          \* uploaded contract code
    MinTTL,         \* ledgers a newly written or restored entry lives
    MaxTTL,         \* the longest life extend_ttl can give
    MaxLedger,      \* bound: the last ledger
    MaxSignatures   \* bound: how many signatures the attesters make

ASSUME NetworkAssumption == Network \in Networks
ASSUME NoAccountAssumption == NoAccount \notin Accounts
ASSUME NoPolicyAssumption == NoPolicy \in Policies
ASSUME ExpirationAssumption == Expirations \subseteq Nat
ASSUME LifetimeAssumption == MinTTL \in Nat /\ MaxTTL \in Nat /\ MinTTL <= MaxTTL
ASSUME BoundAssumption == MaxLedger \in Nat /\ MaxSignatures \in Nat

VARIABLES
    owner, pendingOwner, attesters,     \* in the contract's own entry
    code,
    instanceUntil,                      \* the last ledger that entry is live
    policies, policyUntil,              \* what was set, and the last live ledger
    usedUntil,      \* the last live ledger of a UUID's marker, -1 if never spent
    validated,      \* the statements accepted, in order
    signatures,     \* what the attesters have signed off-chain
    ledger,
    proposer        \* history: who proposed the pending owner

ownership == <<owner, pendingOwner, proposer>>
contract == <<ownership, attesters, code, instanceUntil>>
policyEntries == <<policies, policyUntil>>
validation == <<usedUntil, validated>>
environment == <<signatures, ledger>>
vars == <<contract, policyEntries, validation, environment>>

Statement ==
    [uuid : UUIDs, call : Calls, target : Callers, policy : Policies,
     expiration : Expirations]

\* The network id and the statement, hashed: a digest is the tuple itself.
Digest ==
    [network : Networks, uuid : UUIDs, call : Calls, target : Callers,
     policy : Policies, expiration : Expirations]

Signature == [signer : Attesters, digest : Digest]

\* An accepted statement: the event's fields and, as history, the rest of the
\* statement, who really called, and when.
Event ==
    [uuid : UUIDs, call : Calls, target : Callers, policy : Policies,
     expiration : Expirations, attester : Attesters, by : Callers, at : Nat]

TypeOK ==
    /\ owner \in Accounts
    /\ pendingOwner \in Accounts \cup {NoAccount}
    /\ proposer \in Accounts \cup {NoAccount}
    /\ attesters \in Seq(Attesters)
    /\ code \in Codes
    /\ instanceUntil \in Nat
    /\ policies \in [Callers -> Policies]
    /\ policyUntil \in [Callers -> Nat \cup {-1}]
    /\ usedUntil \in [UUIDs -> Nat \cup {-1}]
    /\ validated \in Seq(Event)
    /\ signatures \in SUBSET Signature
    /\ ledger \in Nat

\* The constructor ran in ledger 0.
Init ==
    /\ owner \in Accounts
    /\ pendingOwner = NoAccount
    /\ proposer = NoAccount
    /\ attesters = << >>
    /\ code \in Codes
    /\ instanceUntil = MinTTL
    /\ policies = [c \in Callers |-> NoPolicy]
    /\ policyUntil = [c \in Callers |-> -1]
    /\ usedUntil = [u \in UUIDs |-> -1]
    /\ validated = << >>
    /\ signatures = {}
    /\ ledger = 0

-------------------------------------------------------------------------------
(* The host.                                                                *)

Live(until) == ledger <= until

\* A call reaches the contract only while its own entry is live.
Callable == Live(instanceUntil)

\* Mutant: the authorisation of an address argument is not demanded.
RequireNoAuth(by, address) == by = by

\* The address given as an argument is the one that makes the call.
RequireAuth(by, address) == by = address

\* A life of MaxTTL ledgers from now on.
Extended == ledger + MaxTTL

\* Mutant: an entry keeps the life it is born with.
NotExtended == ledger + MinTTL

Restore ==
    /\ ~Callable
    /\ instanceUntil' = ledger + MinTTL
    /\ UNCHANGED <<ownership, attesters, code, policyEntries, validation, environment>>

-------------------------------------------------------------------------------
(* Ownership.                                                               *)

RequireOwner(by, caller) == caller = owner /\ RequireAuth(by, caller)

\* There is no proposal that cancels another, only one that replaces it.
TransferOwnership(by, current, new) ==
    /\ Callable
    /\ RequireOwner(by, current)
    /\ pendingOwner' = new
    /\ proposer' = by
    /\ UNCHANGED <<owner, attesters, code, instanceUntil, policyEntries, validation, environment>>

\* Mutant: the proposal stays after it was accepted.
KeepProposal(new) == UNCHANGED <<pendingOwner, proposer>>

ClearProposal(new) == pendingOwner' = NoAccount /\ proposer' = NoAccount

\* Mutant: whatever is pending is accepted, a missing proposal too.
AcceptUnproposed(by, new) ==
    /\ Callable
    /\ RequireAuth(by, new)
    /\ owner' = pendingOwner
    /\ ClearProposal(new)
    /\ UNCHANGED <<attesters, code, instanceUntil, policyEntries, validation, environment>>

AcceptOwnership(by, new) ==
    /\ Callable
    /\ new = pendingOwner
    /\ RequireAuth(by, new)
    /\ owner' = new
    /\ ClearProposal(new)
    /\ UNCHANGED <<attesters, code, instanceUntil, policyEntries, validation, environment>>

\* The storage survives an upgrade.
Upgrade(by, caller, hash) ==
    /\ Callable
    /\ RequireOwner(by, caller)
    /\ code' = hash
    /\ UNCHANGED <<ownership, attesters, instanceUntil, policyEntries, validation, environment>>

-------------------------------------------------------------------------------
(* Attesters.  Both changes of the vector prolong the contract's entry.     *)

IsRegistered(a) == a \in Range(attesters)

\* Mutant: a registered attester may be registered again.
RegistrableAgain(a) == a \in Attesters

Registrable(a) == ~IsRegistered(a)

RegisterAttester(by, caller, a) ==
    /\ Callable
    /\ RequireOwner(by, caller)
    /\ Registrable(a)
    /\ attesters' = Append(attesters, a)
    /\ instanceUntil' = Extended
    /\ UNCHANGED <<ownership, code, policyEntries, validation, environment>>

DeregisterAttester(by, caller, a) ==
    /\ Callable
    /\ RequireOwner(by, caller)
    /\ IsRegistered(a)
    /\ attesters' = SwapAndPop(attesters, FirstPosition(attesters, a))
    /\ instanceUntil' = Extended
    /\ UNCHANGED <<ownership, code, policyEntries, validation, environment>>

-------------------------------------------------------------------------------
(* Policies.                                                                *)

SetPolicyID(by, caller, p) ==
    /\ Callable
    /\ RequireAuth(by, caller)
    /\ policies' = [policies EXCEPT ![caller] = p]
    /\ policyUntil' = [policyUntil EXCEPT ![caller] = Extended]
    /\ UNCHANGED <<contract, validation, environment>>

\* An archived binding reads as the empty policy.
GetPolicyID(client) == IF Live(policyUntil[client]) THEN policies[client] ELSE NoPolicy

-------------------------------------------------------------------------------
(* Attestations.                                                            *)

ComputeHash(st) ==
    [network |-> Network, uuid |-> st.uuid, call |-> st.call, target |-> st.target,
     policy |-> st.policy, expiration |-> st.expiration]

\* The caller takes the place of the statement's own target.
SafeStatement(st, caller) == [st EXCEPT !.target = caller]

AlreadyUsed(uuid) == Live(usedUntil[uuid])

\* Mutant: the marker is written but not prolonged.
MarkUnextended(uuid) == usedUntil' = [usedUntil EXCEPT ![uuid] = NotExtended]

Mark(uuid) == usedUntil' = [usedUntil EXCEPT ![uuid] = Extended]

\* Mutant: an attestation lapses one unit of time late.
ExpiresLate(t) == ledger <= t + 1

NotExpired(t) == ledger <= t

\* Mutant: the network is not part of the hash.
VerifiesOnAnyNetwork(hash, att) ==
    /\ att.signature.signer = att.attester
    /\ [att.signature.digest EXCEPT !.network = hash.network] = hash

\* ed25519_verify traps unless the named attester signed the hash.
Verifies(hash, att) == att.signature = [signer |-> att.attester, digest |-> hash]

Validates(by, caller, st, att) ==
    /\ RequireAuth(by, caller)
    /\ NotExpired(att.expiration)
    /\ ~AlreadyUsed(st.uuid)
    /\ st.uuid = att.uuid
    /\ st.expiration = att.expiration
    /\ IsRegistered(att.attester)
    /\ Verifies(ComputeHash(SafeStatement(st, caller)), att)

\* The event carries the caller, not the statement's target.
Accepted(by, caller, st, att) ==
    [uuid |-> st.uuid, call |-> st.call, target |-> caller, policy |-> st.policy,
     expiration |-> st.expiration, attester |-> att.attester, by |-> by, at |-> ledger]

\* Mutant: a validation does not prolong the contract's entry.
KeepInstanceLife == UNCHANGED instanceUntil

RefreshTTL == instanceUntil' = Extended

\* An attestation is an argument: any fields, with a signature somebody made.
Attestation ==
    [uuid : UUIDs, expiration : Expirations, attester : Attesters, signature : signatures]

ValidateAttestation(by, caller, st, att) ==
    /\ Callable
    /\ Validates(by, caller, st, att)
    /\ Mark(st.uuid)
    /\ RefreshTTL
    /\ validated' = Append(validated, Accepted(by, caller, st, att))
    /\ UNCHANGED <<ownership, attesters, code, policyEntries, environment>>

-------------------------------------------------------------------------------
(* The world around.                                                        *)

Sign(a, digest) ==
    /\ Cardinality(signatures) < MaxSignatures
    /\ signatures' = signatures \cup {[signer |-> a, digest |-> digest]}
    /\ UNCHANGED <<contract, policyEntries, validation, ledger>>

CloseLedger ==
    /\ ledger < MaxLedger
    /\ ledger' = ledger + 1
    /\ UNCHANGED <<contract, policyEntries, validation, signatures>>

Administration ==
    \/ \E by, current, new \in Accounts : TransferOwnership(by, current, new)
    \/ \E by, new \in Accounts : AcceptOwnership(by, new)
    \/ \E by, caller \in Accounts, hash \in Codes : Upgrade(by, caller, hash)
    \/ \E by, caller \in Accounts, a \in Attesters : RegisterAttester(by, caller, a)
    \/ \E by, caller \in Accounts, a \in Attesters : DeregisterAttester(by, caller, a)

Next ==
    \/ Administration
    \/ Restore
    \/ \E by, caller \in Callers, p \in Policies : SetPolicyID(by, caller, p)
    \/ \E by, caller \in Callers, st \in Statement, att \in Attestation :
           ValidateAttestation(by, caller, st, att)
    \/ \E a \in Attesters, digest \in Digest : Sign(a, digest)
    \/ CloseLedger

Spec == Init /\ [][Next]_vars

-------------------------------------------------------------------------------
(* What must hold.                                                          *)

\* A pending owner was proposed by the owner of today: no proposal survives a
\* change of owners, so a former owner's candidate cannot take over.
ProposalFromOwner == pendingOwner # NoAccount => proposer = owner

\* "contains": no key is in the vector twice, so one deregistration is enough
\* to stop trusting an attester.
OneEntryPerAttester == NoDuplicates(attesters)

\* Every accepted statement was signed, by the attester the event names, for
\* this network and for the contract the event names, and accepted in time; and
\* that contract presented it: "Without this, anyone could pass another
\* contract's address and spend uuids against it".
AcceptedWasSigned ==
    \A e \in Range(validated) :
        /\ [signer |-> e.attester,
            digest |-> [network |-> Network, uuid |-> e.uuid, call |-> e.call,
                        target |-> e.target, policy |-> e.policy,
                        expiration |-> e.expiration]] \in signatures
        /\ e.at <= e.expiration
        /\ e.by = e.target

\* "A marker archived while its attestation is still valid re-opens replay":
\* a UUID is accepted again only after its marker's longest life, so an
\* attestation that expires within that life is accepted once.
SpentForLifetime ==
    \A i, j \in DOMAIN validated :
        i < j /\ validated[i].uuid = validated[j].uuid =>
            validated[i].at + MaxTTL < validated[j].at

\* "Keeps an actively-used registry from being archived along with its
\* attesters": for a whole lifetime after a validation the instance entry, with
\* the owner and the attesters in it, is live.  (The code an upgrade installs is
\* an entry of its own, which lapses on its own.)
UseKeepsAlive ==
    \A e \in Range(validated) : ledger <= e.at + MaxTTL => Callable

-------------------------------------------------------------------------------
(* The registry is a one-shot authorisation as long as its markers last.    *)

Permitted(d) == [call |-> d.call, target |-> d.target, policy |-> d.policy]

PermitOf(s) ==
    [issuer |-> s.signer, serial |-> s.digest.uuid, action |-> Permitted(s.digest),
     deadline |-> s.digest.expiration]

GrantOf(e) ==
    [issuer |-> e.attester, serial |-> e.uuid, action |-> Permitted(e),
     deadline |-> e.expiration]

Authorization == INSTANCE OneShotAuthorization WITH
    Issuers <- Attesters,
    Serials <- UUIDs,
    Actions <- [call : Calls, target : Callers, policy : Policies],
    Deadlines <- Expirations,
    trusted <- Range(attesters),
    permits <- {PermitOf(s) : s \in {t \in signatures : t.digest.network = Network}},
    spent <- {u \in UUIDs : usedUntil[u] # -1},
    granted <- {GrantOf(e) : e \in Range(validated)},
    time <- ledger

\* A statement accepted after the marker of its UUID has outlived MaxTTL.
LateReplay ==
    /\ Len(validated') = Len(validated) + 1
    /\ \E i \in DOMAIN validated :
           /\ validated[i].uuid = validated'[Len(validated')].uuid
           /\ validated[i].at + MaxTTL < ledger

\* Every step is a step of the one-shot authorisation or invisible, except the
\* acceptance of a UUID whose marker was archived.
ImplementsWhileMarked ==
    /\ Authorization!Init
    /\ [][[Authorization!Next]_(Authorization!vars) \/ LateReplay]_vars
===============================================================================
