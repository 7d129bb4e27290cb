# Predicate contracts: models, checks and proofs

A Predicate registry lets a contract (a *client*) require, before it runs a
function, that an off-chain *attester* approved the call. The attester signs a
statement (a UUID, the call, the contract that will run it, a policy and an
expiration); the client hands the registry the statement it built itself and the
attestation its user supplied; the registry checks the signature and spends the
UUID. The repository holds two registries (Solidity for EVM chains, Rust for
Soroban), client libraries and examples for both, and a family of contracts for
asset compliance (freezing, seizure, white lists) that do not use the registry.

This directory keeps TLA+ models of those contracts, the TLC configurations that
check them, and TLAPS proofs of what matters most.

## 1. The system

| component | source | state | operations |
|---|---|---|---|
| EVM registry | `src/src/PredicateRegistry.sol` | owner, pending owner; array of attesters, registered flags, index of each attester; policy of each client; spent UUIDs | initialize, two-step ownership, register / deregister attester, migrateAttesterIndices, setPolicyID, validateAttestation |
| EVM client mixins | `src/src/mixins/*.sol` | registry address, cached policy | deployment, set policy (written through), set registry (policy registered again), authorise a transaction |
| EVM inheritance examples | `src/src/examples/inheritance/*.sol` | balances of vaults, coins | deposits, protected withdrawals and transfers |
| EVM proxy pattern | `src/src/examples/proxy/*.sol` | proxy and registry address, authorisation switch | authorise in the proxy, forward to the target; setters of the proxy open to everybody |
| Freezing, asset compliance | `src/src/Freezable.sol`, `src/src/examples/asset-compliance/*.sol` | roles, frozen flags, white list, pause, balances | freeze, unfreeze, pause, mint, burn, transfer, forced transfer |
| Soroban registry | `src/soroban/predicate-registry/src/*.rs` | owner, proposal, vector of attesters, policies and replay markers as storage entries with a lifetime | as on EVM, plus upgrade; no renouncement |
| Soroban client, compliant token | `src/soroban/predicate-client/src/lib.rs`, `src/soroban/example-compliant-token/src/lib.rs` | balances, registry, policy | mint, attested transfer, register_policy |
| Soroban asset administration | `src/soroban/test-stablecoin/src/lib.rs` | operator roles, onboarded, blocked | onboard, block, unblock, mint through a Stellar Asset Contract |
| scripts, SafeCast | `src/script`, `src/scripts`, `src/soroban/scripts`, `src/lib` | none | deployment and artefacts |

Interactions. Clients call the registry synchronously inside the user's
transaction; a failed validation reverts everything. Attesters act off-chain:
they read a client's policy from the registry (`clientToPolicy`) and sign; their
signature may be presented at any later time, by anybody, to any registry, any
number of times. Administration (ownership, attesters, policies, switches of the
registry a client points at) interleaves with signatures in flight. A contract
call runs alone and atomically, so there are no data races; what is hard is the
*order* of calls by different parties.

What makes each component correct:

* registry: the array, the flags and the index mapping agree whatever the order of
  removals and of the index migration; no abandoned ownership proposal can be
  accepted; a UUID is accepted once; nothing is accepted that a trusted attester
  did not sign for this chain and this caller, in time; nobody but the named
  contract can use up a signature;
* clients: the policy a client enforces is the one its registry shows; functions
  run only as approved, under the current policy, once; a client whose setters
  are open runs, at worst, on the word of the registry somebody gave it;
* vaults and coins: ether and coins leave an account as an attester approved and
  not otherwise, once, and a vault can always pay what its books owe; a coin
  behind the proxy leaves an account by that account's own call only;
* tokens with compliance controls: balances add up to the supply in unchecked
  arithmetic; freeze, pause and allow list hold on every path, seizures excepted;
* asset administration: the asset contract's flag follows the administrator's
  records, the events tell them, and a record in use is not archived.

## 2. Modules

| module | what it is |
|---|---|
| `AttesterList` | the two list operations of a registry: swap-and-pop and last position |
| `OneShotAuthorization` | abstract specification: permits issued, granted at most once per serial number, in time, on an issuer trusted at the moment of the grant |
| `PredicateRegistry` | the EVM registry, several of them on several chains |
| `PredicateClient` | PredicateClient and BasicPredicateClient contracts, composed with the registries |
| `SorobanRegistry` | the Soroban registry, over storage entries with a lifetime |
| `CompliantToken` | the compliant token and the Soroban client library, composed with the Soroban registry |
| `Vaults` | AdvancedVault and BasicVault: clients that hold ether for their users |
| `ProxiedCoin` | MetaCoin as a client, and MetaCoin behind a PredicateClientProxy |
| `AssetCompliance` | Freezable and the three tokens built on it |
| `SacAdmin` | the asset administrator over a Stellar Asset Contract |
| `EventLog` | places in a log and their ranks, with which two modules relate a log to a state |
| `MC*` | instances for TLC, one for each module or composition that is run |
| `DataProofs` | lemmas about lists, sums over a finite set, and places in a log |
| `PredicateRegistryProofs`, `ClientProofs`, `VaultProofs`, `CoinProofs`, `SorobanProofs`, `AssetComplianceProofs`, `SacAdminProofs` | theorems and proofs, of the registry, the token and the compositions they are named for |

`PredicateClient` extends `PredicateRegistry`; `Vaults` and `ProxiedCoin` extend
`PredicateClient`, each action of a vault or a coin containing the client's
`ProtectedCall`, which contains the registry's `ValidateAttestation`.
`CompliantToken` extends `SorobanRegistry`. `AssetCompliance` and `SacAdmin` stand
alone, as their contracts do.

### `PredicateRegistry`

Every storage variable of the contract is a variable of the module, indexed by the
registry, under the contract's name (`registeredAttesters`,
`isAttesterRegistered`, `attesterIndex`, `clientToPolicy`,
`usedStatementUUIDs`). `validated` is the log of `StatementValidated` events, with
the real caller and the time added as history. `signatures` is everything the
attesters have signed. `upgrade` is history too: whether an upgraded registry's
index mapping was populated, and whether an attester was removed before that.

One action is one external call. A `require` is a guard, a revert is the absence
of a step. Parts of the code that leave the block early or write conditionally are
kept: the swap that is skipped for the last attester, the checked subtraction and
array access that make `deregisterAttester` revert, the migration that keeps the
entries of unlisted attesters, the order of reads and writes in the checks of
`validateAttestation` (any order gives the same guard, since a revert has no
effect).

Abstractions. A hash is the tuple it hashes (keccak-256 is taken to be
collision-free; `abi.encode` is injective). `ECDSA.recover` gives back the signer
of a signature over the hash that was signed, and over any other hash an address
that is no attester. The message data the registry never looks at
(`msgSender`, `msgValue`, `encodedSigAndArgs`) is one value, `call`. OpenZeppelin's
ownership contracts are modelled from how the registry uses them and marked
external: proposing the zero address cancels, accepting and renouncing clear the
proposal.

An upgraded registry (`Upgraded`) starts in any state the version without
`attesterIndex` can have reached: an owner or none, any list of attesters that
agrees with the flags, indices all zero.

### `PredicateClient`

`deployed`, `clientRegistry`, `policy` are a client's storage; `executed` logs the
protected functions that ran. `Deploy`, `ClientSetPolicyID`, `SetRegistry` and
`ProtectedCall` are `_initPredicateClient`, `_setPolicyID`, `_setRegistry` and
`_authorizeTransaction` with the function it protects; each *contains* the
registry's own action (`SetPolicyID`, `ValidateAttestation`), as the Solidity call
does. `NoRegistry` is an address without code: a write through it reverts, so a
client with an empty policy can point at it and one with a policy cannot.
`AuthorizedCall` is the difference between the two mixins: a Basic client's
statement leaves out value and arguments.

In this composition attesters are honest: they sign a call of a client under the
policy the registry shows, with a UUID of its own each time. `Outsider` is
everybody else: any caller may set its own policy and present any statement with
any attestation.

Owners are trusted to give their clients one of the registries, or an address
without code by mistake. `PredicateClientProxy` has no owner: its `setPolicyID` and
`setRegistry` are open to everybody. `Proxies` are the clients of which that is true,
and they may also be given `ForeignRegistry`, a contract of somebody's own that takes
every policy and answers every attestation with yes; `ForeignCall` is a protected
function run on that answer. What such a contract does with the call besides, calling
the proxy back for instance, are steps of their own: everything it could call is open
anyway, and the proxy reads its registry before the call out and nothing after it. The
properties of what ran tell the two apart: `Attested` are the places of the log where a
registry answered.

### `Vaults`

`balances` is a vault's own mapping; `ether` and `wallet` are what the chain holds
for vaults and users. `Deposit`, `DepositAndLock`, `Withdraw` (`withdraw` and
`withdrawTo`) and `TransferTo` are the functions of `AdvancedVault`; a `BasicVault`
has the first and a withdrawal to oneself. The comparison with the balance comes
before the approval is spent, the approval before the balance changes, the balance
before the payment; all in one action, since a revert undoes them together.
`encodeWithSignature` is injective and is the record `Encoded`: `withdraw` and
`withdrawTo` encode alike, as the code has it (its comment, `AdvancedVault.sol:77`,
speaks of a different signature; the signature is the same and the first argument
tells them apart). A payment is `address.transfer`, whose 2300 gas let the payee
write nothing, so there is no call back to model: either the payee takes the ether
(`PayOut`), or the revert undoes the whole call and there is no step. `ForceEther` is
ether a contract cannot refuse. The setters of a vault are its owner's alone
(`OwnedAssumption`). The lock period is left out; no code uses it.

### `ProxiedCoin`

One client of `PredicateClient` is the coin that inherits it, another the proxy
before the other coin; `coins[c]` are the balances of the coin `c` is or stands
before. `ApprovedSend` is `sendCoin` of the first and `proxySendCoin` of the second,
which calls the coin's `sendCoin` through its guard, `OnlyPredicateProxy`.
`DirectSend` is anybody calling the coin's `sendCoin`, naming any sender. `SetProxy`
is the coin's owner, who may set any proxy, or none, and turn the guard on and off;
it is off at first. The proxy's setters are anybody's (above), and `UnapprovedSend` is
`proxySendCoin` on the word of somebody's own registry: it moves the coins of whoever
calls, as `msg.sender` is the sender there too, and passes the coin's guard like an
approved one. So `CoinsMoveAsApproved`, what the documents say of a guarded coin, is
refuted (`proxy_setters`), and `GuardedCoinMoves` states what the code does keep. The
coin that asks for itself has an owner and is not affected. The ether a caller may attach stays in the contracts and is left out.

### `AssetCompliance`

`kind` tells the three tokens apart, which share `frozen` and the roles. Batches of
freezing and of listing are sets, because each entry returns early or writes the
same value again; a batch of seizures is a sequence, of two, because the second
entry finds what the first one left. `Updatable` is what the two `_update` overrides
demand, and every ERC-20 movement passes it; `Seizable` is what `_forceTransfer`
demands instead. `Moved` is OpenZeppelin's unchecked debit and credit, in that order,
so that a transfer to oneself changes nothing. `SpendAllowance` keeps the exception
for the largest allowance. `permit` is an `approve` whose signature checks are
OpenZeppelin's; a UUPS upgrade keeps the storage and is no step. `seized` is the
history of `ForcedTransfer` events.

### `SacAdmin`

`role` and `instanceUntil` are the administrator's own entry; `onboarded[u]` and
`blockListed[u]` are a user's entries, represented by their last live ledger.
`trustline`, `authorized` and `balance` are the asset contract's and the accounts'.
`OnboardUser`, `BlockUser`, `UnblockUser`, `Mint` and the views (`Ask`) prolong the
contract's entry and the entries they read, below a threshold only, as
`extend_ttl` does; the host cuts the life asked for to the network's longest, `MaxTTL`
(`Clamped`). That is no rare case here: the code asks for 6,307,200 ledgers with a
threshold of 5,788,800, and a network that grants no more than about 3,110,400, half
a year, prolongs a record at every reading and never beyond that. The contract's own
entry asks for 518,400 and is not cut. The asset contract refuses to set the flag of an account without
a trustline, and the refusal undoes the record just written. `ChangeTrust`,
`IssuerSetsFlag` and `SacTransfer` are what accounts and the issuer do without asking
the administrator; the issuer's clawback, which takes balances from anybody on
whatever list, is left out. Here a call that touches an archived entry traps until the entry
is restored, which is what the host does with persistent entries; in
`SorobanRegistry` archived markers and policies read as absent, which is what that
code's comments say. Either reading is the pessimistic one for its module: the
registry's properties are about too much being accepted, the administrator's
`UseKeepsRecord` about calls that trap.

### `OneShotAuthorization` and the refinement

The abstract specification knows neither lists nor hashes. `Authorization(r)` maps
a registry to it: the trusted issuers are the registered attesters, the permits
are the signatures for the registry's chain, the spent serial numbers are the used
UUIDs, the grants are the accepted statements *with the real caller as the
target*. `ImplementsAuthorization` says that each registry's initial state is an
abstract one and each step an abstract step or a stutter. It is stated as a
formula on steps so that TLC checks it and TLAPS proves it. The Soroban registry
implements the same specification, with one exception (`ImplementsWhileMarked`,
below).

### `SorobanRegistry`

The contract's own storage entry holds `owner`, `pendingOwner` and `attesters`; it is
live until ledger `instanceUntil`. Each client's policy and each UUID's replay marker
is an entry of its own (`policies` and `policyUntil`, `usedUntil`). A new or restored
entry lives `MinTTL` ledgers, `extend_ttl` gives `MaxTTL`. The code prolongs the
contract's entry in `register`, `deregister` and `validate_attestation` only, a marker
when it is written, a policy when it is set; the actions do the same, and leave
`instanceUntil` alone everywhere else. `Callable` guards every call; `Restore` is
anybody's restoration of the archived contract. An archived policy or marker reads
as absent, which is what the code's comments say of them; a host that refuses such a
read until the entry is restored only forbids more.

Where the code takes an address as an argument and calls `require_auth` on it, the
action has both: `by` is who really calls, `caller` the argument, `RequireAuth`
compares them. Checks whose failure traps (`ed25519_verify`) and checks that return
an error are both guards: either way the call has no effect. One ledger closes per
unit of time, so that one clock serves the expirations (timestamps) and the lifetimes
(ledger numbers). `Upgrade` replaces the code and keeps the storage.

`ImplementsWhileMarked`: every step is a step of `OneShotAuthorization`, a stutter, or
a `LateReplay`, which accepts a UUID again more than `MaxTTL` ledgers after it was
accepted before. The contract does not bound how far an expiration may lie ahead;
an attestation that expires within `MaxTTL` of its signing is never accepted twice.

### `CompliantToken`

`Deploy`, `RegisterPolicy`, `Mint` and `Transfer` are the token's functions; `Transfer`
contains `authorize_transaction` (`StatementOf`) and the registry's
`ValidateAttestation`. `Moved` keeps the order of the code's reads and writes of the
two balances, which matters when they are one account's. Amounts are signed;
`MaxBalance` stands for the largest `i128` and an overflow is no step, since the
build traps on it. Attesters are honest, as in `PredicateClient`, and `Outsider` is
every other caller of the registry. The lifetimes of the token's own entries are
left out: the token never prolongs them, and each balance lapses on its own, apart
from the contract's entry. A call that touches an archived balance traps until
somebody restores it with the value it had, which delays a transfer and changes no
balance.

## 3. Runs

| run | what it shows |
|---|---|
| `admin` | a new and an upgraded registry, three attesters, two accounts: every order of ownership moves, registrations, removals and migrations |
| `validation` | two chains, two attesters, two callers, two UUIDs, two expirations, two signatures, any calldata |
| `proxied_coin` | a coin that is a client or one behind a proxy, two registries and an address without code, two policies and the empty one, a guard that is switched and a proxy that is replaced; the proxy's setters are anybody's, who may give it a registry of their own |
| `vaults` | an AdvancedVault or a BasicVault, two users and an outsider on one registry, two approvals in flight, amounts of one and two, ether forced on the vault |
| `soroban` | two owners, attesters, callers and networks, lifetimes of one and two ledgers: ownership, revocation, validation, archival and restoration in every order |
| `token` | the token, an outsider on the same registry, two holders and transfers between them and to themselves, mints of either sign |
| `sac_admin` | two operators, an account with a trustline and a contract, an issuer who sets flags, records and a contract that are archived and restored |
| `asset_compliance` | the three tokens, an issuer and two holders, a freezing role that is granted and revoked, an allowance, pauses, batches of two seizures |
| `proxy_setters` | refuted: a guarded coin moves only as an attester approved, through a proxy too |
| `policy_sync` | refuted: a registry shows a client's policy to attesters, whatever the client's past |
| `registry_switch` | refuted: an approval runs one function, wherever the client points |
| `token_supply` | refuted: a transfer makes no tokens |

Properties and what a violation would mean:

* `TypeOK`, `VaultTypeOK`, `TokenTypeOK`, `AssetTypeOK`, `SacTypeOK`: one type
  invariant per module that is run. `VaultTypeOK` and `AssetTypeOK` say that no
  checked or unchecked subtraction goes below zero, `TokenTypeOK` that no balance
  leaves the range of an `i128` though only the credits are guarded, `SacTypeOK` that no
  entry outlives its last prolongation or the network's longest life.
* `ListSound`, `IndexSound`, `RevocationPossible` (admin): array, flags and index
  mapping. `ListSound` and `IndexSound` except registries whose owner removed an
  attester between upgrade and migration, which the code comments warn of;
  `RevocationPossible` excepts nothing: even then every registered attester's index
  stays inside the array, so a removal never reverts.
* `RenouncedIsFinal`: no pending proposal outlives the renouncement.
* `NeverTwice`, `AcceptedWasSigned`, `UsableUntilSpent`, `ImplementsAuthorization`
  (validation): see section 2. `UsableUntilSpent` is about UUIDs that were given to
  one target only; attesters who give one UUID to two contracts let the first spend
  the other's.
* `PolicyRegistered`, `CurrentPolicyOnly` (proxied_coin): the client enforces what
  its registry shows, and a policy change kills the approvals given before it; both
  but for a proxy that was given somebody's own registry.
* `GuardedCoinMoves` (proxied_coin): while the guard is on and the proxy set, a coin
  leaves an account only by that account's own call, in its amount and to its
  receiver, and on the answer of the registry set at the moment; an answer of a
  registry is for that very call, and the coin without a proxy runs on no other.
  `CoinsConserved`: whoever moves them, and to oneself too, the coins stay as many as
  they were.
* `ExecutedWasApproved`, `SpentMeansExecuted`, `OncePerRegistry` (vaults): a
  function runs as approved and once; an approval is spent by running only.
* `Solvent`, `PaidAsApproved` (vaults): the ether covers the books after any sequence
  of deposits, locks, transfers and withdrawals; who pays, how much, and to whom, is
  what the approval spent in that call says.
* `OnlyClearedAuthorized`, `EventsTellRecords`, `BlockedStandStill`, `UseKeepsRecord`
  (sac_admin): two contracts' views of who is cleared agree but for what the issuer
  sets itself; the published events determine the records; blocking holds against
  onboarding again, new trustlines and archival; a record that was read stays readable
  for the code's threshold or the network's longest life, whichever is shorter.
* `SupplyIsHeld`, `FrozenStandsStill`, `PausedOnlySeizes`, `OffboardedOnlyBurned`
  (asset_compliance): no overflow in unchecked arithmetic; the balance of a frozen
  account changes by the seizures its events tell; in a pause nothing else moves;
  whoever was taken off the allow list only loses what is burned.
* `ProposalFromOwner`, `OneEntryPerAttester` (soroban): a former owner's candidate
  never takes over; one deregistration is enough.
* `AcceptedWasSigned`, `SpentForLifetime`, `UseKeepsAlive`, `ImplementsWhileMarked`
  (soroban): nobody uses up another contract's approval; a UUID stays spent for the
  longest life of its marker; the entry of a registry in use, attesters included, is
  not archived. (The code is an entry of its own, shared by all contracts that run it.
  What an upgrade installs brings a life of its own, which is left out.)
* `PolicyStaysTheTokens`, `TransfersMatchEvents` (token): the registry's log of
  statements accepted for the token is, in order, the list of transfers it made: the
  statement at the n-th of the token's places in the log (`Own`, `Rank`) names the n-th
  transfer. `ExcessIsSelfSent`: what the holders have beyond what was minted is exactly
  what was sent from an account to itself. `TransferConserves`, the same for a single
  transfer (between two different accounts, what one loses the other gains, and no
  more than there was), is proved and not run.

The four refuted runs are disagreements between code and comments or documents
(`findings` in `PROJECT.json`): the empty policy is never registered again; UUIDs are
spent per registry while the signed digest names no registry; the proxy's setters,
"authorized only by the owner" in the interface, have no owner; and a token transfer
from an account to itself credits it without debiting it.

Three further disagreements need no run to be seen. The EVM registry verifies a
statement for the contract that calls and publishes the target the calldata names
(`PredicateRegistry.sol:278`), so the event may name another. A record of the asset
administrator lives for the threshold that a test asserts
(`test-stablecoin/src/lib.rs:686`) only on a network that allows it. And a comment
(`example-compliant-token/src/lib.rs:50-52`) says that `transfer` validates against the
registry's mapping; the code takes the policy from the token's own storage, and
`validate_attestation` never reads the mapping. The two hold the same policy (`PolicyStaysTheTokens`) until the mapping's entry is archived.

### Bounds

`MaxTime` stops the clock one tick after the last expiration can matter (tick 1
passes expiration 0, and expiration 1 is met in its very second). `MaxSignatures`
is two where two signatures must compete (same UUID, two targets, two chains, two
signers) and one where they cannot. `SettledOwnership`
keeps `validation` from exploring handed-over or renounced registries, which `admin`
does. Three attesters are the least for which a
removal moves an attester that is neither removed nor first. Two registries, two
callers and two policies give every "the other one" its witness. Attesters,
callers and UUIDs are interchangeable where the configuration gives them no
different roles, and only there a symmetry set is used. In `soroban` an entry lives one
or two ledgers and the clock runs to ledger 4, so that the contract, a marker and a
policy are each archived and the only UUID, whose attestations expire at 3, can come
back; with one ledger less no `LateReplay` would happen. `OnlyTheToken` keeps `token`
from exploring the proposals and policies of others, which `soroban` does.

`vaults` deploys one vault of either kind, asks for approvals for one of its two users,
and keeps the registry's owner and a used vault's configuration, which `admin` and
`proxied_coin` vary; two approvals for amounts of one and two against funds of two
make every wrong pair of approval and call available. `proxied_coin` deploys one of
its two clients, with one approval of one coin, and looks at most one run beyond the
first (`FewRuns`), with approval or without; what matters there is the order of policy
changes, switches and the call. Its registries, policies and users are interchangeable.
`proxy_setters` uses the same instance. In `sac_admin` a record asks for a life of
four ledgers with a threshold of three, and the network grants two, as on the real
networks the one asked for is beyond the longest; the contract's entry asks for one
and gets it. The clock runs to ledger 3, so that records are archived, restored and
prolonged; three events per user allow an onboarding between a block and an unblock,
in every order. In `asset_compliance` the largest
integer is 2, so that the sums that must not overflow are one step away; the issuer
holds every role but the freezing one, the only one that the code gives to a
different party. The runs do not check
deadlock away: the owner can always act, and a registry without an owner still
takes policies.

### Liveness

None is claimed. A contract acts when somebody calls it; nothing in the
repository schedules a call, so no fairness would be justified. "Can always be
done" is stated as safety instead (`RevocationPossible`, `UsableUntilSpent`).

## 4. Proofs

`tlapm` checks every theorem, for all values of the constants that satisfy the
named assumptions. Every invariant and every action property that a passing run
checks is stated by a theorem; TLC checks each on a small instance, the proofs for
any number of registries, clients, users, tokens and calls.

What is assumed of the constants: chain identifiers, expirations and lifetimes are
naturals, a marker's longest life is no shorter than an entry's first; the zero
address is among the accounts and the empty policy among the policies; the calls
there are include the transfers and withdrawals of the clients (`CallAssumption`,
`VaultCallAssumption`, `CoinCallAssumption`), and what a Basic client's statement leaves
of a call is a call (`BareCallAssumption`); all registries a client may point at
are on one chain, as addresses are. Attesters, users, holders and accounts are
finitely many: an address has finitely many bits. Only the addresses of `Proxies`, of
which a vault is none (`OwnedAssumption`), may be given `ForeignRegistry`, which is
neither a registry nor an address without code (`RegistryAddressAssumption`). An entry's
first life is within the network's longest. Without that a sum of balances
would mean nothing; nothing else depends on it but the length of an attester array.
`FullApprovalAssumption` says that the coin and its proxy inherit `PredicateClient`
and not `BasicPredicateClient`, as their declarations do; a Basic client approves the
sender alone, and `GuardedCoinMoves` would be false of it.

### Lemmas about data (`DataProofs`)

Appending to, and swap-and-pop of, a duplicate-free list gives a duplicate-free list
with one element more or fewer; the first and the last position of an element exist,
and there is one only in a duplicate-free list. Sums of a function over a finite set
(`SumFunctionOnSet` of the community module `Functions`) are a fold, defined by recursion
on the set; that the fold exists, that it does not depend on the order in which
elements are taken, and what one changed entry does to it, are proved by taking, among
the subsets that would be a counterexample, one with no smaller counterexample inside
it (`SmallestSubset`). `SumUpdate`, `SumOfMove` and `SumOfLonger` are what the balance
proofs cite. `RankOfNew` and `RankOfOld` are about the places of a subsequence: a
place added at the end has the highest rank and changes no other's.

### The EVM registry (`PredicateRegistryProofs`)

* Attesters. `ListSound` and `IndexSound` do not suffice: they are silent about a
  registry whose attesters were removed before the migration, and
  `RevocationPossible` holds there too. `AttesterInv` says so: the list and flags
  agree unless misordered (`Listed`), indices are positions once migrated
  (`Indexed`), the array is always as long as there are registered attesters
  (`Counted`), and a registered attester's index is 0 or its true position
  (`Placed`), migrated or not. From it follow `TypeCorrect`, `ListCorrect`,
  `IndexCorrect`, `AlwaysRevocable`. `OwnerInv` adds that a registry without an owner
  has no heir, which gives `RenouncementFinal`.
* Validation. `ValidationInv`: every accepted UUID is marked (`Marked`), accepted
  UUIDs are distinct (`Distinct`), every accepted statement is backed by a signature
  (`Backed`). From it `AcceptedOnce` and `AcceptedSigned`.
* `UsableTillSpent`: a usable signature stays so in every step but one that lets it
  lapse, deregisters its signer or validates its UUID. In the last case the statement
  was signed for the caller, under a UUID that was given to one target only: so the
  caller is that target (`SpendingFares`).
* `RegistryImplements` is the refinement of `OneShotAuthorization`, step by step
  through the actions: a validation is a grant, a signature for the registry's chain
  an issue, registering and deregistering trust and distrust, all else a stutter.
  `PromiseKept` proves of the abstract specification, and so of whatever implements
  it, that only permits are granted and no serial number is granted twice.

### The clients (`ClientProofs`, `VaultProofs`, `CoinProofs`)

A step of clients and their surroundings is a step of the registry
(`SystemIsRegistry`), so the registry's theorems hold of the composition, for any
number of clients and registries. `SystemInv` adds: the policy enforced is
registered (`PolicyRegistered`); every approval given to a client has a UUID of its
own (`Issued`); a UUID given to a client that is spent in a registry has its entry in
the client's log (`Accounted`), and each entry of the log is approved, recorded as
spent in its registry, and there once. `Issued` is what makes `Accounted` inductive:
an outsider who presents somebody else's UUID would need an approval of its own under
it. Runs without a registry's answer spend nothing and leave the attested places of the
log as they are (`ForeignKeeps`, `SameLog`), so that what is said of those places is
inductive beside them. From it `PolicyAlwaysRegistered`, `RunsAsApproved`, `SpentByRunning`, `RunsOnce`
and `CurrentPolicy`.

`VaultIsClient` and `CoinIsClient` carry all of it to the compositions, whose steps are
client steps. `VaultPaysAsApproved` then follows function by function: the last entry
of the log is the approval just spent, and the encoding ties its sender, recipient and
amount to the debit and the payment. `Solvent` is inductive with the books' types: each
function changes the sum of a vault's balances by what comes in or goes out
(`DepositOwed`, `WithdrawOwed`, `TransferOwed`); `WithdrawalsCovered` draws from it
that each single balance can be paid out. `SupplyConserved` is the same argument for
a coin, for every call, approved or direct. `GuardedMoves` adds that a guarded
coin refuses direct calls (`GuardedRefuses`), so that what moves it is a run of its client
(`SendRun`), on an approval of this very call or, for a proxy alone, without one.

### The Soroban registry and the token (`SorobanProofs`)

* For all `MinTTL <= MaxTTL`. `EntryInv` is type correctness with a duplicate-free
  vector; swap-and-pop then removes the only entry of a key (`FirstPositionExists`), so
  deregistering is the abstract `Distrust`. `LogInv` relates the log to the markers
  and the clock: each accepted statement is backed by a signature (`Backed`), was
  presented by its target (`ByTarget`), lies in the past (`Past`), its marker and the
  contract's entry reach at least `MaxTTL` ledgers beyond it (`Outlived`, `Alive`), a
  marker is always the trace of some accepted statement exactly `MaxTTL` before it
  lapses (`Witnessed`), and two acceptances of a UUID are that far apart (`Spaced`).
  `Outlived` is what makes `Spaced` inductive; `Witnessed` is what turns an archived
  marker into a `LateReplay` in `RegistryImplements`.
* A step of the token and its surroundings is a step of the registry
  (`TokenUsesRegistry`), whose theorems carry over; `PolicyIsTheTokens` follows from
  `require_auth` on the caller argument alone. `LedgerMatchesLog`: a transfer adds one
  place of the highest rank and one transfer, an outsider's validation adds a statement
  for somebody else, because the token's statements need the token's authorisation.
* Balances. `TransferSum` says what `Moved` does to the sum of all balances: nothing,
  and it adds the amount when sender and recipient are one. Hence `TransfersConserve`
  and `ExcessAccounted`: that transfer is the *only* way the token makes tokens, so the
  refuted `TotalIsMinted` fails by exactly the sum of those amounts and by no more.

### Assets (`AssetComplianceProofs`, `SacAdminProofs`)

* Type correctness of the three tokens carries the lower bound of every balance
  through both entries of a batch; the three action properties follow action by
  action from the guards, and the seizures' arithmetic. `SupplyHeld` strengthens
  `SupplyIsHeld` to "the balances add up to a supply within bounds" (`SupplyInv`): each
  balance is then bounded by the sum, which no unchecked addition can overflow.
* In the administrator, `OnlyClearedAuthorized` is inductive with types alone; the
  blocked stand still because the flag of a blocked user is off or the issuer's.
  `UseKeepsRecord` needs that a record read in a ledger lives beyond it for at least what
  the host grants of the threshold, whichever branch of `extend_ttl` is taken and
  whether or not the life asked for is cut (`ClampedLife`, `ExtendedLife`). `EventsTell`: a step
  leaves a user's records and log alone, is its first onboarding, or turns its place
  on the block list and says so (`OneOfThree`); `OnboardingTold` and `ChangeTold` show
  that the log goes on telling the records, by the parity of the ranks of its changes.

### What stays with TLC

The four refuted runs, of which the counterexample is the result. Nothing else: there is no liveness property (section 3), and no definition of the
models is recursive.

## 5. Not modelled

* Deployment and artefact scripts: straight-line input and output, no state.
* `SafeCast`: one range check, used by no contract here.
* `src/src/examples/MetaCoin.sol`: the coin as it was before any client, unprotected;
  nothing is promised of it.
* Gas, and therefore payees that run out of it; the bytes of hashes and encodings;
  signature checks of `permit`; the code an upgrade installs, and its storage entry; the
  issuer's clawback.
* Liveness, for the reason given above.

What could be added: an instance of `asset_compliance` in which every role changes
hands, and lifetimes for the token's own entries.
