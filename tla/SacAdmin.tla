-------------------------------- MODULE SacAdmin --------------------------------
(***************************************************************************)
(* The asset administrator (src/soroban/test-stablecoin/src/lib.rs): the   *)
(* contract that is the admin of a Stellar Asset Contract (SAC), onboards  *)
(* users, blocks and unblocks them, and mints.                             *)
(*                                                                         *)
(* A user is cleared in two places.  The administrator records who was     *)
(* onboarded and who is blocked; the SAC holds the flag that transfers     *)
(* obey.  Both change on their own: accounts delete and recreate their     *)
(* trustline, the issuer sets flags itself.                                *)
(*                                                                         *)
(* Storage entries have a lifetime.  A call that touches an archived entry *)
(* traps, as the host has it, until somebody restores the entry; a call    *)
(* that traps or returns an error changes nothing, lifetimes included.     *)
(***************************************************************************)
EXTENDS Integers, Sequences, EventLog

CONSTANTS
    Users,
    AccountUsers,   \* users that are accounts and need a trustline; the
                    \* others are contracts
    Operators,
    Amounts,        \* amounts to mint or transfer
    MaxBalance,     \* the largest balance the SAC can hold
    InstanceThreshold, InstanceBump,        \* in ledgers, as all lifetimes
    PersistentThreshold, PersistentBump,
    MinTTL,         \* the life an entry is born with or restored to
    MaxTTL,         \* the network's longest life of an entry
    MaxLedger       \* bound: the last ledger

ASSUME UserAssumption == AccountUsers \subseteq Users
ASSUME AmountAssumption == Amounts \subseteq Int /\ MaxBalance \in Nat
ASSUME LifetimeAssumption ==
    /\ InstanceThreshold \in Nat /\ InstanceBump \in Nat
    /\ PersistentThreshold \in Nat /\ PersistentBump \in Nat
    /\ InstanceThreshold <= InstanceBump /\ PersistentThreshold <= PersistentBump
    /\ MinTTL \in Nat /\ MaxTTL \in Nat /\ MinTTL <= MaxTTL
    /\ MaxLedger \in Nat

VARIABLES
    role,           \* the operators, in the contract's own entry
    instanceUntil,  \* the last ledger that entry is live
    onboarded,      \* a user's Onboarded entry: its last live ledger, or NoEntry
    blockListed,    \* a user's BlockListed entry, likewise
    events,         \* history: what was published about each user
    seen,           \* history: when a user's Onboarded entry was last read
    trustline,      \* in the SAC and the accounts: who can be authorised ...
    authorized,     \* ... and who is
    issuerSet,      \* history: whose flag the issuer was the last to set
    balance,
    ledger

records == <<onboarded, blockListed, events, seen>>
asset == <<trustline, authorized, issuerSet, balance>>
vars == <<role, instanceUntil, records, asset, ledger>>

Role == {"Minter", "Onboarder", "BlockOperator", "UnblockOperator"}
UserEvent == {"UserOnboarded", "UserBlocked", "UserUnblocked"}
NoEntry == -1

\* No entry outlives what it was born with or last prolonged to, nor what the
\* network allows.
LifeWithin(until, bump) ==
    /\ until - ledger <= MaxTTL
    /\ until - ledger <= MinTTL \/ until - ledger <= bump

SacTypeOK ==
    /\ role \in [Role -> Operators]
    /\ instanceUntil \in Nat
    /\ LifeWithin(instanceUntil, InstanceBump)
    /\ onboarded \in [Users -> Nat \cup {NoEntry}]
    /\ blockListed \in [Users -> Nat \cup {NoEntry}]
    /\ \A u \in Users : /\ LifeWithin(onboarded[u], PersistentBump)
                       /\ LifeWithin(blockListed[u], PersistentBump)
    /\ events \in [Users -> Seq(UserEvent)]
    /\ seen \in [Users -> Nat \cup {NoEntry}]
    /\ trustline \in [Users -> BOOLEAN]
    /\ authorized \in [Users -> BOOLEAN]
    /\ issuerSet \in [Users -> BOOLEAN]
    /\ balance \in [Users -> 0 .. MaxBalance]
    /\ ledger \in Nat

-------------------------------------------------------------------------------
(* Storage.                                                                 *)

\* The host grants no longer life than the network's longest.
Clamped(ttl) == IF ttl <= MaxTTL THEN ttl ELSE MaxTTL

\* Mutant: the entry is prolonged from the end of its life, not from now.
ExtendedFromEnd(until, threshold, bump) ==
    IF until - ledger <= threshold THEN until + Clamped(bump) ELSE until

\* extend_ttl prolongs a life only when no more than the threshold is left.
ExtendedTo(until, threshold, bump) ==
    IF until - ledger <= threshold THEN ledger + Clamped(bump) ELSE until

Callable == ledger <= instanceUntil

ExtendInstance ==
    instanceUntil' = ExtendedTo(instanceUntil, InstanceThreshold, InstanceBump)

Exists(entry) == entry # NoEntry

Readable(entry) == Exists(entry) => ledger <= entry

\* Mutant: reading an entry does not prolong it.
ReadOnly(entry) == entry

\* persistent_entry_exists prolongs the entry it finds.
Read(entry) ==
    IF Exists(entry) THEN ExtendedTo(entry, PersistentThreshold, PersistentBump) ELSE NoEntry

\* set_persistent_entry, for an entry that does not exist.
Created == ExtendedTo(ledger + MinTTL, PersistentThreshold, PersistentBump)

-------------------------------------------------------------------------------
(* The Stellar Asset Contract.                                              *)

\* It refuses to set the flag of an account without a trustline.
SetAuthorized(u, flag) ==
    /\ trustline[u]
    /\ authorized' = [authorized EXCEPT ![u] = flag]
    /\ issuerSet' = [issuerSet EXCEPT ![u] = FALSE]
    /\ UNCHANGED <<trustline, balance>>

SacIsAuthorized(u) == trustline[u] /\ authorized[u]

SacMint(u, amount) ==
    /\ SacIsAuthorized(u)
    /\ balance[u] + amount <= MaxBalance
    /\ balance' = [balance EXCEPT ![u] = @ + amount]
    /\ UNCHANGED <<trustline, authorized, issuerSet>>

-------------------------------------------------------------------------------
(* The administrator.                                                       *)

\* __constructor, in ledger 0; the operators may be one address.
Init ==
    /\ role \in [Role -> Operators]
    /\ ledger = 0
    /\ instanceUntil = ExtendedTo(ledger + MinTTL, InstanceThreshold, InstanceBump)
    /\ onboarded = [u \in Users |-> NoEntry]
    /\ blockListed = [u \in Users |-> NoEntry]
    /\ events = [u \in Users |-> << >>]
    /\ seen = [u \in Users |-> NoEntry]
    /\ trustline = [u \in Users |-> u \notin AccountUsers]
    /\ authorized = [u \in Users |-> FALSE]
    /\ issuerSet = [u \in Users |-> FALSE]
    /\ balance = [u \in Users |-> 0]

\* The operator an argument names has to be the one that calls.
RequireRole(by, r) == Callable /\ by = role[r] /\ ExtendInstance /\ UNCHANGED <<role, ledger>>

\* is_onboarded and is_on_block_list, as the functions below call them.
IsOnboarded(u) == Exists(onboarded[u])
IsOnBlockList(u) == Exists(blockListed[u])

Publish(u, event) == events' = [events EXCEPT ![u] = Append(@, event)]

\* Mutant: every onboarding is published.
PublishAlways(u) == Publish(u, "UserOnboarded")

\* Only the first onboarding is published.
PublishFirst(u) ==
    IF IsOnboarded(u) THEN UNCHANGED events ELSE Publish(u, "UserOnboarded")

\* Mutant: the block list is not looked at.
OnboardableBlocked(u) == Readable(onboarded[u])

\* A user on the block list is not onboarded.
Onboardable(u) ==
    /\ Readable(onboarded[u])
    /\ Readable(blockListed[u])
    /\ ~IsOnBlockList(u)

OnboardUser(by, u) ==
    /\ RequireRole(by, "Onboarder")
    /\ Onboardable(u)
    /\ onboarded' = [onboarded EXCEPT ![u] = IF IsOnboarded(u) THEN Read(@) ELSE Created]
    /\ seen' = [seen EXCEPT ![u] = ledger]
    /\ SetAuthorized(u, TRUE)
    /\ PublishFirst(u)
    /\ UNCHANGED blockListed

\* Blocking a blocked user does nothing, not even to the SAC's flag.
BlockUser(by, u) ==
    /\ RequireRole(by, "BlockOperator")
    /\ Readable(blockListed[u])
    /\ \/ /\ IsOnBlockList(u)
          /\ blockListed' = [blockListed EXCEPT ![u] = Read(@)]
          /\ UNCHANGED <<events, asset>>
       \/ /\ ~IsOnBlockList(u)
          /\ blockListed' = [blockListed EXCEPT ![u] = Created]
          /\ SetAuthorized(u, FALSE)
          /\ Publish(u, "UserBlocked")
    /\ UNCHANGED <<onboarded, seen>>

\* Mutant: access is restored to users who were never onboarded.
RestoreAnybody(u) ==
    /\ SetAuthorized(u, TRUE)
    /\ UNCHANGED <<onboarded, seen>>

\* Access is restored only to users who were onboarded.
RestoreAccess(u) ==
    /\ Readable(onboarded[u])
    /\ onboarded' = [onboarded EXCEPT ![u] = Read(@)]
    /\ IF IsOnboarded(u)
       THEN SetAuthorized(u, TRUE) /\ seen' = [seen EXCEPT ![u] = ledger]
       ELSE UNCHANGED <<asset, seen>>

UnblockUser(by, u) ==
    /\ RequireRole(by, "UnblockOperator")
    /\ Readable(blockListed[u])
    /\ \/ ~IsOnBlockList(u) /\ UNCHANGED <<records, asset>>
       \/ /\ IsOnBlockList(u)
          /\ blockListed' = [blockListed EXCEPT ![u] = NoEntry]
          /\ RestoreAccess(u)
          /\ Publish(u, "UserUnblocked")

\* The three conditions are read in this order, and the record first.
Mint(by, u, amount) ==
    /\ RequireRole(by, "Minter")
    /\ amount > 0
    /\ IsOnboarded(u) /\ Readable(onboarded[u])
    /\ ~IsOnBlockList(u)
    /\ SacIsAuthorized(u)
    /\ SacMint(u, amount)
    /\ onboarded' = [onboarded EXCEPT ![u] = Read(@)]
    /\ seen' = [seen EXCEPT ![u] = ledger]
    /\ UNCHANGED <<blockListed, events>>

\* Even questions prolong the contract's entry, and some the entry they read.
Ask ==
    /\ Callable
    /\ ExtendInstance
    /\ \/ UNCHANGED records
       \/ \E u \in Users :
              /\ IsOnboarded(u) /\ Readable(onboarded[u])
              /\ onboarded' = [onboarded EXCEPT ![u] = Read(@)]
              /\ seen' = [seen EXCEPT ![u] = ledger]
              /\ UNCHANGED <<blockListed, events>>
       \/ \E u \in Users :
              /\ IsOnBlockList(u) /\ Readable(blockListed[u])
              /\ blockListed' = [blockListed EXCEPT ![u] = Read(@)]
              /\ UNCHANGED <<onboarded, events, seen>>
    /\ UNCHANGED <<role, asset, ledger>>

-------------------------------------------------------------------------------
(* The world around.                                                        *)

\* New trustlines start unauthorised, deleted ones lose the authorisation.
ChangeTrust(u) ==
    /\ u \in AccountUsers
    /\ balance[u] = 0
    /\ trustline' = [trustline EXCEPT ![u] = ~@]
    /\ authorized' = [authorized EXCEPT ![u] = FALSE]
    /\ issuerSet' = [issuerSet EXCEPT ![u] = FALSE]
    /\ UNCHANGED <<role, instanceUntil, records, balance, ledger>>

IssuerSetsFlag(u, flag) ==
    /\ trustline[u]
    /\ authorized' = [authorized EXCEPT ![u] = flag]
    /\ issuerSet' = [issuerSet EXCEPT ![u] = TRUE]
    /\ UNCHANGED <<role, instanceUntil, records, trustline, balance, ledger>>

\* A transfer in the SAC, which does not ask the administrator.
SacTransfer(from, to, amount) ==
    /\ from # to
    /\ SacIsAuthorized(from) /\ SacIsAuthorized(to)
    /\ 0 < amount /\ amount <= balance[from] /\ balance[to] + amount <= MaxBalance
    /\ balance' = [balance EXCEPT ![from] = @ - amount, ![to] = @ + amount]
    /\ UNCHANGED <<role, instanceUntil, records, trustline, authorized, issuerSet, ledger>>

RestoreInstance ==
    /\ ~Callable
    /\ instanceUntil' = ledger + MinTTL
    /\ UNCHANGED <<role, records, asset, ledger>>

RestoreEntry(u) ==
    /\ \/ /\ ~Readable(onboarded[u])
          /\ onboarded' = [onboarded EXCEPT ![u] = ledger + MinTTL]
          /\ UNCHANGED blockListed
       \/ /\ ~Readable(blockListed[u])
          /\ blockListed' = [blockListed EXCEPT ![u] = ledger + MinTTL]
          /\ UNCHANGED onboarded
    /\ UNCHANGED <<role, instanceUntil, events, seen, asset, ledger>>

CloseLedger ==
    /\ ledger < MaxLedger
    /\ ledger' = ledger + 1
    /\ UNCHANGED <<role, instanceUntil, records, asset>>

Next ==
    \/ \E by \in Operators, u \in Users :
           OnboardUser(by, u) \/ BlockUser(by, u) \/ UnblockUser(by, u)
    \/ \E by \in Operators, u \in Users, amount \in Amounts : Mint(by, u, amount)
    \/ Ask
    \/ \E u \in Users : ChangeTrust(u) \/ RestoreEntry(u)
    \/ \E u \in Users, flag \in BOOLEAN : IssuerSetsFlag(u, flag)
    \/ \E from, to \in Users, amount \in Amounts : SacTransfer(from, to, amount)
    \/ RestoreInstance
    \/ CloseLedger

Spec == Init /\ [][Next]_vars

-------------------------------------------------------------------------------
(* What must hold.                                                          *)

\* The SAC's flag follows the administrator's records: whoever may move the
\* asset was onboarded and is not on the block list, whatever happened to the
\* trustline, unless the issuer set the flag itself.
OnlyClearedAuthorized ==
    \A u \in Users : authorized[u] /\ ~issuerSet[u] => IsOnboarded(u) /\ ~IsOnBlockList(u)

\* Where a log of events tells of the block list.
Changes(log) == {i \in DOMAIN log : log[i] # "UserOnboarded"}

Tells(log, isOnboarded, isBlocked) ==
    /\ isBlocked <=> Cardinality(Changes(log)) % 2 = 1
    /\ \A i \in Changes(log) :
           log[i] = IF Rank(Changes(log), i) % 2 = 1 THEN "UserBlocked" ELSE "UserUnblocked"
    /\ Len(log) - Cardinality(Changes(log)) = IF isOnboarded THEN 1 ELSE 0

\* "Emits only for the first successful onboarding", "silent no-op": whoever
\* follows the events knows who was onboarded and who is on the block list.
EventsTellRecords == \A u \in Users : Tells(events[u], IsOnboarded(u), IsOnBlockList(u))

\* A user on the block list neither sends nor receives, and leaves the list by
\* an unblocking alone, though its entry be archived or the user onboarded
\* again.  Only the issuer can let it move, by setting the flag itself.
BlockedStandStill ==
    [][\A u \in Users : IsOnBlockList(u) =>
           /\ balance'[u] # balance[u] => issuerSet[u]
           /\ IsOnBlockList(u)' \/ events'[u] = Append(events[u], "UserUnblocked")]_vars

\* A record of onboarding that was read is not archived before the threshold
\* the code asks for, or the network's longest life if that is shorter.  The
\* tests, on a network that allows it, count on the threshold (lib.rs:686).
UseKeepsRecord ==
    \A u \in Users : seen[u] # NoEntry /\ ledger <= seen[u] + Clamped(PersistentThreshold) =>
        Readable(onboarded[u])
===============================================================================
