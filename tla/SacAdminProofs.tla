----------------------------- MODULE SacAdminProofs -----------------------------
(***************************************************************************)
(* What the asset administrator guarantees for any number of users and     *)
(* operators and any lifetimes: records that stay readable while in use,   *)
(* and a flag in the asset that follows them.                              *)
(***************************************************************************)
EXTENDS SacAdmin, DataProofs

\* The lifetime of one entry, whoever's it is.
Entry(e) == e \in Nat \cup {NoEntry}

\* What the host grants of a life asked for.
LEMMA ClampedLife ==
    ASSUME NEW n \in Nat, NEW m \in Nat, n <= m
    PROVE  /\ Clamped(m) \in Nat /\ Clamped(n) <= Clamped(m)
           /\ Clamped(m) <= m /\ Clamped(m) <= MaxTTL
           /\ \A life \in Int : life <= n /\ life <= MaxTTL => life <= Clamped(m)
BY LifetimeAssumption DEF Clamped

LEMMA ExtendedLife ==
    ASSUME NEW until \in Nat, NEW threshold \in Nat, NEW bump \in Nat,
           threshold <= bump, ledger \in Nat, LifeWithin(until, bump)
    PROVE  /\ ExtendedTo(until, threshold, bump) \in Nat
           /\ ExtendedTo(until, threshold, bump) >= until
           /\ ExtendedTo(until, threshold, bump) >= ledger + Clamped(threshold)
           /\ LifeWithin(ExtendedTo(until, threshold, bump), bump)
<1>1. /\ Clamped(bump) \in Nat /\ Clamped(threshold) \in Nat
      /\ Clamped(threshold) <= threshold /\ Clamped(threshold) <= Clamped(bump)
      /\ Clamped(bump) <= bump /\ Clamped(bump) <= MaxTTL
    BY ClampedLife
<1>2. CASE until - ledger <= threshold
    <2>1. until - ledger <= Clamped(bump)
        BY <1>2, ClampedLife DEF LifeWithin
    <2>2. ExtendedTo(until, threshold, bump) = ledger + Clamped(bump)
        BY <1>2 DEF ExtendedTo
    <2> QED BY <1>1, <2>1, <2>2 DEF LifeWithin
<1>3. CASE ~(until - ledger <= threshold)
    BY <1>1, <1>3 DEF ExtendedTo
<1> QED BY <1>2, <1>3

\* Reading an entry neither creates nor removes it, and keeps it for a while.
LEMMA ReadLife ==
    ASSUME NEW e, Entry(e), ledger \in Nat, LifeWithin(e, PersistentBump)
    PROVE  /\ Entry(Read(e)) /\ LifeWithin(Read(e), PersistentBump)
           /\ Exists(Read(e)) <=> Exists(e)
           /\ Exists(e) => Read(e) >= ledger + Clamped(PersistentThreshold)
<1>1. CASE e = NoEntry
    <2>1. -1 - ledger <= PersistentBump /\ -1 - ledger <= MaxTTL
        BY LifetimeAssumption
    <2> QED BY <1>1, <2>1 DEF Entry, Read, Exists, LifeWithin, NoEntry
<1>2. CASE e \in Nat
    <2>1. e # NoEntry /\ Read(e) = ExtendedTo(e, PersistentThreshold, PersistentBump)
        BY <1>2 DEF Read, Exists, NoEntry
    <2>2. Read(e) \in Nat
        BY <1>2, <2>1, LifetimeAssumption, ExtendedLife
    <2>3. Read(e) # NoEntry
        BY <2>2 DEF NoEntry
    <2> QED BY <1>2, <2>1, <2>2, <2>3, LifetimeAssumption, ExtendedLife DEF Entry, Exists
<1> QED BY <1>1, <1>2 DEF Entry

LEMMA CreatedLife ==
    ASSUME ledger \in Nat
    PROVE  /\ Created \in Nat /\ LifeWithin(Created, PersistentBump)
           /\ Created >= ledger + Clamped(PersistentThreshold)
<1> DEFINE born == ledger + MinTTL
<1>1. born \in Nat /\ LifeWithin(born, PersistentBump)
    BY LifetimeAssumption DEF LifeWithin
<1>2. Created = ExtendedTo(born, PersistentThreshold, PersistentBump)
    BY DEF Created
<1> HIDE DEF born
<1> QED BY <1>1, <1>2, LifetimeAssumption, ExtendedLife

\* What the life of an entry depends on: time that passes only shortens it.
LEMMA LaterLife ==
    ASSUME NEW e, Entry(e), NEW bump \in Nat, ledger \in Nat, LifeWithin(e, bump),
           ledger' \in {ledger, ledger + 1}
    PROVE  /\ e - ledger' <= MaxTTL
           /\ e - ledger' <= MinTTL \/ e - ledger' <= bump
<1>1. e \in Int
    BY DEF Entry, NoEntry
<1>2. CASE ledger' = ledger
    BY <1>2 DEF LifeWithin
<1>3. CASE ledger' = ledger + 1
    <2>1. e - (ledger + 1) <= e - ledger /\ e - (ledger + 1) \in Int /\ e - ledger \in Int
        BY <1>1
    <2> QED BY <1>3, <2>1, LifetimeAssumption DEF LifeWithin
<1> QED BY <1>2, <1>3

-------------------------------------------------------------------------------
(* The asset.                                                               *)

AssetTypeOK ==
    /\ trustline \in [Users -> BOOLEAN]
    /\ authorized \in [Users -> BOOLEAN]
    /\ issuerSet \in [Users -> BOOLEAN]
    /\ balance \in [Users -> 0 .. MaxBalance]

LEMMA SetAuthorizedType ==
    ASSUME AssetTypeOK, NEW u \in Users, NEW flag \in BOOLEAN, SetAuthorized(u, flag)
    PROVE  AssetTypeOK'
BY DEF AssetTypeOK, SetAuthorized

LEMMA AssetStep ==
    ASSUME AssetTypeOK, Next
    PROVE  AssetTypeOK'
<1>1. ASSUME UNCHANGED asset PROVE AssetTypeOK'
    BY <1>1 DEF asset, AssetTypeOK
<1>2. CASE \E by \in Operators, u \in Users : OnboardUser(by, u)
    BY <1>2, SetAuthorizedType DEF OnboardUser
<1>3. CASE \E by \in Operators, u \in Users : BlockUser(by, u)
    BY <1>1, <1>3, SetAuthorizedType DEF BlockUser
<1>4. CASE \E by \in Operators, u \in Users : UnblockUser(by, u)
    BY <1>1, <1>4, SetAuthorizedType DEF UnblockUser, RestoreAccess
<1>5. CASE \E by \in Operators, u \in Users, amount \in Amounts : Mint(by, u, amount)
    <2> PICK by \in Operators, u \in Users, amount \in Amounts : Mint(by, u, amount)
        BY <1>5
    <2>1. balance[u] + amount \in 0 .. MaxBalance
        BY AmountAssumption DEF Mint, SacMint, AssetTypeOK
    <2> QED BY <2>1 DEF Mint, SacMint, AssetTypeOK
<1>6. CASE \E u \in Users : ChangeTrust(u)
    BY <1>6 DEF ChangeTrust, AssetTypeOK
<1>7. CASE \E u \in Users, flag \in BOOLEAN : IssuerSetsFlag(u, flag)
    BY <1>7 DEF IssuerSetsFlag, AssetTypeOK
<1>8. CASE \E from, to \in Users, amount \in Amounts : SacTransfer(from, to, amount)
    <2> PICK from \in Users, to \in Users, amount \in Amounts : SacTransfer(from, to, amount)
        BY <1>8
    <2>1. /\ balance[from] - amount \in 0 .. MaxBalance
          /\ balance[to] + amount \in 0 .. MaxBalance
        BY AmountAssumption DEF SacTransfer, AssetTypeOK
    <2> QED BY <2>1 DEF SacTransfer, AssetTypeOK
<1>9. CASE Ask \/ RestoreInstance \/ CloseLedger \/ \E u \in Users : RestoreEntry(u)
    BY <1>1, <1>9 DEF Ask, RestoreInstance, CloseLedger, RestoreEntry
<1> QED BY <1>2, <1>3, <1>4, <1>5, <1>6, <1>7, <1>8, <1>9 DEF Next

-------------------------------------------------------------------------------
(* The records.                                                             *)

RecordTypeOK ==
    /\ ledger \in Nat
    /\ onboarded \in [Users -> Nat \cup {NoEntry}]
    /\ blockListed \in [Users -> Nat \cup {NoEntry}]
    /\ \A u \in Users : /\ LifeWithin(onboarded[u], PersistentBump)
                       /\ LifeWithin(blockListed[u], PersistentBump)
    /\ events \in [Users -> Seq(UserEvent)]
    /\ seen \in [Users -> Nat \cup {NoEntry}]

\* An onboarding that was asked for stays readable from then on for at least
\* what the host grants of the threshold: what makes UseKeepsRecord inductive.
SeenRecorded ==
    \A u \in Users : seen[u] # NoEntry =>
        onboarded[u] # NoEntry /\ onboarded[u] >= seen[u] + Clamped(PersistentThreshold)

RecordInv == RecordTypeOK /\ SeenRecorded

LEMMA RecordFrame ==
    ASSUME RecordInv, UNCHANGED records, ledger' \in {ledger, ledger + 1}
    PROVE  RecordInv'
<1>1. ASSUME NEW e, Entry(e), LifeWithin(e, PersistentBump)
      PROVE  /\ e - ledger' <= MaxTTL
             /\ e - ledger' <= MinTTL \/ e - ledger' <= PersistentBump
    BY <1>1, LaterLife, LifetimeAssumption DEF RecordInv, RecordTypeOK
<1> QED BY <1>1 DEF RecordInv, RecordTypeOK, SeenRecorded, records, LifeWithin, Entry

\* Only the entries of one user change in a step, each to a legal entry.
LEMMA OneRecord ==
    ASSUME RecordInv, NEW u \in Users, UNCHANGED ledger,
           NEW o \in Nat \cup {NoEntry}, NEW b \in Nat \cup {NoEntry},
           NEW s \in Nat \cup {NoEntry}, NEW log \in Seq(UserEvent),
           LifeWithin(o, PersistentBump), LifeWithin(b, PersistentBump),
           s # NoEntry => o # NoEntry /\ o >= s + Clamped(PersistentThreshold),
           onboarded' = [onboarded EXCEPT ![u] = o],
           blockListed' = [blockListed EXCEPT ![u] = b],
           seen' = [seen EXCEPT ![u] = s],
           events' = [events EXCEPT ![u] = log]
    PROVE  RecordInv'
BY DEF RecordInv, RecordTypeOK, SeenRecorded, LifeWithin

LEMMA RecordStep ==
    ASSUME RecordInv, Next
    PROVE  RecordInv'
<1> USE DEF RecordInv, RecordTypeOK
<1>0. \A u \in Users :
        /\ Read(onboarded[u]) \in Nat \cup {NoEntry}
        /\ LifeWithin(Read(onboarded[u]), PersistentBump)
        /\ Exists(Read(onboarded[u])) <=> Exists(onboarded[u])
        /\ Exists(onboarded[u]) => Read(onboarded[u]) >= ledger + Clamped(PersistentThreshold)
        /\ Read(blockListed[u]) \in Nat \cup {NoEntry}
        /\ LifeWithin(Read(blockListed[u]), PersistentBump)
    BY ReadLife DEF Entry
<1>1. /\ Created \in Nat /\ LifeWithin(Created, PersistentBump)
      /\ Created >= ledger + Clamped(PersistentThreshold)
    BY CreatedLife
<1>2. NoEntry # ledger /\ LifeWithin(NoEntry, PersistentBump) /\ ledger \in Nat \cup {NoEntry}
    BY LifetimeAssumption DEF NoEntry, LifeWithin
<1>3. \A u \in Users, event \in UserEvent : Append(events[u], event) \in Seq(UserEvent)
    OBVIOUS
<1>4. \A u \in Users : events[u] \in Seq(UserEvent)
    OBVIOUS
<1>5. CASE \E by \in Operators, u \in Users : OnboardUser(by, u)
    <2> PICK by \in Operators, u \in Users : OnboardUser(by, u)
        BY <1>5
    <2>1. UNCHANGED <<ledger, blockListed>>
        BY DEF OnboardUser, RequireRole
    <2> DEFINE o == IF IsOnboarded(u) THEN Read(onboarded[u]) ELSE Created
               log == IF IsOnboarded(u) THEN events[u] ELSE Append(events[u], "UserOnboarded")
    <2>2. o \in Nat \cup {NoEntry} /\ LifeWithin(o, PersistentBump)
        BY <1>0, <1>1
    <2>3. o # NoEntry /\ o >= ledger + Clamped(PersistentThreshold)
        BY <1>0, <1>1 DEF IsOnboarded, Exists, NoEntry
    <2>4. log \in Seq(UserEvent)
        BY <1>3, <1>4 DEF UserEvent
    <2>5. /\ onboarded' = [onboarded EXCEPT ![u] = o]
          /\ seen' = [seen EXCEPT ![u] = ledger]
          /\ events' = [events EXCEPT ![u] = log]
          /\ blockListed' = [blockListed EXCEPT ![u] = blockListed[u]]
        BY <2>1 DEF OnboardUser, PublishFirst, Publish
    <2> HIDE DEF o, log
    <2> QED BY <2>1, <2>2, <2>3, <2>4, <2>5, <1>2, OneRecord
<1>6. CASE \E by \in Operators, u \in Users : BlockUser(by, u)
    <2> PICK by \in Operators, u \in Users : BlockUser(by, u)
        BY <1>6
    <2>1. UNCHANGED <<ledger, onboarded, seen>>
        BY DEF BlockUser, RequireRole
    <2> DEFINE b == IF IsOnBlockList(u) THEN Read(blockListed[u]) ELSE Created
               log == IF IsOnBlockList(u) THEN events[u] ELSE Append(events[u], "UserBlocked")
    <2>2. b \in Nat \cup {NoEntry} /\ LifeWithin(b, PersistentBump)
        BY <1>0, <1>1
    <2>3. log \in Seq(UserEvent)
        BY <1>3, <1>4 DEF UserEvent
    <2>4. /\ blockListed' = [blockListed EXCEPT ![u] = b]
          /\ events' = [events EXCEPT ![u] = log]
          /\ onboarded' = [onboarded EXCEPT ![u] = onboarded[u]]
          /\ seen' = [seen EXCEPT ![u] = seen[u]]
        BY <2>1 DEF BlockUser, Publish
    <2>5. seen[u] # NoEntry =>
              onboarded[u] # NoEntry /\ onboarded[u] >= seen[u] + Clamped(PersistentThreshold)
        BY DEF SeenRecorded
    <2> HIDE DEF b, log
    <2> QED BY <2>1, <2>2, <2>3, <2>4, <2>5, OneRecord
<1>7. CASE \E by \in Operators, u \in Users : UnblockUser(by, u)
    <2> PICK by \in Operators, u \in Users : UnblockUser(by, u)
        BY <1>7
    <2>1. UNCHANGED ledger
        BY DEF UnblockUser, RequireRole
    <2>2. CASE ~IsOnBlockList(u)
        BY <2>1, <2>2, RecordFrame DEF UnblockUser
    <2>3. CASE IsOnBlockList(u)
        <3> DEFINE s == IF IsOnboarded(u) THEN ledger ELSE seen[u]
                   log == Append(events[u], "UserUnblocked")
        <3>1. /\ blockListed' = [blockListed EXCEPT ![u] = NoEntry]
              /\ onboarded' = [onboarded EXCEPT ![u] = Read(onboarded[u])]
              /\ seen' = [seen EXCEPT ![u] = s]
              /\ events' = [events EXCEPT ![u] = log]
            BY <2>3 DEF UnblockUser, RestoreAccess, Publish
        <3>2. log \in Seq(UserEvent)
            BY <1>3 DEF UserEvent
        <3>3. s # NoEntry =>
                 /\ Read(onboarded[u]) # NoEntry
                 /\ Read(onboarded[u]) >= s + Clamped(PersistentThreshold)
            BY <1>0 DEF SeenRecorded, IsOnboarded, Exists
        <3>4. s \in Nat \cup {NoEntry}
            OBVIOUS
        <3> HIDE DEF s, log
        <3> QED BY <2>1, <3>1, <3>2, <3>3, <3>4, <1>0, <1>2, OneRecord
    <2> QED BY <2>2, <2>3
<1>8. ASSUME NEW u \in Users, IsOnboarded(u), UNCHANGED <<ledger, blockListed, events>>,
             onboarded' = [onboarded EXCEPT ![u] = Read(@)],
             seen' = [seen EXCEPT ![u] = ledger]
      PROVE  RecordInv'
    <2>1. /\ blockListed' = [blockListed EXCEPT ![u] = blockListed[u]]
          /\ events' = [events EXCEPT ![u] = events[u]]
          /\ onboarded' = [onboarded EXCEPT ![u] = Read(onboarded[u])]
        BY <1>8
    <2>2. Read(onboarded[u]) # NoEntry /\ Read(onboarded[u]) >= ledger + Clamped(PersistentThreshold)
        BY <1>0, <1>8 DEF IsOnboarded, Exists
    <2> QED BY <1>0, <1>2, <1>4, <1>8, <2>1, <2>2, OneRecord
<1>9. CASE \E by \in Operators, u \in Users, amount \in Amounts : Mint(by, u, amount)
    BY <1>8, <1>9 DEF Mint, RequireRole
<1>10. CASE Ask
    <2>1. UNCHANGED ledger
        BY <1>10 DEF Ask
    <2>2. CASE UNCHANGED records
        BY <2>1, <2>2, RecordFrame
    <2>3. CASE \E u \in Users :
              /\ IsOnboarded(u) /\ Readable(onboarded[u])
              /\ onboarded' = [onboarded EXCEPT ![u] = Read(@)]
              /\ seen' = [seen EXCEPT ![u] = ledger]
              /\ UNCHANGED <<blockListed, events>>
        BY <1>8, <2>1, <2>3
    <2>4. ASSUME NEW u \in Users,
                 blockListed' = [blockListed EXCEPT ![u] = Read(@)],
                 UNCHANGED <<onboarded, events, seen>>
          PROVE  RecordInv'
        <3>1. /\ blockListed' = [blockListed EXCEPT ![u] = Read(blockListed[u])]
              /\ events' = [events EXCEPT ![u] = events[u]]
              /\ onboarded' = [onboarded EXCEPT ![u] = onboarded[u]]
              /\ seen' = [seen EXCEPT ![u] = seen[u]]
            BY <2>4
        <3>2. seen[u] # NoEntry =>
                  onboarded[u] # NoEntry /\ onboarded[u] >= seen[u] + Clamped(PersistentThreshold)
            BY DEF SeenRecorded
        <3>3. /\ onboarded[u] \in Nat \cup {NoEntry} /\ seen[u] \in Nat \cup {NoEntry}
              /\ LifeWithin(onboarded[u], PersistentBump)
              /\ Read(blockListed[u]) \in Nat \cup {NoEntry}
              /\ LifeWithin(Read(blockListed[u]), PersistentBump)
            BY <1>0
        <3>4. RecordInv /\ UNCHANGED ledger /\ events[u] \in Seq(UserEvent)
            BY <1>4, <2>1
        <3> HIDE DEF RecordInv, RecordTypeOK
        <3> QED BY <3>1, <3>2, <3>3, <3>4, OneRecord
    <2> QED BY <1>10, <2>2, <2>3, <2>4 DEF Ask
<1>11. CASE \E u \in Users : RestoreEntry(u)
    <2> PICK u \in Users : RestoreEntry(u)
        BY <1>11
    <2>1. UNCHANGED <<ledger, seen, events>>
        BY DEF RestoreEntry
    <2>2. ledger + MinTTL \in Nat /\ LifeWithin(ledger + MinTTL, PersistentBump)
        BY LifetimeAssumption DEF LifeWithin
    <2>3. /\ seen' = [seen EXCEPT ![u] = seen[u]]
          /\ events' = [events EXCEPT ![u] = events[u]]
        BY <2>1
    <2>4. seen[u] # NoEntry =>
              onboarded[u] # NoEntry /\ onboarded[u] >= seen[u] + Clamped(PersistentThreshold)
        BY DEF SeenRecorded
    <2>5. CASE /\ ~Readable(onboarded[u])
               /\ onboarded' = [onboarded EXCEPT ![u] = ledger + MinTTL]
               /\ UNCHANGED blockListed
        <3>1. blockListed' = [blockListed EXCEPT ![u] = blockListed[u]]
            BY <2>5
        <3>2. seen[u] # NoEntry => /\ ledger + MinTTL # NoEntry
                                   /\ ledger + MinTTL >= seen[u] + Clamped(PersistentThreshold)
            BY <2>4, <2>5, LifetimeAssumption, ClampedLife DEF Readable, Exists, NoEntry
        <3>3. /\ blockListed[u] \in Nat \cup {NoEntry} /\ seen[u] \in Nat \cup {NoEntry}
              /\ LifeWithin(blockListed[u], PersistentBump) /\ ledger + MinTTL \in Nat \cup {NoEntry}
            BY <2>2
        <3>4. RecordInv /\ UNCHANGED ledger /\ events[u] \in Seq(UserEvent)
            BY <1>4, <2>1
        <3> HIDE DEF RecordInv, RecordTypeOK
        <3> QED BY <2>2, <2>3, <2>5, <3>1, <3>2, <3>3, <3>4, OneRecord
    <2>6. CASE /\ ~Readable(blockListed[u])
               /\ blockListed' = [blockListed EXCEPT ![u] = ledger + MinTTL]
               /\ UNCHANGED onboarded
        <3>1. onboarded' = [onboarded EXCEPT ![u] = onboarded[u]]
            BY <2>6
        <3>2. /\ onboarded[u] \in Nat \cup {NoEntry} /\ seen[u] \in Nat \cup {NoEntry}
              /\ LifeWithin(onboarded[u], PersistentBump) /\ ledger + MinTTL \in Nat \cup {NoEntry}
            BY <2>2
        <3>3. RecordInv /\ UNCHANGED ledger /\ events[u] \in Seq(UserEvent)
            BY <1>4, <2>1
        <3> HIDE DEF RecordInv, RecordTypeOK
        <3> QED BY <2>2, <2>3, <2>4, <2>6, <3>1, <3>2, <3>3, OneRecord
    <2> QED BY <2>5, <2>6 DEF RestoreEntry
<1>12. CASE CloseLedger
    BY <1>12, RecordFrame DEF CloseLedger
<1>13. ASSUME UNCHANGED <<records, ledger>> PROVE RecordInv'
    BY <1>13, RecordFrame
<1>14. CASE \/ RestoreInstance
            \/ \E u \in Users : ChangeTrust(u)
            \/ \E u \in Users, flag \in BOOLEAN : IssuerSetsFlag(u, flag)
            \/ \E from, to \in Users, amount \in Amounts : SacTransfer(from, to, amount)
    BY <1>13, <1>14 DEF RestoreInstance, ChangeTrust, IssuerSetsFlag, SacTransfer
<1> QED
    BY <1>5, <1>6, <1>7, <1>9, <1>10, <1>11, <1>12, <1>14 DEF Next

-------------------------------------------------------------------------------
(* The contract's own entry.                                                *)

ContractTypeOK ==
    /\ role \in [Role -> Operators]
    /\ ledger \in Nat
    /\ instanceUntil \in Nat
    /\ LifeWithin(instanceUntil, InstanceBump)

LEMMA ContractStep ==
    ASSUME ContractTypeOK, Next
    PROVE  ContractTypeOK'
<1>1. ASSUME ExtendInstance, UNCHANGED <<role, ledger>> PROVE ContractTypeOK'
    BY <1>1, ExtendedLife, LifetimeAssumption DEF ContractTypeOK, ExtendInstance, LifeWithin
<1>2. ASSUME UNCHANGED <<role, instanceUntil>>, ledger' \in {ledger, ledger + 1}
      PROVE ContractTypeOK'
    <2>1. Entry(instanceUntil)
        BY DEF ContractTypeOK, Entry
    <2>2. /\ instanceUntil - ledger' <= MaxTTL
          /\ instanceUntil - ledger' <= MinTTL \/ instanceUntil - ledger' <= InstanceBump
        BY <1>2, <2>1, LaterLife, LifetimeAssumption DEF ContractTypeOK
    <2> QED BY <1>2, <2>2 DEF ContractTypeOK, LifeWithin
<1>3. CASE \E by \in Operators, u \in Users :
               OnboardUser(by, u) \/ BlockUser(by, u) \/ UnblockUser(by, u)
    BY <1>1, <1>3 DEF OnboardUser, BlockUser, UnblockUser, RequireRole
<1>4. CASE \E by \in Operators, u \in Users, amount \in Amounts : Mint(by, u, amount)
    BY <1>1, <1>4 DEF Mint, RequireRole
<1>5. CASE Ask
    BY <1>1, <1>5 DEF Ask
<1>6. CASE RestoreInstance
    BY <1>6, LifetimeAssumption DEF RestoreInstance, ContractTypeOK, LifeWithin
<1>7. CASE CloseLedger
    BY <1>2, <1>7 DEF CloseLedger
<1>8. CASE \/ \E u \in Users : ChangeTrust(u) \/ RestoreEntry(u)
           \/ \E u \in Users, flag \in BOOLEAN : IssuerSetsFlag(u, flag)
           \/ \E from, to \in Users, amount \in Amounts : SacTransfer(from, to, amount)
    BY <1>2, <1>8 DEF ChangeTrust, RestoreEntry, IssuerSetsFlag, SacTransfer
<1> QED BY <1>3, <1>4, <1>5, <1>6, <1>7, <1>8 DEF Next

-------------------------------------------------------------------------------
(* The flag in the asset.                                                   *)

LEMMA ClearedStep ==
    ASSUME AssetTypeOK, RecordInv, OnlyClearedAuthorized, Next
    PROVE  OnlyClearedAuthorized'
<1> USE DEF RecordInv, RecordTypeOK, AssetTypeOK
<1>1. /\ \A u \in Users : Exists(Read(onboarded[u])) <=> Exists(onboarded[u])
      /\ \A u \in Users : Exists(Read(blockListed[u])) <=> Exists(blockListed[u])
      /\ Exists(Created) /\ Exists(ledger + MinTTL) /\ ~Exists(NoEntry)
    BY ReadLife, CreatedLife, LifetimeAssumption DEF Entry, Exists, NoEntry
<1> USE DEF OnlyClearedAuthorized, IsOnboarded, IsOnBlockList
<1>2. CASE \E by \in Operators, u \in Users : OnboardUser(by, u)
    BY <1>1, <1>2 DEF OnboardUser, Onboardable, SetAuthorized
<1>3. CASE \E by \in Operators, u \in Users : BlockUser(by, u)
    <2> PICK by \in Operators, u \in Users : BlockUser(by, u)
        BY <1>3
    <2>1. CASE IsOnBlockList(u)
        <3>1. /\ UNCHANGED <<onboarded, authorized, issuerSet>>
              /\ blockListed' = [blockListed EXCEPT ![u] = Read(blockListed[u])]
            BY <2>1 DEF BlockUser, asset
        <3>2. \A v \in Users : IsOnBlockList(v)' <=> IsOnBlockList(v)
            BY <1>1, <3>1
        <3> QED BY <3>1, <3>2
    <2>2. CASE ~IsOnBlockList(u)
        <3>1. /\ UNCHANGED onboarded
              /\ authorized' = [authorized EXCEPT ![u] = FALSE]
              /\ issuerSet' = [issuerSet EXCEPT ![u] = FALSE]
              /\ blockListed' = [blockListed EXCEPT ![u] = Created]
            BY <2>2 DEF BlockUser, SetAuthorized
        <3>2. \A v \in Users : v # u => IsOnBlockList(v)' <=> IsOnBlockList(v)
            BY <3>1
        <3>3. ~authorized'[u]
            BY <3>1
        <3> QED BY <3>1, <3>2, <3>3
    <2> QED BY <2>1, <2>2
<1>4. CASE \E by \in Operators, u \in Users : UnblockUser(by, u)
    <2> PICK by \in Operators, u \in Users : UnblockUser(by, u)
        BY <1>4
    <2>1. CASE ~IsOnBlockList(u)
        BY <2>1 DEF UnblockUser, asset, records
    <2>2. CASE IsOnBlockList(u) /\ IsOnboarded(u)
        <3>1. /\ authorized' = [authorized EXCEPT ![u] = TRUE]
              /\ issuerSet' = [issuerSet EXCEPT ![u] = FALSE]
              /\ blockListed' = [blockListed EXCEPT ![u] = NoEntry]
            BY <2>2 DEF UnblockUser, RestoreAccess, SetAuthorized
        <3>2. \A v \in Users : IsOnboarded(v)' <=> IsOnboarded(v)
            BY <1>1, <2>2 DEF UnblockUser, RestoreAccess
        <3> QED BY <1>1, <2>2, <3>1, <3>2
    <2>3. CASE IsOnBlockList(u) /\ ~IsOnboarded(u)
        <3>1. UNCHANGED <<authorized, issuerSet>>
            BY <2>3 DEF UnblockUser, RestoreAccess, asset
        <3>2. \A v \in Users : v # u => IsOnBlockList(v)' <=> IsOnBlockList(v)
            BY <2>3 DEF UnblockUser
        <3>3. \A v \in Users : IsOnboarded(v)' <=> IsOnboarded(v)
            BY <1>1, <2>3 DEF UnblockUser, RestoreAccess
        <3> QED BY <2>3, <3>1, <3>2, <3>3
    <2> QED BY <2>1, <2>2, <2>3
<1>5. CASE \E by \in Operators, u \in Users, amount \in Amounts : Mint(by, u, amount)
    BY <1>1, <1>5 DEF Mint, SacMint
<1>6. CASE Ask
    BY <1>1, <1>6 DEF Ask, records, asset
<1>7. CASE \E u \in Users : ChangeTrust(u)
    BY <1>7 DEF ChangeTrust, records
<1>8. CASE \E u \in Users : RestoreEntry(u)
    BY <1>1, <1>8 DEF RestoreEntry, Readable, asset
<1>9. CASE \/ RestoreInstance \/ CloseLedger
           \/ \E u \in Users, flag \in BOOLEAN : IssuerSetsFlag(u, flag)
           \/ \E from, to \in Users, amount \in Amounts : SacTransfer(from, to, amount)
    BY <1>9 DEF RestoreInstance, CloseLedger, IssuerSetsFlag, SacTransfer, records, asset
<1> QED BY <1>2, <1>3, <1>4, <1>5, <1>6, <1>7, <1>8, <1>9 DEF Next

-------------------------------------------------------------------------------
(* The theorems.                                                            *)

SacInv == ContractTypeOK /\ AssetTypeOK /\ RecordInv /\ OnlyClearedAuthorized

LEMMA SacInvHolds == Spec => []SacInv
<1>1. Init => SacInv
    <2> SUFFICES ASSUME Init PROVE SacInv
        OBVIOUS
    <2>1. ContractTypeOK
        <3> DEFINE born == ledger + MinTTL
        <3>1. born \in Nat /\ LifeWithin(born, InstanceBump) /\ ledger \in Nat
            BY LifetimeAssumption DEF Init, LifeWithin
        <3>2. instanceUntil = ExtendedTo(born, InstanceThreshold, InstanceBump)
            BY DEF Init
        <3> HIDE DEF born
        <3> QED BY <3>1, <3>2, LifetimeAssumption, ExtendedLife DEF Init, ContractTypeOK
    <2>2. AssetTypeOK
        BY AmountAssumption DEF Init, AssetTypeOK
    <2>3. RecordInv
        BY LifetimeAssumption DEF Init, RecordInv, RecordTypeOK, SeenRecorded, LifeWithin, NoEntry
    <2>4. OnlyClearedAuthorized
        BY DEF Init, OnlyClearedAuthorized
    <2> QED BY <2>1, <2>2, <2>3, <2>4 DEF SacInv
<1>2. SacInv /\ [Next]_vars => SacInv'
    <2> SUFFICES ASSUME SacInv, [Next]_vars PROVE SacInv'
        OBVIOUS
    <2>1. CASE Next
        BY <2>1, ContractStep, AssetStep, RecordStep, ClearedStep DEF SacInv
    <2>2. CASE UNCHANGED vars
        BY <2>2 DEF SacInv, vars, records, asset, ContractTypeOK, AssetTypeOK, RecordInv,
                    RecordTypeOK, SeenRecorded, OnlyClearedAuthorized, IsOnboarded,
                    IsOnBlockList, LifeWithin
    <2> QED BY <2>1, <2>2
<1> QED BY <1>1, <1>2, PTL DEF Spec

\* Every reachable state is type correct, and no entry outlives its bump or
\* the network's longest life.
THEOREM TypeCorrect == Spec => []SacTypeOK
<1>1. SacInv => SacTypeOK
    BY DEF SacInv, ContractTypeOK, AssetTypeOK, RecordInv, RecordTypeOK, SacTypeOK
<1> QED BY <1>1, SacInvHolds, PTL

\* The asset's flag follows the administrator's records.
THEOREM AuthorizedCleared == Spec => []OnlyClearedAuthorized
<1>1. SacInv => OnlyClearedAuthorized
    BY DEF SacInv
<1> QED BY <1>1, SacInvHolds, PTL

\* A record that was read is live for as long as the host grants the code's
\* threshold.
THEOREM UsedStaysReadable == Spec => []UseKeepsRecord
<1>1. Clamped(PersistentThreshold) \in Nat
    BY LifetimeAssumption, ClampedLife
<1>2. SacInv => UseKeepsRecord
    BY <1>1
       DEF SacInv, RecordInv, RecordTypeOK, SeenRecorded, UseKeepsRecord, Readable, NoEntry
<1> QED BY <1>2, SacInvHolds, PTL

\* A blocked user's balance stands still unless the issuer intervenes, and only
\* an unblocking, which is published, takes a user off the list.
THEOREM BlockedStays == Spec => BlockedStandStill
<1> DEFINE Still(u) ==
        IsOnBlockList(u) =>
            /\ balance'[u] # balance[u] => issuerSet[u]
            /\ IsOnBlockList(u)' \/ events'[u] = Append(events[u], "UserUnblocked")
<1>1. ASSUME SacInv, Next PROVE \A u \in Users : Still(u)
    <2> USE DEF SacInv, AssetTypeOK, RecordInv, RecordTypeOK
    <2>1. /\ \A u \in Users : Exists(Read(blockListed[u])) <=> Exists(blockListed[u])
          /\ Exists(Created) /\ Exists(ledger + MinTTL)
        BY <1>1, ReadLife, CreatedLife, LifetimeAssumption DEF Entry, Exists, NoEntry
    <2> USE DEF IsOnBlockList
    <2>2. CASE \E by \in Operators, u \in Users : OnboardUser(by, u)
        BY <1>1, <2>2 DEF OnboardUser, SetAuthorized
    <2>3. CASE \E by \in Operators, u \in Users : BlockUser(by, u)
        BY <1>1, <2>1, <2>3 DEF BlockUser, SetAuthorized, asset
    <2>4. CASE \E by \in Operators, u \in Users : UnblockUser(by, u)
        BY <1>1, <2>4 DEF UnblockUser, RestoreAccess, SetAuthorized, asset, records, Publish
    <2>5. CASE \E by \in Operators, u \in Users, amount \in Amounts : Mint(by, u, amount)
        BY <1>1, <2>5 DEF Mint, SacMint
    <2>6. CASE Ask
        BY <1>1, <2>1, <2>6 DEF Ask, records, asset
    <2>7. CASE \E from, to \in Users, amount \in Amounts : SacTransfer(from, to, amount)
        BY <1>1, <2>7 DEF SacTransfer, SacIsAuthorized, OnlyClearedAuthorized, records
    <2>8. CASE \E u \in Users : RestoreEntry(u)
        BY <1>1, <2>1, <2>8 DEF RestoreEntry, asset
    <2>9. CASE \/ RestoreInstance \/ CloseLedger
               \/ \E u \in Users : ChangeTrust(u)
               \/ \E u \in Users, flag \in BOOLEAN : IssuerSetsFlag(u, flag)
        BY <1>1, <2>9 DEF RestoreInstance, CloseLedger, ChangeTrust, IssuerSetsFlag, records, asset
    <2> QED BY <1>1, <2>2, <2>3, <2>4, <2>5, <2>6, <2>7, <2>8, <2>9 DEF Next
<1>2. SacInv /\ [Next]_vars => [\A u \in Users : Still(u)]_vars
    BY <1>1
<1>3. [\A u \in Users : Still(u)]_vars =>
      [\A u \in Users : IsOnBlockList(u) =>
           /\ balance'[u] # balance[u] => issuerSet[u]
           /\ IsOnBlockList(u)' \/ events'[u] = Append(events[u], "UserUnblocked")]_vars
    OBVIOUS
<1> QED BY <1>2, <1>3, SacInvHolds, PTL DEF Spec, BlockedStandStill

-------------------------------------------------------------------------------
(***************************************************************************)
(* The events.  An onboarding is told of once; what is told of the block   *)
(* list alternates, as the list does.                                      *)
(***************************************************************************)

\* The log of a user who is onboarded.
LEMMA OnboardingTold ==
    ASSUME NEW log \in Seq(UserEvent), NEW isBlocked, Tells(log, FALSE, isBlocked)
    PROVE  Tells(Append(log, "UserOnboarded"), TRUE, isBlocked)
<1> DEFINE n == Len(log)
           longer == Append(log, "UserOnboarded")
<1>1. n \in Nat /\ DOMAIN log = 1 .. n
    BY LenProperties
<1>2. /\ Len(longer) = n + 1 /\ DOMAIN longer = 1 .. n + 1
      /\ \A i \in 1 .. n : longer[i] = log[i]
      /\ longer[n + 1] = "UserOnboarded"
    <2>1. "UserOnboarded" \in UserEvent
        BY DEF UserEvent
    <2>2. longer \in Seq(UserEvent) /\ Len(longer) = n + 1
        BY <2>1, AppendProperties
    <2> QED
        BY <2>1, <2>2, AppendProperties, LenProperties
<1> HIDE DEF n, longer
<1>3. Changes(longer) = Changes(log) /\ Changes(log) \in SUBSET (1 .. n)
    BY <1>1, <1>2 DEF Changes
<1>4. \A i \in Changes(log) : longer[i] = log[i]
    BY <1>2, <1>3
<1>5. Cardinality(Changes(log)) \in Nat /\ Len(log) = n
    BY <1>1, <1>3, RankOfNew DEF n
<1> QED
    BY <1>1, <1>2, <1>3, <1>4, <1>5 DEF Tells, longer

\* The log of a user who is put on the block list, or taken off it.
LEMMA ChangeTold ==
    ASSUME NEW log \in Seq(UserEvent), NEW isOnboarded, NEW isBlocked \in BOOLEAN,
           Tells(log, isOnboarded, isBlocked)
    PROVE  Tells(Append(log, IF isBlocked THEN "UserUnblocked" ELSE "UserBlocked"),
                 isOnboarded, ~isBlocked)
<1> DEFINE n == Len(log)
           event == IF isBlocked THEN "UserUnblocked" ELSE "UserBlocked"
           longer == Append(log, event)
           places == Changes(log)
<1>1. n \in Nat /\ DOMAIN log = 1 .. n
    BY LenProperties
<1>2. /\ Len(longer) = n + 1 /\ DOMAIN longer = 1 .. n + 1
      /\ \A i \in 1 .. n : longer[i] = log[i]
      /\ longer[n + 1] = event
    <2>1. event \in UserEvent
        BY DEF UserEvent
    <2> HIDE DEF event
    <2>2. longer \in Seq(UserEvent) /\ Len(longer) = n + 1
        BY <2>1, AppendProperties
    <2> QED
        BY <2>1, <2>2, AppendProperties, LenProperties
<1>3. event # "UserOnboarded"
    OBVIOUS
<1>4. /\ isBlocked <=> Cardinality(places) % 2 = 1
      /\ \A i \in places :
             log[i] = IF Rank(places, i) % 2 = 1 THEN "UserBlocked" ELSE "UserUnblocked"
      /\ n - Cardinality(places) = IF isOnboarded THEN 1 ELSE 0
    BY DEF Tells
<1> HIDE DEF n, event, longer
<1>5. Changes(longer) = places \cup {n + 1} /\ places \in SUBSET (1 .. n)
    BY <1>1, <1>2, <1>3 DEF Changes
<1> HIDE DEF places
<1>6. /\ Cardinality(places) \in Nat
      /\ Cardinality(places \cup {n + 1}) = Cardinality(places) + 1
      /\ Rank(places \cup {n + 1}, n + 1) = Cardinality(places) + 1
    BY <1>1, <1>5, RankOfNew
<1>7. Cardinality(places) % 2 = 1 <=> (Cardinality(places) + 1) % 2 # 1
    BY <1>6
<1>8. ~isBlocked <=> Cardinality(places \cup {n + 1}) % 2 = 1
    BY <1>4, <1>6, <1>7
<1>9. event = IF (Cardinality(places) + 1) % 2 = 1 THEN "UserBlocked" ELSE "UserUnblocked"
    BY <1>4, <1>7 DEF event
<1>10. ASSUME NEW i \in places \cup {n + 1}
       PROVE  longer[i] = IF Rank(places \cup {n + 1}, i) % 2 = 1
                          THEN "UserBlocked" ELSE "UserUnblocked"
    <2>1. CASE i = n + 1
        BY <1>2, <1>6, <1>9, <2>1
    <2>2. CASE i \in places
        <3>1. i \in 1 .. n
            BY <1>5, <2>2
        <3>2. Rank(places \cup {n + 1}, i) = Rank(places, i)
            BY <1>1, <1>5, <3>1, RankOfOld
        <3> QED
            BY <1>2, <1>4, <2>2, <3>1, <3>2
    <2> QED
        BY <2>1, <2>2
<1>11. Len(longer) - Cardinality(places \cup {n + 1}) = IF isOnboarded THEN 1 ELSE 0
    BY <1>1, <1>2, <1>4, <1>6
<1>12. Tells(longer, isOnboarded, ~isBlocked)
    BY <1>5, <1>8, <1>10, <1>11 DEF Tells
<1> QED
    BY <1>12 DEF longer, event

\* What a step does to a user's log and records.
Untouched(u) ==
    /\ events'[u] = events[u]
    /\ IsOnboarded(u)' <=> IsOnboarded(u)
    /\ IsOnBlockList(u)' <=> IsOnBlockList(u)

FirstOnboarding(u) ==
    /\ ~IsOnboarded(u) /\ IsOnboarded(u)'
    /\ events'[u] = Append(events[u], "UserOnboarded")
    /\ IsOnBlockList(u)' <=> IsOnBlockList(u)

ListChange(u) ==
    /\ IsOnboarded(u)' <=> IsOnboarded(u)
    /\ events'[u] = Append(events[u], IF IsOnBlockList(u) THEN "UserUnblocked" ELSE "UserBlocked")
    /\ IsOnBlockList(u)' <=> ~IsOnBlockList(u)

LEMMA OneOfThree ==
    ASSUME RecordInv, Next, NEW v \in Users
    PROVE  Untouched(v) \/ FirstOnboarding(v) \/ ListChange(v)
<1> USE DEF RecordInv, RecordTypeOK
<1>1. /\ \A u \in Users : Exists(Read(onboarded[u])) <=> Exists(onboarded[u])
      /\ \A u \in Users : Exists(Read(blockListed[u])) <=> Exists(blockListed[u])
      /\ Exists(Created) /\ Exists(ledger + MinTTL) /\ ~Exists(NoEntry)
    BY ReadLife, CreatedLife, LifetimeAssumption DEF Entry, Exists, NoEntry
<1> USE DEF IsOnboarded, IsOnBlockList
<1>2. ASSUME NEW by \in Operators, NEW u \in Users, OnboardUser(by, u)
      PROVE  Untouched(v) \/ FirstOnboarding(v)
    BY <1>1, <1>2 DEF OnboardUser, PublishFirst, Publish, Untouched, FirstOnboarding
<1>3. ASSUME NEW by \in Operators, NEW u \in Users, BlockUser(by, u)
      PROVE  Untouched(v) \/ ListChange(v)
    BY <1>1, <1>3 DEF BlockUser, Publish, Untouched, ListChange
<1>4. ASSUME NEW by \in Operators, NEW u \in Users, UnblockUser(by, u)
      PROVE  Untouched(v) \/ ListChange(v)
    <2>1. CASE ~IsOnBlockList(u)
        BY <1>4, <2>1 DEF UnblockUser, Untouched, records
    <2>2. CASE IsOnBlockList(u)
        <3>1. /\ blockListed' = [blockListed EXCEPT ![u] = NoEntry]
              /\ onboarded' = [onboarded EXCEPT ![u] = Read(onboarded[u])]
              /\ events' = [events EXCEPT ![u] = Append(events[u], "UserUnblocked")]
            BY <1>4, <2>2 DEF UnblockUser, RestoreAccess, Publish
        <3>2. CASE v = u
            BY <1>1, <2>2, <3>1, <3>2 DEF ListChange
        <3>3. CASE v # u
            BY <3>1, <3>3 DEF Untouched
        <3> QED
            BY <3>2, <3>3
    <2> QED
        BY <2>1, <2>2
<1>5. ASSUME NEW by \in Operators, NEW u \in Users, NEW amount \in Amounts, Mint(by, u, amount)
      PROVE  Untouched(v)
    BY <1>1, <1>5 DEF Mint, Untouched
<1>6. CASE Ask
    BY <1>1, <1>6 DEF Ask, records, Untouched
<1>7. ASSUME NEW u \in Users, RestoreEntry(u) PROVE Untouched(v)
    BY <1>1, <1>7 DEF RestoreEntry, Readable, Untouched
<1>8. ASSUME UNCHANGED records PROVE Untouched(v)
    BY <1>8 DEF records, Untouched
<1>9. CASE \/ RestoreInstance \/ CloseLedger
           \/ \E u \in Users : ChangeTrust(u)
           \/ \E u \in Users, flag \in BOOLEAN : IssuerSetsFlag(u, flag)
           \/ \E from, to \in Users, amount \in Amounts : SacTransfer(from, to, amount)
    BY <1>8, <1>9 DEF RestoreInstance, CloseLedger, ChangeTrust, IssuerSetsFlag, SacTransfer
<1> QED
    BY <1>2, <1>3, <1>4, <1>5, <1>6, <1>7, <1>9 DEF Next

LEMMA EventsStep ==
    ASSUME RecordInv, EventsTellRecords, [Next]_vars
    PROVE  EventsTellRecords'
<1>1. CASE UNCHANGED vars
    BY <1>1 DEF vars, records, EventsTellRecords, IsOnboarded, IsOnBlockList
<1>2. CASE Next
    <2> SUFFICES ASSUME NEW u \in Users
                 PROVE  Tells(events'[u], IsOnboarded(u)', IsOnBlockList(u)')
        BY DEF EventsTellRecords
    <2>1. /\ events[u] \in Seq(UserEvent)
          /\ Tells(events[u], IsOnboarded(u), IsOnBlockList(u))
          /\ IsOnboarded(u) \in BOOLEAN /\ IsOnBlockList(u) \in BOOLEAN
          /\ IsOnboarded(u)' \in BOOLEAN /\ IsOnBlockList(u)' \in BOOLEAN
        BY DEF RecordInv, RecordTypeOK, EventsTellRecords, IsOnboarded, IsOnBlockList, Exists
    <2>2. CASE Untouched(u)
        BY <2>1, <2>2 DEF Untouched, Tells
    <2>3. CASE FirstOnboarding(u)
        <3>1. Tells(events[u], FALSE, IsOnBlockList(u))
            BY <2>1, <2>3 DEF FirstOnboarding, Tells
        <3>2. Tells(Append(events[u], "UserOnboarded"), TRUE, IsOnBlockList(u))
            BY <2>1, <3>1, OnboardingTold
        <3> QED
            BY <2>3, <3>2 DEF FirstOnboarding, Tells
    <2>4. CASE ListChange(u)
        <3> DEFINE log ==
                Append(events[u], IF IsOnBlockList(u) THEN "UserUnblocked" ELSE "UserBlocked")
        <3>1. Tells(log, IsOnboarded(u), ~IsOnBlockList(u))
            BY <2>1, ChangeTold
        <3>2. /\ events'[u] = log
              /\ IsOnboarded(u)' <=> IsOnboarded(u)
              /\ IsOnBlockList(u)' <=> ~IsOnBlockList(u)
            BY <2>4 DEF ListChange
        <3> HIDE DEF log
        <3> QED
            BY <3>1, <3>2 DEF Tells
    <2> QED
        BY <1>2, <2>2, <2>3, <2>4, OneOfThree
<1> QED
    BY <1>1, <1>2

\* Whoever follows the events knows the administrator's records.
THEOREM EventsTell == Spec => []EventsTellRecords
<1>1. Init => EventsTellRecords
    <2> SUFFICES ASSUME Init, NEW u \in Users
                 PROVE  Tells(events[u], IsOnboarded(u), IsOnBlockList(u))
        BY DEF EventsTellRecords
    <2>1. /\ events[u] = << >> /\ Len(events[u]) = 0
          /\ IsOnboarded(u) = FALSE /\ IsOnBlockList(u) = FALSE
        BY EmptySeq DEF Init, IsOnboarded, IsOnBlockList, Exists
    <2>2. Changes(events[u]) = {}
        BY <2>1 DEF Changes
    <2>3. Cardinality({}) = 0
        BY FS_EmptySet
    <2>4. 0 % 2 # 1
        OBVIOUS
    <2> QED
        BY <2>1, <2>2, <2>3, <2>4 DEF Tells
<1>2. SacInv /\ EventsTellRecords /\ [Next]_vars => EventsTellRecords'
    BY EventsStep DEF SacInv
<1> QED
    BY <1>1, <1>2, SacInvHolds, PTL DEF Spec
===============================================================================
