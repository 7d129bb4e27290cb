------------------------ MODULE PredicateRegistryProofs ------------------------
(***************************************************************************)
(* Theorems about the EVM registry, for any number of registries, chains,  *)
(* attesters, callers and UUIDs: first its list of attesters and its owner,*)
(* then what a validation guarantees, and the refinement of                *)
(* OneShotAuthorization.                                                   *)
(***************************************************************************)
EXTENDS PredicateRegistry, DataProofs

LEMMA HashForType ==
    ASSUME NEW r \in Registries, NEW st \in Statement, NEW c \in Callers
    PROVE  HashFor(r, st, c) \in Digest
BY ChainAssumption DEF HashFor, Digest, Statement, Chains

LEMMA InitType == Init => TypeOK
<1> SUFFICES ASSUME Init PROVE TypeOK
    OBVIOUS
<1>1. registeredAttesters \in [Registries -> Seq(Attesters)]
    <2>1. Lists(Attesters) \subseteq Seq(Attesters)
        <3>1. Cardinality(Attesters) \in Nat
            BY AttesterAssumption, FS_CardinalityType
        <3> QED
            BY <3>1, SeqDef DEF Lists
    <2> QED
        BY <2>1 DEF Init
<1>2. validated \in [Registries -> Seq(Event)]
    BY EmptySeq DEF Init
<1> QED
    BY <1>1, <1>2, AccountAssumption DEF Init, TypeOK, Signature

LEMMA OwnershipType ==
    ASSUME TypeOK, NEW r \in Registries, NEW sender \in Accounts, NEW o \in Accounts
    PROVE  /\ Initialize(r, o) => TypeOK'
           /\ TransferOwnership(r, sender, o) => TypeOK'
           /\ AcceptOwnership(r, sender) => TypeOK'
           /\ RenounceOwnership(r, sender) => TypeOK'
<1>1. Initialize(r, o) => TypeOK'
    BY DEF Initialize, TypeOK, attesters, validation, environment
<1>2. TransferOwnership(r, sender, o) => TypeOK'
    BY DEF TransferOwnership, TypeOK, attesters, validation, environment
<1>3. \A n \in Accounts : MoveOwnership(r, n) => TypeOK'
    BY AccountAssumption DEF MoveOwnership, TypeOK, attesters, validation, environment
<1> QED
    BY <1>1, <1>2, <1>3, AccountAssumption DEF AcceptOwnership, RenounceOwnership

\* What an attester operation leaves alone stays typed.
LEMMA AttesterFrame ==
    ASSUME TypeOK,
           UNCHANGED <<ownership, clientToPolicy, validation, environment>>,
           registeredAttesters' \in [Registries -> Seq(Attesters)],
           isAttesterRegistered' \in [Registries -> [Attesters -> BOOLEAN]],
           attesterIndex' \in [Registries -> [Attesters -> Nat]],
           upgrade' \in [Registries -> {"unmigrated", "migrated", "misordered"}]
    PROVE  TypeOK'
BY DEF TypeOK, ownership, validation, environment

LEMMA RegisterType ==
    ASSUME TypeOK, NEW r \in Registries, NEW sender \in Accounts, NEW a \in Attesters,
           RegisterAttester(r, sender, a)
    PROVE  TypeOK'
<1> DEFINE list == registeredAttesters[r]
<1>1. list \in Seq(Attesters)
    BY DEF TypeOK
<1>2. Append(list, a) \in Seq(Attesters) /\ Len(list) \in Nat
    BY <1>1, PushSound, LenProperties
<1>3. registeredAttesters' \in [Registries -> Seq(Attesters)]
    BY <1>2 DEF RegisterAttester, TypeOK
<1>4. attesterIndex' \in [Registries -> [Attesters -> Nat]]
    BY <1>2 DEF RegisterAttester, TypeOK
<1>5. isAttesterRegistered' \in [Registries -> [Attesters -> BOOLEAN]]
    BY DEF RegisterAttester, TypeOK
<1> QED
    BY <1>3, <1>4, <1>5, AttesterFrame DEF RegisterAttester, TypeOK

LEMMA DeregisterType ==
    ASSUME TypeOK, NEW r \in Registries, NEW sender \in Accounts, NEW a \in Attesters,
           DeregisterAttester(r, sender, a)
    PROVE  TypeOK'
<1> DEFINE list == registeredAttesters[r]
           index == attesterIndex[r]
           position == index[a] + 1
<1>1. /\ list \in Seq(Attesters)
      /\ index \in [Attesters -> Nat]
      /\ Len(list) \in Nat
    BY LenProperties DEF TypeOK
<1>2. position \in 1 .. Len(list)
    BY <1>1 DEF DeregisterAttester
<1>3. SwapAndPop(list, position) \in Seq(Attesters)
    BY <1>1, <1>2, SwapAndPopType
<1>4. registeredAttesters' \in [Registries -> Seq(Attesters)]
    BY <1>3 DEF DeregisterAttester, TypeOK
<1>5. IndicesAfterRemoval(list, index, a) \in [Attesters -> Nat]
    BY <1>1 DEF IndicesAfterRemoval
<1>6. attesterIndex' \in [Registries -> [Attesters -> Nat]]
    BY <1>5 DEF DeregisterAttester, TypeOK
<1>7. isAttesterRegistered' \in [Registries -> [Attesters -> BOOLEAN]]
    BY DEF DeregisterAttester, TypeOK
<1>8. upgrade' \in [Registries -> {"unmigrated", "migrated", "misordered"}]
    BY DEF DeregisterAttester, TypeOK
<1> QED
    BY <1>4, <1>6, <1>7, <1>8, AttesterFrame DEF DeregisterAttester

LEMMA MigrateType ==
    ASSUME TypeOK, NEW r \in Registries, NEW sender \in Accounts,
           MigrateAttesterIndices(r, sender)
    PROVE  TypeOK'
<1> DEFINE list == registeredAttesters[r]
<1>1. list \in Seq(Attesters) /\ Len(list) \in Nat
    BY LenProperties DEF TypeOK
<1>2. \A a \in Range(list) : MigratedIndex(list, a) \in Nat
    BY <1>1, LastPositionExists DEF MigratedIndex
<1>3. attesterIndex' \in [Registries -> [Attesters -> Nat]]
    BY <1>2 DEF MigrateAttesterIndices, TypeOK
<1>4. upgrade' \in [Registries -> {"unmigrated", "migrated", "misordered"}]
    BY DEF MigrateAttesterIndices, TypeOK
<1> QED
    BY <1>3, <1>4, AttesterFrame DEF MigrateAttesterIndices, TypeOK

LEMMA ValidateType ==
    ASSUME TypeOK, NEW r \in Registries, NEW c \in Callers, NEW st \in Statement,
           NEW att \in Attestation, ValidateAttestation(r, c, st, att)
    PROVE  TypeOK'
<1>1. StatementValidated(c, st, att) \in Event
    BY DEF TypeOK, StatementValidated, Event, Statement, Attestation
<1>2. Append(validated[r], StatementValidated(c, st, att)) \in Seq(Event)
    BY <1>1, AppendProperties DEF TypeOK
<1>3. validated' \in [Registries -> Seq(Event)]
    BY <1>2 DEF ValidateAttestation, Spend, TypeOK
<1>4. usedStatementUUIDs' \in [Registries -> SUBSET UUIDs]
    BY DEF ValidateAttestation, Spend, TypeOK, Statement
<1> QED
    BY <1>3, <1>4 DEF ValidateAttestation, TypeOK, ownership, attesters, environment

LEMMA SignType ==
    ASSUME TypeOK, NEW r \in Registries, NEW a \in Attesters, NEW st \in Statement,
           Sign(r, a, st)
    PROVE  TypeOK'
<1>1. st.target \in Callers
    BY DEF Statement
<1>2. [signer |-> a, digest |-> HashStatementWithExpiry(r, st)] \in Signature
    BY <1>1, HashForType DEF HashStatementWithExpiry, Signature
<1> QED
    BY <1>2 DEF Sign, TypeOK, ownership, attesters, validation

\* Every step of a registry keeps every variable in its type.
LEMMA StepType == TypeOK /\ [Next]_vars => TypeOK'
<1> SUFFICES ASSUME TypeOK, [Next]_vars PROVE TypeOK'
    OBVIOUS
<1>1. CASE UNCHANGED vars
    BY <1>1 DEF TypeOK, vars, ownership, attesters, validation, environment
<1>2. ASSUME NEW r \in Registries, Administration(r) PROVE TypeOK'
    BY <1>2, AccountAssumption, OwnershipType, RegisterType, DeregisterType, MigrateType
    DEF Administration
<1>3. ASSUME NEW r \in Registries, NEW c \in Callers, NEW p \in Policies,
             SetPolicyID(r, c, p)
      PROVE  TypeOK'
    BY <1>3 DEF SetPolicyID, TypeOK, ownership, attesters, validation, environment
<1>4. CASE Tick
    BY <1>4 DEF Tick, TypeOK, ownership, attesters, validation
<1> QED
    BY <1>1, <1>2, <1>3, <1>4, ValidateType, SignType DEF Next

\* Type correctness, for every instance.
THEOREM TypeCorrect == Spec => []TypeOK
<1>1. Init => TypeOK
    BY InitType
<1>2. TypeOK /\ [Next]_vars => TypeOK'
    BY StepType
<1> QED
    BY <1>1, <1>2, PTL DEF Spec

-------------------------------------------------------------------------------
(***************************************************************************)
(* The attester list, its flags and its index mapping.  ListSound and      *)
(* IndexSound alone are inductive, but they are silent about a registry    *)
(* whose attesters were removed before the migration.  RevocationPossible  *)
(* holds there too, because the array is always as long as there are       *)
(* registered attesters (Counted), and a registered attester's index is    *)
(* either 0 or its true position (Placed).                                 *)
(***************************************************************************)
Listed(r) ==
    upgrade[r] # "misordered" =>
        /\ NoDuplicates(registeredAttesters[r])
        /\ Range(registeredAttesters[r]) = Registered(r)

Indexed(r) ==
    upgrade[r] = "migrated" =>
        \A i \in 1 .. Len(registeredAttesters[r]) :
            attesterIndex[r][registeredAttesters[r][i]] = i - 1

Counted(r) == Len(registeredAttesters[r]) = Cardinality(Registered(r))

Placed(r) ==
    \A a \in Registered(r) :
        \/ attesterIndex[r][a] = 0
        \/ /\ attesterIndex[r][a] < Len(registeredAttesters[r])
           /\ registeredAttesters[r][attesterIndex[r][a] + 1] = a

AttestersSound(r) == Listed(r) /\ Indexed(r) /\ Counted(r) /\ Placed(r)

AttesterInv == TypeOK /\ \A r \in Registries : AttestersSound(r)

LEMMA RegisteredFinite ==
    ASSUME NEW r
    PROVE  /\ IsFiniteSet(Registered(r))
           /\ Cardinality(Registered(r)) \in Nat
BY AttesterAssumption, FS_Subset, FS_CardinalityType DEF Registered

\* The length of a duplicate-free list is the size of its range.
LEMMA LengthIsSize ==
    ASSUME NEW S, NEW list \in Seq(S), NoDuplicates(list)
    PROVE  Cardinality(Range(list)) = Len(list)
<1>1. list \in [1 .. Len(list) -> S] /\ Len(list) \in Nat /\ DOMAIN list = 1 .. Len(list)
    BY LenProperties
<1>2. list \in Bijection(1 .. Len(list), Range(list))
    BY <1>1 DEF Bijection, Injection, Surjection, NoDuplicates, Range
<1> QED
    BY <1>1, <1>2, FS_CountingElements DEF ExistsBijection

LEMMA InitAttesters == Init => \A r \in Registries : AttestersSound(r)
<1> SUFFICES ASSUME Init, NEW r \in Registries PROVE AttestersSound(r)
    OBVIOUS
<1> DEFINE list == registeredAttesters[r]
<1>1. TypeOK
    BY InitType
<1>2. list \in Seq(Attesters)
    BY <1>1 DEF TypeOK
<1>3. Range(list) \subseteq Attesters
    BY <1>2, LenProperties DEF Range
<1>4. Registered(r) = Range(list)
    BY <1>3 DEF Init, Registered
<1>5. NoDuplicates(list)
    <2>1. NoDuplicates(<< >>)
        BY DEF NoDuplicates, IsInjective
    <2> QED
        BY <2>1 DEF Init, FreshRegistry, UpgradedRegistry
<1>6. Counted(r)
    BY <1>2, <1>4, <1>5, LengthIsSize DEF Counted
<1>7. Indexed(r)
    <2>1. CASE r \in Upgraded
        BY <2>1 DEF Init, UpgradedRegistry, Indexed
    <2>2. CASE r \notin Upgraded
        <3>1. Len(list) = 0
            BY <2>2, EmptySeq DEF Init, FreshRegistry
        <3> QED
            BY <3>1 DEF Indexed
    <2> QED
        BY <2>1, <2>2
<1>8. Placed(r)
    BY DEF Init, Placed, Registered
<1> QED
    BY <1>4, <1>5, <1>6, <1>7, <1>8 DEF AttestersSound, Listed

LEMMA AttestersFrame ==
    ASSUME NEW r \in Registries, AttestersSound(r),
           registeredAttesters'[r] = registeredAttesters[r],
           isAttesterRegistered'[r] = isAttesterRegistered[r],
           attesterIndex'[r] = attesterIndex[r],
           upgrade'[r] = upgrade[r]
    PROVE  AttestersSound(r)'
BY DEF AttestersSound, Listed, Indexed, Counted, Placed, Registered

LEMMA RegisterSound ==
    ASSUME AttesterInv, NEW r \in Registries, NEW sender \in Accounts, NEW a \in Attesters,
           RegisterAttester(r, sender, a)
    PROVE  AttestersSound(r)'
<1> DEFINE list == registeredAttesters[r]
           longer == registeredAttesters'[r]
           index == attesterIndex[r]
<1>1. /\ list \in Seq(Attesters)
      /\ index \in [Attesters -> Nat]
      /\ Len(list) \in Nat
      /\ \A i \in 1 .. Len(list) : list[i] \in Attesters
    BY LenProperties, ElementOfSeq DEF AttesterInv, TypeOK
<1>2. AttestersSound(r)
    BY DEF AttesterInv
<1>3. /\ longer = Append(list, a)
      /\ attesterIndex'[r] = [index EXCEPT ![a] = Len(list)]
      /\ upgrade'[r] = upgrade[r]
    BY DEF RegisterAttester, AttesterInv, TypeOK
<1>4. Registered(r)' = Registered(r) \cup {a} /\ a \notin Registered(r)
    BY DEF RegisterAttester, Registrable, Registered, AttesterInv, TypeOK
<1>5. /\ Len(longer) = Len(list) + 1
      /\ \A i \in 1 .. Len(list) : longer[i] = list[i]
      /\ longer[Len(list) + 1] = a
      /\ Range(longer) = Range(list) \cup {a}
      /\ NoDuplicates(list) /\ a \notin Range(list) => NoDuplicates(longer)
    BY <1>1, <1>3, PushSound
<1>6. Listed(r)'
    BY <1>2, <1>3, <1>4, <1>5 DEF AttestersSound, Listed
<1>7. Indexed(r)'
    <2> SUFFICES ASSUME upgrade[r] = "migrated", NEW i \in 1 .. Len(list) + 1
                 PROVE  attesterIndex'[r][longer[i]] = i - 1
        BY <1>3, <1>5 DEF Indexed
    <2>1. CASE i = Len(list) + 1
        BY <1>1, <1>3, <1>5, <2>1
    <2>2. CASE i # Len(list) + 1
        <3>1. i \in 1 .. Len(list)
            BY <1>1, <2>2
        <3>2. list[i] # a
            BY <1>1, <1>2, <1>4, <3>1, LenProperties DEF AttestersSound, Listed, Range
        <3> QED
            BY <1>1, <1>2, <1>3, <1>5, <3>1, <3>2 DEF AttestersSound, Indexed
    <2> QED
        BY <2>1, <2>2
<1>8. Counted(r)'
    BY <1>2, <1>4, <1>5, RegisteredFinite, FS_AddElement DEF AttestersSound, Counted
<1>9. Placed(r)'
    <2> SUFFICES ASSUME NEW b \in Registered(r) \cup {a}
                 PROVE  \/ attesterIndex'[r][b] = 0
                        \/ /\ attesterIndex'[r][b] < Len(longer)
                           /\ longer[attesterIndex'[r][b] + 1] = b
        BY <1>4 DEF Placed
    <2>1. CASE b = a
        BY <1>1, <1>3, <1>5, <2>1
    <2>2. CASE b # a
        <3>1. b \in Registered(r) /\ b \in Attesters
            BY <2>2 DEF Registered
        <3>2. attesterIndex'[r][b] = index[b] /\ index[b] \in Nat
            BY <1>1, <1>3, <2>2, <3>1
        <3>3. index[b] = 0 \/ (index[b] < Len(list) /\ list[index[b] + 1] = b)
            BY <1>2, <3>1 DEF AttestersSound, Placed
        <3>4. CASE index[b] < Len(list) /\ list[index[b] + 1] = b
            <4>1. index[b] + 1 \in 1 .. Len(list)
                BY <1>1, <3>2, <3>4
            <4> QED
                BY <1>1, <1>5, <3>2, <3>4, <4>1
        <3> QED
            BY <3>2, <3>3, <3>4
    <2> QED
        BY <2>1, <2>2
<1> QED
    BY <1>6, <1>7, <1>8, <1>9 DEF AttestersSound

LEMMA DeregisterSound ==
    ASSUME AttesterInv, NEW r \in Registries, NEW sender \in Accounts, NEW a \in Attesters,
           DeregisterAttester(r, sender, a)
    PROVE  AttestersSound(r)'
<1> DEFINE list == registeredAttesters[r]
           shorter == registeredAttesters'[r]
           index == attesterIndex[r]
           n == Len(list) - 1
           last == list[n + 1]
<1>1. /\ list \in Seq(Attesters)
      /\ index \in [Attesters -> Nat]
      /\ Len(list) \in Nat
      /\ DOMAIN list = 1 .. Len(list)
    BY LenProperties DEF AttesterInv, TypeOK
<1>2. AttestersSound(r)
    BY DEF AttesterInv
<1>3. index[a] \in Nat /\ index[a] <= n /\ n \in Nat /\ Len(list) = n + 1
    BY <1>1 DEF DeregisterAttester
<1>4. index[a] + 1 \in 1 .. Len(list)
    BY <1>3
<1>5. /\ shorter = SwapAndPop(list, index[a] + 1)
      /\ attesterIndex'[r] = IndicesAfterRemoval(list, index, a)
      /\ upgrade'[r] = IF upgrade[r] = "unmigrated" THEN "misordered" ELSE upgrade[r]
    BY DEF DeregisterAttester, AttesterInv, TypeOK
<1>6. Registered(r)' = Registered(r) \ {a} /\ a \in Registered(r)
    BY DEF DeregisterAttester, Registered, AttesterInv, TypeOK
<1>7. /\ Len(shorter) = n
      /\ \A i \in 1 .. n : shorter[i] = IF i = index[a] + 1 THEN last ELSE list[i]
    <2> DEFINE k == index[a] + 1
    <2>1. k \in 1 .. Len(list)
        BY <1>4
    <2> HIDE DEF k
    <2>2. /\ Len(SwapAndPop(list, k)) = Len(list) - 1
          /\ \A i \in 1 .. Len(list) - 1 :
                 SwapAndPop(list, k)[i] = IF i = k THEN list[Len(list)] ELSE list[i]
        BY <1>1, <2>1, SwapAndPopType
    <2> QED
        BY <1>3, <1>5, <2>2 DEF k
<1>8. \A b \in Attesters : attesterIndex'[r][b] =
          IF b = a THEN 0
          ELSE IF b = last /\ index[a] # n THEN index[a] ELSE index[b]
    BY <1>1, <1>3, <1>5 DEF IndicesAfterRemoval
<1> HIDE DEF n, last
<1>9. upgrade'[r] # "misordered" =>
          /\ upgrade[r] = "migrated"
          /\ NoDuplicates(list)
          /\ Range(list) = Registered(r)
          /\ \A i \in 1 .. n + 1 : index[list[i]] = i - 1
    BY <1>2, <1>3, <1>5 DEF AttestersSound, Listed, Indexed, AttesterInv, TypeOK
<1>10. upgrade'[r] # "misordered" => list[index[a] + 1] = a
    <2> SUFFICES ASSUME upgrade'[r] # "misordered" PROVE list[index[a] + 1] = a
        OBVIOUS
    <2>1. a \in Range(list)
        BY <1>6, <1>9
    <2>2. PICK i \in DOMAIN list : list[i] = a
        BY <2>1 DEF Range
    <2>3. i \in 1 .. n + 1 /\ index[list[i]] = i - 1
        BY <1>1, <1>3, <1>9, <2>2
    <2> QED
        BY <1>3, <2>2, <2>3
<1>11. Listed(r)'
    BY <1>1, <1>4, <1>5, <1>6, <1>9, <1>10, SwapAndPopSound DEF Listed
<1>12. Indexed(r)'
    <2> SUFFICES ASSUME upgrade'[r] = "migrated", NEW i \in 1 .. n
                 PROVE  attesterIndex'[r][shorter[i]] = i - 1
        BY <1>7 DEF Indexed
    <2>1. \A j \in 1 .. n + 1 : list[j] \in Attesters /\ index[list[j]] = j - 1
        BY <1>1, <1>3, <1>9, ElementOfSeq
    <2>2. last = list[n + 1] /\ index[last] = n
        BY <1>3, <2>1 DEF last
    <2>3. CASE i = index[a] + 1
        <3>1. shorter[i] = last /\ last \in Attesters /\ last # a
            BY <1>3, <1>7, <2>1, <2>2, <2>3
        <3> QED
            BY <1>3, <1>8, <2>3, <3>1
    <2>4. CASE i # index[a] + 1
        <3>1. shorter[i] = list[i] /\ list[i] \in Attesters /\ index[list[i]] = i - 1
            BY <1>3, <1>7, <2>1, <2>4
        <3>2. list[i] # a /\ list[i] # last
            BY <1>3, <2>2, <2>4, <3>1
        <3> QED
            BY <1>8, <3>1, <3>2
    <2> QED
        BY <2>3, <2>4
<1>13. Counted(r)'
    <2>1. Cardinality(Registered(r) \ {a}) = Cardinality(Registered(r)) - 1
        BY <1>6, RegisteredFinite, FS_RemoveElement
    <2> QED
        BY <1>2, <1>3, <1>6, <1>7, <2>1 DEF AttestersSound, Counted
<1>14. Placed(r)'
    <2> SUFFICES ASSUME NEW b \in Registered(r), b # a
                 PROVE  \/ attesterIndex'[r][b] = 0
                        \/ /\ attesterIndex'[r][b] < n
                           /\ shorter[attesterIndex'[r][b] + 1] = b
        BY <1>6, <1>7 DEF Placed
    <2>1. b \in Attesters /\ index[b] \in Nat
        BY <1>1 DEF Registered
    <2>2. index[b] = 0 \/ (index[b] <= n /\ list[index[b] + 1] = b)
        BY <1>2, <1>3, <2>1 DEF AttestersSound, Placed
    <2>3. CASE b = last /\ index[a] # n
        <3>1. attesterIndex'[r][b] = index[a] /\ index[a] + 1 \in 1 .. n
            BY <1>3, <1>8, <2>1, <2>3
        <3> QED
            BY <1>3, <1>7, <2>3, <3>1
    <2>4. CASE ~ (b = last /\ index[a] # n)
        <3>1. attesterIndex'[r][b] = index[b]
            BY <1>8, <2>1, <2>4
        <3>2. CASE index[b] # 0
            <4>1. index[b] # index[a]
                <5>1. CASE index[a] = 0
                    BY <3>2, <5>1
                <5>2. CASE index[a] # 0
                    BY <1>2, <1>6, <2>2, <3>2, <5>2 DEF AttestersSound, Placed
                <5> QED
                    BY <5>1, <5>2
            <4>2. index[b] # n
                BY <1>3, <2>2, <2>4, <3>2, <4>1 DEF last
            <4>3. index[b] + 1 \in 1 .. n /\ index[b] + 1 # index[a] + 1
                BY <1>3, <2>1, <2>2, <3>2, <4>1, <4>2
            <4> QED
                BY <1>3, <1>7, <2>1, <2>2, <3>1, <3>2, <4>3
        <3> QED
            BY <3>1, <3>2
    <2> QED
        BY <2>3, <2>4
<1> QED
    BY <1>11, <1>12, <1>13, <1>14 DEF AttestersSound

LEMMA MigrateSound ==
    ASSUME AttesterInv, NEW r \in Registries, NEW sender \in Accounts,
           MigrateAttesterIndices(r, sender)
    PROVE  AttestersSound(r)'
<1> DEFINE list == registeredAttesters[r]
           index == attesterIndex[r]
<1>1. /\ list \in Seq(Attesters)
      /\ index \in [Attesters -> Nat]
      /\ Len(list) \in Nat
      /\ DOMAIN list = 1 .. Len(list)
      /\ \A i \in 1 .. Len(list) : list[i] \in Attesters
    BY LenProperties, ElementOfSeq DEF AttesterInv, TypeOK
<1>2. AttestersSound(r)
    BY DEF AttesterInv
<1>3. /\ registeredAttesters' = registeredAttesters
      /\ Registered(r)' = Registered(r)
      /\ \A a \in Attesters : attesterIndex'[r][a] =
             IF a \in Range(list) THEN MigratedIndex(list, a) ELSE index[a]
      /\ upgrade'[r] = IF upgrade[r] = "unmigrated" THEN "migrated" ELSE upgrade[r]
    BY DEF MigrateAttesterIndices, Registered, AttesterInv, TypeOK
<1>4. \A a \in Range(list) : /\ MigratedIndex(list, a) \in 0 .. Len(list) - 1
                             /\ list[MigratedIndex(list, a) + 1] = a
    <2> SUFFICES ASSUME NEW a \in Range(list)
                 PROVE  /\ MigratedIndex(list, a) \in 0 .. Len(list) - 1
                        /\ list[MigratedIndex(list, a) + 1] = a
        OBVIOUS
    <2>1. /\ LastPosition(list, a) \in 1 .. Len(list)
          /\ list[LastPosition(list, a)] = a
        BY <1>1, LastPositionExists
    <2> QED
        BY <1>1, <2>1 DEF MigratedIndex
<1>5. Listed(r)' /\ Counted(r)'
    BY <1>2, <1>3 DEF AttestersSound, Listed, Counted, AttesterInv, TypeOK
<1>6. Indexed(r)'
    <2> SUFFICES ASSUME upgrade'[r] = "migrated", NEW i \in 1 .. Len(list)
                 PROVE  attesterIndex'[r][list[i]] = i - 1
        BY <1>3 DEF Indexed
    <2>1. NoDuplicates(list)
        BY <1>2, <1>3 DEF AttestersSound, Listed
    <2>2. LastPosition(list, list[i]) = i
        BY <1>1, <2>1, LastPositionUnique
    <2>3. list[i] \in Range(list)
        BY <1>1 DEF Range
    <2> QED
        BY <1>1, <1>3, <2>2, <2>3 DEF MigratedIndex
<1>7. Placed(r)'
    <2> SUFFICES ASSUME NEW a \in Registered(r)
                 PROVE  \/ attesterIndex'[r][a] = 0
                        \/ /\ attesterIndex'[r][a] < Len(list)
                           /\ list[attesterIndex'[r][a] + 1] = a
        BY <1>3 DEF Placed
    <2>1. a \in Attesters /\ index[a] \in Nat
        BY <1>1 DEF Registered
    <2>2. CASE a \in Range(list)
        BY <1>1, <1>3, <1>4, <2>1, <2>2
    <2>3. CASE a \notin Range(list)
        <3>1. index[a] = 0 \/ (index[a] < Len(list) /\ list[index[a] + 1] = a)
            BY <1>2 DEF AttestersSound, Placed
        <3>2. index[a] < Len(list) => index[a] + 1 \in DOMAIN list
            BY <1>1, <2>1
        <3> QED
            BY <1>3, <2>1, <2>3, <3>1, <3>2 DEF Range
    <2> QED
        BY <2>2, <2>3
<1> QED
    BY <1>5, <1>6, <1>7 DEF AttestersSound
\* An attester operation on one registry leaves the others as they are.
LEMMA OtherRegistries ==
    ASSUME AttesterInv, NEW r \in Registries, NEW sender \in Accounts, NEW a \in Attesters,
           RegisterAttester(r, sender, a) \/ DeregisterAttester(r, sender, a),
           NEW q \in Registries, q # r
    PROVE  AttestersSound(q)'
<1>1. AttestersSound(q)
    BY DEF AttesterInv
<1>2. /\ registeredAttesters'[q] = registeredAttesters[q]
      /\ isAttesterRegistered'[q] = isAttesterRegistered[q]
      /\ attesterIndex'[q] = attesterIndex[q]
      /\ upgrade'[q] = upgrade[q]
    BY DEF RegisterAttester, DeregisterAttester, AttesterInv, TypeOK
<1> QED
    BY <1>1, <1>2, AttestersFrame

LEMMA AttesterStep == AttesterInv /\ [Next]_vars => AttesterInv'
<1> SUFFICES ASSUME AttesterInv, [Next]_vars PROVE AttesterInv'
    OBVIOUS
<1>1. TypeOK'
    BY StepType DEF AttesterInv
<1>2. CASE UNCHANGED attesters
    BY <1>1, <1>2, AttestersFrame DEF AttesterInv, attesters
<1>3. ASSUME NEW r \in Registries, NEW sender \in Accounts, NEW a \in Attesters,
             RegisterAttester(r, sender, a) \/ DeregisterAttester(r, sender, a)
      PROVE  AttesterInv'
    BY <1>1, <1>3, RegisterSound, DeregisterSound, OtherRegistries DEF AttesterInv
<1>4. ASSUME NEW r \in Registries, NEW sender \in Accounts,
             MigrateAttesterIndices(r, sender)
      PROVE  AttesterInv'
    <2>1. AttestersSound(r)'
        BY <1>4, MigrateSound
    <2>2. \A q \in Registries : q # r => AttestersSound(q)'
        BY <1>4, AttestersFrame DEF AttesterInv, MigrateAttesterIndices, TypeOK
    <2> QED
        BY <1>1, <2>1, <2>2 DEF AttesterInv
<1>5. ASSUME NEW r \in Registries, Administration(r) PROVE AttesterInv'
    BY <1>2, <1>3, <1>4, <1>5
    DEF Administration, Initialize, TransferOwnership, AcceptOwnership, RenounceOwnership,
        MoveOwnership
<1> QED
    BY <1>2, <1>5 DEF Next, vars, SetPolicyID, ValidateAttestation, Sign, Tick

LEMMA AttestersAlwaysSound == Spec => []AttesterInv
<1>1. Init => AttesterInv
    BY InitType, InitAttesters DEF AttesterInv
<1>2. AttesterInv /\ [Next]_vars => AttesterInv'
    BY AttesterStep
<1> QED
    BY <1>1, <1>2, PTL DEF Spec

\* getRegisteredAttesters is complete, unless an attester was removed before
\* the migration of an upgraded registry.
THEOREM ListCorrect == Spec => []ListSound
<1>1. AttesterInv => ListSound
    BY DEF AttesterInv, AttestersSound, Listed, ListSound
<1> QED
    BY <1>1, AttestersAlwaysSound, PTL

\* The index of every listed attester is its position, once migrated.
THEOREM IndexCorrect == Spec => []IndexSound
<1>1. AttesterInv => IndexSound
    <2> SUFFICES ASSUME AttesterInv, NEW r \in Registries, upgrade[r] = "migrated",
                        NEW i \in DOMAIN registeredAttesters[r]
                 PROVE  attesterIndex[r][registeredAttesters[r][i]] = i - 1
        BY DEF IndexSound
    <2>1. i \in 1 .. Len(registeredAttesters[r])
        BY LenProperties DEF AttesterInv, TypeOK
    <2> QED
        BY <2>1 DEF AttesterInv, AttestersSound, Indexed
<1> QED
    BY <1>1, AttestersAlwaysSound, PTL

\* No history of registrations, removals and migrations, in any order, makes a
\* registered attester impossible to deregister.
THEOREM AlwaysRevocable == Spec => []RevocationPossible
<1>1. AttesterInv => RevocationPossible
    <2> SUFFICES ASSUME AttesterInv, NEW r \in Registries, NEW a \in Registered(r)
                 PROVE  attesterIndex[r][a] < Len(registeredAttesters[r])
        BY DEF RevocationPossible
    <2>1. Counted(r) /\ Placed(r)
        BY DEF AttesterInv, AttestersSound
    <2>2. Len(registeredAttesters[r]) \in Nat
        BY LenProperties DEF AttesterInv, TypeOK
    <2>3. Len(registeredAttesters[r]) # 0
        BY <2>1, RegisteredFinite, FS_EmptySet DEF Counted
    <2> QED
        BY <2>1, <2>2, <2>3 DEF Placed
<1> QED
    BY <1>1, AttestersAlwaysSound, PTL

-------------------------------------------------------------------------------
(***************************************************************************)
(* Ownership.  RenouncedIsFinal needs that a renounced registry has no     *)
(* pending owner: _transferOwnership clears the proposal.                  *)
(***************************************************************************)
NoHeir ==
    \A r \in Registries :
        initialized[r] /\ owner[r] = ZeroAddress => pendingOwner[r] = ZeroAddress

OwnerInv == TypeOK /\ NoHeir
\* Every step other than the four ownership calls leaves ownership alone.
LEMMA OwnershipFrame ==
    ASSUME [Next]_vars
    PROVE  \/ UNCHANGED ownership
           \/ \E r \in Registries, sender, o \in Accounts :
                  \/ Initialize(r, o)
                  \/ TransferOwnership(r, sender, o)
                  \/ AcceptOwnership(r, sender)
                  \/ RenounceOwnership(r, sender)
<1>1. CASE \E r \in Registries : Administration(r)
    BY <1>1, AccountAssumption
    DEF Administration, RegisterAttester, DeregisterAttester, MigrateAttesterIndices
<1> QED
    BY <1>1 DEF Next, vars, SetPolicyID, ValidateAttestation, Sign, Tick

LEMMA OwnerStep == OwnerInv /\ [Next]_vars => OwnerInv'
<1> SUFFICES ASSUME OwnerInv, [Next]_vars PROVE OwnerInv'
    OBVIOUS
<1>1. TypeOK'
    BY StepType DEF OwnerInv
<1>2. NoHeir'
    <2>1. CASE UNCHANGED ownership
        BY <2>1 DEF OwnerInv, NoHeir, ownership
    <2>2. ASSUME NEW r \in Registries, NEW o \in Accounts, Initialize(r, o) PROVE NoHeir'
        BY <2>2 DEF Initialize, OwnerInv, NoHeir, TypeOK
    <2>3. ASSUME NEW r \in Registries, NEW sender \in Accounts, NEW o \in Accounts,
                 TransferOwnership(r, sender, o)
          PROVE  NoHeir'
        BY <2>3 DEF TransferOwnership, OnlyOwner, OwnerInv, NoHeir, TypeOK
    <2>4. ASSUME NEW r \in Registries, NEW o \in Accounts, MoveOwnership(r, o) PROVE NoHeir'
        BY <2>4, AccountAssumption DEF MoveOwnership, OwnerInv, NoHeir, TypeOK
    <2> QED
        BY <2>1, <2>2, <2>3, <2>4, OwnershipFrame, AccountAssumption
        DEF AcceptOwnership, RenounceOwnership
<1> QED
    BY <1>1, <1>2 DEF OwnerInv

\* A call by an owner who is not the zero address cannot come from a renounced
\* registry.
LEMMA RenouncedStep ==
    ASSUME OwnerInv, [Next]_vars, NEW r \in Registries,
           initialized[r], owner[r] = ZeroAddress
    PROVE  owner'[r] = ZeroAddress /\ Registered(r)' = Registered(r)
<1>1. owner'[r] = ZeroAddress
    <2>1. CASE UNCHANGED ownership
        BY <2>1 DEF ownership
    <2>2. ASSUME NEW q \in Registries, NEW sender \in Accounts, NEW o \in Accounts,
                 \/ Initialize(q, o)
                 \/ TransferOwnership(q, sender, o)
                 \/ AcceptOwnership(q, sender)
                 \/ RenounceOwnership(q, sender)
          PROVE  owner'[r] = ZeroAddress
        BY <2>2
        DEF Initialize, TransferOwnership, AcceptOwnership, RenounceOwnership, MoveOwnership,
            OnlyOwner, OwnerInv, NoHeir, TypeOK
    <2> QED
        BY <2>1, <2>2, OwnershipFrame
<1>2. Registered(r)' = Registered(r)
    <2>1. CASE UNCHANGED isAttesterRegistered
        BY <2>1 DEF Registered
    <2>2. ASSUME NEW q \in Registries, NEW sender \in Accounts, NEW a \in Attesters,
                 RegisterAttester(q, sender, a) \/ DeregisterAttester(q, sender, a)
          PROVE  Registered(r)' = Registered(r)
        <3>1. q # r
            BY <2>2 DEF RegisterAttester, DeregisterAttester, OnlyOwner
        <3> QED
            BY <2>2, <3>1
            DEF RegisterAttester, DeregisterAttester, Registered, OwnerInv, TypeOK
    <2>3. ASSUME NEW q \in Registries, Administration(q)
          PROVE  Registered(r)' = Registered(r)
        BY <2>1, <2>2, <2>3
        DEF Administration, Initialize, TransferOwnership, AcceptOwnership, RenounceOwnership,
            MoveOwnership, MigrateAttesterIndices, attesters
    <2> QED
        BY <2>1, <2>3
        DEF Next, vars, SetPolicyID, ValidateAttestation, Sign, Tick, attesters
<1> QED
    BY <1>1, <1>2

\* Renouncing ownership is final and freezes the set of attesters.
THEOREM RenouncementFinal == Spec => RenouncedIsFinal
<1>1. Init => OwnerInv
    BY InitType DEF Init, FreshRegistry, UpgradedRegistry, OwnerInv, NoHeir
<1>2. OwnerInv /\ [Next]_vars => OwnerInv'
    BY OwnerStep
<1>3. OwnerInv /\ [Next]_vars =>
          [\A r \in Registries : initialized[r] /\ owner[r] = ZeroAddress =>
              owner'[r] = ZeroAddress /\ Registered(r)' = Registered(r)]_vars
    BY RenouncedStep
<1> QED
    BY <1>1, <1>2, <1>3, PTL DEF Spec, RenouncedIsFinal

-------------------------------------------------------------------------------
(***************************************************************************)
(* Validation: one-shot UUIDs, and only what was signed.                   *)
(***************************************************************************)

(***************************************************************************)
(* NeverTwice is not inductive: that the next accepted UUID is new follows *)
(* from its not being marked as used only because every accepted UUID is   *)
(* marked (Marked).                                                        *)
(***************************************************************************)
Marked(r) ==
    \A i \in 1 .. Len(validated[r]) : validated[r][i].uuid \in usedStatementUUIDs[r]

Distinct(r) ==
    \A i, j \in 1 .. Len(validated[r]) :
        validated[r][i].uuid = validated[r][j].uuid => i = j

\* The signature an accepted statement rests on.
Backing(r, e) ==
    [signer |-> e.attester,
     digest |-> [chain |-> ChainOf[r], uuid |-> e.uuid, call |-> e.call,
                 target |-> e.caller, policy |-> e.policy, expiration |-> e.expiration]]

Backed(r) ==
    \A i \in 1 .. Len(validated[r]) :
        /\ Backing(r, validated[r][i]) \in signatures
        /\ validated[r][i].at <= validated[r][i].expiration

ValidationSound(r) == Marked(r) /\ Distinct(r) /\ Backed(r)

ValidationInv == TypeOK /\ \A r \in Registries : ValidationSound(r)

LEMMA ValidationFrame ==
    ASSUME NEW r \in Registries, ValidationSound(r),
           validated'[r] = validated[r],
           usedStatementUUIDs'[r] = usedStatementUUIDs[r],
           signatures \subseteq signatures'
    PROVE  ValidationSound(r)'
BY DEF ValidationSound, Marked, Distinct, Backed, Backing

\* What a validation appends is new, was signed and is in time.
LEMMA AcceptedSound ==
    ASSUME ValidationInv, NEW r \in Registries, NEW c \in Callers, NEW st \in Statement,
           NEW att \in Attestation, ValidateAttestation(r, c, st, att)
    PROVE  ValidationSound(r)'
<1> DEFINE log == validated[r]
           event == StatementValidated(c, st, att)
           longer == validated'[r]
<1>1. log \in Seq(Event) /\ Len(log) \in Nat
    BY LenProperties DEF ValidationInv, TypeOK
<1>2. event \in Event
    BY DEF ValidationInv, TypeOK, StatementValidated, Event, Statement, Attestation
<1>3. /\ longer = Append(log, event)
      /\ usedStatementUUIDs'[r] = usedStatementUUIDs[r] \cup {st.uuid}
      /\ signatures' = signatures
      /\ Validates(r, c, st, att)
    BY DEF ValidateAttestation, Spend, ValidationInv, TypeOK, environment
<1>4. /\ Len(longer) = Len(log) + 1
      /\ \A i \in 1 .. Len(log) : longer[i] = log[i]
      /\ longer[Len(log) + 1] = event
    BY <1>1, <1>2, <1>3, AppendProperties
<1>5. ValidationSound(r)
    BY DEF ValidationInv
<1>6. event.uuid = st.uuid /\ st.uuid \notin usedStatementUUIDs[r]
    BY <1>3 DEF StatementValidated, Validates, Unused
<1>7. Backing(r, event) \in signatures
    <2>1. att.signature \in signatures
        BY DEF Attestation
    <2>2. att.signature = Backing(r, event)
        BY <1>3 DEF Validates, Recovers, HashStatementSafe, HashFor, Backing, StatementValidated
    <2> QED
        BY <2>1, <2>2
<1>8. event.at <= event.expiration
    BY <1>3 DEF Validates, NotExpired, StatementValidated
<1> HIDE DEF log, longer, event
<1>9. \A i \in 1 .. Len(longer) : i \in 1 .. Len(log) \/ i = Len(log) + 1
    BY <1>1, <1>4
<1>10. Marked(r)'
    BY <1>3, <1>4, <1>5, <1>6, <1>9 DEF ValidationSound, Marked, log, longer
<1>11. Distinct(r)'
    BY <1>1, <1>4, <1>5, <1>6, <1>9 DEF ValidationSound, Marked, Distinct, log, longer
<1>12. Backed(r)'
    <2> SUFFICES ASSUME NEW i \in 1 .. Len(longer)
                 PROVE  Backing(r, longer[i]) \in signatures /\ longer[i].at <= longer[i].expiration
        BY <1>3 DEF Backed, Backing, longer
    <2> QED
        BY <1>4, <1>5, <1>7, <1>8, <1>9 DEF ValidationSound, Backed, log
<1> QED
    BY <1>10, <1>11, <1>12 DEF ValidationSound

LEMMA ValidationStep == ValidationInv /\ [Next]_vars => ValidationInv'
<1> SUFFICES ASSUME ValidationInv, [Next]_vars PROVE ValidationInv'
    OBVIOUS
<1>1. TypeOK'
    BY StepType DEF ValidationInv
<1>2. CASE UNCHANGED validation /\ signatures \subseteq signatures'
    BY <1>1, <1>2, ValidationFrame DEF ValidationInv, validation
<1>3. ASSUME NEW r \in Registries, NEW c \in Callers, NEW st \in Statement,
             NEW att \in Attestation, ValidateAttestation(r, c, st, att)
      PROVE  ValidationInv'
    <2>1. ValidationSound(r)'
        BY <1>3, AcceptedSound
    <2>2. ASSUME NEW q \in Registries, q # r PROVE ValidationSound(q)'
        <3>1. /\ validated'[q] = validated[q]
              /\ usedStatementUUIDs'[q] = usedStatementUUIDs[q]
              /\ signatures \subseteq signatures'
            BY <1>3, <2>2 DEF ValidateAttestation, Spend, ValidationInv, TypeOK, environment
        <3> QED
            BY <3>1, ValidationFrame DEF ValidationInv
    <2> QED
        BY <1>1, <2>1, <2>2 DEF ValidationInv
<1>4. CASE \E r \in Registries : Administration(r)
    BY <1>2, <1>4
    DEF Administration, Initialize, TransferOwnership, AcceptOwnership, RenounceOwnership,
        MoveOwnership, RegisterAttester, DeregisterAttester, MigrateAttesterIndices, environment
<1> QED
    BY <1>2, <1>3, <1>4 DEF Next, vars, environment, SetPolicyID, Sign, Tick

LEMMA ValidationAlwaysSound == Spec => []ValidationInv
<1>1. Init => ValidationInv
    <2>1. Init => \A r \in Registries : Len(validated[r]) = 0
        BY EmptySeq DEF Init
    <2> QED
        BY <2>1, InitType DEF ValidationInv, ValidationSound, Marked, Distinct, Backed
<1>2. ValidationInv /\ [Next]_vars => ValidationInv'
    BY ValidationStep
<1> QED
    BY <1>1, <1>2, PTL DEF Spec

\* No registry accepts a UUID twice.
THEOREM AcceptedOnce == Spec => []NeverTwice
<1>1. ValidationInv => NeverTwice
    <2> SUFFICES ASSUME ValidationInv, NEW r \in Registries PROVE
                        \A i, j \in DOMAIN validated[r] :
                            validated[r][i].uuid = validated[r][j].uuid => i = j
        BY DEF NeverTwice
    <2>1. DOMAIN validated[r] = 1 .. Len(validated[r])
        BY LenProperties DEF ValidationInv, TypeOK
    <2> QED
        BY <2>1 DEF ValidationInv, ValidationSound, Distinct
<1> QED
    BY <1>1, ValidationAlwaysSound, PTL

\* What a registry accepts was signed for its chain and its caller, in time.
THEOREM AcceptedSigned == Spec => []AcceptedWasSigned
<1>1. ValidationInv => AcceptedWasSigned
    <2> SUFFICES ASSUME ValidationInv, NEW r \in Registries, NEW e \in Range(validated[r])
                 PROVE  Backing(r, e) \in signatures /\ e.at <= e.expiration
        BY DEF AcceptedWasSigned, Backing
    <2>1. DOMAIN validated[r] = 1 .. Len(validated[r])
        BY LenProperties DEF ValidationInv, TypeOK
    <2>2. PICK i \in 1 .. Len(validated[r]) : e = validated[r][i]
        BY <2>1 DEF Range
    <2> QED
        BY <2>2 DEF ValidationInv, ValidationSound, Backed
<1> QED
    BY <1>1, ValidationAlwaysSound, PTL
(***************************************************************************)
(* Usable signatures.  A validation that spends the UUID of one was a call *)
(* of the target that UUID was given to; nothing else spends any.          *)
(***************************************************************************)

\* Every signature with this UUID names the same target.
OneTarget(s) ==
    \A t \in signatures : t.digest.uuid = s.digest.uuid => t.digest.target = s.digest.target

\* How a usable signature fares in a step.
Fares(r, s) ==
    \/ s \in signatures' /\ Usable(r, s)'
    \/ now' > s.digest.expiration
    \/ s.signer \notin Registered(r)'
    \/ /\ Len(validated'[r]) > Len(validated[r])
       /\ validated'[r][Len(validated'[r])].caller = s.digest.target

LEMMA SpendingFares ==
    ASSUME TypeOK, NEW r \in Registries, NEW s \in signatures, Usable(r, s), OneTarget(s),
           NEW q \in Registries, NEW c \in Callers, NEW st \in Statement,
           NEW att \in Attestation, ValidateAttestation(q, c, st, att)
    PROVE  Fares(r, s)
<1>1. /\ Registered(r)' = Registered(r) /\ signatures' = signatures /\ now' = now
      /\ Validates(q, c, st, att) /\ att.signature \in signatures
    BY DEF ValidateAttestation, Spend, Registered, attesters, environment, Attestation
<1>2. CASE q = r /\ st.uuid = s.digest.uuid
    <2>1. att.signature.digest.uuid = st.uuid /\ att.signature.digest.target = c
        BY <1>1 DEF Validates, Recovers, HashStatementSafe, HashFor
    <2>2. c = s.digest.target
        BY <1>1, <1>2, <2>1 DEF OneTarget
    <2> DEFINE event == StatementValidated(c, st, att)
    <2>3. event \in Event /\ event.caller = c
        BY DEF TypeOK, StatementValidated, Event, Statement, Attestation
    <2>4. validated'[r] = Append(validated[r], event) /\ validated[r] \in Seq(Event)
        BY <1>2 DEF ValidateAttestation, Spend, TypeOK
    <2> HIDE DEF event
    <2>5. /\ Len(validated[r]) \in Nat /\ Len(validated'[r]) = Len(validated[r]) + 1
          /\ validated'[r][Len(validated'[r])] = event
        BY <2>3, <2>4, LenProperties, AppendProperties
    <2> QED
        BY <2>2, <2>3, <2>5 DEF Fares
<1>3. CASE ~(q = r /\ st.uuid = s.digest.uuid)
    <2>1. s.digest.uuid \notin usedStatementUUIDs'[r]
        BY <1>3 DEF ValidateAttestation, Spend, Usable, TypeOK
    <2> QED
        BY <1>1, <2>1 DEF Usable, Fares
<1> QED
    BY <1>2, <1>3

LEMMA UsableFares ==
    ASSUME TypeOK, [Next]_vars, NEW r \in Registries, NEW s \in signatures, Usable(r, s),
           OneTarget(s)
    PROVE  Fares(r, s)
<1>1. /\ now \in Nat /\ s.digest.expiration \in Nat
    BY TimeAssumption DEF TypeOK, Signature, Digest
<1>2. ASSUME s \in signatures', UNCHANGED validation, now' \in {now, now + 1}
      PROVE  Fares(r, s)
    BY <1>1, <1>2 DEF Usable, Fares, validation
<1>3. ASSUME NEW q \in Registries, Administration(q) PROVE Fares(r, s)
    BY <1>2, <1>3
    DEF Administration, Initialize, TransferOwnership, AcceptOwnership, RenounceOwnership,
        MoveOwnership, RegisterAttester, DeregisterAttester, MigrateAttesterIndices, environment
<1>4. ASSUME NEW q \in Registries, NEW c \in Callers, NEW p \in Policies, SetPolicyID(q, c, p)
      PROVE  Fares(r, s)
    BY <1>2, <1>4 DEF SetPolicyID, environment
<1>5. ASSUME NEW q \in Registries, NEW a \in Attesters, NEW st \in Statement, Sign(q, a, st)
      PROVE  Fares(r, s)
    BY <1>2, <1>5 DEF Sign
<1>6. CASE Tick
    BY <1>2, <1>6 DEF Tick
<1>7. CASE UNCHANGED vars
    BY <1>2, <1>7 DEF vars, environment
<1> QED
    BY <1>3, <1>4, <1>5, <1>6, <1>7, SpendingFares DEF Next

\* A signature whose UUID was given to one target stays usable until it lapses,
\* its signer is deregistered, or that target itself has it validated.
THEOREM UsableTillSpent == Spec => UsableUntilSpent
<1> DEFINE AllFare ==
        \A r \in Registries : \A s \in signatures : Usable(r, s) /\ OneTarget(s) => Fares(r, s)
<1>1. TypeOK /\ [Next]_vars => [AllFare]_vars
    BY UsableFares
<1>2. [AllFare]_vars => [\A r \in Registries : \A s \in signatures :
           /\ Usable(r, s)
           /\ \A t \in signatures :
                  t.digest.uuid = s.digest.uuid => t.digest.target = s.digest.target
           => \/ s \in signatures' /\ Usable(r, s)'
              \/ now' > s.digest.expiration
              \/ s.signer \notin Registered(r)'
              \/ /\ Len(validated'[r]) > Len(validated[r])
                 /\ validated'[r][Len(validated'[r])].caller = s.digest.target]_vars
    BY DEF OneTarget, Fares
<1> HIDE DEF AllFare
<1> QED
    BY <1>1, <1>2, TypeCorrect, PTL DEF Spec, UsableUntilSpent

-------------------------------------------------------------------------------
(***************************************************************************)
(* Refinement.  A registry's call maps to the abstract action its name     *)
(* suggests; ownership, migration and policies are invisible, and so is a  *)
(* signature for another chain.                                            *)
(***************************************************************************)
\* What registry r shows to the abstract specification.
View(r) == <<Registered(r), Permits(r), usedStatementUUIDs[r], Grants(r), now>>

LEMMA GrantStep ==
    ASSUME TypeOK, NEW r \in Registries, NEW c \in Callers, NEW st \in Statement,
           NEW att \in Attestation, ValidateAttestation(r, c, st, att)
    PROVE  \E p \in Permits(r) :
               /\ p.issuer \in Registered(r)
               /\ p.serial \notin usedStatementUUIDs[r]
               /\ now <= p.deadline
               /\ Grants(r)' = Grants(r) \cup {p}
               /\ usedStatementUUIDs'[r] = usedStatementUUIDs[r] \cup {p.serial}
               /\ Registered(r)' = Registered(r)
               /\ Permits(r)' = Permits(r)
               /\ now' = now
<1> DEFINE event == StatementValidated(c, st, att)
           p == PermitOf(att.signature)
<1>1. /\ att.signature = [signer |-> att.attester,
                          digest |-> [chain |-> ChainOf[r], uuid |-> st.uuid,
                                      call |-> st.call, target |-> c, policy |-> st.policy,
                                      expiration |-> st.expiration]]
      /\ att.signature \in signatures
      /\ st.expiration = att.expiration
    BY DEF ValidateAttestation, Spend, Validates, Recovers, HashStatementSafe, HashFor, Attestation
<1>2. p \in Permits(r)
    BY <1>1 DEF Permits
<1>3. p = GrantOf(event)
    BY <1>1 DEF PermitOf, GrantOf, Permitted, StatementValidated
<1>4. p.issuer = att.attester /\ p.serial = st.uuid /\ p.deadline = st.expiration
    BY <1>1 DEF PermitOf
<1>5. Grants(r)' = Grants(r) \cup {p}
    <2>1. event \in Event /\ validated[r] \in Seq(Event)
        BY DEF TypeOK, StatementValidated, Event, Statement, Attestation
    <2>2. validated'[r] = Append(validated[r], event)
        BY DEF ValidateAttestation, Spend, TypeOK
    <2>3. Range(validated[r])' = Range(validated[r]) \cup {event}
        BY <2>1, <2>2, PushSound
    <2> HIDE DEF event, p
    <2>4. Grants(r)' = {GrantOf(e) : e \in Range(validated[r]) \cup {event}}
        BY <2>3 DEF Grants, GrantOf
    <2> QED
        BY <1>3, <2>4 DEF Grants
<1>6. /\ Registered(r)' = Registered(r)
      /\ Permits(r)' = Permits(r)
      /\ now' = now
      /\ usedStatementUUIDs'[r] = usedStatementUUIDs[r] \cup {st.uuid}
    BY DEF ValidateAttestation, Spend, Registered, Permits, PermitOf, Permitted, attesters,
           environment, TypeOK
<1>7. att.attester \in Registered(r) /\ st.uuid \notin usedStatementUUIDs[r] /\ now <= st.expiration
    BY <1>1 DEF ValidateAttestation, Spend, Validates, NotExpired, Unused
<1> HIDE DEF p
<1> QED
    BY <1>2, <1>4, <1>5, <1>6, <1>7

\* A validation by another registry is invisible.
LEMMA GrantElsewhere ==
    ASSUME TypeOK, NEW r \in Registries, NEW c \in Callers, NEW st \in Statement,
           NEW att \in Attestation, ValidateAttestation(r, c, st, att),
           NEW q \in Registries, q # r
    PROVE  UNCHANGED View(q)
<1>1. validated'[q] = validated[q] /\ usedStatementUUIDs'[q] = usedStatementUUIDs[q]
    BY DEF ValidateAttestation, Spend, TypeOK
<1> QED
    BY <1>1 DEF ValidateAttestation, View, Registered, Permits, PermitOf, Permitted, Grants,
                GrantOf, attesters, environment

LEMMA IssueStep ==
    ASSUME TypeOK, NEW r \in Registries, NEW a \in Attesters, NEW st \in Statement,
           Sign(r, a, st), NEW q \in Registries
    PROVE  \/ UNCHANGED View(q)
           \/ /\ \E p \in Authorization(q)!Permit : Permits(q)' = Permits(q) \cup {p}
              /\ UNCHANGED <<Registered(q), usedStatementUUIDs[q], Grants(q), now>>
<1> DEFINE s == [signer |-> a, digest |-> HashStatementWithExpiry(r, st)]
<1>1. s \in Signature /\ signatures' = signatures \cup {s}
    <2>1. st.target \in Callers
        BY DEF Statement
    <2> QED
        BY <2>1, HashForType DEF Sign, HashStatementWithExpiry, Signature
<1>2. UNCHANGED <<Registered(q), usedStatementUUIDs[q], Grants(q), now>>
    BY DEF Sign, Registered, Grants, GrantOf, attesters, validation
<1>3. PermitOf(s) \in Authorization(q)!Permit
    BY <1>1 DEF PermitOf, Permitted, Authorization!Permit, Signature, Digest
<1> HIDE DEF s
<1>4. CASE s.digest.chain = ChainOf[q]
    <2>1. Permits(q)' = Permits(q) \cup {PermitOf(s)}
        BY <1>1, <1>4 DEF Permits, PermitOf, Permitted
    <2> QED
        BY <1>2, <1>3, <2>1
<1>5. CASE s.digest.chain # ChainOf[q]
    <2>1. Permits(q)' = Permits(q)
        BY <1>1, <1>5 DEF Permits, PermitOf, Permitted
    <2> QED
        BY <1>2, <2>1 DEF View
<1> QED
    BY <1>4, <1>5
LEMMA InitImplements ==
    ASSUME Init, NEW r \in Registries
    PROVE  Authorization(r)!Init
<1>1. Registered(r) \in SUBSET Attesters
    BY DEF Registered
<1>2. usedStatementUUIDs[r] \in SUBSET UUIDs
    BY DEF Init
<1>3. Permits(r) = {} /\ now = 0
    BY DEF Init, Permits
<1>4. Grants(r) = {}
    <2>1. validated[r] = << >>
        BY DEF Init
    <2>2. DOMAIN validated[r] = {}
        BY <2>1
    <2> QED
        BY <2>2 DEF Grants, Range
<1> QED
    BY <1>1, <1>2, <1>3, <1>4 DEF Authorization!Init

\* Administration changes at most who is trusted, one attester at a time.
LEMMA TrustStep ==
    ASSUME TypeOK, NEW r \in Registries, Administration(r), NEW q \in Registries
    PROVE  /\ UNCHANGED <<Permits(q), usedStatementUUIDs[q], Grants(q), now>>
           /\ \/ Registered(q)' = Registered(q)
              \/ \E a \in Attesters : \/ Registered(q)' = Registered(q) \cup {a}
                                     \/ Registered(q)' = Registered(q) \ {a}
<1>1. UNCHANGED <<validation, environment>>
    BY DEF Administration, Initialize, TransferOwnership, AcceptOwnership, RenounceOwnership,
           MoveOwnership, RegisterAttester, DeregisterAttester, MigrateAttesterIndices
<1>2. UNCHANGED <<Permits(q), usedStatementUUIDs[q], Grants(q), now>>
    BY <1>1 DEF validation, environment, Permits, PermitOf, Permitted, Grants, GrantOf
<1>3. CASE UNCHANGED isAttesterRegistered
    BY <1>2, <1>3 DEF Registered
<1>4. ASSUME NEW sender \in Accounts, NEW a \in Attesters,
             RegisterAttester(r, sender, a) \/ DeregisterAttester(r, sender, a)
      PROVE  \/ Registered(q)' = Registered(q)
             \/ Registered(q)' = Registered(q) \cup {a}
             \/ Registered(q)' = Registered(q) \ {a}
    <2>1. CASE q # r
        BY <1>4, <2>1 DEF RegisterAttester, DeregisterAttester, Registered, TypeOK
    <2>2. CASE q = r /\ RegisterAttester(r, sender, a)
        BY <2>2 DEF RegisterAttester, Registered, TypeOK
    <2>3. CASE q = r /\ DeregisterAttester(r, sender, a)
        BY <2>3 DEF DeregisterAttester, Registered, TypeOK
    <2> QED
        BY <1>4, <2>1, <2>2, <2>3
<1> QED
    BY <1>2, <1>3, <1>4
    DEF Administration, Initialize, TransferOwnership, AcceptOwnership, RenounceOwnership,
        MoveOwnership, MigrateAttesterIndices, attesters

LEMMA StepImplements ==
    ASSUME TypeOK, [Next]_vars, NEW q \in Registries
    PROVE  [Authorization(q)!Next]_(Authorization(q)!vars)
<1>1. CASE UNCHANGED View(q)
    BY <1>1 DEF View, Authorization!vars
<1>2. ASSUME NEW r \in Registries, Administration(r)
      PROVE  [Authorization(q)!Next]_(Authorization(q)!vars)
    BY <1>2, TrustStep
    DEF Authorization!Next, Authorization!Trust, Authorization!Distrust, Authorization!vars
<1>3. ASSUME NEW r \in Registries, NEW c \in Callers, NEW st \in Statement,
             NEW att \in Attestation, ValidateAttestation(r, c, st, att)
      PROVE  [Authorization(q)!Next]_(Authorization(q)!vars)
    <2>1. CASE q = r
        BY <1>3, <2>1, GrantStep DEF Authorization!Next, Authorization!Grant
    <2>2. CASE q # r
        BY <1>1, <1>3, <2>2, GrantElsewhere
    <2> QED
        BY <2>1, <2>2
<1>4. ASSUME NEW r \in Registries, NEW a \in Attesters, NEW st \in Statement, Sign(r, a, st)
      PROVE  [Authorization(q)!Next]_(Authorization(q)!vars)
    BY <1>1, <1>4, IssueStep DEF Authorization!Next, Authorization!Issue
<1>5. CASE Tick
    BY <1>5 DEF Tick, Authorization!Next, Authorization!Advance, attesters, validation,
                Registered, Permits, PermitOf, Permitted, Grants, GrantOf
<1>6. ASSUME NEW r \in Registries, NEW c \in Callers, NEW p \in Policies,
             SetPolicyID(r, c, p) \/ UNCHANGED vars
      PROVE  UNCHANGED View(q)
    BY <1>6 DEF SetPolicyID, vars, attesters, validation, environment, View, Registered,
                Permits, PermitOf, Permitted, Grants, GrantOf
<1>7. CASE UNCHANGED vars
    BY <1>1, <1>7 DEF vars, attesters, validation, environment, View, Registered,
                Permits, PermitOf, Permitted, Grants, GrantOf
<1> QED
    BY <1>1, <1>2, <1>3, <1>4, <1>5, <1>6, <1>7 DEF Next

\* Every registry is a one-shot authorisation of the actions of its chain.
THEOREM RegistryImplements == Spec => ImplementsAuthorization
<1>1. Init => \A r \in Registries : Authorization(r)!Init
    BY InitImplements
<1>2. TypeOK /\ [Next]_vars =>
          [\A r \in Registries : [Authorization(r)!Next]_(Authorization(r)!vars)]_vars
    BY StepImplements
<1> QED
    BY <1>1, <1>2, TypeCorrect, PTL DEF Spec, ImplementsAuthorization

(***************************************************************************)
(* What the one-shot authorisation promises, whoever implements it: only   *)
(* permits are granted, and each serial number at most once, because what  *)
(* was granted is spent.                                                   *)
(***************************************************************************)
Promise(r) ==
    /\ Authorization(r)!OnePerSerial
    /\ Grants(r) \subseteq Permits(r)
    /\ \A p \in Grants(r) : p.serial \in usedStatementUUIDs[r]

LEMMA PromiseStep ==
    ASSUME NEW r \in Registries, Promise(r),
           [Authorization(r)!Next]_(Authorization(r)!vars)
    PROVE  Promise(r)'
<1> USE DEF Promise, Authorization!OnePerSerial
<1>1. CASE UNCHANGED Authorization(r)!vars
    BY <1>1 DEF Authorization!vars
<1>2. ASSUME NEW p \in Permits(r), Authorization(r)!Grant(p) PROVE Promise(r)'
    BY <1>2 DEF Authorization!Grant
<1>3. CASE \/ \E i \in Attesters : Authorization(r)!Trust(i) \/ Authorization(r)!Distrust(i)
           \/ \E p \in Authorization(r)!Permit : Authorization(r)!Issue(p)
           \/ Authorization(r)!Advance
    BY <1>3
    DEF Authorization!Trust, Authorization!Distrust, Authorization!Issue, Authorization!Advance
<1> QED
    BY <1>1, <1>2, <1>3 DEF Authorization!Next

\* Whatever implements the authorisation keeps its promise, and so do the
\* registries: no serial number is granted twice, nothing without a permit.
THEOREM PromiseKept ==
    Spec => [](\A r \in Registries :
                   Authorization(r)!OnePerSerial /\ Grants(r) \subseteq Permits(r))
<1> DEFINE AllKeep == \A r \in Registries : Promise(r)
           AllStart == \A r \in Registries : Authorization(r)!Init
           AllStep == \A r \in Registries :
                          [Authorization(r)!Next]_(Authorization(r)!vars)
           Kept == \A r \in Registries :
                       Authorization(r)!OnePerSerial /\ Grants(r) \subseteq Permits(r)
<1>1. AllStart => AllKeep
    BY DEF Authorization!Init, Promise, Authorization!OnePerSerial
<1>2. AllKeep /\ [AllStep]_vars => AllKeep'
    <2>1. CASE AllStep
        BY <2>1, PromiseStep
    <2>2. CASE UNCHANGED vars
        BY <2>2
        DEF vars, attesters, validation, environment, Promise, Authorization!OnePerSerial,
            Permits, PermitOf, Permitted, Grants, GrantOf
    <2> QED
        BY <2>1, <2>2
<1>3. AllKeep => Kept
    BY DEF Promise
<1>4. ImplementsAuthorization => AllStart /\ [][AllStep]_vars
    BY DEF ImplementsAuthorization
<1> HIDE DEF AllKeep, AllStart, AllStep
<1> QED
    BY <1>1, <1>2, <1>3, <1>4, RegistryImplements, PTL
===============================================================================
