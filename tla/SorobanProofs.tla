----------------------------- MODULE SorobanProofs -----------------------------
(***************************************************************************)
(* Theorems about the Soroban registry, for any lifetimes MinTTL and       *)
(* MaxTTL, any attesters, callers and UUIDs, and about the compliant token *)
(* that uses it, for any holders and amounts.                              *)
(***************************************************************************)
EXTENDS CompliantToken, DataProofs

LEMMA InitType == Init => TypeOK
<1> SUFFICES ASSUME Init PROVE TypeOK
    OBVIOUS
<1>1. attesters \in Seq(Attesters) /\ validated \in Seq(Event)
    BY EmptySeq DEF Init
<1> QED
    BY <1>1, NoPolicyAssumption, LifetimeAssumption DEF Init, TypeOK

\* The ledger to which extend_ttl prolongs an entry.
LEMMA ExtendedType == TypeOK => Extended \in Nat
BY LifetimeAssumption DEF TypeOK, Extended

LEMMA AdministrationType ==
    ASSUME TypeOK, Administration
    PROVE  TypeOK'
<1>1. ASSUME NEW by \in Accounts, NEW current \in Accounts, NEW new \in Accounts,
             TransferOwnership(by, current, new) \/ AcceptOwnership(by, new)
      PROVE  TypeOK'
    BY <1>1 DEF TransferOwnership, AcceptOwnership, ClearProposal, TypeOK, policyEntries,
                validation, environment
<1>2. ASSUME NEW by \in Accounts, NEW caller \in Accounts, NEW hash \in Codes,
             Upgrade(by, caller, hash)
      PROVE  TypeOK'
    BY <1>2 DEF Upgrade, TypeOK, ownership, policyEntries, validation, environment
<1>3. ASSUME NEW by \in Accounts, NEW caller \in Accounts, NEW a \in Attesters,
             RegisterAttester(by, caller, a)
      PROVE  TypeOK'
    <2>1. Append(attesters, a) \in Seq(Attesters)
        BY AppendProperties DEF TypeOK
    <2> QED
        BY <1>3, <2>1, ExtendedType
        DEF RegisterAttester, TypeOK, ownership, policyEntries, validation, environment
<1>4. ASSUME NEW by \in Accounts, NEW caller \in Accounts, NEW a \in Attesters,
             DeregisterAttester(by, caller, a)
      PROVE  TypeOK'
    <2>1. attesters \in Seq(Attesters) /\ a \in Range(attesters)
        BY <1>4 DEF DeregisterAttester, IsRegistered, TypeOK
    <2>2. SwapAndPop(attesters, FirstPosition(attesters, a)) \in Seq(Attesters)
        BY <2>1, FirstPositionExists, SwapAndPopType
    <2> QED
        BY <1>4, <2>2, ExtendedType
        DEF DeregisterAttester, TypeOK, ownership, policyEntries, validation, environment
<1> QED
    BY <1>1, <1>2, <1>3, <1>4 DEF Administration

LEMMA ValidateType ==
    ASSUME TypeOK, NEW by \in Callers, NEW caller \in Callers, NEW st \in Statement,
           NEW att \in Attestation, ValidateAttestation(by, caller, st, att)
    PROVE  /\ TypeOK'
           /\ Accepted(by, caller, st, att) \in Event
<1>1. Accepted(by, caller, st, att) \in Event
    BY DEF TypeOK, Accepted, Event, Statement, Attestation
<1>2. validated' \in Seq(Event)
    BY <1>1, AppendProperties DEF ValidateAttestation, TypeOK
<1>3. usedUntil' \in [UUIDs -> Nat \cup {-1}]
    BY ExtendedType DEF ValidateAttestation, Mark, TypeOK, Statement
<1>4. instanceUntil' \in Nat
    BY ExtendedType DEF ValidateAttestation, RefreshTTL
<1> QED
    BY <1>1, <1>2, <1>3, <1>4
    DEF ValidateAttestation, TypeOK, ownership, policyEntries, environment

\* Every step of the registry keeps every variable in its type.
LEMMA StepType == TypeOK /\ [Next]_vars => TypeOK'
<1> SUFFICES ASSUME TypeOK, [Next]_vars PROVE TypeOK'
    OBVIOUS
<1>1. CASE UNCHANGED vars
    BY <1>1 DEF TypeOK, vars, contract, ownership, policyEntries, validation, environment
<1>2. CASE Restore
    BY <1>2, LifetimeAssumption
    DEF Restore, TypeOK, ownership, policyEntries, validation, environment
<1>3. ASSUME NEW by \in Callers, NEW caller \in Callers, NEW p \in Policies,
             SetPolicyID(by, caller, p)
      PROVE  TypeOK'
    BY <1>3, ExtendedType
    DEF SetPolicyID, TypeOK, contract, ownership, validation, environment
<1>4. ASSUME NEW a \in Attesters, NEW digest \in Digest, Sign(a, digest)
      PROVE  TypeOK'
    BY <1>4 DEF Sign, TypeOK, Signature, contract, ownership, policyEntries, validation
<1>5. CASE CloseLedger
    BY <1>5 DEF CloseLedger, TypeOK, contract, ownership, policyEntries, validation
<1> QED
    BY <1>1, <1>2, <1>3, <1>4, <1>5, AdministrationType, ValidateType DEF Next

\* Type correctness, for every instance.
THEOREM TypeCorrect == Spec => []TypeOK
<1>1. Init => TypeOK
    BY InitType
<1>2. TypeOK /\ [Next]_vars => TypeOK'
    BY StepType
<1> QED
    BY <1>1, <1>2, PTL DEF Spec

-------------------------------------------------------------------------------
\* The owner of today made the proposal that is pending.
THEOREM ProposalsCurrent == Spec => []ProposalFromOwner
<1>1. Init => ProposalFromOwner
    BY DEF Init, ProposalFromOwner
<1>2. ProposalFromOwner /\ [Next]_vars => ProposalFromOwner'
    <2> SUFFICES ASSUME ProposalFromOwner, [Next]_vars PROVE ProposalFromOwner'
        OBVIOUS
    <2>1. CASE UNCHANGED ownership
        BY <2>1 DEF ownership, ProposalFromOwner
    <2>2. ASSUME NEW by \in Accounts, NEW current \in Accounts, NEW new \in Accounts,
                 TransferOwnership(by, current, new)
          PROVE  ProposalFromOwner'
        BY <2>2 DEF TransferOwnership, RequireOwner, RequireAuth, ProposalFromOwner
    <2>3. ASSUME NEW by \in Accounts, NEW new \in Accounts, AcceptOwnership(by, new)
          PROVE  ProposalFromOwner'
        BY <2>3 DEF AcceptOwnership, ClearProposal, ProposalFromOwner
    <2>4. CASE Administration
        BY <2>1, <2>2, <2>3, <2>4
        DEF Administration, Upgrade, RegisterAttester, DeregisterAttester
    <2> QED
        BY <2>1, <2>4
        DEF Next, Restore, SetPolicyID, ValidateAttestation, Sign, CloseLedger, vars, contract
<1> QED
    BY <1>1, <1>2, PTL DEF Spec

-------------------------------------------------------------------------------
EntryInv == TypeOK /\ OneEntryPerAttester

\* A deregistration takes the attester, and nobody else, out of the set.
LEMMA DeregisterSound ==
    ASSUME EntryInv, NEW by, NEW caller, NEW a \in Attesters, DeregisterAttester(by, caller, a)
    PROVE  NoDuplicates(attesters') /\ Range(attesters') = Range(attesters) \ {a}
<1>1. attesters \in Seq(Attesters) /\ a \in Range(attesters) /\ NoDuplicates(attesters)
    BY DEF DeregisterAttester, IsRegistered, EntryInv, TypeOK, OneEntryPerAttester
<1>2. FirstPosition(attesters, a) \in 1 .. Len(attesters) /\ attesters[FirstPosition(attesters, a)] = a
    BY <1>1, FirstPositionExists
<1> QED
    BY <1>1, <1>2, SwapAndPopSound DEF DeregisterAttester

LEMMA RegisterSound ==
    ASSUME EntryInv, NEW by, NEW caller, NEW a \in Attesters, RegisterAttester(by, caller, a)
    PROVE  NoDuplicates(attesters') /\ Range(attesters') = Range(attesters) \cup {a}
<1>1. attesters \in Seq(Attesters) /\ a \notin Range(attesters) /\ NoDuplicates(attesters)
    BY DEF RegisterAttester, Registrable, IsRegistered, EntryInv, TypeOK, OneEntryPerAttester
<1> QED
    BY <1>1, PushSound DEF RegisterAttester

LEMMA EntryStep == EntryInv /\ [Next]_vars => EntryInv'
<1> SUFFICES ASSUME EntryInv, [Next]_vars PROVE EntryInv'
    OBVIOUS
<1>1. TypeOK'
    BY StepType DEF EntryInv
<1>2. CASE UNCHANGED attesters
    BY <1>1, <1>2 DEF EntryInv, OneEntryPerAttester
<1>3. CASE Administration
    BY <1>1, <1>2, <1>3, RegisterSound, DeregisterSound
    DEF Administration, TransferOwnership, AcceptOwnership, Upgrade, EntryInv, OneEntryPerAttester
<1> QED
    BY <1>2, <1>3
    DEF Next, Restore, SetPolicyID, ValidateAttestation, Sign, CloseLedger, vars, contract

LEMMA EntryAlways == Spec => []EntryInv
<1>1. Init => EntryInv
    BY InitType DEF Init, EntryInv, OneEntryPerAttester, NoDuplicates, IsInjective
<1>2. EntryInv /\ [Next]_vars => EntryInv'
    BY EntryStep
<1> QED
    BY <1>1, <1>2, PTL DEF Spec

\* No key is in the vector of attesters twice.
THEOREM EntriesDistinct == Spec => []OneEntryPerAttester
<1>1. EntryInv => OneEntryPerAttester
    BY DEF EntryInv
<1> QED
    BY <1>1, EntryAlways, PTL

-------------------------------------------------------------------------------
(***************************************************************************)
(* The log of accepted statements.  SpentForLifetime is not inductive: a   *)
(* UUID comes back late only because its marker lives MaxTTL ledgers from  *)
(* the last acceptance on (Outlived), and acceptances lie in the past      *)
(* (Past).  That the contract outlives its validations (Alive) needs Past  *)
(* for the same reason.  The refinement needs the converse: behind every   *)
(* marker there is an acceptance (Witnessed).                              *)
(***************************************************************************)
\* The signature an accepted statement rests on.
Backing(e) ==
    [signer |-> e.attester,
     digest |-> [network |-> Network, uuid |-> e.uuid, call |-> e.call,
                 target |-> e.target, policy |-> e.policy, expiration |-> e.expiration]]

Backed == \A i \in 1 .. Len(validated) :
    /\ Backing(validated[i]) \in signatures
    /\ validated[i].at <= validated[i].expiration

ByTarget == \A i \in 1 .. Len(validated) : validated[i].by = validated[i].target

Past == \A i \in 1 .. Len(validated) : validated[i].at <= ledger

Outlived == \A i \in 1 .. Len(validated) :
    validated[i].at + MaxTTL <= usedUntil[validated[i].uuid]

Alive == \A i \in 1 .. Len(validated) : validated[i].at + MaxTTL <= instanceUntil

Spaced == \A i, j \in 1 .. Len(validated) :
    i < j /\ validated[i].uuid = validated[j].uuid =>
        validated[i].at + MaxTTL < validated[j].at

Witnessed == \A u \in UUIDs : usedUntil[u] # -1 =>
    \E i \in 1 .. Len(validated) :
        validated[i].uuid = u /\ validated[i].at + MaxTTL = usedUntil[u]

LogSound == Backed /\ ByTarget /\ Past /\ Outlived /\ Alive /\ Spaced /\ Witnessed

LogInv == TypeOK /\ LogSound

LEMMA LogType ==
    ASSUME TypeOK
    PROVE  /\ Len(validated) \in Nat
           /\ DOMAIN validated = 1 .. Len(validated)
           /\ \A i \in 1 .. Len(validated) :
                  /\ validated[i] \in Event
                  /\ validated[i].at \in Nat
                  /\ validated[i].uuid \in UUIDs
<1>1. validated \in Seq(Event)
    BY DEF TypeOK
<1>2. Len(validated) \in Nat /\ DOMAIN validated = 1 .. Len(validated)
    BY <1>1, LenProperties
<1>3. \A i \in 1 .. Len(validated) : validated[i] \in Event
    BY <1>1, ElementOfSeq
<1> QED
    BY <1>2, <1>3 DEF Event

\* Whatever happens besides a validation only adds signatures and time, and
\* restores or prolongs the contract's entry.
LEMMA LogFrame ==
    ASSUME LogInv, UNCHANGED validation,
           signatures \subseteq signatures', ledger <= ledger', ledger' \in Nat,
           instanceUntil' \in Nat,
           instanceUntil <= instanceUntil' \/ ledger + MaxTTL <= instanceUntil'
    PROVE  LogSound'
<1>1. LogSound /\ TypeOK
    BY DEF LogInv
<1>2. validated' = validated /\ usedUntil' = usedUntil
    BY DEF validation
<1>3. Backed' /\ ByTarget' /\ Outlived' /\ Spaced' /\ Witnessed'
    BY <1>1, <1>2 DEF LogSound, Backed, Backing, ByTarget, Outlived, Spaced, Witnessed
<1>4. Past'
    BY <1>1, <1>2, LogType DEF LogSound, Past, TypeOK
<1>5. Alive'
    <2> SUFFICES ASSUME NEW i \in 1 .. Len(validated)
                 PROVE  validated[i].at + MaxTTL <= instanceUntil'
        BY <1>2 DEF Alive
    <2>1. validated[i].at + MaxTTL <= instanceUntil
        BY <1>1 DEF LogSound, Alive
    <2>2. validated[i].at <= ledger
        BY <1>1 DEF LogSound, Past
    <2>3. validated[i].at \in Nat /\ instanceUntil \in Nat /\ ledger \in Nat
        BY <1>1, LogType DEF TypeOK
    <2> QED
        BY <2>1, <2>2, <2>3, LifetimeAssumption
<1> QED
    BY <1>3, <1>4, <1>5 DEF LogSound

\* What a validation appends was signed, in time, by a call of its target, and
\* no acceptance of the same UUID lies within MaxTTL ledgers.
LEMMA AcceptedSound ==
    ASSUME LogInv, NEW by \in Callers, NEW caller \in Callers, NEW st \in Statement,
           NEW att \in Attestation, ValidateAttestation(by, caller, st, att)
    PROVE  LogSound'
<1> DEFINE event == Accepted(by, caller, st, att)
           n == Len(validated)
<1>1. /\ TypeOK /\ LogSound
      /\ Validates(by, caller, st, att)
      /\ validated' = Append(validated, event)
      /\ signatures' = signatures /\ ledger' = ledger
      /\ instanceUntil' = ledger + MaxTTL
    BY DEF LogInv, ValidateAttestation, environment, RefreshTTL, Extended
<1>2. /\ n \in Nat
      /\ \A i \in 1 .. n : validated[i].at \in Nat /\ validated[i].uuid \in UUIDs
      /\ ledger \in Nat /\ MaxTTL \in Nat /\ st.uuid \in UUIDs
    BY <1>1, LogType, LifetimeAssumption DEF TypeOK, Statement
<1>3. event \in Event
    BY <1>1, ValidateType
<1>4. /\ Len(validated') = n + 1
      /\ \A i \in 1 .. n : validated'[i] = validated[i]
      /\ validated'[n + 1] = event
    BY <1>1, <1>3, AppendProperties DEF TypeOK
<1>5. /\ event.uuid = st.uuid /\ event.at = ledger
      /\ event.by = by /\ event.target = caller
    BY DEF Accepted
<1>6. /\ usedUntil'[st.uuid] = ledger + MaxTTL
      /\ \A u \in UUIDs : u # st.uuid => usedUntil'[u] = usedUntil[u]
    BY <1>1, <1>2 DEF ValidateAttestation, Mark, Extended, TypeOK
<1>7. \A i \in 1 .. n : validated[i].at <= ledger
    BY <1>1 DEF LogSound, Past
<1>8. Backing(event) \in signatures /\ event.at <= event.expiration
    <2>1. att.signature \in signatures
        BY DEF Attestation
    <2>2. st = [uuid |-> st.uuid, call |-> st.call, target |-> st.target,
                policy |-> st.policy, expiration |-> st.expiration]
        BY DEF Statement
    <2>3. SafeStatement(st, caller) =
              [uuid |-> st.uuid, call |-> st.call, target |-> caller,
               policy |-> st.policy, expiration |-> st.expiration]
        BY <2>2 DEF SafeStatement
    <2>4. att.signature = Backing(event)
        BY <1>1, <2>3 DEF Validates, Verifies, ComputeHash, Backing, Accepted
    <2> QED
        BY <1>1, <2>1, <2>4 DEF Validates, NotExpired, Accepted
<1> HIDE DEF event, n
<1>9. \A i \in 1 .. Len(validated') : i \in 1 .. n \/ i = n + 1
    BY <1>2, <1>4
<1>10. Backed' /\ ByTarget' /\ Past'
    <2>1. Backed'
        <3> SUFFICES ASSUME NEW i \in 1 .. Len(validated')
                     PROVE  /\ Backing(validated'[i]) \in signatures
                            /\ validated'[i].at <= validated'[i].expiration
            BY <1>1 DEF Backed, Backing
        <3> QED
            BY <1>1, <1>4, <1>8, <1>9 DEF LogSound, Backed, n
    <2>2. ByTarget'
        BY <1>1, <1>4, <1>5, <1>9 DEF LogSound, ByTarget, Validates, RequireAuth, n
    <2>3. Past'
        BY <1>1, <1>2, <1>4, <1>5, <1>7, <1>9 DEF Past
    <2> QED
        BY <2>1, <2>2, <2>3
<1>11. Outlived' /\ Alive'
    <2>1. ASSUME NEW i \in 1 .. n
          PROVE  validated[i].at + MaxTTL <= usedUntil'[validated[i].uuid]
        <3>1. CASE validated[i].uuid = st.uuid
            BY <1>2, <1>6, <1>7, <3>1
        <3>2. CASE validated[i].uuid # st.uuid
            BY <1>1, <1>2, <1>6, <3>2 DEF LogSound, Outlived, n
        <3> QED
            BY <3>1, <3>2
    <2>2. Outlived'
        BY <1>2, <1>4, <1>5, <1>6, <1>9, <2>1 DEF Outlived
    <2>3. Alive'
        BY <1>1, <1>2, <1>4, <1>5, <1>7, <1>9 DEF Alive
    <2> QED
        BY <2>2, <2>3
<1>12. Spaced'
    <2>1. ASSUME NEW i \in 1 .. n, validated[i].uuid = st.uuid
          PROVE  validated[i].at + MaxTTL < ledger
        <3>1. validated[i].at + MaxTTL <= usedUntil[st.uuid]
            BY <1>1, <2>1 DEF LogSound, Outlived, n
        <3>2. ~(ledger <= usedUntil[st.uuid])
            BY <1>1 DEF Validates, AlreadyUsed, Live
        <3>3. usedUntil[st.uuid] \in Nat \cup {-1}
            BY <1>1, <1>2 DEF TypeOK
        <3> QED
            BY <1>2, <3>1, <3>2, <3>3
    <2> SUFFICES ASSUME NEW i \in 1 .. n + 1, NEW j \in 1 .. n + 1, i < j,
                        validated'[i].uuid = validated'[j].uuid
                 PROVE  validated'[i].at + MaxTTL < validated'[j].at
        BY <1>4 DEF Spaced
    <2>2. i \in 1 .. n
        BY <1>2
    <2>3. CASE j = n + 1
        BY <1>4, <1>5, <2>1, <2>2, <2>3
    <2>4. CASE j \in 1 .. n
        BY <1>1, <1>4, <2>2, <2>4 DEF LogSound, Spaced, n
    <2> QED
        BY <1>2, <2>3, <2>4
<1>13. Witnessed'
    <2> SUFFICES ASSUME NEW u \in UUIDs, usedUntil'[u] # -1
                 PROVE  \E i \in 1 .. n + 1 :
                            validated'[i].uuid = u /\ validated'[i].at + MaxTTL = usedUntil'[u]
        BY <1>4 DEF Witnessed
    <2>1. CASE u = st.uuid
        BY <1>2, <1>4, <1>5, <1>6, <2>1
    <2>2. CASE u # st.uuid
        <3>1. usedUntil'[u] = usedUntil[u]
            BY <1>6, <2>2
        <3>2. PICK i \in 1 .. n : validated[i].uuid = u /\ validated[i].at + MaxTTL = usedUntil[u]
            BY <1>1, <3>1 DEF LogSound, Witnessed, n
        <3> QED
            BY <1>2, <1>4, <3>1, <3>2
    <2> QED
        BY <2>1, <2>2
<1> QED
    BY <1>10, <1>11, <1>12, <1>13 DEF LogSound

LEMMA LogStep == LogInv /\ [Next]_vars => LogInv'
<1> SUFFICES ASSUME LogInv, [Next]_vars PROVE LogInv'
    OBVIOUS
<1>1. TypeOK /\ TypeOK'
    BY StepType DEF LogInv
<1>2. ledger \in Nat /\ ledger' \in Nat /\ instanceUntil \in Nat /\ instanceUntil' \in Nat
    BY <1>1 DEF TypeOK
<1>3. CASE UNCHANGED <<validation, ledger, instanceUntil>> /\ signatures \subseteq signatures'
    BY <1>1, <1>2, <1>3, LogFrame DEF LogInv
<1>4. CASE Restore
    BY <1>1, <1>2, <1>4, LogFrame, LifetimeAssumption
    DEF LogInv, Restore, Callable, Live, environment
<1>5. CASE CloseLedger
    BY <1>1, <1>2, <1>5, LogFrame DEF LogInv, CloseLedger, contract
<1>6. ASSUME NEW by \in Accounts, NEW caller \in Accounts, NEW a \in Attesters,
             RegisterAttester(by, caller, a) \/ DeregisterAttester(by, caller, a)
      PROVE  LogInv'
    BY <1>1, <1>2, <1>6, LogFrame, LifetimeAssumption
    DEF LogInv, RegisterAttester, DeregisterAttester, Extended, environment, Callable, Live
<1> QED
    BY <1>1, <1>3, <1>4, <1>5, <1>6, AcceptedSound
    DEF LogInv, Next, Administration, TransferOwnership, AcceptOwnership, Upgrade, SetPolicyID,
        Sign, vars, contract, validation, environment

LEMMA LogAlwaysSound == Spec => []LogInv
<1>1. Init => LogInv
    <2>1. Init => Len(validated) = 0
        BY EmptySeq DEF Init
    <2>2. Init => \A u \in UUIDs : usedUntil[u] = -1
        BY DEF Init
    <2> QED
        BY <2>1, <2>2, InitType
        DEF LogInv, LogSound, Backed, ByTarget, Past, Outlived, Alive, Spaced, Witnessed
<1>2. LogInv /\ [Next]_vars => LogInv'
    BY LogStep
<1> QED
    BY <1>1, <1>2, PTL DEF Spec

\* An element of the log stands at one of its positions.
LEMMA LogElement ==
    ASSUME LogInv, NEW e \in Range(validated)
    PROVE  \E i \in 1 .. Len(validated) : e = validated[i]
BY LogType DEF LogInv, Range

\* What the registry accepts was signed for its network and the contract the
\* event names, and presented by that contract, in time.
THEOREM AcceptedSigned == Spec => []AcceptedWasSigned
<1>1. LogInv => AcceptedWasSigned
    <2> SUFFICES ASSUME LogInv, NEW e \in Range(validated)
                 PROVE  Backing(e) \in signatures /\ e.at <= e.expiration /\ e.by = e.target
        BY DEF AcceptedWasSigned, Backing
    <2> QED
        BY LogElement DEF LogInv, LogSound, Backed, ByTarget
<1> QED
    BY <1>1, LogAlwaysSound, PTL

\* A UUID comes back only after the longest life of its marker.
THEOREM SpentLongEnough == Spec => []SpentForLifetime
<1>1. LogInv => SpentForLifetime
    BY LogType DEF LogInv, LogSound, Spaced, SpentForLifetime
<1> QED
    BY <1>1, LogAlwaysSound, PTL

\* A registry in use is never archived.
THEOREM UsedStaysAlive == Spec => []UseKeepsAlive
<1>1. LogInv => UseKeepsAlive
    <2> SUFFICES ASSUME LogInv, NEW e \in Range(validated), ledger <= e.at + MaxTTL
                 PROVE  ledger <= instanceUntil
        BY DEF UseKeepsAlive, Callable, Live
    <2>1. PICK i \in 1 .. Len(validated) : e = validated[i]
        BY LogElement
    <2>2. e.at + MaxTTL <= instanceUntil
        BY <2>1 DEF LogInv, LogSound, Alive
    <2>3. e.at \in Nat /\ ledger \in Nat /\ instanceUntil \in Nat
        BY <2>1, LogType DEF LogInv, TypeOK
    <2> QED
        BY <2>2, <2>3, LifetimeAssumption
<1> QED
    BY <1>1, LogAlwaysSound, PTL

-------------------------------------------------------------------------------
(***************************************************************************)
(* Refinement.  A validation grants a permit, unless the UUID was spent    *)
(* before and its marker is archived; then the step is a LateReplay.       *)
(***************************************************************************)
Permits == {PermitOf(s) : s \in {t \in signatures : t.digest.network = Network}}
Spent == {u \in UUIDs : usedUntil[u] # -1}
Grants == {GrantOf(e) : e \in Range(validated)}

\* What the registry shows to the abstract specification.
View == <<Range(attesters), Permits, Spent, Grants, ledger>>

LEMMA GrantStep ==
    ASSUME LogInv, NEW by \in Callers, NEW caller \in Callers, NEW st \in Statement,
           NEW att \in Attestation, ValidateAttestation(by, caller, st, att)
    PROVE  LateReplay \/ Authorization!Next
<1> DEFINE event == Accepted(by, caller, st, att)
           p == PermitOf(att.signature)
<1>1. /\ TypeOK /\ LogSound
      /\ Validates(by, caller, st, att)
      /\ validated' = Append(validated, event)
      /\ att.signature \in signatures
      /\ st.uuid \in UUIDs
    BY DEF LogInv, ValidateAttestation, Attestation, Statement
<1>2. event \in Event
    BY <1>1, ValidateType
<1>3. /\ Len(validated') = Len(validated) + 1
      /\ validated'[Len(validated')] = event
      /\ Range(validated') = Range(validated) \cup {event}
    BY <1>1, <1>2, PushSound DEF TypeOK
<1>4. CASE usedUntil[st.uuid] # -1
    <2>1. PICK i \in 1 .. Len(validated) :
              validated[i].uuid = st.uuid /\ validated[i].at + MaxTTL = usedUntil[st.uuid]
        BY <1>1, <1>4 DEF LogSound, Witnessed
    <2>2. ~(ledger <= usedUntil[st.uuid])
        BY <1>1 DEF Validates, AlreadyUsed, Live
    <2>3. /\ i \in DOMAIN validated /\ validated[i].at \in Nat
          /\ ledger \in Nat /\ MaxTTL \in Nat
        BY <1>1, LogType, LifetimeAssumption DEF TypeOK
    <2>4. validated[i].at + MaxTTL < ledger
        BY <2>1, <2>2, <2>3
    <2>5. event.uuid = st.uuid
        BY DEF Accepted
    <2> QED
        BY <1>3, <2>1, <2>3, <2>4, <2>5 DEF LateReplay
<1>5. CASE usedUntil[st.uuid] = -1
    <2>1. st = [uuid |-> st.uuid, call |-> st.call, target |-> st.target,
                policy |-> st.policy, expiration |-> st.expiration]
        BY DEF Statement
    <2>2. att.signature =
              [signer |-> att.attester,
               digest |-> [network |-> Network, uuid |-> st.uuid, call |-> st.call,
                           target |-> caller, policy |-> st.policy,
                           expiration |-> st.expiration]]
        BY <1>1, <2>1 DEF Validates, Verifies, ComputeHash, SafeStatement
    <2>3. /\ p.issuer = att.attester /\ p.serial = st.uuid /\ p.deadline = st.expiration
          /\ p = GrantOf(event)
          /\ p \in Permits
        <3>1. /\ att.signature.signer = att.attester
              /\ att.signature.digest.uuid = st.uuid
              /\ att.signature.digest.expiration = st.expiration
              /\ att.signature.digest.network = Network
              /\ Permitted(att.signature.digest) =
                    [call |-> st.call, target |-> caller, policy |-> st.policy]
            BY <2>2 DEF Permitted
        <3>2. /\ event.attester = att.attester /\ event.uuid = st.uuid
              /\ event.expiration = st.expiration
              /\ Permitted(event) =
                    [call |-> st.call, target |-> caller, policy |-> st.policy]
            BY DEF Accepted, Permitted
        <3>3. p = [issuer |-> att.attester, serial |-> st.uuid,
                   action |-> [call |-> st.call, target |-> caller, policy |-> st.policy],
                   deadline |-> st.expiration]
            BY <3>1 DEF PermitOf
        <3>4. p = GrantOf(event)
            BY <3>2, <3>3 DEF GrantOf
        <3>5. p \in Permits
            BY <1>1, <3>1 DEF Permits
        <3> QED
            BY <3>3, <3>4, <3>5
    <2>4. Grants' = Grants \cup {p}
        <3> HIDE DEF event, p
        <3>1. Grants' = {GrantOf(e) : e \in Range(validated) \cup {event}}
            BY <1>3 DEF Grants, GrantOf, Permitted
        <3> QED
            BY <2>3, <3>1 DEF Grants
    <2>5. Spent' = Spent \cup {st.uuid} /\ st.uuid \notin Spent
        <3>1. ledger + MaxTTL # -1
            BY <1>1, LifetimeAssumption DEF TypeOK
        <3>2. usedUntil' = [usedUntil EXCEPT ![st.uuid] = ledger + MaxTTL]
            BY DEF ValidateAttestation, Mark, Extended
        <3> QED
            BY <1>1, <1>5, <3>1, <3>2 DEF Spent, TypeOK
    <2>6. UNCHANGED <<Range(attesters), Permits, ledger>>
        BY DEF ValidateAttestation, Permits, PermitOf, Permitted, environment
    <2>7. att.attester \in Range(attesters) /\ ledger <= st.expiration
        BY <1>1 DEF Validates, IsRegistered, NotExpired
    <2> HIDE DEF p, event
    <2> QED
        BY <2>3, <2>4, <2>5, <2>6, <2>7
        DEF Authorization!Next, Authorization!Grant, Permits, Spent, Grants
<1>6. usedUntil[st.uuid] = -1 \/ usedUntil[st.uuid] # -1
    OBVIOUS
<1> QED
    BY <1>4, <1>5, <1>6

LEMMA IssueStep ==
    ASSUME NEW a \in Attesters, NEW digest \in Digest, Sign(a, digest)
    PROVE  UNCHANGED View \/ Authorization!Next
<1> DEFINE s == [signer |-> a, digest |-> digest]
<1>1. s.digest \in Digest /\ signatures' = signatures \cup {s}
    BY DEF Sign
<1>2. UNCHANGED <<Range(attesters), Spent, Grants, ledger>>
    BY DEF Sign, contract, validation, Spent, Grants, GrantOf, Permitted
<1>3. PermitOf(s) \in Authorization!Permit
    BY DEF PermitOf, Permitted, Authorization!Permit, Digest
<1> HIDE DEF s
<1>4. CASE s.digest.network = Network
    <2>1. Permits' = Permits \cup {PermitOf(s)}
        BY <1>1, <1>4 DEF Permits, PermitOf, Permitted
    <2> QED
        BY <1>2, <1>3, <2>1
        DEF Authorization!Next, Authorization!Issue, Permits, Spent, Grants
<1>5. CASE s.digest.network # Network
    <2>1. Permits' = Permits
        BY <1>1, <1>5 DEF Permits, PermitOf, Permitted
    <2> QED
        BY <1>2, <2>1 DEF View
<1> QED
    BY <1>4, <1>5

LEMMA TrustStep ==
    ASSUME EntryInv, Administration
    PROVE  UNCHANGED View \/ Authorization!Next
<1>1. UNCHANGED <<validation, environment>>
    BY DEF Administration, TransferOwnership, AcceptOwnership, Upgrade, RegisterAttester,
           DeregisterAttester
<1>2. UNCHANGED <<Permits, Spent, Grants, ledger>>
    BY <1>1 DEF validation, environment, Permits, PermitOf, Permitted, Spent, Grants, GrantOf
<1>3. CASE UNCHANGED attesters
    BY <1>2, <1>3 DEF View
<1>4. ASSUME NEW by \in Accounts, NEW caller \in Accounts, NEW a \in Attesters,
             RegisterAttester(by, caller, a) \/ DeregisterAttester(by, caller, a)
      PROVE  Authorization!Trust(a) \/ Authorization!Distrust(a)
    BY <1>2, <1>4, RegisterSound, DeregisterSound
    DEF Authorization!Trust, Authorization!Distrust, Permits, Spent, Grants
<1> QED
    BY <1>3, <1>4
    DEF Administration, TransferOwnership, AcceptOwnership, Upgrade, Authorization!Next

LEMMA InitImplements == Init => Authorization!Init
<1> SUFFICES ASSUME Init PROVE Authorization!Init
    OBVIOUS
<1>1. Range(attesters) = {} /\ Range(validated) = {}
    BY DEF Init, Range
<1> QED
    BY <1>1 DEF Init, Authorization!Init

LEMMA StepImplements ==
    ASSUME LogInv, EntryInv, [Next]_vars
    PROVE  [Authorization!Next]_(Authorization!vars) \/ LateReplay
<1>1. CASE UNCHANGED View
    BY <1>1 DEF View, Permits, Spent, Grants, Authorization!vars
<1>2. CASE Administration
    BY <1>1, <1>2, TrustStep
<1>3. ASSUME NEW by \in Callers, NEW caller \in Callers, NEW st \in Statement,
             NEW att \in Attestation, ValidateAttestation(by, caller, st, att)
      PROVE  Authorization!Next \/ LateReplay
    BY <1>3, GrantStep
<1>4. ASSUME NEW a \in Attesters, NEW digest \in Digest, Sign(a, digest)
      PROVE  [Authorization!Next]_(Authorization!vars) \/ LateReplay
    BY <1>1, <1>4, IssueStep
<1>5. CASE CloseLedger
    BY <1>5 DEF CloseLedger, contract, validation, Authorization!Next, Authorization!Advance,
                PermitOf, GrantOf, Permitted
<1>6. ASSUME UNCHANGED <<attesters, validation, environment>>
      PROVE  UNCHANGED View
    BY <1>6 DEF validation, environment, View, Permits, PermitOf, Spent, Grants, GrantOf, Permitted
<1>7. CASE Restore \/ UNCHANGED vars
    BY <1>1, <1>6, <1>7 DEF Restore, vars, contract
<1>8. ASSUME NEW by \in Callers, NEW caller \in Callers, NEW q \in Policies,
             SetPolicyID(by, caller, q)
      PROVE  UNCHANGED View
    BY <1>6, <1>8 DEF SetPolicyID, contract
<1> QED
    BY <1>1, <1>2, <1>3, <1>4, <1>5, <1>7, <1>8 DEF Next

\* The registry is a one-shot authorisation except for UUIDs that come back
\* after their marker was archived.
THEOREM RegistryImplements == Spec => ImplementsWhileMarked
<1>1. Init => Authorization!Init
    BY InitImplements
<1>2. LogInv /\ EntryInv /\ [Next]_vars =>
          [[Authorization!Next]_(Authorization!vars) \/ LateReplay]_vars
    BY StepImplements
<1> QED
    BY <1>1, <1>2, LogAlwaysSound, EntryAlways, PTL DEF Spec, ImplementsWhileMarked

-------------------------------------------------------------------------------
(***************************************************************************)
(* The compliant token.                                                    *)
(***************************************************************************)

LEMMA StatementType ==
    ASSUME TypeOK, NEW call \in TransferCall, NEW att \in Attestation
    PROVE  StatementOf(call, att) \in Statement
<1>1. call \in Calls /\ att.uuid \in UUIDs /\ att.expiration \in Expirations
    BY CallAssumption DEF Attestation
<1> QED
    BY <1>1, TokenAssumption DEF StatementOf, Statement

\* The statement a transfer has validated, and the one the log gets, name it.
LEMMA TransferFacts ==
    ASSUME TypeOK, NEW by, NEW call \in TransferCall, NEW att \in Attestation,
           Transfer(by, call, att)
    PROVE  /\ StatementOf(call, att) \in Statement
           /\ ValidateAttestation(Token, Token, StatementOf(call, att), att)
BY StatementType DEF Transfer

LEMMA AttestFacts ==
    ASSUME TypeOK, NEW a \in Attesters, NEW call \in TransferCall, NEW uuid \in UUIDs,
           NEW t \in Expirations, Attest(a, call, uuid, t)
    PROVE  \E digest \in Digest : Sign(a, digest)
<1>1. GetPolicyID(Token) \in Policies
    BY TokenAssumption, NoPolicyAssumption DEF GetPolicyID, TypeOK
<1> QED
    BY <1>1, TokenAssumption, CallAssumption, NetworkAssumption DEF Attest, Digest

(***************************************************************************)
(* Each step of the token and its surroundings is a step of the registry.  *)
(***************************************************************************)
LEMMA TokenIsRegistryStep == TypeOK /\ [SystemNext]_systemVars => [Next]_vars
<1> SUFFICES ASSUME TypeOK, [SystemNext]_systemVars PROVE [Next]_vars
    OBVIOUS
<1>1. CASE Deploy \/ RegisterPolicy
    BY <1>1, TokenAssumption DEF Deploy, RegisterPolicy, WritePolicyToRegistry, Next
<1>2. ASSUME NEW to \in Holders, NEW amount \in Amounts, Mint(to, amount)
      PROVE  UNCHANGED vars
    BY <1>2 DEF Mint, registryVars
<1>3. ASSUME NEW by \in Holders, NEW call \in TransferCall, NEW att \in Attestation,
             Transfer(by, call, att)
      PROVE  Next
    BY <1>3, TransferFacts, TokenAssumption DEF Next
<1>4. ASSUME NEW by \in Callers \ {Token}, Outsider(by) PROVE Next
    BY <1>4 DEF Outsider, Next
<1>5. ASSUME NEW a \in Attesters, NEW call \in TransferCall, NEW uuid \in UUIDs,
             NEW t \in Expirations, Attest(a, call, uuid, t)
      PROVE  Next
    BY <1>5, AttestFacts DEF Next
<1>6. CASE Administration \/ Restore \/ CloseLedger
    BY <1>6 DEF Next
<1>7. CASE UNCHANGED systemVars
    BY <1>7 DEF systemVars, registryVars
<1> QED
    BY <1>1, <1>2, <1>3, <1>4, <1>5, <1>6, <1>7 DEF SystemNext, TokenStep

\* The registry's theorems hold of the registry a token uses.
THEOREM TokenUsesRegistry == SystemSpec => Spec
<1>1. TokenInit => Init
    BY DEF TokenInit
<1>2. Init => TypeOK
    BY InitType
<1>3. TypeOK /\ [SystemNext]_systemVars => [Next]_vars /\ TypeOK'
    BY TokenIsRegistryStep, StepType
<1> QED
    BY <1>1, <1>2, <1>3, PTL DEF SystemSpec, Spec

(***************************************************************************)
(* Types.                                                                  *)
(***************************************************************************)
LedgerTypeOK ==
    /\ deployed \in BOOLEAN
    /\ balance \in [Holders -> -MaxBalance - 1 .. MaxBalance]
    /\ minted \in Int
    /\ transfers \in Seq(TransferCall)

LEMMA LedgerStep == LedgerTypeOK /\ [SystemNext]_systemVars => LedgerTypeOK'
<1> SUFFICES ASSUME LedgerTypeOK, [SystemNext]_systemVars PROVE LedgerTypeOK'
    OBVIOUS
<1>1. CASE Deploy \/ RegisterPolicy
    BY <1>1 DEF Deploy, RegisterPolicy, LedgerTypeOK, tokenVars
<1>2. ASSUME NEW to \in Holders, NEW amount \in Amounts, Mint(to, amount)
      PROVE  LedgerTypeOK'
    BY <1>2, AmountAssumption DEF Mint, Fits, LedgerTypeOK
<1>3. ASSUME NEW by \in Holders, NEW call \in TransferCall, NEW att \in Attestation,
             Transfer(by, call, att)
      PROVE  LedgerTypeOK'
    <2>1. call.from \in Holders /\ call.to \in Holders /\ call.amount \in Int
        BY AmountAssumption DEF TransferCall
    <2>2. /\ balance[call.from] - call.amount \in -MaxBalance - 1 .. MaxBalance
          /\ balance[call.to] + call.amount \in -MaxBalance - 1 .. MaxBalance
        BY <1>3, <2>1, AmountAssumption DEF Transfer, Covers, Fits, LedgerTypeOK
    <2>3. Moved(call.from, call.to, call.amount) \in [Holders -> -MaxBalance - 1 .. MaxBalance]
        BY <2>1, <2>2 DEF Moved, LedgerTypeOK
    <2>4. Append(transfers, call) \in Seq(TransferCall)
        BY AppendProperties DEF LedgerTypeOK
    <2> QED
        BY <1>3, <2>3, <2>4 DEF Transfer, LedgerTypeOK
<1>4. CASE UNCHANGED tokenVars
    BY <1>4 DEF tokenVars, LedgerTypeOK
<1> QED
    BY <1>1, <1>2, <1>3, <1>4 DEF SystemNext, TokenStep, Outsider, Attest, systemVars

\* Every reachable state of the token and its registry is type correct, whatever
\* is minted: no balance leaves the numbers an i128 can hold.
THEOREM TokenTypeCorrect == SystemSpec => []TokenTypeOK
<1>1. TokenInit => LedgerTypeOK
    <2> SUFFICES ASSUME TokenInit PROVE LedgerTypeOK
        OBVIOUS
    <2>1. transfers \in Seq(TransferCall)
        BY EmptySeq DEF TokenInit
    <2>2. balance \in [Holders -> -MaxBalance - 1 .. MaxBalance] /\ minted \in Int
        BY AmountAssumption DEF TokenInit
    <2>3. deployed \in BOOLEAN
        BY DEF TokenInit
    <2> QED
        BY <2>1, <2>2, <2>3 DEF LedgerTypeOK
<1>2. TypeOK /\ LedgerTypeOK => TokenTypeOK
    BY DEF TokenTypeOK, LedgerTypeOK
<1>3. SystemSpec => []LedgerTypeOK
    BY <1>1, LedgerStep, PTL DEF SystemSpec
<1> QED
    BY <1>2, <1>3, TokenUsesRegistry, TypeCorrect, PTL

(***************************************************************************)
(* The token's policy.                                                     *)
(***************************************************************************)

\* From its deployment on, the registry holds the token's policy for it, and
\* nobody else replaces it, archived or not.
THEOREM PolicyIsTheTokens == SystemSpec => []PolicyStaysTheTokens
<1>1. TokenInit => PolicyStaysTheTokens
    BY DEF TokenInit, PolicyStaysTheTokens
<1>2. TypeOK /\ PolicyStaysTheTokens /\ [SystemNext]_systemVars => PolicyStaysTheTokens'
    <2> SUFFICES ASSUME TypeOK, PolicyStaysTheTokens, [SystemNext]_systemVars
                 PROVE  PolicyStaysTheTokens'
        OBVIOUS
    <2>1. CASE Deploy \/ RegisterPolicy
        BY <2>1, TokenAssumption
        DEF Deploy, RegisterPolicy, WritePolicyToRegistry, SetPolicyID, TypeOK,
            PolicyStaysTheTokens
    <2>2. ASSUME UNCHANGED <<policies, deployed>> PROVE PolicyStaysTheTokens'
        BY <2>2 DEF PolicyStaysTheTokens
    <2>3. ASSUME NEW to \in Holders, NEW amount \in Amounts, Mint(to, amount)
          PROVE  PolicyStaysTheTokens'
        BY <2>2, <2>3 DEF Mint, registryVars, vars, policyEntries
    <2>4. ASSUME NEW by \in Holders, NEW call \in TransferCall, NEW att \in Attestation,
                 Transfer(by, call, att)
          PROVE  PolicyStaysTheTokens'
        BY <2>2, <2>4 DEF Transfer, ValidateAttestation, policyEntries
    <2>5. ASSUME NEW by \in Callers \ {Token}, Outsider(by) PROVE PolicyStaysTheTokens'
        <3>1. ASSUME NEW caller \in Callers, NEW p \in Policies, SetPolicyID(by, caller, p)
              PROVE  policies'[Token] = policies[Token]
            BY <3>1, TokenAssumption DEF SetPolicyID, RequireAuth, TypeOK
        <3>2. ASSUME NEW caller \in Callers, NEW st \in Statement, NEW att \in Attestation,
                     ValidateAttestation(by, caller, st, att)
              PROVE  policies'[Token] = policies[Token]
            BY <3>2 DEF ValidateAttestation, policyEntries
        <3> QED
            BY <2>5, <3>1, <3>2 DEF Outsider, tokenVars, PolicyStaysTheTokens
    <2>6. ASSUME NEW a \in Attesters, NEW call \in TransferCall, NEW uuid \in UUIDs,
                 NEW t \in Expirations, Attest(a, call, uuid, t)
          PROVE  PolicyStaysTheTokens'
        BY <2>2, <2>6 DEF Attest, Sign, tokenVars, policyEntries
    <2>7. CASE (Administration \/ Restore \/ CloseLedger) /\ UNCHANGED tokenVars
        BY <2>2, <2>7
        DEF Administration, TransferOwnership, AcceptOwnership, Upgrade, RegisterAttester,
            DeregisterAttester, Restore, CloseLedger, tokenVars, policyEntries
    <2>8. CASE UNCHANGED systemVars
        BY <2>2, <2>8 DEF systemVars, registryVars, vars, policyEntries, tokenVars
    <2> QED
        BY <2>1, <2>3, <2>4, <2>5, <2>6, <2>7, <2>8 DEF SystemNext, TokenStep
<1> QED
    BY <1>1, <1>2, TokenUsesRegistry, TypeCorrect, PTL DEF SystemSpec

(***************************************************************************)
(* The registry's log and the token's ledger.  A transfer adds to both, an *)
(* outsider's validation adds to the log a statement that is accepted for  *)
(* the outsider, and nothing else adds to either.                          *)
(***************************************************************************)
LogMatch == TypeOK /\ LedgerTypeOK /\ TransfersMatchEvents

\* The places of the token's statements, before and after a validation.
LEMMA OwnPlaces ==
    ASSUME TypeOK, NEW by \in Callers, NEW caller \in Callers, NEW st \in Statement,
           NEW att \in Attestation, ValidateAttestation(by, caller, st, att)
    PROVE  /\ Len(validated) \in Nat
           /\ Own \in SUBSET (1 .. Len(validated))
           /\ \A i \in 1 .. Len(validated) : validated'[i] = validated[i]
           /\ validated'[Len(validated) + 1].call = st.call
           /\ Own' = IF by = Token THEN Own \cup {Len(validated) + 1} ELSE Own
<1> DEFINE event == Accepted(by, caller, st, att)
           n == Len(validated)
<1>1. /\ n \in Nat /\ DOMAIN validated = 1 .. n
      /\ event \in Event /\ validated \in Seq(Event)
      /\ validated' = Append(validated, event)
    BY LogType, ValidateType DEF TypeOK, ValidateAttestation
<1>2. event.call = st.call /\ event.target = by
    BY DEF Accepted, ValidateAttestation, Validates, RequireAuth
<1> HIDE DEF event, n
<1>3. /\ \A i \in 1 .. n : validated'[i] = validated[i]
      /\ validated'[n + 1] = event
      /\ DOMAIN validated' = 1 .. n + 1
    <2>1. validated' \in Seq(Event) /\ Len(validated') = n + 1
        BY <1>1, AppendProperties DEF n
    <2> QED
        BY <1>1, <2>1, AppendProperties, LenProperties DEF n
<1>4. Own' = IF by = Token THEN Own \cup {n + 1} ELSE Own
    BY <1>1, <1>2, <1>3 DEF Own
<1>5. Own \in SUBSET (1 .. n)
    BY <1>1 DEF Own
<1> QED
    BY <1>1, <1>2, <1>3, <1>4, <1>5 DEF n

LEMMA TransferMatches ==
    ASSUME LogMatch, NEW by, NEW call \in TransferCall, NEW att \in Attestation,
           Transfer(by, call, att)
    PROVE  TransfersMatchEvents'
<1> DEFINE n == Len(validated)
<1>1. /\ TypeOK /\ TransfersMatchEvents
      /\ transfers \in Seq(TransferCall) /\ transfers' = Append(transfers, call)
      /\ StatementOf(call, att) \in Statement
      /\ ValidateAttestation(Token, Token, StatementOf(call, att), att)
      /\ StatementOf(call, att).call = call
    BY TransferFacts DEF LogMatch, LedgerTypeOK, Transfer, StatementOf
<1>2. /\ n \in Nat /\ Own \in SUBSET (1 .. n)
      /\ \A i \in 1 .. n : validated'[i] = validated[i]
      /\ validated'[n + 1].call = call
      /\ Own' = Own \cup {n + 1}
    <2>1. Token \in Callers
        BY TokenAssumption
    <2> QED
        BY <1>1, <2>1, OwnPlaces
<1> HIDE DEF n
<1>3. /\ Len(transfers) \in Nat /\ Len(transfers') = Len(transfers) + 1
      /\ \A k \in 1 .. Len(transfers) : transfers'[k] = transfers[k]
      /\ transfers'[Len(transfers) + 1] = call
    BY <1>1, AppendProperties, LenProperties
<1>4. Cardinality(Own) = Len(transfers) /\ \A i \in Own : validated[i].call = transfers[Rank(Own, i)]
    BY <1>1 DEF TransfersMatchEvents
<1>5. /\ Cardinality(Own') = Len(transfers')
      /\ Rank(Own', n + 1) = Len(transfers) + 1
    BY <1>2, <1>3, <1>4, RankOfNew
<1>6. ASSUME NEW i \in Own PROVE validated'[i].call = transfers'[Rank(Own', i)]
    <2>1. i \in 1 .. n
        BY <1>2
    <2>2. Rank(Own', i) = Rank(Own, i)
        BY <1>2, <2>1, RankOfOld
    <2>3. Rank(Own, i) \in 1 .. Len(transfers)
        BY <1>2, <1>4, RankBounds
    <2> QED
        BY <1>2, <1>3, <1>4, <2>1, <2>2, <2>3
<1>7. validated'[n + 1].call = transfers'[Rank(Own', n + 1)]
    BY <1>2, <1>3, <1>5
<1>8. \A i \in Own' : validated'[i].call = transfers'[Rank(Own', i)]
    BY <1>2, <1>6, <1>7
<1> QED
    BY <1>5, <1>8 DEF TransfersMatchEvents

LEMMA OutsiderMatches ==
    ASSUME LogMatch, NEW by \in Callers \ {Token}, Outsider(by)
    PROVE  TransfersMatchEvents'
<1>1. TypeOK /\ TransfersMatchEvents /\ transfers' = transfers
    BY DEF LogMatch, Outsider, tokenVars
<1>2. CASE UNCHANGED validated
    BY <1>1, <1>2 DEF TransfersMatchEvents, Own
<1>3. ASSUME NEW caller \in Callers, NEW st \in Statement, NEW att \in Attestation,
             ValidateAttestation(by, caller, st, att)
      PROVE  TransfersMatchEvents'
    <2>1. /\ Own' = Own /\ Own \in SUBSET (1 .. Len(validated))
          /\ \A i \in 1 .. Len(validated) : validated'[i] = validated[i]
        BY <1>1, <1>3, OwnPlaces
    <2>2. \A i \in Own : validated'[i] = validated[i]
        BY <2>1
    <2> QED
        BY <1>1, <2>1, <2>2 DEF TransfersMatchEvents
<1> QED
    BY <1>2, <1>3 DEF Outsider, SetPolicyID, validation

LEMMA MatchStep == LogMatch /\ [SystemNext]_systemVars => TransfersMatchEvents'
<1> SUFFICES ASSUME LogMatch, [SystemNext]_systemVars PROVE TransfersMatchEvents'
    OBVIOUS
<1>1. ASSUME UNCHANGED <<validated, transfers>> PROVE TransfersMatchEvents'
    BY <1>1 DEF LogMatch, TransfersMatchEvents, Own
<1>2. CASE Deploy \/ RegisterPolicy \/ UNCHANGED systemVars
    BY <1>1, <1>2
    DEF Deploy, RegisterPolicy, WritePolicyToRegistry, SetPolicyID, validation, tokenVars,
        systemVars, registryVars, vars
<1>3. ASSUME NEW to \in Holders, NEW amount \in Amounts, Mint(to, amount)
      PROVE  TransfersMatchEvents'
    BY <1>1, <1>3 DEF Mint, registryVars, vars, validation
<1>4. ASSUME NEW a \in Attesters, NEW call \in TransferCall, NEW uuid \in UUIDs,
             NEW t \in Expirations, Attest(a, call, uuid, t)
      PROVE  TransfersMatchEvents'
    BY <1>1, <1>4 DEF Attest, Sign, validation, tokenVars
<1>5. CASE (Administration \/ Restore \/ CloseLedger) /\ UNCHANGED tokenVars
    BY <1>1, <1>5
    DEF Administration, TransferOwnership, AcceptOwnership, Upgrade, RegisterAttester,
        DeregisterAttester, Restore, CloseLedger, tokenVars, validation
<1> QED
    BY <1>2, <1>3, <1>4, <1>5, TransferMatches, OutsiderMatches DEF SystemNext, TokenStep

\* The statements accepted for the token are, in order, the transfers it made:
\* none moves anything but what it names, none is spent without a transfer.
THEOREM LedgerMatchesLog == SystemSpec => []TransfersMatchEvents
<1>1. TokenInit => TransfersMatchEvents
    <2> SUFFICES ASSUME TokenInit PROVE TransfersMatchEvents
        OBVIOUS
    <2>1. Own = {} /\ Len(transfers) = 0
        BY EmptySeq DEF TokenInit, Init, Own
    <2> QED
        BY <2>1, FS_EmptySet DEF TransfersMatchEvents
<1>2. TokenTypeOK => TypeOK /\ LedgerTypeOK
    BY DEF TokenTypeOK, LedgerTypeOK
<1>3. TypeOK /\ LedgerTypeOK /\ TransfersMatchEvents /\ [SystemNext]_systemVars =>
          TransfersMatchEvents'
    BY MatchStep DEF LogMatch
<1> QED
    BY <1>1, <1>2, <1>3, TokenTypeCorrect, PTL DEF SystemSpec

(***************************************************************************)
(* The balances.                                                           *)
(***************************************************************************)

LEMMA BalanceNumbers == LedgerTypeOK => balance \in [Holders -> Int]
<1>1. -MaxBalance - 1 .. MaxBalance \in SUBSET Int
    BY AmountAssumption
<1> QED
    BY <1>1 DEF LedgerTypeOK

\* What a transfer does to them: it moves the amount, unless the sender is the
\* recipient.
LEMMA TransferSum ==
    ASSUME LedgerTypeOK, NEW by, NEW call \in TransferCall, NEW att \in Attestation,
           Transfer(by, call, att)
    PROVE  /\ SumFunction(balance') =
                  SumFunction(balance) + (IF call.from = call.to THEN call.amount ELSE 0)
           /\ call.from # call.to => balance'[call.from] >= 0
<1>1. /\ call.from \in Holders /\ call.to \in Holders /\ call.amount \in Int
      /\ balance \in [Holders -> Int]
      /\ balance[call.from] >= call.amount
      /\ balance' = Moved(call.from, call.to, call.amount)
    BY AmountAssumption, BalanceNumbers DEF TransferCall, Transfer, Covers
<1>2. /\ balance' \in [Holders -> Int]
      /\ balance'[call.to] = balance[call.to] + call.amount
      /\ call.from # call.to => balance'[call.from] = balance[call.from] - call.amount
      /\ \A h \in Holders \ {call.from, call.to} : balance'[h] = balance[h]
    BY <1>1 DEF Moved
<1>3. SumFunction(balance) \in Int
    BY <1>1, HolderAssumption, SumUpdate
<1>4. CASE call.from = call.to
    <2>1. \A h \in Holders \ {call.to} : balance'[h] = balance[h]
        BY <1>2, <1>4
    <2>2. SumFunction(balance') = SumFunction(balance) + call.amount
        BY <1>1, <1>2, <2>1, HolderAssumption, SumChanged
    <2> QED
        BY <1>4, <2>2
<1>5. CASE call.from # call.to
    <2>1. balance'[call.from] + balance'[call.to] = balance[call.from] + balance[call.to]
        BY <1>1, <1>2, <1>5
    <2>2. SumFunction(balance') = SumFunction(balance)
        BY <1>1, <1>2, <1>5, <2>1, HolderAssumption, SumOfMove
    <2>3. balance'[call.from] >= 0
        BY <1>1, <1>2, <1>5
    <2> QED
        BY <1>3, <1>5, <2>2, <2>3
<1> QED
    BY <1>4, <1>5

\* Nobody but a transfer makes a transfer.
LEMMA OnlyTransfers ==
    ASSUME [SystemNext]_systemVars
    PROVE  \/ UNCHANGED transfers
           \/ \E by \in Holders, call \in TransferCall, att \in Attestation :
                  Transfer(by, call, att)
<1>1. CASE SystemNext
    BY <1>1
    DEF SystemNext, TokenStep, Deploy, RegisterPolicy, Mint, Outsider, Attest, tokenVars
<1> QED
    BY <1>1 DEF systemVars, tokenVars

\* What a transfer between two accounts takes from one it gives to the other,
\* and no more than there was.
THEOREM TransfersConserve == SystemSpec => TransferConserves
<1>1. LedgerTypeOK /\ [SystemNext]_systemVars =>
          [transfers' # transfers =>
               LET call == transfers'[Len(transfers')]
               IN  call.from # call.to =>
                       /\ SumFunction(balance') = SumFunction(balance)
                       /\ balance'[call.from] >= 0]_systemVars
    <2> SUFFICES ASSUME LedgerTypeOK, [SystemNext]_systemVars, transfers' # transfers,
                        transfers'[Len(transfers')].from # transfers'[Len(transfers')].to
                 PROVE  /\ SumFunction(balance') = SumFunction(balance)
                        /\ balance'[transfers'[Len(transfers')].from] >= 0
        OBVIOUS
    <2>1. PICK by \in Holders, call \in TransferCall, att \in Attestation :
              Transfer(by, call, att)
        BY OnlyTransfers
    <2>2. transfers' = Append(transfers, call) /\ transfers \in Seq(TransferCall)
        BY <2>1 DEF Transfer, LedgerTypeOK
    <2>3. transfers'[Len(transfers')] = call
        BY <2>2, AppendProperties
    <2>4. SumFunction(balance) \in Int
        BY HolderAssumption, SumType DEF SumFunction, LedgerTypeOK
    <2> QED
        BY <2>1, <2>3, <2>4, TransferSum
<1>2. TokenTypeOK => LedgerTypeOK
    BY DEF TokenTypeOK, LedgerTypeOK
<1> QED
    BY <1>1, <1>2, TokenTypeCorrect, PTL DEF SystemSpec, TransferConserves

LEMMA CallType ==
    ASSUME NEW call \in TransferCall
    PROVE  call.from \in Holders /\ call.to \in Holders /\ call.amount \in Int
BY AmountAssumption DEF TransferCall

LEMMA SelfSentType ==
    ASSUME LedgerTypeOK
    PROVE  /\ Len(transfers) \in Nat
           /\ DOMAIN transfers = 1 .. Len(transfers)
           /\ SelfSent \in [1 .. Len(transfers) -> Int]
           /\ SumFunction(SelfSent) \in Int
<1>1. transfers \in Seq(TransferCall)
    BY DEF LedgerTypeOK
<1>2. Len(transfers) \in Nat /\ DOMAIN transfers = 1 .. Len(transfers)
    BY <1>1, LenProperties
<1>3. ASSUME NEW i \in 1 .. Len(transfers) PROVE transfers[i].amount \in Int
    <2>1. transfers[i] \in TransferCall
        BY <1>1, ElementOfSeq
    <2> QED
        BY <2>1, CallType
<1>4. SelfSent \in [1 .. Len(transfers) -> Int]
    BY <1>2, <1>3 DEF SelfSent
<1>5. IsFiniteSet(1 .. Len(transfers))
    <2>1. 1 \in Int /\ Len(transfers) \in Int
        BY <1>2
    <2> QED
        BY <2>1, FS_Interval
<1> QED
    BY <1>2, <1>4, <1>5, SumType DEF SumFunction

\* The part of the new transfer in what was sent to oneself.
LEMMA SelfSentLonger ==
    ASSUME LedgerTypeOK, NEW call \in TransferCall, transfers' = Append(transfers, call)
    PROVE  SumFunction(SelfSent') =
               SumFunction(SelfSent) + (IF call.from = call.to THEN call.amount ELSE 0)
<1> DEFINE n == Len(transfers)
<1>1. /\ transfers \in Seq(TransferCall) /\ n \in Nat /\ DOMAIN transfers = 1 .. n
      /\ SelfSent \in [1 .. n -> Int]
    BY SelfSentType DEF LedgerTypeOK
<1>2. /\ Len(transfers') = n + 1 /\ DOMAIN transfers' = 1 .. n + 1
      /\ \A i \in 1 .. n : transfers'[i] = transfers[i]
      /\ transfers'[n + 1] = call
      /\ transfers' \in Seq(TransferCall)
    <2>1. transfers' \in Seq(TransferCall) /\ Len(transfers') = n + 1
        BY <1>1, AppendProperties
    <2> QED
        BY <1>1, <2>1, AppendProperties, LenProperties
<1>3. SelfSent' \in [1 .. n + 1 -> Int]
    <2>1. ASSUME NEW i \in 1 .. n + 1 PROVE transfers'[i].amount \in Int
        <3>1. transfers'[i] \in TransferCall
            BY <1>2, ElementOfSeq
        <3> QED
            BY <3>1, CallType
    <2> QED
        BY <1>2, <2>1 DEF SelfSent
<1>4. /\ \A i \in 1 .. n : SelfSent'[i] = SelfSent[i]
      /\ SelfSent'[n + 1] = IF call.from = call.to THEN call.amount ELSE 0
    BY <1>1, <1>2 DEF SelfSent
<1> QED
    BY <1>1, <1>3, <1>4, SumOfLonger

LEMMA ExcessStep ==
    LedgerTypeOK /\ ExcessIsSelfSent /\ [SystemNext]_systemVars => ExcessIsSelfSent'
<1> SUFFICES ASSUME LedgerTypeOK, ExcessIsSelfSent, [SystemNext]_systemVars
             PROVE  ExcessIsSelfSent'
    OBVIOUS
<1>1. ASSUME UNCHANGED <<balance, minted, transfers>> PROVE ExcessIsSelfSent'
    BY <1>1 DEF ExcessIsSelfSent, SelfSent
<1>2. CASE Deploy \/ RegisterPolicy \/ UNCHANGED tokenVars
    BY <1>1, <1>2 DEF Deploy, RegisterPolicy, tokenVars
<1>3. ASSUME NEW to \in Holders, NEW amount \in Amounts, Mint(to, amount)
      PROVE  ExcessIsSelfSent'
    <2>1. /\ amount \in Int /\ minted \in Int /\ minted' = minted + amount
          /\ transfers' = transfers
          /\ balance \in [Holders -> Int] /\ balance' \in [Holders -> Int]
          /\ balance'[to] = balance[to] + amount
          /\ \A h \in Holders \ {to} : balance'[h] = balance[h]
        BY <1>3, AmountAssumption DEF Mint, LedgerTypeOK
    <2>2. SumFunction(balance') = SumFunction(balance) + amount
        BY <2>1, HolderAssumption, SumChanged
    <2>3. SumFunction(SelfSent) \in Int
        BY SelfSentType
    <2>4. SumFunction(SelfSent') = SumFunction(SelfSent)
        BY <2>1 DEF SelfSent
    <2> QED
        BY <2>1, <2>2, <2>3, <2>4 DEF ExcessIsSelfSent
<1>4. ASSUME NEW by \in Holders, NEW call \in TransferCall, NEW att \in Attestation,
             Transfer(by, call, att)
      PROVE  ExcessIsSelfSent'
    <2> DEFINE gain == IF call.from = call.to THEN call.amount ELSE 0
    <2>1. gain \in Int /\ minted \in Int /\ minted' = minted
        BY <1>4, CallType DEF LedgerTypeOK, Transfer
    <2>2. SumFunction(balance') = SumFunction(balance) + gain
        BY <1>4, TransferSum
    <2>3. /\ SumFunction(SelfSent) \in Int
          /\ SumFunction(SelfSent') = SumFunction(SelfSent) + gain
        <3>1. transfers' = Append(transfers, call)
            BY <1>4 DEF Transfer
        <3> QED
            BY <3>1, SelfSentType, SelfSentLonger
    <2> HIDE DEF gain
    <2> QED
        BY <2>1, <2>2, <2>3 DEF ExcessIsSelfSent
<1> QED
    BY <1>2, <1>3, <1>4
    DEF SystemNext, TokenStep, Outsider, Attest, systemVars

\* The holders have what was minted and what they sent to themselves.
THEOREM ExcessAccounted == SystemSpec => []ExcessIsSelfSent
<1>1. TokenInit => ExcessIsSelfSent
    <2> SUFFICES ASSUME TokenInit PROVE ExcessIsSelfSent
        OBVIOUS
    <2>1. SumFunction(balance) = 0 /\ minted = 0
        BY HolderAssumption, SumOfZeros DEF TokenInit
    <2>2. DOMAIN SelfSent = {}
        BY DEF TokenInit, SelfSent
    <2>3. SumFunction(SelfSent) = 0
        BY <2>2, SumOfNone DEF SumFunction
    <2> QED
        BY <2>1, <2>3 DEF ExcessIsSelfSent
<1>2. TokenTypeOK => LedgerTypeOK
    BY DEF TokenTypeOK, LedgerTypeOK
<1> QED
    BY <1>1, <1>2, ExcessStep, TokenTypeCorrect, PTL DEF SystemSpec
===============================================================================
