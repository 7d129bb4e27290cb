----------------------------- MODULE ClientProofs ------------------------------
(***************************************************************************)
(* What a client contract can rely on, for any number of clients and       *)
(* registries.                                                             *)
(***************************************************************************)
EXTENDS PredicateClient, PredicateRegistryProofs

LEMMA ClientIsCaller == Clients \subseteq Callers
BY ClientAssumption

LEMMA AuthorizedCallType ==
    ASSUME NEW c \in Clients, NEW call \in Calls PROVE AuthorizedCall(c, call) \in Calls
BY BareCallAssumption DEF AuthorizedCall

(***************************************************************************)
(* The statement of a protected call is the only one that its attestation  *)
(* can be accepted with: from Recovers, field by field.                    *)
(***************************************************************************)
LEMMA Validated ==
    ASSUME ClientTypeOK, NEW c \in Clients, NEW call \in Calls, NEW att \in Attestation,
           ProtectedCall(c, call, att)
    PROVE  /\ clientRegistry[c] \in Registries
           /\ StatementOf(c, call, att) \in Statement
           /\ ValidateAttestation(clientRegistry[c], c, StatementOf(c, call, att), att)
<1>1. att.uuid \in UUIDs /\ att.expiration \in Expirations
    BY DEF Attestation
<1> QED
    BY <1>1, ClientIsCaller, AuthorizedCallType
    DEF ProtectedCall, StatementOf, Statement, StatementPolicy, ClientTypeOK

LEMMA ApprovalFacts ==
    ASSUME ClientTypeOK, NEW c \in Clients, NEW call \in Calls, NEW att \in Attestation,
           ProtectedCall(c, call, att)
    PROVE  /\ att.signature \in signatures /\ att.signature \in Signature
           /\ att.signature.digest.target = c
           /\ att.signature.digest.uuid = att.uuid
           /\ att.signature.digest.call = AuthorizedCall(c, call)
           /\ att.signature.digest.policy = policy[c]
<1> DEFINE r == clientRegistry[c]
<1>1. Spend(r, c, StatementOf(c, call, att), att)
    BY Validated DEF ValidateAttestation
<1>2. att.signature \in signatures
    BY DEF Attestation
<1>3. att.signature \in Signature
    BY <1>2 DEF ClientTypeOK, TypeOK
<1>4. att.signature.digest =
          [chain |-> ChainOf[r], uuid |-> att.uuid, call |-> AuthorizedCall(c, call),
           target |-> c, policy |-> policy[c], expiration |-> att.expiration]
    BY <1>1 DEF Spend, Validates, Recovers, HashStatementSafe, HashFor, StatementOf,
                StatementPolicy
<1> QED
    BY <1>2, <1>3, <1>4

LEMMA SpendFacts ==
    ASSUME ClientTypeOK, NEW c \in Clients, NEW call \in Calls, NEW att \in Attestation,
           ProtectedCall(c, call, att)
    PROVE  /\ clientRegistry[c] \in Registries
           /\ att.uuid \in UUIDs /\ att.uuid \notin usedStatementUUIDs[clientRegistry[c]]
           /\ usedStatementUUIDs'[clientRegistry[c]] =
                  usedStatementUUIDs[clientRegistry[c]] \cup {att.uuid}
           /\ \A q \in Registries \ {clientRegistry[c]} :
                  usedStatementUUIDs'[q] = usedStatementUUIDs[q]
<1> DEFINE r == clientRegistry[c]
<1>1. r \in Registries /\ Spend(r, c, StatementOf(c, call, att), att)
    BY Validated DEF ValidateAttestation
<1>2. att.uuid \in UUIDs
    BY DEF Attestation
<1>3. att.uuid \notin usedStatementUUIDs[r]
    BY <1>1 DEF Spend, Validates, Unused, StatementOf
<1>4. usedStatementUUIDs' = [usedStatementUUIDs EXCEPT ![r] = @ \cup {att.uuid}]
    BY <1>1 DEF Spend, StatementOf
<1> QED
    BY <1>1, <1>2, <1>3, <1>4 DEF ClientTypeOK, TypeOK

LEMMA ProtectedFrame ==
    ASSUME ClientTypeOK, NEW c \in Clients, NEW call \in Calls, NEW att \in Attestation,
           ProtectedCall(c, call, att)
    PROVE  /\ signatures' = signatures /\ clientToPolicy' = clientToPolicy
           /\ deployed' = deployed /\ clientRegistry' = clientRegistry /\ policy' = policy
BY Validated DEF ValidateAttestation, environment, ProtectedCall

\* The execution a protected call logs.
ExecutionOf(c, call, att) ==
    [call |-> call, uuid |-> att.uuid, registry |-> clientRegistry[c],
     signature |-> att.signature]

LEMMA ExecutionFacts ==
    ASSUME ClientTypeOK, NEW c \in Clients, NEW call \in Calls, NEW att \in Attestation,
           ProtectedCall(c, call, att)
    PROVE  /\ ExecutionOf(c, call, att) \in Execution
           /\ executed' = [executed EXCEPT ![c] = Append(@, ExecutionOf(c, call, att))]
<1>1. clientRegistry[c] \in Registries /\ att.uuid \in UUIDs /\ att.signature \in Signature
    BY SpendFacts, ApprovalFacts
<1> QED
    BY <1>1 DEF ExecutionOf, Execution, ProtectedCall

(***************************************************************************)
(* Each of a client's steps is, in the registries, a step of theirs.       *)
(***************************************************************************)
LEMMA ConfigureIsRegistryStep ==
    ASSUME ClientTypeOK, NEW c \in Clients, Configure(c) PROVE [Next]_vars
<1>1. \A r, p : p \in Policies /\ WriteThrough(c, r, p) => Next \/ UNCHANGED vars
    BY ClientIsCaller DEF WriteThrough, registryVars, Next
<1>2. policy[c] \in Policies
    BY DEF ClientTypeOK
<1> QED
    BY <1>1, <1>2 DEF Configure, Deploy, ClientSetPolicyID, SetRegistry, ReRegister,
                      registryVars

LEMMA ProtectedIsRegistryStep ==
    ASSUME ClientTypeOK, NEW c \in Clients, NEW call \in Calls, NEW att \in Attestation,
           ProtectedCall(c, call, att)
    PROVE  Next
<1>1. \E r \in Registries, st \in Statement : ValidateAttestation(r, c, st, att)
    BY Validated
<1>2. c \in Callers
    BY ClientIsCaller
<1> QED
    BY <1>1, <1>2 DEF Next

LEMMA SurroundingIsRegistryStep ==
    ASSUME ClientTypeOK, Surroundings PROVE Next /\ UNCHANGED clientVars
<1>1. ASSUME NEW c \in Callers \ Clients, Outsider(c) PROVE Next /\ UNCHANGED clientVars
    BY <1>1 DEF Outsider, Next
<1>2. ASSUME NEW r \in Registries, NEW a \in Attesters, NEW c \in Clients, NEW call \in Calls,
             NEW uuid \in UUIDs, NEW t \in Expirations, Attest(r, a, c, call, uuid, t)
      PROVE  Next /\ UNCHANGED clientVars
    <2> DEFINE st == [uuid |-> uuid, call |-> AuthorizedCall(c, call), target |-> c,
                      policy |-> clientToPolicy[r][c], expiration |-> t]
    <2>1. clientToPolicy[r][c] \in Policies
        BY ClientIsCaller DEF ClientTypeOK, TypeOK
    <2>2. st \in Statement
        BY <2>1, ClientIsCaller, AuthorizedCallType DEF Statement
    <2>3. Sign(r, a, st) /\ UNCHANGED clientVars
        BY <1>2 DEF Attest
    <2> HIDE DEF st
    <2> QED
        BY <2>2, <2>3 DEF Next
<1> QED
    BY <1>1, <1>2 DEF Surroundings, Next

LEMMA SystemIsRegistryStep ==
    ASSUME ClientTypeOK, [SystemNext]_systemVars PROVE [Next]_vars
<1>1. CASE UNCHANGED systemVars \/ \E c \in Clients, call \in Calls : ForeignCall(c, call)
    BY <1>1 DEF systemVars, registryVars, ForeignCall
<1> QED
    BY <1>1, ConfigureIsRegistryStep, ProtectedIsRegistryStep, SurroundingIsRegistryStep
    DEF SystemNext

(***************************************************************************)
(* What each step does to the variables of a client, in one place.         *)
(***************************************************************************)
LEMMA ConfigureFacts ==
    ASSUME ClientTypeOK, NEW c \in Clients, Configure(c)
    PROVE  /\ deployed' \in [Clients -> BOOLEAN]
           /\ clientRegistry' \in [Clients -> Registries \cup {NoRegistry, ForeignRegistry}]
           /\ \A d \in Clients : clientRegistry'[d] \in RegistryAddresses(d)
           /\ policy' \in [Clients -> Policies]
           /\ UNCHANGED <<executed, signatures, usedStatementUUIDs>>
<1>1. ASSUME NEW r, NEW p \in Policies,
             WriteThrough(c, r, p) \/ UNCHANGED registryVars
      PROVE  UNCHANGED <<signatures, usedStatementUUIDs>>
    BY <1>1 DEF WriteThrough, SetPolicyID, registryVars, vars, validation, environment
<1>2. policy[c] \in Policies
    BY DEF ClientTypeOK
<1>3. CASE \E r \in Registries \cup {NoRegistry}, p \in Policies : Deploy(c, r, p)
    BY <1>1, <1>3 DEF Deploy, ClientTypeOK, RegistryAddresses
<1>4. CASE \E p \in Policies : ClientSetPolicyID(c, p)
    BY <1>1, <1>2, <1>4 DEF ClientSetPolicyID, ClientTypeOK
<1>5. CASE \E r \in RegistryAddresses(c) : SetRegistry(c, r)
    <2>1. RegistryAddresses(c) \subseteq Registries \cup {NoRegistry, ForeignRegistry}
        BY DEF RegistryAddresses
    <2> QED
        BY <1>1, <1>2, <1>5, <2>1 DEF SetRegistry, ReRegister, ClientTypeOK
<1> QED
    BY <1>3, <1>4, <1>5 DEF Configure

LEMMA ProtectedType ==
    ASSUME ClientTypeOK, NEW c \in Clients, NEW call \in Calls, NEW att \in Attestation,
           ProtectedCall(c, call, att)
    PROVE  executed' \in [Clients -> Seq(Execution)]
<1> DEFINE e == ExecutionOf(c, call, att)
<1>1. e \in Execution /\ executed' = [executed EXCEPT ![c] = Append(@, e)]
    BY ExecutionFacts
<1>2. executed \in [Clients -> Seq(Execution)]
    BY DEF ClientTypeOK
<1> HIDE DEF e
<1>3. Append(executed[c], e) \in Seq(Execution)
    BY <1>1, <1>2, AppendProperties
<1> QED
    BY <1>1, <1>2, <1>3

\* A run on a foreign contract's word appends an entry that says so.
LEMMA ForeignLog ==
    ASSUME ClientTypeOK, NEW c \in Clients, NEW call \in Calls, ForeignCall(c, call)
    PROVE  LET n == Len(executed[c])
               e == executed'[c][n + 1]
           IN  /\ n \in Nat /\ Len(executed'[c]) = n + 1
               /\ \A i \in 1 .. n : executed'[c][i] = executed[c][i]
               /\ e.call = call /\ e.registry = ForeignRegistry
               /\ \A d \in Clients \ {c} : executed'[d] = executed[d]
               /\ executed' \in [Clients -> Seq(Execution)]
               /\ c \in Proxies
<1> DEFINE e == [call |-> call, registry |-> ForeignRegistry]
           log == executed[c]
<1>1. /\ e \in Execution /\ e.call = call /\ e.registry = ForeignRegistry
      /\ executed' = [executed EXCEPT ![c] = Append(@, e)]
    BY DEF ForeignCall, Execution
<1> HIDE DEF e
<1>2. executed \in [Clients -> Seq(Execution)] /\ log \in Seq(Execution)
    BY DEF ClientTypeOK
<1>3. executed'[c] = Append(log, e) /\ \A d \in Clients \ {c} : executed'[d] = executed[d]
    BY <1>1, <1>2
<1> HIDE DEF log
<1>4. /\ Len(log) \in Nat /\ Len(Append(log, e)) = Len(log) + 1
      /\ \A i \in 1 .. Len(log) : Append(log, e)[i] = log[i]
      /\ Append(log, e)[Len(log) + 1] = e
      /\ Append(log, e) \in Seq(Execution)
    BY <1>1, <1>2, AppendProperties, LenProperties
<1>5. executed' \in [Clients -> Seq(Execution)]
    BY <1>1, <1>2, <1>4 DEF log
<1>6. c \in Proxies
    BY RegistryAddressAssumption DEF ForeignCall, ClientTypeOK, RegistryAddresses
<1> QED
    BY <1>1, <1>3, <1>4, <1>5, <1>6 DEF log

LEMMA ClientStepType == ClientTypeOK /\ [SystemNext]_systemVars => ClientTypeOK'
<1> SUFFICES ASSUME ClientTypeOK, [SystemNext]_systemVars PROVE ClientTypeOK'
    OBVIOUS
<1>1. TypeOK'
    BY SystemIsRegistryStep, StepType DEF ClientTypeOK
<1>2. CASE UNCHANGED clientVars
    BY <1>1, <1>2 DEF ClientTypeOK, clientVars
<1>3. ASSUME NEW c \in Clients, Configure(c) PROVE ClientTypeOK'
    BY <1>1, <1>3, ConfigureFacts DEF ClientTypeOK
<1>4. ASSUME NEW c \in Clients, NEW call \in Calls, NEW att \in Attestation,
             ProtectedCall(c, call, att)
      PROVE  ClientTypeOK'
    BY <1>1, <1>4, ProtectedFrame, ProtectedType DEF ClientTypeOK
<1>5. ASSUME NEW c \in Clients, NEW call \in Calls, ForeignCall(c, call) PROVE ClientTypeOK'
    BY <1>1, <1>5, ForeignLog DEF ForeignCall, ClientTypeOK
<1> QED
    BY <1>2, <1>3, <1>4, <1>5, SurroundingIsRegistryStep DEF SystemNext, systemVars

LEMMA SystemIsRegistry == SystemSpec => Spec
<1>1. ClientInit => ClientTypeOK /\ Init
    BY InitType, PolicyAssumption, EmptySeq
    DEF ClientInit, RegistryAddresses, ClientTypeOK
<1>2. ClientTypeOK /\ [SystemNext]_systemVars => ClientTypeOK'
    BY ClientStepType
<1>3. ClientTypeOK /\ [SystemNext]_systemVars => [Next]_vars
    BY SystemIsRegistryStep
<1> QED
    BY <1>1, <1>2, <1>3, PTL DEF SystemSpec, Spec


(***************************************************************************)
(* SpentMeansExecuted is not inductive.  That a validation accounts for    *)
(* every approval it spends takes that no two approvals share a UUID, and  *)
(* that an outsider spends none takes that all are given to clients        *)
(* (Issued).  OncePerRegistry takes that what ran is marked (Recorded).    *)
(***************************************************************************)
Issued ==
    \A s \in signatures :
        /\ s.digest.target \in Clients
        /\ \A t \in signatures : t.digest.uuid = s.digest.uuid => t = s

Approves(c, e) ==
    LET d == e.signature.digest
    IN  /\ e.signature \in signatures
        /\ d.target = c
        /\ d.uuid = e.uuid
        /\ d.call = e.call \/ (c \in BasicClients /\ d.call = BareCall[e.call])

\* Whether the client's i-th run was one on a registry's answer.
OnAnswer(c, i) == executed[c][i].registry \in Registries

Approved(c) ==
    \A i \in 1 .. Len(executed[c]) :
        IF OnAnswer(c, i) THEN Approves(c, executed[c][i]) ELSE c \in Proxies

Recorded(c) ==
    \A i \in 1 .. Len(executed[c]) : OnAnswer(c, i) =>
        executed[c][i].uuid \in usedStatementUUIDs[executed[c][i].registry]

Once(c) ==
    \A i, j \in 1 .. Len(executed[c]) :
        /\ OnAnswer(c, i) /\ executed[c][i].registry = executed[c][j].registry
        /\ executed[c][i].uuid = executed[c][j].uuid
        => i = j

LogSound(c) == Approved(c) /\ Recorded(c) /\ Once(c)

Accounted ==
    \A s \in signatures, r \in Registries : s.digest.uuid \in usedStatementUUIDs[r] =>
        \E i \in 1 .. Len(executed[s.digest.target]) :
            /\ executed[s.digest.target][i].registry = r
            /\ executed[s.digest.target][i].signature = s

SystemInv ==
    ClientTypeOK /\ PolicyRegistered /\ Issued /\ Accounted /\ \A c \in Clients : LogSound(c)

\* What an accepted call appends, and what was there stays.
LEMMA LongerLog ==
    ASSUME ClientTypeOK, NEW c \in Clients, NEW call \in Calls, NEW att \in Attestation,
           ProtectedCall(c, call, att)
    PROVE  LET n == Len(executed[c])
               e == executed'[c][n + 1]
           IN  /\ n \in Nat /\ Len(executed'[c]) = n + 1
               /\ \A i \in 1 .. n : executed'[c][i] = executed[c][i]
               /\ e.call = call /\ e.uuid = att.uuid /\ e.registry = clientRegistry[c]
               /\ e.signature = att.signature
               /\ \A d \in Clients \ {c} : executed'[d] = executed[d]
<1> DEFINE e == ExecutionOf(c, call, att)
           log == executed[c]
<1>1. e \in Execution /\ executed' = [executed EXCEPT ![c] = Append(@, e)]
    BY ExecutionFacts
<1>2. executed \in [Clients -> Seq(Execution)] /\ log \in Seq(Execution)
    BY DEF ClientTypeOK
<1>3. /\ e.call = call /\ e.uuid = att.uuid /\ e.registry = clientRegistry[c]
      /\ e.signature = att.signature
    BY DEF ExecutionOf
<1> HIDE DEF e
<1>4. executed'[c] = Append(log, e) /\ \A d \in Clients \ {c} : executed'[d] = executed[d]
    BY <1>1, <1>2
<1> HIDE DEF log
<1>5. /\ Len(log) \in Nat /\ Len(Append(log, e)) = Len(log) + 1
      /\ \A i \in 1 .. Len(log) : Append(log, e)[i] = log[i]
      /\ Append(log, e)[Len(log) + 1] = e
    BY <1>1, <1>2, AppendProperties, LenProperties
<1> QED
    BY <1>3, <1>4, <1>5 DEF log

\* A log that stays sound while nothing is taken from what it is held against.
LEMMA SameLog ==
    ASSUME NEW c \in Clients, LogSound(c), executed'[c] = executed[c],
           signatures \subseteq signatures',
           \A r \in Registries : usedStatementUUIDs[r] \subseteq usedStatementUUIDs'[r]
    PROVE  LogSound(c)'
<1>1. Approved(c)'
    BY DEF LogSound, Approved, Approves, OnAnswer
<1>2. Recorded(c)'
    BY DEF LogSound, Recorded, OnAnswer
<1>3. Once(c)'
    BY DEF LogSound, Once, OnAnswer
<1> QED
    BY <1>1, <1>2, <1>3 DEF LogSound

LEMMA ProtectedLog ==
    ASSUME SystemInv, NEW c \in Clients, NEW call \in Calls, NEW att \in Attestation,
           ProtectedCall(c, call, att)
    PROVE  \A d \in Clients : LogSound(d)'
<1> DEFINE r == clientRegistry[c]
           n == Len(executed[c])
           e == executed'[c][n + 1]
<1>1. ClientTypeOK /\ \A d \in Clients : LogSound(d)
    BY DEF SystemInv
<1>2. /\ n \in Nat /\ Len(executed'[c]) = n + 1
      /\ \A i \in 1 .. n : executed'[c][i] = executed[c][i]
      /\ e.call = call /\ e.uuid = att.uuid /\ e.registry = r /\ e.signature = att.signature
      /\ \A d \in Clients \ {c} : executed'[d] = executed[d]
    BY <1>1, LongerLog
<1>3. /\ r \in Registries /\ att.uuid \notin usedStatementUUIDs[r]
      /\ usedStatementUUIDs'[r] = usedStatementUUIDs[r] \cup {att.uuid}
      /\ \A q \in Registries \ {r} : usedStatementUUIDs'[q] = usedStatementUUIDs[q]
      /\ signatures' = signatures
    BY <1>1, SpendFacts, ApprovalFacts, ProtectedFrame
<1>5. /\ \A q \in Registries : usedStatementUUIDs[q] \subseteq usedStatementUUIDs'[q]
      /\ att.uuid \in usedStatementUUIDs'[r]
    BY <1>3
<1>7. Approves(c, e)
    <2>1. /\ att.signature \in signatures /\ att.signature.digest.target = c
          /\ att.signature.digest.uuid = att.uuid
          /\ att.signature.digest.call = AuthorizedCall(c, call)
        BY <1>1, ApprovalFacts
    <2> QED
        BY <1>2, <2>1 DEF Approves, AuthorizedCall
<1> HIDE DEF e, n, r
<1>8. \A d \in Clients \ {c} : LogSound(d)'
    <2> TAKE d \in Clients \ {c}
    <2>1. executed'[d] = executed[d] /\ LogSound(d) /\ signatures' = signatures
        BY <1>1, <1>2, <1>3
    <2> QED
        BY <1>5, <2>1, SameLog
<1>9. \A i \in 1 .. Len(executed'[c]) :
          (i \in 1 .. n /\ executed'[c][i] = executed[c][i]) \/ (i = n + 1 /\ executed'[c][i] = e)
    BY <1>2 DEF e
<1>10. Approved(c)'
    <2>1. SUFFICES ASSUME NEW i \in 1 .. Len(executed'[c])
                   PROVE  IF OnAnswer(c, i)' THEN Approves(c, executed'[c][i]) ELSE c \in Proxies
        BY <1>3 DEF Approved, Approves
    <2>2. CASE i \in 1 .. n /\ executed'[c][i] = executed[c][i]
        BY <1>1, <2>2 DEF LogSound, Approved, OnAnswer, n
    <2>3. CASE i = n + 1 /\ executed'[c][i] = e
        BY <1>2, <1>3, <1>7, <2>3 DEF OnAnswer
    <2> QED
        BY <1>9, <2>2, <2>3
<1>11. Recorded(c)'
    <2>1. SUFFICES ASSUME NEW i \in 1 .. Len(executed'[c]), OnAnswer(c, i)'
                   PROVE  executed'[c][i].uuid \in usedStatementUUIDs'[executed'[c][i].registry]
        BY DEF Recorded
    <2>2. CASE i = n + 1
        BY <1>2, <1>5, <2>2 DEF e
    <2>3. CASE i \in 1 .. n /\ executed'[c][i] = executed[c][i]
        BY <1>1, <1>5, <2>1, <2>3 DEF LogSound, Recorded, OnAnswer, n
    <2> QED
        BY <1>9, <2>2, <2>3 DEF e
<1>12. Once(c)'
    <2>1. \A i \in 1 .. n : ~(/\ executed[c][i].registry = e.registry
                              /\ executed[c][i].uuid = e.uuid)
        BY <1>1, <1>2, <1>3 DEF LogSound, Recorded, OnAnswer, n
    <2>2. Once(c)
        BY <1>1 DEF LogSound
    <2>3. SUFFICES ASSUME NEW i \in 1 .. Len(executed'[c]), NEW j \in 1 .. Len(executed'[c]),
                          OnAnswer(c, i)',
                          executed'[c][i].registry = executed'[c][j].registry,
                          executed'[c][i].uuid = executed'[c][j].uuid
                   PROVE  i = j
        BY DEF Once
    <2>4. CASE i \in 1 .. n /\ j \in 1 .. n
        BY <1>2, <2>2, <2>3, <2>4 DEF Once, OnAnswer, n
    <2>5. CASE i \in 1 .. n /\ j = n + 1
        BY <1>2, <2>1, <2>3, <2>5 DEF e
    <2>6. CASE i = n + 1 /\ j \in 1 .. n
        BY <1>2, <2>1, <2>3, <2>6 DEF e
    <2> QED
        BY <1>9, <2>4, <2>5, <2>6
<1> QED
    BY <1>8, <1>10, <1>11, <1>12 DEF LogSound

LEMMA ProtectedAccounted ==
    ASSUME SystemInv, NEW c \in Clients, NEW call \in Calls, NEW att \in Attestation,
           ProtectedCall(c, call, att)
    PROVE  Accounted'
<1> DEFINE r == clientRegistry[c]
<1>1. ClientTypeOK /\ Accounted /\ Issued
    BY DEF SystemInv
<1>2. /\ Len(executed[c]) \in Nat /\ Len(executed'[c]) = Len(executed[c]) + 1
      /\ \A i \in 1 .. Len(executed[c]) : executed'[c][i] = executed[c][i]
      /\ executed'[c][Len(executed[c]) + 1].registry = r
      /\ executed'[c][Len(executed[c]) + 1].signature = att.signature
      /\ \A d \in Clients \ {c} : executed'[d] = executed[d]
    BY <1>1, LongerLog
<1>3. /\ r \in Registries /\ signatures' = signatures
      /\ usedStatementUUIDs'[r] = usedStatementUUIDs[r] \cup {att.uuid}
      /\ \A q \in Registries \ {r} : usedStatementUUIDs'[q] = usedStatementUUIDs[q]
      /\ att.signature \in signatures /\ att.signature.digest.target = c
      /\ att.signature.digest.uuid = att.uuid
    BY <1>1, SpendFacts, ApprovalFacts, ProtectedFrame
<1> HIDE DEF r
<1> SUFFICES ASSUME NEW s \in signatures, NEW q \in Registries,
                    s.digest.uuid \in usedStatementUUIDs'[q]
             PROVE  \E i \in 1 .. Len(executed'[s.digest.target]) :
                        /\ executed'[s.digest.target][i].registry = q
                        /\ executed'[s.digest.target][i].signature = s
    BY <1>3 DEF Accounted
<1>5. CASE s.digest.uuid \in usedStatementUUIDs[q]
    <2>1. PICK i \in 1 .. Len(executed[s.digest.target]) :
              /\ executed[s.digest.target][i].registry = q
              /\ executed[s.digest.target][i].signature = s
        BY <1>1, <1>5 DEF Accounted
    <2>2. s.digest.target \in Clients
        BY <1>1 DEF Issued
    <2>3. CASE s.digest.target = c
        BY <1>2, <2>1, <2>3
    <2>4. CASE s.digest.target # c
        BY <1>2, <2>1, <2>2, <2>4
    <2> QED
        BY <2>3, <2>4
<1>6. CASE s.digest.uuid \notin usedStatementUUIDs[q]
    <2>1. q = r /\ s.digest.uuid = att.uuid
        BY <1>3, <1>6
    <2>2. s = att.signature
        BY <1>1, <1>3, <2>1 DEF Issued
    <2>3. Len(executed[c]) + 1 \in 1 .. Len(executed'[c])
        BY <1>2
    <2> QED
        BY <1>2, <1>3, <2>1, <2>2, <2>3
<1> QED
    BY <1>5, <1>6

\* A run on a foreign contract's word leaves the runs on a registry's answer,
\* and what they are recorded in, as they were.
LEMMA ForeignKeeps ==
    ASSUME SystemInv, NEW c \in Clients, NEW call \in Calls, ForeignCall(c, call)
    PROVE  Accounted' /\ \A d \in Clients : LogSound(d)'
<1> DEFINE n == Len(executed[c])
<1>1. /\ n \in Nat /\ Len(executed'[c]) = n + 1
      /\ \A i \in 1 .. n : executed'[c][i] = executed[c][i]
      /\ executed'[c][n + 1].registry = ForeignRegistry
      /\ \A d \in Clients \ {c} : executed'[d] = executed[d]
      /\ c \in Proxies
    BY ForeignLog DEF SystemInv
<1>2. signatures' = signatures /\ usedStatementUUIDs' = usedStatementUUIDs
    BY DEF ForeignCall, registryVars, vars, validation, environment
<1>3. ForeignRegistry \notin Registries
    BY RegistryAddressAssumption
<1>4. \A d \in Clients : LogSound(d)
    BY DEF SystemInv
<1> HIDE DEF n
<1>5. \A i \in 1 .. Len(executed'[c]) :
          \/ i \in 1 .. n /\ executed'[c][i] = executed[c][i]
          \/ i = n + 1 /\ executed'[c][i].registry = ForeignRegistry
    BY <1>1
<1>6. LogSound(c)'
    <2>1. Approved(c)'
        BY <1>1, <1>2, <1>3, <1>4, <1>5 DEF LogSound, Approved, Approves, OnAnswer, n
    <2>2. Recorded(c)'
        BY <1>2, <1>3, <1>4, <1>5 DEF LogSound, Recorded, OnAnswer, n
    <2>3. Once(c)'
        BY <1>3, <1>4, <1>5 DEF LogSound, Once, OnAnswer, n
    <2> QED
        BY <2>1, <2>2, <2>3 DEF LogSound
<1>7. \A d \in Clients \ {c} : LogSound(d)'
    BY <1>1, <1>2, <1>4, SameLog
<1>8. Accounted'
    <2> SUFFICES ASSUME NEW s \in signatures, NEW r \in Registries,
                        s.digest.uuid \in usedStatementUUIDs[r]
                 PROVE  \E i \in 1 .. Len(executed'[s.digest.target]) :
                            /\ executed'[s.digest.target][i].registry = r
                            /\ executed'[s.digest.target][i].signature = s
        BY <1>2 DEF Accounted
    <2>1. PICK i \in 1 .. Len(executed[s.digest.target]) :
              /\ executed[s.digest.target][i].registry = r
              /\ executed[s.digest.target][i].signature = s
        BY DEF SystemInv, Accounted
    <2>2. s.digest.target \in Clients
        BY DEF SystemInv, Issued
    <2>3. CASE s.digest.target = c
        BY <1>1, <2>1, <2>3 DEF n
    <2>4. CASE s.digest.target # c
        BY <1>1, <2>1, <2>2, <2>4
    <2> QED
        BY <2>3, <2>4
<1> QED
    BY <1>6, <1>7, <1>8

(***************************************************************************)
(* An outsider's validation never succeeds: every approval names a client. *)
(***************************************************************************)
LEMMA OutsiderFails ==
    ASSUME Issued, NEW c \in Callers \ Clients, NEW r \in Registries, NEW st \in Statement,
           NEW att \in Attestation, ValidateAttestation(r, c, st, att)
    PROVE  FALSE
<1>1. Validates(r, c, st, att) /\ att.signature \in signatures
    BY DEF ValidateAttestation, Spend, Attestation
<1>2. att.signature.digest.target = c
    BY <1>1 DEF Validates, Recovers, HashStatementSafe, HashFor
<1> QED
    BY <1>1, <1>2 DEF Issued

NewApproval(s) ==
    /\ s.digest.target \in Clients
    /\ \A t \in signatures : t.digest.uuid # s.digest.uuid
    /\ \A r \in Registries : s.digest.uuid \notin usedStatementUUIDs[r]
    /\ signatures' = signatures \cup {s}

LEMMA SurroundingFacts ==
    ASSUME SystemInv, Surroundings
    PROVE  /\ executed' = executed /\ deployed' = deployed
           /\ clientRegistry' = clientRegistry /\ policy' = policy
           /\ usedStatementUUIDs' = usedStatementUUIDs
           /\ \A r \in Registries, c \in Clients : clientToPolicy'[r][c] = clientToPolicy[r][c]
           /\ signatures' = signatures \/ \E s : NewApproval(s)
<1>1. UNCHANGED clientVars
    BY SurroundingIsRegistryStep DEF SystemInv
<1>2. ASSUME NEW c \in Callers \ Clients, Outsider(c)
      PROVE  /\ usedStatementUUIDs' = usedStatementUUIDs /\ signatures' = signatures
             /\ \A r \in Registries, d \in Clients : clientToPolicy'[r][d] = clientToPolicy[r][d]
    <2>1. PICK r \in Registries, p \in Policies : SetPolicyID(r, c, p)
        BY <1>2, OutsiderFails DEF Outsider, SystemInv
    <2>2. clientToPolicy \in [Registries -> [Callers -> Policies]]
        BY DEF SystemInv, ClientTypeOK, TypeOK
    <2> QED
        BY <2>1, <2>2, ClientIsCaller DEF SetPolicyID, validation, environment
<1>3. ASSUME NEW r \in Registries, NEW a \in Attesters, NEW c \in Clients, NEW call \in Calls,
             NEW uuid \in UUIDs, NEW t \in Expirations, Attest(r, a, c, call, uuid, t)
      PROVE  /\ usedStatementUUIDs' = usedStatementUUIDs /\ clientToPolicy' = clientToPolicy
             /\ \E s : NewApproval(s)
    <2> DEFINE s == [signer |-> a, digest |->
                        [chain |-> ChainOf[r], uuid |-> uuid, call |-> AuthorizedCall(c, call),
                         target |-> c, policy |-> clientToPolicy[r][c], expiration |-> t]]
    <2>1. signatures' = signatures \cup {s} /\ UNCHANGED <<clientToPolicy, validation>>
        BY <1>3 DEF Attest, Sign, HashStatementWithExpiry, HashFor
    <2>2. s.digest.target = c /\ s.digest.uuid = uuid
        OBVIOUS
    <2> HIDE DEF s
    <2> QED
        BY <1>3, <2>1, <2>2 DEF NewApproval, Attest, NewUUID, validation
<1>4. ASSUME NEW r \in Registries, Administration(r)
      PROVE  UNCHANGED <<clientToPolicy, usedStatementUUIDs, signatures>>
    BY <1>4 DEF Administration, Initialize, TransferOwnership, AcceptOwnership,
                RenounceOwnership, MoveOwnership, RegisterAttester, DeregisterAttester,
                MigrateAttesterIndices, validation, environment
<1>5. CASE Tick
    BY <1>1, <1>5 DEF Tick, validation, clientVars
<1> QED
    BY <1>1, <1>2, <1>3, <1>4, <1>5 DEF Surroundings, clientVars

(***************************************************************************)
(* The invariant is inductive: one step per part of it.                    *)
(***************************************************************************)
LEMMA ConfigureRegistered ==
    ASSUME SystemInv, NEW c \in Clients, Configure(c) PROVE PolicyRegistered'
<1> DEFINE Agrees(d) == deployed[d] /\ policy[d] # NoPolicy =>
                            \/ d \in Proxies /\ clientRegistry[d] = ForeignRegistry
                            \/ /\ clientRegistry[d] \in Registries
                               /\ clientToPolicy[clientRegistry[d]][d] = policy[d]
<1>1. /\ clientToPolicy \in [Registries -> [Callers -> Policies]]
      /\ deployed \in [Clients -> BOOLEAN] /\ policy \in [Clients -> Policies]
      /\ clientRegistry \in [Clients -> Registries \cup {NoRegistry, ForeignRegistry}]
      /\ clientRegistry[c] = ForeignRegistry => c \in Proxies
      /\ ForeignRegistry \notin Registries \cup {NoRegistry}
      /\ \A d \in Clients : Agrees(d)
    BY RegistryAddressAssumption
    DEF RegistryAddresses, SystemInv, ClientTypeOK, TypeOK, PolicyRegistered
<1>2. ASSUME NEW d \in Clients \ {c}, NEW r, NEW p \in Policies,
             WriteThrough(c, r, p) \/ UNCHANGED registryVars,
             deployed'[d] = deployed[d], policy'[d] = policy[d],
             clientRegistry'[d] = clientRegistry[d]
      PROVE  Agrees(d)'
    <2>1. c \in Callers /\ d \in Callers
        BY ClientIsCaller
    <2>2. \A q \in Registries : clientToPolicy'[q][d] = clientToPolicy[q][d]
        BY <1>1, <1>2, <2>1 DEF WriteThrough, SetPolicyID, registryVars, vars
    <2> QED
        BY <1>1, <1>2, <2>2
<1>3. ASSUME NEW r \in Registries \cup {NoRegistry}, NEW p \in Policies, Deploy(c, r, p)
      PROVE  \A d \in Clients : Agrees(d)'
    <2>1. Agrees(c)'
        BY <1>1, <1>3, ClientIsCaller DEF Deploy, WriteThrough, SetPolicyID
    <2> QED
        BY <1>1, <1>2, <1>3, <2>1 DEF Deploy
<1>4. ASSUME NEW p \in Policies, ClientSetPolicyID(c, p)
      PROVE  \A d \in Clients : Agrees(d)'
    <2>1. Agrees(c)'
        BY <1>1, <1>4, ClientIsCaller DEF ClientSetPolicyID, WriteThrough, SetPolicyID
    <2> QED
        BY <1>1, <1>2, <1>4, <2>1 DEF ClientSetPolicyID
<1>5. ASSUME NEW r \in RegistryAddresses(c), SetRegistry(c, r)
      PROVE  \A d \in Clients : Agrees(d)'
    <2>1. /\ policy[c] \in Policies
          /\ r = ForeignRegistry => c \in Proxies
        BY <1>1 DEF RegistryAddresses
    <2>2. Agrees(c)'
        BY <1>1, <1>5, <2>1, ClientIsCaller
        DEF SetRegistry, ReRegister, WriteThrough, SetPolicyID
    <2> QED
        BY <1>1, <1>2, <1>5, <2>1, <2>2 DEF SetRegistry, ReRegister
<1> QED
    BY <1>3, <1>4, <1>5 DEF Configure, PolicyRegistered

LEMMA SystemStep == SystemInv /\ [SystemNext]_systemVars => SystemInv'
<1> SUFFICES ASSUME SystemInv, [SystemNext]_systemVars PROVE SystemInv'
    OBVIOUS
<1>1. ClientTypeOK'
    BY ClientStepType DEF SystemInv
<1>2. CASE UNCHANGED systemVars
    BY <1>1, <1>2 DEF SystemInv, PolicyRegistered, Issued, Accounted, LogSound, Approved,
                      Approves, Recorded, Once, OnAnswer, systemVars, registryVars, vars, validation,
                      environment, clientVars
<1>3. ASSUME NEW c \in Clients, Configure(c) PROVE SystemInv'
    <2>1. UNCHANGED <<executed, signatures, usedStatementUUIDs>>
        BY <1>3, ConfigureFacts DEF SystemInv
    <2>2. \A d \in Clients : LogSound(d)'
        BY <2>1, SameLog DEF SystemInv
    <2>3. Issued' /\ Accounted'
        BY <2>1 DEF SystemInv, Issued, Accounted
    <2> QED
        BY <1>1, <1>3, <2>2, <2>3, ConfigureRegistered DEF SystemInv
<1>4. ASSUME NEW c \in Clients, NEW call \in Calls, NEW att \in Attestation,
             ProtectedCall(c, call, att)
      PROVE  SystemInv'
    <2>1. /\ signatures' = signatures /\ clientToPolicy' = clientToPolicy
          /\ deployed' = deployed /\ clientRegistry' = clientRegistry /\ policy' = policy
        BY <1>4, ProtectedFrame DEF SystemInv
    <2>2. PolicyRegistered' /\ Issued'
        BY <2>1 DEF SystemInv, PolicyRegistered, Issued
    <2> QED
        BY <1>1, <1>4, <2>2, ProtectedLog, ProtectedAccounted DEF SystemInv
<1>5. CASE Surroundings
    <2>1. /\ executed' = executed /\ deployed' = deployed
          /\ clientRegistry' = clientRegistry /\ policy' = policy
          /\ usedStatementUUIDs' = usedStatementUUIDs
          /\ \A r \in Registries, c \in Clients : clientToPolicy'[r][c] = clientToPolicy[r][c]
          /\ signatures' = signatures \/ \E s : NewApproval(s)
        BY <1>5, SurroundingFacts
    <2>2. signatures \subseteq signatures'
        BY <2>1 DEF NewApproval
    <2>3. PolicyRegistered'
        BY <2>1 DEF SystemInv, PolicyRegistered
    <2>4. Issued'
        BY <2>1 DEF SystemInv, Issued, NewApproval
    <2>5. Accounted'
        BY <2>1 DEF SystemInv, Accounted, NewApproval
    <2>6. \A c \in Clients : LogSound(c)'
        BY <2>1, <2>2, SameLog DEF SystemInv
    <2> QED
        BY <1>1, <2>3, <2>4, <2>5, <2>6 DEF SystemInv
<1>6. ASSUME NEW c \in Clients, NEW call \in Calls, ForeignCall(c, call) PROVE SystemInv'
    <2>1. /\ signatures' = signatures /\ clientToPolicy' = clientToPolicy
          /\ deployed' = deployed /\ clientRegistry' = clientRegistry /\ policy' = policy
        BY <1>6 DEF ForeignCall, registryVars, vars, environment
    <2>2. PolicyRegistered' /\ Issued'
        BY <2>1 DEF SystemInv, PolicyRegistered, Issued
    <2> QED
        BY <1>1, <1>6, <2>2, ForeignKeeps DEF SystemInv
<1> QED
    BY <1>2, <1>3, <1>4, <1>5, <1>6 DEF SystemNext

LEMMA SystemAlwaysSound == SystemSpec => []SystemInv
<1>1. ClientInit => SystemInv
    <2> SUFFICES ASSUME ClientInit PROVE SystemInv
        OBVIOUS
    <2>1. ClientTypeOK /\ signatures = {}
        BY InitType, PolicyAssumption, EmptySeq
        DEF ClientInit, RegistryAddresses, ClientTypeOK, Init
    <2>2. \A c \in Clients : ~deployed[c] /\ Len(executed[c]) = 0
        BY EmptySeq DEF ClientInit
    <2> QED
        BY <2>1, <2>2 DEF SystemInv, PolicyRegistered, Issued, Accounted, LogSound, Approved,
                          Recorded, Once
<1>2. SystemInv /\ [SystemNext]_systemVars => SystemInv'
    BY SystemStep
<1> QED
    BY <1>1, <1>2, PTL DEF SystemSpec

\* The places of a log that the theorems and the invariant speak of.
LEMMA AttestedPlaces ==
    ASSUME ClientTypeOK, NEW c \in Clients
    PROVE  /\ DOMAIN executed[c] = 1 .. Len(executed[c])
           /\ Attested(c) = {i \in 1 .. Len(executed[c]) : OnAnswer(c, i)}
BY LenProperties DEF ClientTypeOK, Attested, OnAnswer

\* A policy a client enforces is always the one its registry shows for it, but
\* for a proxy that obeys somebody's own contract.
THEOREM PolicyAlwaysRegistered == SystemSpec => []PolicyRegistered
<1>1. SystemInv => PolicyRegistered
    BY DEF SystemInv
<1> QED
    BY <1>1, SystemAlwaysSound, PTL

\* What runs was approved for this client and this call; but for a proxy that
\* obeys somebody's own contract.
THEOREM RunsAsApproved == SystemSpec => []ExecutedWasApproved
<1>1. SystemInv => ExecutedWasApproved
    <2> SUFFICES ASSUME SystemInv, NEW c \in Clients, NEW i \in DOMAIN executed[c]
                 PROVE  IF i \in Attested(c) THEN Approves(c, executed[c][i]) ELSE c \in Proxies
        BY DEF ExecutedWasApproved, Approves
    <2>1. i \in 1 .. Len(executed[c]) /\ (i \in Attested(c) <=> OnAnswer(c, i))
        BY AttestedPlaces DEF SystemInv
    <2> QED
        BY <2>1 DEF SystemInv, LogSound, Approved
<1> QED
    BY <1>1, SystemAlwaysSound, PTL

\* An approval is spent in a registry only by running, there, what it approves.
THEOREM SpentByRunning == SystemSpec => []SpentMeansExecuted
<1>1. SystemInv => SpentMeansExecuted
    <2> SUFFICES ASSUME SystemInv, NEW s \in signatures, NEW r \in Registries,
                        s.digest.uuid \in usedStatementUUIDs[r]
                 PROVE  \E e \in Range(executed[s.digest.target]) :
                            e.registry = r /\ e.signature = s
        BY DEF SpentMeansExecuted
    <2> DEFINE log == executed[s.digest.target]
    <2>1. log \in Seq(Execution)
        BY DEF SystemInv, ClientTypeOK, Issued
    <2>2. PICK i \in 1 .. Len(log) : log[i].registry = r /\ log[i].signature = s
        BY DEF SystemInv, Accounted
    <2>3. log[i] \in Range(log)
        BY <2>1, <2>2, LenProperties DEF Range
    <2> QED
        BY <2>2, <2>3
<1> QED
    BY <1>1, SystemAlwaysSound, PTL

\* One approval runs one function per registry.
THEOREM RunsOnce == SystemSpec => []OncePerRegistry
<1>1. SystemInv => OncePerRegistry
    <2> SUFFICES ASSUME SystemInv, NEW c \in Clients
                 PROVE  \A i, j \in Attested(c) :
                            /\ executed[c][i].registry = executed[c][j].registry
                            /\ executed[c][i].uuid = executed[c][j].uuid
                            => i = j
        BY DEF OncePerRegistry
    <2>1. Attested(c) = {i \in 1 .. Len(executed[c]) : OnAnswer(c, i)}
        BY AttestedPlaces DEF SystemInv
    <2> QED
        BY <2>1 DEF SystemInv, LogSound, Once
<1> QED
    BY <1>1, SystemAlwaysSound, PTL

\* What runs on a registry's answer was approved under the policy the client has
\* at that moment.
THEOREM CurrentPolicy == SystemSpec => CurrentPolicyOnly
<1> DEFINE Current ==
        \A c \in Clients : \A i \in Attested(c)' \ Attested(c) :
            executed'[c][i].signature.digest.policy = policy[c]
<1>1. SystemInv /\ [SystemNext]_systemVars => Current
    <2> SUFFICES ASSUME SystemInv, [SystemNext]_systemVars, NEW c \in Clients,
                        NEW i \in Attested(c)' \ Attested(c)
                 PROVE  executed'[c][i].signature.digest.policy = policy[c]
        OBVIOUS
    <2>1. ClientTypeOK /\ ClientTypeOK'
        BY ClientStepType DEF SystemInv
    <2>2. /\ i \in 1 .. Len(executed'[c]) /\ OnAnswer(c, i)'
          /\ ~(i \in 1 .. Len(executed[c]) /\ OnAnswer(c, i))
        <3>1. Attested(c) = {k \in 1 .. Len(executed[c]) : OnAnswer(c, k)}
            BY <2>1, AttestedPlaces
        <3>2. Attested(c)' = {k \in 1 .. Len(executed'[c]) : OnAnswer(c, k)'}
            BY <2>1, LenProperties DEF ClientTypeOK, Attested, OnAnswer
        <3> QED
            BY <3>1, <3>2
    <2>3. executed'[c] # executed[c]
        BY <2>2 DEF OnAnswer
    <2>4. ASSUME NEW d \in Clients, NEW call \in Calls, ForeignCall(d, call) PROVE FALSE
        <3>1. d = c
            BY <2>1, <2>3, <2>4, ForeignLog
        <3>2. i = Len(executed[c]) + 1 /\ executed'[c][i].registry = ForeignRegistry
            BY <2>1, <2>2, <2>4, <3>1, ForeignLog DEF OnAnswer
        <3> QED
            BY <2>2, <3>2, RegistryAddressAssumption DEF OnAnswer
    <2>5. PICK d \in Clients, call \in Calls, att \in Attestation : ProtectedCall(d, call, att)
        BY <2>1, <2>3, <2>4, ConfigureFacts, SurroundingFacts
        DEF SystemNext, systemVars, clientVars
    <2>6. d = c
        BY <2>1, <2>3, <2>5, LongerLog
    <2>7. i = Len(executed[c]) + 1 /\ executed'[c][i].signature = att.signature
        BY <2>1, <2>2, <2>5, <2>6, LongerLog DEF OnAnswer
    <2>8. att.signature.digest.policy = policy[c]
        BY <2>1, <2>5, <2>6, ApprovalFacts
    <2> QED
        BY <2>7, <2>8
<1>2. SystemInv /\ [SystemNext]_systemVars => [Current]_systemVars
    BY <1>1
<1>3. [Current]_systemVars =>
          [\A c \in Clients : \A i \in Attested(c)' \ Attested(c) :
               executed'[c][i].signature.digest.policy = policy[c]]_systemVars
    OBVIOUS
<1> HIDE DEF Current
<1> QED
    BY <1>2, <1>3, SystemAlwaysSound, PTL DEF SystemSpec, CurrentPolicyOnly
===============================================================================
