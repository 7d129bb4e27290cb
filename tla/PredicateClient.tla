---------------------------- MODULE PredicateClient ----------------------------
(***************************************************************************)
(* Contracts that inherit PredicateClient or BasicPredicateClient, on the  *)
(* chain of the registries they may point at.  A client keeps its registry *)
(* and a cached copy of its policy, writes the policy through to the       *)
(* registry, and runs a protected function only after the registry has     *)
(* validated the statement the client itself builds for the call.          *)
(*                                                                         *)
(* Attesters are honest here: they sign what a client asks for under the   *)
(* policy the registry shows for it, with a UUID of its own each time.     *)
(* Other callers of the registries call them directly, with any calldata.  *)
(* Owners configure their clients; but the setters of a proxy are open, so *)
(* that anybody may have it obey a contract of their own instead.          *)
(***************************************************************************)
EXTENDS PredicateRegistry

CONSTANTS
    Clients,        \* the callers that are client contracts
    BasicClients,   \* those that inherit BasicPredicateClient
    Proxies,        \* those whose setters are open: PredicateClientProxies
    BareCall,       \* a call as a Basic client authorises it: the sender alone
    NoRegistry,     \* an address with no registry behind it
    ForeignRegistry \* somebody's contract that takes any policy and attestation

ASSUME ClientAssumption ==
    /\ Clients \subseteq Callers
    /\ BasicClients \subseteq Clients /\ Proxies \subseteq Clients
ASSUME BareCallAssumption == BareCall \in [Calls -> Calls]
ASSUME RegistryAddressAssumption ==
    /\ NoRegistry \notin Registries
    /\ ForeignRegistry \notin Registries \cup {NoRegistry}
ASSUME OneChainAssumption == \A r, q \in Registries : ChainOf[r] = ChainOf[q]

VARIABLES
    deployed,
    clientRegistry,     \* $.registry
    policy,             \* $.policy
    executed            \* protected functions run, in order

clientVars == <<deployed, clientRegistry, policy, executed>>
registryVars == vars
systemVars == <<registryVars, clientVars>>

\* A protected function that ran, with the registry and the signature it ran on;
\* or on a foreign contract's word alone.
Execution ==
    [call : Calls, uuid : UUIDs, registry : Registries, signature : Signature]
        \cup [call : Calls, registry : {ForeignRegistry}]

\* What a client's setRegistry is called with: by its owner, or by anybody.
RegistryAddresses(c) ==
    Registries \cup {NoRegistry} \cup (IF c \in Proxies THEN {ForeignRegistry} ELSE {})

ClientTypeOK ==
    /\ TypeOK
    /\ deployed \in [Clients -> BOOLEAN]
    /\ clientRegistry \in [Clients -> Registries \cup {NoRegistry, ForeignRegistry}]
    /\ \A c \in Clients : clientRegistry[c] \in RegistryAddresses(c)
    /\ policy \in [Clients -> Policies]
    /\ executed \in [Clients -> Seq(Execution)]

ClientInit ==
    /\ Init
    /\ deployed = [c \in Clients |-> FALSE]
    /\ clientRegistry = [c \in Clients |-> NoRegistry]
    /\ policy = [c \in Clients |-> NoPolicy]
    /\ executed = [c \in Clients |-> << >>]

-------------------------------------------------------------------------------
(* Configuration.                                                           *)

\* A policy is written to the registry the client points at from then on;
\* without a contract behind that address the call reverts.
WriteThrough(c, r, p) ==
    \/ r \in Registries /\ SetPolicyID(r, c, p)
    \/ r = ForeignRegistry /\ UNCHANGED registryVars

\* _initPredicateClient, in the constructor: the cached policy is still empty,
\* so an empty policy is never written.
Deploy(c, r, p) ==
    /\ ~deployed[c]
    /\ deployed' = [deployed EXCEPT ![c] = TRUE]
    /\ clientRegistry' = [clientRegistry EXCEPT ![c] = r]
    /\ policy' = [policy EXCEPT ![c] = p]
    /\ IF p # NoPolicy THEN WriteThrough(c, r, p) ELSE UNCHANGED registryVars
    /\ UNCHANGED executed

\* _setPolicyID does nothing when the policy is the cached one.
ClientSetPolicyID(c, p) ==
    /\ deployed[c]
    /\ p # policy[c]
    /\ policy' = [policy EXCEPT ![c] = p]
    /\ WriteThrough(c, clientRegistry[c], p)
    /\ UNCHANGED <<deployed, clientRegistry, executed>>

\* Mutant: the cached policy is not registered again.
ForgetPolicy(c, r) == UNCHANGED registryVars

\* The cached policy is registered again, unless it is empty.
ReRegister(c, r) ==
    IF policy[c] # NoPolicy THEN WriteThrough(c, r, policy[c]) ELSE UNCHANGED registryVars

\* _setRegistry does nothing when the registry is the current one.
SetRegistry(c, r) ==
    /\ deployed[c]
    /\ r # clientRegistry[c]
    /\ clientRegistry' = [clientRegistry EXCEPT ![c] = r]
    /\ ReRegister(c, r)
    /\ UNCHANGED <<deployed, policy, executed>>

-------------------------------------------------------------------------------
(* Protected calls.                                                         *)

\* Mutant: every client leaves value, signature and arguments out.
AuthorizedBare(c, call) == BareCall[call]

\* What an attester has to approve for c to run call.
AuthorizedCall(c, call) == IF c \in BasicClients THEN BareCall[call] ELSE call

\* Mutant: the policy is read back from the registry.
RegistryPolicy(c) == clientToPolicy[clientRegistry[c]][c]

StatementPolicy(c) == policy[c]

\* The Statement of _authorizeTransaction.
StatementOf(c, call, att) ==
    [uuid |-> att.uuid, call |-> AuthorizedCall(c, call), target |-> c,
     policy |-> StatementPolicy(c), expiration |-> att.expiration]

\* The registry call and the protected function are one transaction.
ProtectedCall(c, call, att) ==
    LET r == clientRegistry[c]
    IN  /\ deployed[c]
        /\ r \in Registries
        /\ ValidateAttestation(r, c, StatementOf(c, call, att), att)
        /\ executed' = [executed EXCEPT ![c] = Append(@,
               [call |-> call, uuid |-> att.uuid, registry |-> r, signature |-> att.signature])]
        /\ UNCHANGED <<deployed, clientRegistry, policy>>

\* Where the registry is a contract of somebody's own, its answer is all it takes.
ForeignCall(c, call) ==
    /\ deployed[c]
    /\ clientRegistry[c] = ForeignRegistry
    /\ executed' = [executed EXCEPT ![c] =
           Append(@, [call |-> call, registry |-> ForeignRegistry])]
    /\ UNCHANGED <<registryVars, deployed, clientRegistry, policy>>

-------------------------------------------------------------------------------
(* The world around.                                                        *)

NewUUID(uuid) ==
    /\ \A s \in signatures : s.digest.uuid # uuid
    /\ \A r \in Registries : uuid \notin usedStatementUUIDs[r]

\* An attester approves a call of c under the policy it finds in a registry.
Attest(r, a, c, call, uuid, t) ==
    /\ NewUUID(uuid)
    /\ Sign(r, a, [uuid |-> uuid, call |-> AuthorizedCall(c, call),
                   target |-> c, policy |-> clientToPolicy[r][c], expiration |-> t])
    /\ UNCHANGED clientVars

\* Anybody else calls a registry directly.
Outsider(c) ==
    /\ \/ \E r \in Registries, p \in Policies : SetPolicyID(r, c, p)
       \/ \E r \in Registries, st \in Statement, att \in Attestation :
              ValidateAttestation(r, c, st, att)
    /\ UNCHANGED clientVars

Configure(c) ==
    \/ \E r \in Registries \cup {NoRegistry}, p \in Policies : Deploy(c, r, p)
    \/ \E p \in Policies : ClientSetPolicyID(c, p)
    \/ \E r \in RegistryAddresses(c) : SetRegistry(c, r)

Surroundings ==
    \/ \E c \in Callers \ Clients : Outsider(c)
    \/ \E r \in Registries, a \in Attesters, c \in Clients, call \in Calls,
          uuid \in UUIDs, t \in Expirations : Attest(r, a, c, call, uuid, t)
    \/ (\E r \in Registries : Administration(r)) /\ UNCHANGED clientVars
    \/ Tick /\ UNCHANGED clientVars

SystemNext ==
    \/ \E c \in Clients : Configure(c)
    \/ \E c \in Clients, call \in Calls, att \in Attestation : ProtectedCall(c, call, att)
    \/ \E c \in Clients, call \in Calls : ForeignCall(c, call)
    \/ Surroundings

SystemSpec == ClientInit /\ [][SystemNext]_systemVars

-------------------------------------------------------------------------------
(* What must hold.                                                          *)

\* The runs of a client that a registry answered for, by their place.
Attested(c) == {i \in DOMAIN executed[c] : executed[c][i].registry \in Registries}

\* "Re-register cached policy with new registry to prevent desynchronization":
\* through every deployment, policy change and switch of registries, a policy
\* the client enforces is the one its registry shows for it, unless somebody
\* has put a contract of their own in the registry's place.
PolicyRegistered ==
    \A c \in Clients : deployed[c] /\ policy[c] # NoPolicy =>
        \/ c \in Proxies /\ clientRegistry[c] = ForeignRegistry
        \/ /\ clientRegistry[c] \in Registries
           /\ clientToPolicy[clientRegistry[c]][c] = policy[c]

\* A protected function runs only on an approval that named this client, this
\* very call (or, for a Basic client, its sender) and its own UUID.  Only a
\* proxy ever runs without one.
ExecutedWasApproved ==
    \A c \in Clients : \A i \in DOMAIN executed[c] :
        LET e == executed[c][i]
            d == e.signature.digest
        IN  IF i \in Attested(c)
            THEN /\ e.signature \in signatures
                 /\ d.target = c
                 /\ d.uuid = e.uuid
                 /\ \/ d.call = e.call
                    \/ c \in BasicClients /\ d.call = BareCall[e.call]
            ELSE c \in Proxies

\* A policy change takes effect at once: what runs next on a registry's answer
\* was approved under the policy the client has now, and approvals under an
\* earlier one are dead.
CurrentPolicyOnly ==
    [][\A c \in Clients : \A i \in Attested(c)' \ Attested(c) :
           executed'[c][i].signature.digest.policy = policy[c]]_systemVars

\* An approval given to a client is spent in a registry only by running that
\* client's function there: no other caller can burn it, and the client never
\* burns it without running.
SpentMeansExecuted ==
    \A s \in signatures : \A r \in Registries :
        s.digest.uuid \in usedStatementUUIDs[r] =>
            \E e \in Range(executed[s.digest.target]) :
                e.registry = r /\ e.signature = s

\* One approval runs one function per registry.
OncePerRegistry ==
    \A c \in Clients : \A i, j \in Attested(c) :
        /\ executed[c][i].registry = executed[c][j].registry
        /\ executed[c][i].uuid = executed[c][j].uuid
        => i = j

\* The comments promise more: "off-chain attesters can query the new registry
\* and get the correct policy" ...
AttestersSeePolicy ==
    \A c \in Clients : deployed[c] /\ clientRegistry[c] \in Registries =>
        clientToPolicy[clientRegistry[c]][c] = policy[c]

\* ... and a UUID "marked as spent to prevent replay attacks" runs one
\* function of a client, wherever the client points.
OncePerApproval ==
    \A c \in Clients : \A i, j \in Attested(c) :
        executed[c][i].uuid = executed[c][j].uuid => i = j
===============================================================================
