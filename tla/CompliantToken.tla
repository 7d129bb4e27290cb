----------------------------- MODULE CompliantToken -----------------------------
(***************************************************************************)
(* The compliant token (src/soroban/example-compliant-token/src/lib.rs),   *)
(* through predicate-client a client of the Soroban registry: a transfer   *)
(* moves tokens only on an attestation for exactly that transfer.          *)
(*                                                                         *)
(* Attesters are honest: they approve transfers of this token, under the   *)
(* policy the registry shows for it, each with a UUID of its own.  Other   *)
(* callers use the registry directly, with any arguments.  The lifetimes   *)
(* of the token's own entries are left out: the token never prolongs them, *)
(* each lapses on its own, and a call that touches one that has lapsed     *)
(* traps until it is restored with its value.                              *)
(***************************************************************************)
EXTENDS SorobanRegistry, EventLog

CONSTANTS
    Token,          \* the token contract, one of the callers
    Holders,        \* accounts that hold tokens
    TokenPolicy,    \* the policy the token is deployed with
    Amounts,        \* the amounts of mints and transfers, negative ones too
    MaxBalance      \* the largest i128

ASSUME TokenAssumption == Token \in Callers /\ TokenPolicy \in Policies
ASSUME HolderAssumption == IsFiniteSet(Holders)
ASSUME AmountAssumption == Amounts \subseteq Int /\ MaxBalance \in Nat

VARIABLES
    deployed,
    balance,
    minted,         \* history: how much was minted in all
    transfers       \* history: the transfers made, in order

tokenVars == <<deployed, balance, minted, transfers>>
registryVars == vars
systemVars == <<registryVars, tokenVars>>

\* encode_transfer_call, msg_sender and msg_value: a transfer names them all.
TransferCall == [from : Holders, to : Holders, amount : Amounts]

ASSUME CallAssumption == TransferCall \subseteq Calls

TokenTypeOK ==
    /\ TypeOK
    /\ deployed \in BOOLEAN
    /\ balance \in [Holders -> -MaxBalance - 1 .. MaxBalance]
    /\ minted \in Int
    /\ transfers \in Seq(TransferCall)

TokenInit ==
    /\ Init
    /\ deployed = FALSE
    /\ balance = [h \in Holders |-> 0]
    /\ minted = 0
    /\ transfers = << >>

Fits(n) == -MaxBalance - 1 <= n /\ n <= MaxBalance

-------------------------------------------------------------------------------
(* The token.                                                               *)

WritePolicyToRegistry == SetPolicyID(Token, Token, TokenPolicy)

Deploy ==
    /\ ~deployed
    /\ deployed' = TRUE
    /\ WritePolicyToRegistry
    /\ UNCHANGED <<balance, minted, transfers>>

\* register_policy, by the admin.
RegisterPolicy ==
    /\ deployed
    /\ WritePolicyToRegistry
    /\ UNCHANGED tokenVars

\* By the admin, who may pass any amount; an overflow traps.
Mint(to, amount) ==
    /\ deployed
    /\ Fits(balance[to] + amount)
    /\ balance' = [balance EXCEPT ![to] = @ + amount]
    /\ minted' = minted + amount
    /\ UNCHANGED <<registryVars, deployed, transfers>>

\* Mutant: the statement is built from a transfer the user passes along.
StatementOfAny(call, att) ==
    [uuid |-> att.uuid, call |-> att.signature.digest.call, target |-> Token,
     policy |-> TokenPolicy, expiration |-> att.expiration]

\* The Statement of authorize_transaction: the transfer about to be made.
StatementOf(call, att) ==
    [uuid |-> att.uuid, call |-> call, target |-> Token, policy |-> TokenPolicy,
     expiration |-> att.expiration]

\* Mutant: the recipient is credited and the sender is not debited.
CreditedOnly(from, to, amount) == [balance EXCEPT ![to] = @ + amount]

\* Both balances are read before either is written: when they are the same
\* account's, the second write undoes the first.
Moved(from, to, amount) ==
    [h \in Holders |->
        IF h = to THEN balance[to] + amount
        ELSE IF h = from THEN balance[from] - amount
        ELSE balance[h]]

\* Mutant: the sender's balance is not looked at.
CoversAnything(from, amount) == amount > 0

\* What also keeps the sender's new balance from an underflow.
Covers(from, amount) == amount > 0 /\ balance[from] >= amount

\* A refused validation traps and undoes the transfer.
Transfer(by, call, att) ==
    /\ deployed
    /\ RequireAuth(by, call.from)
    /\ Covers(call.from, call.amount)
    /\ ValidateAttestation(Token, Token, StatementOf(call, att), att)
    /\ Fits(balance[call.to] + call.amount)
    /\ balance' = Moved(call.from, call.to, call.amount)
    /\ transfers' = Append(transfers, call)
    /\ UNCHANGED <<deployed, minted>>

-------------------------------------------------------------------------------
(* The world around.                                                        *)

NewUUID(uuid) == usedUntil[uuid] = -1 /\ \A s \in signatures : s.digest.uuid # uuid

Attest(a, call, uuid, t) ==
    /\ NewUUID(uuid)
    /\ Sign(a, [network |-> Network, uuid |-> uuid, call |-> call, target |-> Token,
                policy |-> GetPolicyID(Token), expiration |-> t])
    /\ UNCHANGED tokenVars

Outsider(by) ==
    /\ \/ \E caller \in Callers, p \in Policies : SetPolicyID(by, caller, p)
       \/ \E caller \in Callers, st \in Statement, att \in Attestation :
              ValidateAttestation(by, caller, st, att)
    /\ UNCHANGED tokenVars

TokenStep ==
    \/ Deploy
    \/ RegisterPolicy
    \/ \E to \in Holders, amount \in Amounts : Mint(to, amount)
    \/ \E by \in Holders, call \in TransferCall, att \in Attestation : Transfer(by, call, att)

SystemNext ==
    \/ TokenStep
    \/ \E by \in Callers \ {Token} : Outsider(by)
    \/ \E a \in Attesters, call \in TransferCall, uuid \in UUIDs, t \in Expirations :
           Attest(a, call, uuid, t)
    \/ (Administration \/ Restore \/ CloseLedger) /\ UNCHANGED tokenVars

SystemSpec == TokenInit /\ [][SystemNext]_systemVars

-------------------------------------------------------------------------------
(* What must hold.                                                          *)

\* "set_policy_id keys the policy by its caller, so the call has to come from
\* the token itself": once deployed, the registry holds the token's policy and
\* nobody else can replace it.
PolicyStaysTheTokens == deployed => policies[Token] = TokenPolicy

\* The places in the registry's log of the statements accepted for the token.
Own == {i \in DOMAIN validated : validated[i].target = Token}

\* The registry's log and the token's ledger agree: the statements accepted
\* for the token are, in order, the transfers it made.  No approval moves
\* anything but what it names, none is spent without a transfer.
TransfersMatchEvents ==
    /\ Cardinality(Own) = Len(transfers)
    /\ \A i \in Own : validated[i].call = transfers[Rank(Own, i)]

\* What a transfer between two accounts takes from one it gives to the other,
\* and no more than there was, though mints may be of negative amounts.
TransferConserves ==
    [][transfers' # transfers =>
           LET call == transfers'[Len(transfers')]
           IN  call.from # call.to =>
                   /\ SumFunction(balance') = SumFunction(balance)
                   /\ balance'[call.from] >= 0]_systemVars

\* What the holders have beyond what was minted they have from the transfers
\* they made to themselves, and they never have less.
SelfSent ==
    [i \in DOMAIN transfers |->
        IF transfers[i].from = transfers[i].to THEN transfers[i].amount ELSE 0]
ExcessIsSelfSent == SumFunction(balance) = minted + SumFunction(SelfSent)

\* A transfer moves tokens, it does not make any: what the holders have is
\* what was minted.
TotalIsMinted == SumFunction(balance) = minted
===============================================================================
