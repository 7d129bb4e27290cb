---------------------------- MODULE AssetCompliance ----------------------------
(***************************************************************************)
(* Tokens with compliance controls: Freezable (src/src/Freezable.sol) and  *)
(* the three tokens built on it (src/src/examples/asset-compliance).  The  *)
(* variable kind says which one was deployed:                              *)
(*   FreezableToken         transfers among accounts that are not frozen;  *)
(*   FreezableStablecoin    an ERC-20 that can also be paused, and whose   *)
(*                          frozen balances can be seized;                 *)
(*   OnboardableToken       an ERC-20 among accounts on an allow list.     *)
(* All three control access by roles, and every movement of an ERC-20      *)
(* passes its _update, except a seizure.                                   *)
(*                                                                         *)
(* An external call runs alone and a revert undoes it: a batch is one      *)
(* action, whose guard is that all of its entries succeed.                 *)
(***************************************************************************)
EXTENDS Integers, FiniteSets, Functions

CONSTANTS
    Accounts,       \* addresses, the zero address included
    ZeroAddress,
    Amounts,
    MaxUint         \* type(uint256).max

\* An address has 160 bits.
ASSUME AccountAssumption == ZeroAddress \in Accounts /\ IsFiniteSet(Accounts)
ASSUME AmountAssumption == MaxUint \in Nat /\ Amounts \subseteq 0 .. MaxUint

VARIABLES
    kind,
    holders,        \* AccessControl: who holds a role
    frozen,         \* isFrozen
    allowed,        \* the allow list
    paused,
    balance,
    allowance,      \* allowance[holder][spender]
    totalSupply,    \* for a FreezableToken the supply it was created with
    seized          \* history: what ForcedTransfer events took from an account

access == <<kind, holders>>
controls == <<frozen, allowed, paused>>
money == <<balance, allowance, totalSupply, seized>>
vars == <<access, controls, money>>

Kind == {"FreezableToken", "FreezableStablecoin", "OnboardableToken"}

Role == {"DEFAULT_ADMIN_ROLE", "FREEZE_MANAGER_ROLE", "WHITELIST_MANAGER_ROLE",
         "FORCED_TRANSFER_MANAGER_ROLE", "PAUSER_ROLE", "MINTER_ROLE", "BURNER_ROLE"}

Senders == Accounts \ {ZeroAddress}

AssetTypeOK ==
    /\ kind \in Kind
    /\ holders \in [Role -> SUBSET Accounts]
    /\ frozen \in SUBSET Accounts
    /\ allowed \in SUBSET Accounts
    /\ paused \in BOOLEAN
    /\ balance \in [Accounts -> Nat]
    /\ allowance \in [Accounts -> [Accounts -> 0 .. MaxUint]]
    /\ totalSupply \in Int
    /\ seized \in [Accounts -> Nat]

-------------------------------------------------------------------------------
(* Creation.                                                                *)

\* The roles a constructor or initialize() grants, each to one account.
RolesOf(k) ==
    CASE k = "FreezableToken" -> {"DEFAULT_ADMIN_ROLE", "FREEZE_MANAGER_ROLE"}
      [] k = "FreezableStablecoin" -> Role \ {"WHITELIST_MANAGER_ROLE"}
      [] k = "OnboardableToken" ->
             {"DEFAULT_ADMIN_ROLE", "FREEZE_MANAGER_ROLE", "WHITELIST_MANAGER_ROLE"}

\* A FreezableToken has one owner, who gets the supply.
InitialBalance ==
    IF kind = "FreezableToken"
    THEN \E supply \in Amounts, owner \in Senders :
             /\ holders["DEFAULT_ADMIN_ROLE"] = {owner}
             /\ holders["FREEZE_MANAGER_ROLE"] = {owner}
             /\ totalSupply = supply
             /\ balance = [a \in Accounts |-> IF a = owner THEN supply ELSE 0]
    ELSE totalSupply = 0 /\ balance = [a \in Accounts |-> 0]

Init ==
    /\ kind \in Kind
    /\ \E grantee \in [Role -> Senders] :
           holders = [r \in Role |-> IF r \in RolesOf(kind) THEN {grantee[r]} ELSE {}]
    /\ InitialBalance
    /\ frozen = {}
    /\ allowed = {}
    /\ paused = FALSE
    /\ allowance = [a \in Accounts |-> [s \in Accounts |-> 0]]
    /\ seized = [a \in Accounts |-> 0]

-------------------------------------------------------------------------------
(* Access control.                                                          *)

OnlyRole(sender, r) == sender \in Senders /\ sender \in holders[r]

GrantRole(sender, r, a) ==
    /\ OnlyRole(sender, "DEFAULT_ADMIN_ROLE")
    /\ holders' = [holders EXCEPT ![r] = @ \cup {a}]
    /\ UNCHANGED <<kind, controls, money>>

\* revokeRole by the admin, renounceRole by the holder.
RevokeRole(sender, r, a) ==
    /\ OnlyRole(sender, "DEFAULT_ADMIN_ROLE") \/ sender = a
    /\ holders' = [holders EXCEPT ![r] = @ \ {a}]
    /\ UNCHANGED <<kind, controls, money>>

-------------------------------------------------------------------------------
(* Freezing, the allow list, the pause.  A batch is a set: freezing what is *)
(* frozen returns early, and so do the others.                              *)

FreezeAccounts(sender, accounts) ==
    /\ OnlyRole(sender, "FREEZE_MANAGER_ROLE")
    /\ frozen' = frozen \cup accounts
    /\ UNCHANGED <<access, allowed, paused, money>>

UnfreezeAccounts(sender, accounts) ==
    /\ OnlyRole(sender, "FREEZE_MANAGER_ROLE")
    /\ frozen' = frozen \ accounts
    /\ UNCHANGED <<access, allowed, paused, money>>

AddToWhitelist(sender, accounts) ==
    /\ kind = "OnboardableToken"
    /\ OnlyRole(sender, "WHITELIST_MANAGER_ROLE")
    /\ allowed' = allowed \cup accounts
    /\ UNCHANGED <<access, frozen, paused, money>>

RevokeFromWhitelist(sender, accounts) ==
    /\ kind = "OnboardableToken"
    /\ OnlyRole(sender, "WHITELIST_MANAGER_ROLE")
    /\ allowed' = allowed \ accounts
    /\ UNCHANGED <<access, frozen, paused, money>>

\* Pausing what is paused reverts, and so does the opposite.
SetPaused(sender, flag) ==
    /\ kind = "FreezableStablecoin"
    /\ OnlyRole(sender, "PAUSER_ROLE")
    /\ paused # flag
    /\ paused' = flag
    /\ UNCHANGED <<access, frozen, allowed, money>>

-------------------------------------------------------------------------------
(* Movements.  A mint comes from the zero address, a burn goes to it.       *)

\* Mutant: the credit is computed from the balance before the debit.
MovedStale(bal, from, to, amount) ==
    [a \in Accounts |-> IF a = to THEN bal[a] + amount
                        ELSE IF a = from THEN bal[a] - amount ELSE bal[a]]

Moved(bal, from, to, amount) ==
    LET debited == [bal EXCEPT ![from] = @ - amount]
    IN  [debited EXCEPT ![to] = @ + amount]

\* Mutant: the recipient may be frozen.
UnfrozenSender(from, to) == from # ZeroAddress => from \notin frozen

\* The zero address is exempt, lest freezing it stop mints and burns.
Unfrozen(from, to) == {from, to} \cap frozen \subseteq {ZeroAddress}

\* Mutant: a mint does not look at the allow list.
OnboardedHolder(from, to) ==
    from # ZeroAddress /\ to # ZeroAddress => {from, to} \subseteq allowed

\* Whoever receives must be on the list; whoever sends, unless it is a burn.
Onboarded(from, to) ==
    to # ZeroAddress => {from, to} \subseteq allowed \cup {ZeroAddress}

\* Mutant: the pause is not looked at.
UpdatableInPause(from, to) ==
    /\ Unfrozen(from, to)
    /\ kind = "OnboardableToken" => Onboarded(from, to)

\* What the two _update overrides demand.
Updatable(from, to) ==
    /\ kind = "FreezableStablecoin" => ~paused
    /\ Unfrozen(from, to)
    /\ kind = "OnboardableToken" => Onboarded(from, to)

IsERC20 == kind \in {"FreezableStablecoin", "OnboardableToken"}

\* ERC20._transfer over _update.
ERC20Transfer(from, to, amount) ==
    /\ IsERC20
    /\ from # ZeroAddress /\ to # ZeroAddress
    /\ Updatable(from, to)
    /\ amount <= balance[from]
    /\ balance' = Moved(balance, from, to, amount)

Transfer(sender, to, amount) ==
    /\ sender \in Senders
    /\ ERC20Transfer(sender, to, amount)
    /\ UNCHANGED <<access, controls, allowance, totalSupply, seized>>

\* FreezableToken.transfer, to any address that is not frozen.
TokenTransfer(sender, to, amount) ==
    /\ kind = "FreezableToken"
    /\ sender \in Senders
    /\ sender \notin frozen /\ to \notin frozen
    /\ amount <= balance[sender]
    /\ balance' = Moved(balance, sender, to, amount)
    /\ UNCHANGED <<access, controls, allowance, totalSupply, seized>>

\* approve, and permit with the holder's signature.
Approve(holder, spender, amount) ==
    /\ IsERC20
    /\ holder # ZeroAddress /\ spender # ZeroAddress
    /\ allowance' = [allowance EXCEPT ![holder][spender] = amount]
    /\ UNCHANGED <<access, controls, balance, totalSupply, seized>>

\* The largest allowance is never used up.
SpendAllowance(holder, spender, amount) ==
    /\ amount <= allowance[holder][spender]
    /\ allowance' = [allowance EXCEPT ![holder][spender] =
                        IF @ = MaxUint THEN @ ELSE @ - amount]

\* Only the stablecoin also looks at the spender.
TransferFrom(sender, from, to, amount) ==
    /\ sender \in Senders
    /\ kind = "FreezableStablecoin" => sender \notin frozen
    /\ SpendAllowance(from, sender, amount)
    /\ ERC20Transfer(from, to, amount)
    /\ UNCHANGED <<access, controls, totalSupply, seized>>

Issuer(role) == IF kind = "FreezableStablecoin" THEN role ELSE "DEFAULT_ADMIN_ROLE"

Mint(sender, to, amount) ==
    /\ IsERC20
    /\ OnlyRole(sender, Issuer("MINTER_ROLE"))
    /\ to # ZeroAddress
    /\ Updatable(ZeroAddress, to)
    /\ totalSupply + amount <= MaxUint
    /\ totalSupply' = totalSupply + amount
    /\ balance' = [balance EXCEPT ![to] = @ + amount]
    /\ UNCHANGED <<access, controls, allowance, seized>>

Burn(sender, from, amount) ==
    /\ IsERC20
    /\ OnlyRole(sender, Issuer("BURNER_ROLE"))
    /\ from # ZeroAddress
    /\ Updatable(from, ZeroAddress)
    /\ amount <= balance[from]
    /\ totalSupply' = totalSupply - amount
    /\ balance' = [balance EXCEPT ![from] = @ - amount]
    /\ UNCHANGED <<access, controls, allowance, seized>>

Seizure == [from : Accounts, to : Accounts, amount : Amounts]

\* Mutant: the balance is not looked at.
SeizableBeyond(bal, s) ==
    /\ s.from # ZeroAddress /\ s.to # ZeroAddress
    /\ s.from \in frozen /\ s.to \notin frozen

\* _forceTransfer, which passes by the pause and the other checks of _update.
Seizable(bal, s) ==
    /\ s.from # ZeroAddress /\ s.to # ZeroAddress
    /\ s.from \in frozen /\ s.to \notin frozen
    /\ s.amount <= bal[s.from]

Seized(bal, s) == Moved(bal, s.from, s.to, s.amount)

Logged(log, s) == [log EXCEPT ![s.from] = @ + s.amount]

ForceTransfer(sender, s) ==
    /\ kind = "FreezableStablecoin"
    /\ OnlyRole(sender, "FORCED_TRANSFER_MANAGER_ROLE")
    /\ Seizable(balance, s)
    /\ balance' = Seized(balance, s)
    /\ seized' = Logged(seized, s)
    /\ UNCHANGED <<access, controls, allowance, totalSupply>>

\* Batches of two; the second entry finds what the first one left.
ForceTransfers(sender, s, t) ==
    /\ kind = "FreezableStablecoin"
    /\ OnlyRole(sender, "FORCED_TRANSFER_MANAGER_ROLE")
    /\ Seizable(balance, s)
    /\ Seizable(Seized(balance, s), t)
    /\ balance' = Seized(Seized(balance, s), t)
    /\ seized' = Logged(Logged(seized, s), t)
    /\ UNCHANGED <<access, controls, allowance, totalSupply>>

RoleChange ==
    \E sender \in Senders, r \in Role, a \in Accounts :
        GrantRole(sender, r, a) \/ RevokeRole(sender, r, a)

Control ==
    \E sender \in Senders :
        \/ \E accounts \in SUBSET Accounts :
               \/ FreezeAccounts(sender, accounts) \/ UnfreezeAccounts(sender, accounts)
               \/ AddToWhitelist(sender, accounts) \/ RevokeFromWhitelist(sender, accounts)
        \/ \E flag \in BOOLEAN : SetPaused(sender, flag)

Movement ==
    \E sender \in Senders, a \in Accounts, amount \in Amounts :
        \/ Transfer(sender, a, amount) \/ TokenTransfer(sender, a, amount)
        \/ Approve(sender, a, amount)
        \/ \E b \in Accounts : TransferFrom(sender, a, b, amount)
        \/ Mint(sender, a, amount) \/ Burn(sender, a, amount)

Seizing ==
    \E sender \in Senders, s \in Seizure :
        ForceTransfer(sender, s) \/ \E t \in Seizure : ForceTransfers(sender, s, t)

Next == RoleChange \/ Control \/ Movement \/ Seizing

Spec == Init /\ [][Next]_vars

-------------------------------------------------------------------------------
(* What must hold.                                                          *)

\* The contracts add and subtract unchecked: no balance can overflow because
\* together they are the supply, whose addition is checked.
SupplyIsHeld ==
    /\ totalSupply = SumFunction(balance)
    /\ \A a \in Accounts : balance[a] <= MaxUint

\* A frozen account of any token neither sends nor receives, is neither minted
\* to nor burned from; only a seizure takes from it, the amounts the events
\* tell, and nothing of a batch is lost or counted twice.
FrozenStandsStill ==
    [][\A a \in frozen : balance'[a] + seized'[a] = balance[a] + seized[a]]_vars

\* "A compliance seizure must succeed even while the token is paused": that is
\* all that moves then.  The supply stands, and nobody who is not frozen loses
\* anything, whatever allowances there are.
PausedOnlySeizes ==
    [][paused =>
           /\ totalSupply' = totalSupply
           /\ \A a \in Accounts \ frozen : balance'[a] >= balance[a]]_vars

\* "Mints and transfers require every non-zero party to be onboarded; burns do
\* not": the balance of an account off the list only falls, by what is burned,
\* though it was onboarded when it came by it.
OffboardedOnlyBurned ==
    [][kind = "OnboardableToken" =>
           \A a \in Accounts \ allowed :
               \/ balance'[a] = balance[a]
               \/ /\ balance'[a] < balance[a]
                  /\ totalSupply - totalSupply' = balance[a] - balance'[a]]_vars
===============================================================================
