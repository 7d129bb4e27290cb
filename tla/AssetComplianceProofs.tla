------------------------- MODULE AssetComplianceProofs -------------------------
(***************************************************************************)
(* What freezing, pausing and the allow list guarantee for any number of   *)
(* accounts, any amounts and any distribution of the roles.                *)
(***************************************************************************)
EXTENDS AssetCompliance, DataProofs

\* A movement within a ledger: who loses, who gains, and that a transfer to
\* oneself changes nothing.
LEMMA MovedAmounts ==
    ASSUME NEW bal \in [Accounts -> Nat], NEW from \in Accounts, NEW to \in Accounts,
           NEW amount \in Nat, amount <= bal[from]
    PROVE  /\ Moved(bal, from, to, amount) \in [Accounts -> Nat]
           /\ \A a \in Accounts \ {from, to} : Moved(bal, from, to, amount)[a] = bal[a]
           /\ from # to => /\ Moved(bal, from, to, amount)[from] = bal[from] - amount
                           /\ Moved(bal, from, to, amount)[to] = bal[to] + amount
           /\ from = to => Moved(bal, from, to, amount)[from] = bal[from]
<1> DEFINE debited == [bal EXCEPT ![from] = bal[from] - amount]
<1>1. bal[from] \in Nat /\ bal[from] - amount \in Nat
    OBVIOUS
<1>2. debited \in [Accounts -> Nat]
    BY <1>1
<1>3. Moved(bal, from, to, amount) = [debited EXCEPT ![to] = debited[to] + amount]
    BY DEF Moved
<1>4. debited[to] + amount \in Nat
    BY <1>2
<1>5. \A a \in Accounts : debited[a] = IF a = from THEN bal[from] - amount ELSE bal[a]
    OBVIOUS
<1>6. bal[from] - amount + amount = bal[from]
    BY <1>1
<1> HIDE DEF debited
<1> QED BY <1>2, <1>3, <1>4, <1>5, <1>6

LEMMA AmountNat == ASSUME NEW amount \in Amounts PROVE amount \in Nat
BY AmountAssumption

(***************************************************************************)
(* Every step leaves the balances alone or is one of four movements.  The  *)
(* properties are about these, so each step is classified once.            *)
(***************************************************************************)
Ordinary ==     \* a transfer of any kind
    \E from \in Accounts, to \in Accounts, amount \in Nat :
        /\ amount <= balance[from]
        /\ balance' = Moved(balance, from, to, amount)
        /\ from \notin frozen /\ to \notin frozen
        /\ ~(kind = "FreezableStablecoin" /\ paused)
        /\ kind = "OnboardableToken" => from \in allowed /\ to \in allowed
        /\ UNCHANGED <<totalSupply, seized>>

Issued ==
    \E to \in Accounts, amount \in Nat :
        /\ balance' = [balance EXCEPT ![to] = @ + amount]
        /\ to \notin frozen
        /\ ~(kind = "FreezableStablecoin" /\ paused)
        /\ kind = "OnboardableToken" => to \in allowed
        /\ IsERC20 /\ totalSupply' = totalSupply + amount
        /\ totalSupply' <= MaxUint
        /\ UNCHANGED seized

Burned ==
    \E from \in Accounts, amount \in Nat :
        /\ amount <= balance[from]
        /\ balance' = [balance EXCEPT ![from] = @ - amount]
        /\ from \notin frozen
        /\ ~(kind = "FreezableStablecoin" /\ paused)
        /\ IsERC20 /\ totalSupply' = totalSupply - amount
        /\ UNCHANGED seized

\* One seizure, or two of which the second finds what the first one left.
SeizedOnce ==
    \E s \in Seizure :
        /\ Seizable(balance, s)
        /\ balance' = Seized(balance, s) /\ seized' = Logged(seized, s)

SeizedTwice ==
    \E s, t \in Seizure :
        /\ Seizable(balance, s) /\ Seizable(Seized(balance, s), t)
        /\ balance' = Seized(Seized(balance, s), t)
        /\ seized' = Logged(Logged(seized, s), t)

Taken ==
    /\ kind = "FreezableStablecoin"
    /\ UNCHANGED totalSupply
    /\ SeizedOnce \/ SeizedTwice

\* The order of the unfrozen and the frozen parties of a movement.
LEMMA PartiesChecked ==
    ASSUME NEW from \in Accounts, NEW to \in Accounts, Updatable(from, to)
    PROVE  /\ from # ZeroAddress => from \notin frozen
           /\ to # ZeroAddress => to \notin frozen
           /\ ~(kind = "FreezableStablecoin" /\ paused)
           /\ kind = "OnboardableToken" /\ to # ZeroAddress =>
                  /\ to \in allowed
                  /\ from # ZeroAddress => from \in allowed
BY DEF Updatable, Unfrozen, Onboarded

LEMMA StepKinds ==
    ASSUME AssetTypeOK, Next, paused => kind = "FreezableStablecoin"
    PROVE  \/ UNCHANGED <<balance, totalSupply, seized>>
           \/ Ordinary \/ Issued \/ Burned \/ Taken
<1>1. CASE RoleChange
    BY <1>1 DEF RoleChange, GrantRole, RevokeRole, money
<1>2. CASE Control
    BY <1>2 DEF Control, FreezeAccounts, UnfreezeAccounts, AddToWhitelist,
                RevokeFromWhitelist, SetPaused, money
<1>3. ASSUME NEW from \in Accounts, NEW to \in Accounts, NEW amount \in Amounts,
             ERC20Transfer(from, to, amount), UNCHANGED <<totalSupply, seized>>
      PROVE  Ordinary
    BY <1>3, PartiesChecked, AmountNat DEF ERC20Transfer, Ordinary
<1>4. CASE Movement
    <2> PICK sender \in Senders, a \in Accounts, amount \in Amounts :
            \/ Transfer(sender, a, amount) \/ TokenTransfer(sender, a, amount)
            \/ Approve(sender, a, amount)
            \/ \E b \in Accounts : TransferFrom(sender, a, b, amount)
            \/ Mint(sender, a, amount) \/ Burn(sender, a, amount)
        BY <1>4 DEF Movement
    <2>1. sender \in Accounts /\ amount \in Nat /\ ZeroAddress \in Accounts
        BY AmountNat, AccountAssumption DEF Senders
    <2>2. CASE Transfer(sender, a, amount)
        BY <2>1, <2>2, <1>3 DEF Transfer
    <2>3. CASE TokenTransfer(sender, a, amount)
        BY <2>1, <2>3 DEF TokenTransfer, Ordinary
    <2>4. CASE Approve(sender, a, amount)
        BY <2>4 DEF Approve
    <2>5. CASE \E b \in Accounts : TransferFrom(sender, a, b, amount)
        BY <2>5, <1>3 DEF TransferFrom
    <2>6. CASE Mint(sender, a, amount)
        <3>1. /\ a \notin frozen /\ ~(kind = "FreezableStablecoin" /\ paused)
              /\ kind = "OnboardableToken" => a \in allowed
            BY <2>1, <2>6, PartiesChecked DEF Mint
        <3> QED BY <2>1, <2>6, <3>1 DEF Mint, Issued
    <2>7. CASE Burn(sender, a, amount)
        <3>1. a \notin frozen /\ ~(kind = "FreezableStablecoin" /\ paused)
            BY <2>1, <2>7, PartiesChecked DEF Burn
        <3> QED BY <2>1, <2>7, <3>1 DEF Burn, Burned
    <2> QED BY <2>2, <2>3, <2>4, <2>5, <2>6, <2>7
<1>5. CASE Seizing
    <2>1. ASSUME NEW sender \in Senders, NEW s \in Seizure, ForceTransfer(sender, s)
          PROVE  Taken
        BY <2>1 DEF ForceTransfer, Taken, SeizedOnce
    <2>2. ASSUME NEW sender \in Senders, NEW s \in Seizure, NEW t \in Seizure,
                 ForceTransfers(sender, s, t)
          PROVE  Taken
        BY <2>2 DEF ForceTransfers, Taken, SeizedTwice
    <2>3. PICK sender \in Senders, s \in Seizure :
              ForceTransfer(sender, s) \/ \E t \in Seizure : ForceTransfers(sender, s, t)
        BY <1>5 DEF Seizing
    <2> QED BY <2>1, <2>2, <2>3
<1> QED BY <1>1, <1>2, <1>4, <1>5 DEF Next

\* What one seizure does to a ledger and to the log of seizures.
LEMMA SeizureAmounts ==
    ASSUME NEW bal \in [Accounts -> Nat], NEW log \in [Accounts -> Nat],
           NEW s \in Seizure, Seizable(bal, s)
    PROVE  /\ Seized(bal, s) \in [Accounts -> Nat] /\ Logged(log, s) \in [Accounts -> Nat]
           /\ \A a \in frozen \cap Accounts : Seized(bal, s)[a] + Logged(log, s)[a] = bal[a] + log[a]
           /\ \A a \in Accounts \ frozen : Seized(bal, s)[a] >= bal[a]
<1>1. /\ s.from \in Accounts /\ s.to \in Accounts /\ s.amount \in Nat
      /\ s.amount <= bal[s.from] /\ s.from \in frozen /\ s.to \notin frozen
    BY AmountNat DEF Seizure, Seizable
<1>2. /\ Seized(bal, s) \in [Accounts -> Nat]
      /\ \A a \in Accounts \ {s.from, s.to} : Seized(bal, s)[a] = bal[a]
      /\ Seized(bal, s)[s.from] = bal[s.from] - s.amount
      /\ Seized(bal, s)[s.to] = bal[s.to] + s.amount
    <2> DEFINE from == s.from
               to == s.to
               amount == s.amount
    <2>1. from \in Accounts /\ to \in Accounts /\ amount \in Nat /\ amount <= bal[from] /\ from # to
        BY <1>1
    <2>2. Seized(bal, s) = Moved(bal, from, to, amount)
        BY DEF Seized
    <2> HIDE DEF from, to, amount
    <2>3. /\ Seized(bal, s) \in [Accounts -> Nat]
          /\ \A a \in Accounts \ {from, to} : Seized(bal, s)[a] = bal[a]
          /\ Seized(bal, s)[from] = bal[from] - amount
          /\ Seized(bal, s)[to] = bal[to] + amount
        BY <2>1, <2>2, MovedAmounts
    <2> QED BY <2>3 DEF from, to, amount
<1>3. /\ Logged(log, s) \in [Accounts -> Nat]
      /\ Logged(log, s)[s.from] = log[s.from] + s.amount
      /\ \A a \in Accounts \ {s.from} : Logged(log, s)[a] = log[a]
    BY <1>1 DEF Logged
<1>4. ASSUME NEW a \in frozen \cap Accounts
      PROVE  Seized(bal, s)[a] + Logged(log, s)[a] = bal[a] + log[a]
    <2>1. CASE a = s.from
        <3>1. bal[a] - s.amount + (log[a] + s.amount) = bal[a] + log[a]
            BY <1>1, <2>1
        <3> QED BY <1>2, <1>3, <2>1, <3>1
    <2>2. CASE a # s.from
        BY <1>1, <1>2, <1>3, <2>2
    <2> QED BY <2>1, <2>2
<1>5. ASSUME NEW a \in Accounts \ frozen PROVE Seized(bal, s)[a] >= bal[a]
    <2>1. bal[a] + s.amount >= bal[a] /\ bal[a] >= bal[a]
        BY <1>1
    <2> QED BY <1>1, <1>2, <2>1
<1> QED BY <1>2, <1>3, <1>4, <1>5

\* So of one or two seizures.
LEMMA TakenAmounts ==
    ASSUME AssetTypeOK, Taken
    PROVE  /\ balance' \in [Accounts -> Nat] /\ seized' \in [Accounts -> Nat]
           /\ \A a \in frozen : balance'[a] + seized'[a] = balance[a] + seized[a]
           /\ \A a \in Accounts \ frozen : balance'[a] >= balance[a]
<1>1. /\ balance \in [Accounts -> Nat] /\ seized \in [Accounts -> Nat]
      /\ \A a \in frozen : a \in Accounts
    BY DEF AssetTypeOK
<1>2. CASE SeizedOnce
    BY <1>1, <1>2, SeizureAmounts DEF SeizedOnce
<1>3. CASE SeizedTwice
    <2> PICK s \in Seizure, t \in Seizure :
            /\ Seizable(balance, s) /\ Seizable(Seized(balance, s), t)
            /\ balance' = Seized(Seized(balance, s), t)
            /\ seized' = Logged(Logged(seized, s), t)
        BY <1>3 DEF SeizedTwice
    <2> DEFINE bal == Seized(balance, s)
               log == Logged(seized, s)
    <2>1. /\ bal \in [Accounts -> Nat] /\ log \in [Accounts -> Nat]
          /\ \A a \in frozen \cap Accounts : bal[a] + log[a] = balance[a] + seized[a]
          /\ \A a \in Accounts \ frozen : bal[a] >= balance[a]
        BY <1>1, SeizureAmounts
    <2>2. Seizable(bal, t) /\ balance' = Seized(bal, t) /\ seized' = Logged(log, t)
        OBVIOUS
    <2> HIDE DEF bal, log
    <2>3. /\ Seized(bal, t) \in [Accounts -> Nat] /\ Logged(log, t) \in [Accounts -> Nat]
          /\ \A a \in frozen \cap Accounts :
                 Seized(bal, t)[a] + Logged(log, t)[a] = bal[a] + log[a]
          /\ \A a \in Accounts \ frozen : Seized(bal, t)[a] >= bal[a]
        BY <2>1, <2>2, SeizureAmounts
    <2>4. \A a \in Accounts \ frozen : balance'[a] >= balance[a]
        BY <1>1, <2>1, <2>2, <2>3
    <2>5. \A a \in frozen : balance'[a] + seized'[a] = balance[a] + seized[a]
        BY <1>1, <2>1, <2>2, <2>3
    <2> QED BY <2>2, <2>3, <2>4, <2>5
<1> QED BY <1>2, <1>3 DEF Taken

-------------------------------------------------------------------------------
(* The invariant: types, and that only the stablecoin is ever paused.       *)

AssetInv == AssetTypeOK /\ (paused => kind = "FreezableStablecoin")

LEMMA MoneyStep ==
    ASSUME AssetInv, Next
    PROVE  /\ balance' \in [Accounts -> Nat] /\ totalSupply' \in Int
           /\ seized' \in [Accounts -> Nat]
<1>1. CASE UNCHANGED <<balance, totalSupply, seized>>
    BY <1>1 DEF AssetInv, AssetTypeOK
<1>2. CASE Ordinary
    BY <1>2, MovedAmounts DEF Ordinary, AssetInv, AssetTypeOK
<1>3. CASE Issued
    BY <1>3 DEF Issued, AssetInv, AssetTypeOK
<1>4. CASE Burned
    <2> PICK from \in Accounts, amount \in Nat :
            /\ amount <= balance[from]
            /\ balance' = [balance EXCEPT ![from] = @ - amount]
            /\ totalSupply' = totalSupply - amount
            /\ UNCHANGED seized
        BY <1>4 DEF Burned
    <2>1. balance[from] - amount \in Nat
        BY DEF AssetInv, AssetTypeOK
    <2> QED BY <2>1 DEF AssetInv, AssetTypeOK
<1>5. CASE Taken
    BY <1>5, TakenAmounts DEF Taken, AssetInv, AssetTypeOK
<1> QED BY <1>1, <1>2, <1>3, <1>4, <1>5, StepKinds DEF AssetInv

LEMMA AllowanceStep ==
    ASSUME AssetTypeOK, Next
    PROVE  allowance' \in [Accounts -> [Accounts -> 0 .. MaxUint]]
<1> USE DEF AssetTypeOK
<1>1. ASSUME NEW holder \in Accounts, NEW spender \in Accounts, NEW n \in 0 .. MaxUint,
             allowance' = [allowance EXCEPT ![holder][spender] = n]
      PROVE  allowance' \in [Accounts -> [Accounts -> 0 .. MaxUint]]
    BY <1>1
<1>2. ASSUME NEW sender \in Senders, NEW a \in Accounts, NEW amount \in Amounts,
             Approve(sender, a, amount)
      PROVE  allowance' \in [Accounts -> [Accounts -> 0 .. MaxUint]]
    BY <1>1, <1>2, AmountAssumption DEF Approve, Senders
<1>3. ASSUME NEW sender \in Senders, NEW a \in Accounts, NEW b \in Accounts,
             NEW amount \in Amounts, TransferFrom(sender, a, b, amount)
      PROVE  allowance' \in [Accounts -> [Accounts -> 0 .. MaxUint]]
    <2> DEFINE old == allowance[a][sender]
               n == IF old = MaxUint THEN old ELSE old - amount
    <2>1. sender \in Accounts /\ old \in 0 .. MaxUint /\ amount \in Nat /\ amount <= old
        BY <1>3, AmountNat DEF Senders, TransferFrom, SpendAllowance
    <2>2. n \in 0 .. MaxUint
        BY <2>1, AmountAssumption
    <2>3. allowance' = [allowance EXCEPT ![a][sender] = n]
        BY <1>3 DEF TransferFrom, SpendAllowance
    <2> HIDE DEF n
    <2> QED BY <2>1, <2>2, <2>3, <1>1
<1>4. CASE UNCHANGED allowance
    BY <1>4
<1>5. CASE Movement
    <2> USE <1>5 DEF Movement
    <2>1. PICK sender \in Senders, a \in Accounts, amount \in Amounts :
            \/ UNCHANGED allowance
            \/ Approve(sender, a, amount)
            \/ \E b \in Accounts : TransferFrom(sender, a, b, amount)
        BY DEF Transfer, TokenTransfer, Mint, Burn
    <2> QED BY <1>2, <1>3, <1>4, <2>1
<1>6. CASE RoleChange \/ Control \/ Seizing
    <2>1. CASE RoleChange
        BY <1>4, <2>1 DEF RoleChange, GrantRole, RevokeRole, money
    <2>2. CASE Control
        BY <1>4, <2>2 DEF Control, FreezeAccounts, UnfreezeAccounts, AddToWhitelist,
                          RevokeFromWhitelist, SetPaused, money
    <2>3. CASE Seizing
        <3>1. PICK sender \in Senders, s \in Seizure :
                  ForceTransfer(sender, s) \/ \E t \in Seizure : ForceTransfers(sender, s, t)
            BY <2>3 DEF Seizing
        <3> QED BY <1>4, <3>1 DEF ForceTransfer, ForceTransfers
    <2> QED BY <1>6, <2>1, <2>2, <2>3
<1> QED BY <1>5, <1>6 DEF Next

LEMMA ControlStep ==
    ASSUME AssetInv, Next
    PROVE  /\ kind' \in Kind /\ holders' \in [Role -> SUBSET Accounts]
           /\ frozen' \in SUBSET Accounts /\ allowed' \in SUBSET Accounts
           /\ paused' \in BOOLEAN
           /\ paused' => kind' = "FreezableStablecoin"
<1> USE DEF AssetInv, AssetTypeOK
<1>1. CASE RoleChange
    BY <1>1 DEF RoleChange, GrantRole, RevokeRole, controls
<1>2. CASE Control
    BY <1>2 DEF Control, FreezeAccounts, UnfreezeAccounts, AddToWhitelist,
                RevokeFromWhitelist, SetPaused, access
<1>3. CASE Movement \/ Seizing
    <2>1. UNCHANGED <<access, controls>>
        <3>1. CASE Movement
            BY <3>1 DEF Movement, Transfer, TokenTransfer, Approve, TransferFrom, Mint, Burn
        <3>2. CASE Seizing
            <4>1. PICK sender \in Senders, s \in Seizure :
                      ForceTransfer(sender, s) \/ \E t \in Seizure : ForceTransfers(sender, s, t)
                BY <3>2 DEF Seizing
            <4> QED BY <4>1 DEF ForceTransfer, ForceTransfers
        <3> QED BY <1>3, <3>1, <3>2
    <2> QED BY <2>1 DEF access, controls
<1> QED BY <1>1, <1>2, <1>3 DEF Next

LEMMA AssetInvHolds == Spec => []AssetInv
<1>1. Init => AssetInv
    <2> SUFFICES ASSUME Init PROVE AssetInv
        OBVIOUS
    <2>1. holders \in [Role -> SUBSET Accounts]
        BY DEF Init, Senders
    <2>2. balance \in [Accounts -> Nat] /\ totalSupply \in Int
        BY AmountNat DEF Init, InitialBalance
    <2>3. allowance \in [Accounts -> [Accounts -> 0 .. MaxUint]]
        BY AmountAssumption DEF Init
    <2> QED BY <2>1, <2>2, <2>3 DEF Init, AssetInv, AssetTypeOK
<1>2. AssetInv /\ [Next]_vars => AssetInv'
    <2> SUFFICES ASSUME AssetInv, [Next]_vars PROVE AssetInv'
        OBVIOUS
    <2>1. CASE Next
        BY <2>1, MoneyStep, AllowanceStep, ControlStep DEF AssetInv, AssetTypeOK
    <2>2. CASE UNCHANGED vars
        BY <2>2 DEF AssetInv, AssetTypeOK, vars, access, controls, money
    <2> QED BY <2>1, <2>2
<1> QED BY <1>1, <1>2, PTL DEF Spec

-------------------------------------------------------------------------------
(* The theorems.                                                            *)

\* Every reachable state of the three tokens is type correct.
THEOREM TypeCorrect == Spec => []AssetTypeOK
<1>1. AssetInv => AssetTypeOK
    BY DEF AssetInv
<1> QED BY <1>1, AssetInvHolds, PTL

\* Only seizures touch a frozen balance, and they are told in full.
THEOREM FrozenStill == Spec => FrozenStandsStill
<1>1. ASSUME AssetInv, Next
      PROVE  \A a \in frozen : balance'[a] + seized'[a] = balance[a] + seized[a]
    <2> USE DEF AssetInv, AssetTypeOK
    <2>1. CASE UNCHANGED <<balance, totalSupply, seized>>
        BY <2>1
    <2>2. CASE Ordinary
        <3> PICK from \in Accounts, to \in Accounts, amount \in Nat :
                /\ amount <= balance[from]
                /\ balance' = Moved(balance, from, to, amount)
                /\ from \notin frozen /\ to \notin frozen
                /\ UNCHANGED seized
            BY <2>2 DEF Ordinary
        <3>1. \A a \in Accounts \ {from, to} : balance'[a] = balance[a]
            BY <1>1, MovedAmounts
        <3> QED BY <1>1, <3>1
    <2>3. CASE Issued
        BY <1>1, <2>3 DEF Issued
    <2>4. CASE Burned
        BY <1>1, <2>4 DEF Burned
    <2>5. CASE Taken
        BY <1>1, <2>5, TakenAmounts
    <2> QED BY <1>1, <2>1, <2>2, <2>3, <2>4, <2>5, StepKinds
<1>2. AssetInv /\ [Next]_vars =>
          [\A a \in frozen : balance'[a] + seized'[a] = balance[a] + seized[a]]_vars
    BY <1>1
<1> QED BY <1>2, AssetInvHolds, PTL DEF Spec, FrozenStandsStill

\* While the stablecoin is paused nothing moves but what is seized.
THEOREM PauseHolds == Spec => PausedOnlySeizes
<1>1. ASSUME AssetInv, Next, paused
      PROVE  /\ totalSupply' = totalSupply
             /\ \A a \in Accounts \ frozen : balance'[a] >= balance[a]
    <2> USE DEF AssetInv, AssetTypeOK
    <2>1. ~Ordinary /\ ~Issued /\ ~Burned
        BY <1>1 DEF Ordinary, Issued, Burned
    <2>2. CASE UNCHANGED <<balance, totalSupply, seized>>
        BY <1>1, <2>2
    <2>3. CASE Taken
        BY <1>1, <2>3, TakenAmounts DEF Taken
    <2> QED BY <1>1, <2>1, <2>2, <2>3, StepKinds
<1>2. AssetInv /\ [Next]_vars =>
          [paused =>
              /\ totalSupply' = totalSupply
              /\ \A a \in Accounts \ frozen : balance'[a] >= balance[a]]_vars
    BY <1>1
<1> QED BY <1>2, AssetInvHolds, PTL DEF Spec, PausedOnlySeizes

\* Off the allow list, a balance falls by what is burned and never rises.
THEOREM OffboardedHolds == Spec => OffboardedOnlyBurned
<1> DEFINE Fate(a) ==
        \/ balance'[a] = balance[a]
        \/ /\ balance'[a] < balance[a]
           /\ totalSupply - totalSupply' = balance[a] - balance'[a]
<1>1. ASSUME AssetInv, Next, kind = "OnboardableToken", NEW a \in Accounts \ allowed
      PROVE  Fate(a)
    <2> USE DEF AssetInv, AssetTypeOK
    <2>1. CASE UNCHANGED <<balance, totalSupply, seized>>
        BY <2>1
    <2>2. CASE Ordinary
        <3> PICK from \in Accounts, to \in Accounts, amount \in Nat :
                /\ amount <= balance[from]
                /\ balance' = Moved(balance, from, to, amount)
                /\ from \in allowed /\ to \in allowed
            BY <1>1, <2>2 DEF Ordinary
        <3>1. balance \in [Accounts -> Nat]
            BY <1>1
        <3>2. \A b \in Accounts \ {from, to} : balance'[b] = balance[b]
            BY <3>1, MovedAmounts
        <3> QED BY <1>1, <3>2
    <2>3. CASE Issued
        BY <1>1, <2>3 DEF Issued
    <2>4. CASE Burned
        <3> PICK from \in Accounts, amount \in Nat :
                /\ amount <= balance[from]
                /\ balance' = [balance EXCEPT ![from] = @ - amount]
                /\ totalSupply' = totalSupply - amount
            BY <2>4 DEF Burned
        <3>1. CASE a # from
            BY <1>1, <3>1
        <3>2. CASE a = from
            <4>1. balance'[a] = balance[a] - amount /\ balance[a] \in Nat
                BY <1>1, <3>2
            <4>2. totalSupply - (totalSupply - amount) = balance[a] - (balance[a] - amount)
                BY <1>1, <4>1
            <4>3. amount = 0 \/ balance[a] - amount < balance[a]
                BY <4>1
            <4> QED BY <4>1, <4>2, <4>3
        <3> QED BY <3>1, <3>2
    <2>5. CASE Taken
        BY <1>1, <2>5 DEF Taken
    <2> QED BY <1>1, <2>1, <2>2, <2>3, <2>4, <2>5, StepKinds
<1>2. AssetInv /\ [Next]_vars =>
          [kind = "OnboardableToken" =>
               \A a \in Accounts \ allowed :
                   \/ balance'[a] = balance[a]
                   \/ /\ balance'[a] < balance[a]
                      /\ totalSupply - totalSupply' = balance[a] - balance'[a]]_vars
    BY <1>1
<1> QED BY <1>2, AssetInvHolds, PTL DEF Spec, OffboardedOnlyBurned

-------------------------------------------------------------------------------
(***************************************************************************)
(* The supply.  SupplyIsHeld is inductive with the bound of the supply     *)
(* itself: whatever keeps the sum of the balances keeps each below it.     *)
(***************************************************************************)
SupplyInv ==
    /\ totalSupply = SumFunction(balance)
    /\ totalSupply <= MaxUint

LEMMA SupplyMoved ==
    ASSUME NEW bal \in [Accounts -> Nat], NEW from \in Accounts, NEW to \in Accounts,
           NEW amount \in Nat, amount <= bal[from]
    PROVE  SumFunction(Moved(bal, from, to, amount)) = SumFunction(bal)
<1> DEFINE new == Moved(bal, from, to, amount)
<1>1. /\ new \in [Accounts -> Nat]
      /\ \A a \in Accounts \ {from, to} : new[a] = bal[a]
      /\ from # to => new[from] = bal[from] - amount /\ new[to] = bal[to] + amount
      /\ from = to => new[from] = bal[from]
    BY MovedAmounts
<1> HIDE DEF new
<1>2. bal \in [Accounts -> Int] /\ new \in [Accounts -> Int] /\ IsFiniteSet(Accounts)
    BY <1>1, AccountAssumption
<1>3. CASE from = to
    <2>1. new = bal
        BY <1>1, <1>3
    <2> QED BY <2>1 DEF new
<1>4. CASE from # to
    <2>1. new[from] + new[to] = bal[from] + bal[to]
        BY <1>1, <1>4
    <2>2. SumFunction(new) = SumFunction(bal)
        BY <1>1, <1>2, <1>4, <2>1, SumOfMove
    <2> QED BY <2>2 DEF new
<1> QED BY <1>3, <1>4

LEMMA SupplySeized ==
    ASSUME NEW bal \in [Accounts -> Nat], NEW s \in Seizure, Seizable(bal, s)
    PROVE  SumFunction(Seized(bal, s)) = SumFunction(bal)
<1>1. s.from \in Accounts /\ s.to \in Accounts /\ s.amount \in Nat /\ s.amount <= bal[s.from]
    BY AmountNat DEF Seizure, Seizable
<1> QED BY <1>1, SupplyMoved DEF Seized

\* A mint is checked against the supply, a burn against a balance.
LEMMA SupplyStep ==
    ASSUME AssetInv, SupplyInv, Next
    PROVE  SupplyInv'
<1>1. /\ balance \in [Accounts -> Nat] /\ balance \in [Accounts -> Int]
      /\ seized \in [Accounts -> Nat] /\ totalSupply \in Int
      /\ MaxUint \in Nat /\ IsFiniteSet(Accounts)
      /\ totalSupply = SumFunction(balance) /\ totalSupply <= MaxUint
    BY AmountAssumption, AccountAssumption DEF AssetInv, AssetTypeOK, SupplyInv
<1>2. CASE UNCHANGED <<balance, totalSupply, seized>>
    BY <1>1, <1>2 DEF SupplyInv
<1>3. CASE Ordinary
    BY <1>1, <1>3, SupplyMoved DEF Ordinary, SupplyInv
<1>4. CASE Issued
    <2>0. PICK to \in Accounts, amount \in Nat :
            /\ balance' = [balance EXCEPT ![to] = @ + amount]
            /\ totalSupply' = totalSupply + amount
            /\ totalSupply' <= MaxUint
        BY <1>4 DEF Issued
    <2>1. /\ balance' \in [Accounts -> Int] /\ amount \in Int
          /\ balance'[to] = balance[to] + amount
          /\ \A a \in Accounts \ {to} : balance'[a] = balance[a]
        BY <1>1, <2>0
    <2>2. SumFunction(balance') = SumFunction(balance) + amount
        BY <1>1, <2>1, SumChanged
    <2> QED BY <1>1, <2>0, <2>2 DEF SupplyInv
<1>5. CASE Burned
    <2>0. PICK from \in Accounts, amount \in Nat :
            /\ balance' = [balance EXCEPT ![from] = @ - amount]
            /\ totalSupply' = totalSupply - amount
        BY <1>5 DEF Burned
    <2>1. /\ balance' \in [Accounts -> Int] /\ -amount \in Int
          /\ balance'[from] = balance[from] + (-amount)
          /\ \A a \in Accounts \ {from} : balance'[a] = balance[a]
        BY <1>1, <2>0
    <2>2. SumFunction(balance') = SumFunction(balance) + (-amount)
        BY <1>1, <2>1, SumChanged
    <2> QED BY <1>1, <2>0, <2>2 DEF SupplyInv
<1>6. CASE Taken
    <2>1. SumFunction(balance') = SumFunction(balance)
        <3>1. CASE SeizedOnce
            BY <1>1, <3>1, SupplySeized DEF SeizedOnce
        <3>2. CASE SeizedTwice
            <4> PICK s \in Seizure, t \in Seizure :
                    /\ Seizable(balance, s) /\ Seizable(Seized(balance, s), t)
                    /\ balance' = Seized(Seized(balance, s), t)
                BY <3>2 DEF SeizedTwice
            <4>1. Seized(balance, s) \in [Accounts -> Nat]
                BY <1>1, SeizureAmounts
            <4> QED BY <1>1, <4>1, SupplySeized
        <3> QED BY <1>6, <3>1, <3>2 DEF Taken
    <2> QED BY <1>1, <1>6, <2>1 DEF Taken, SupplyInv
<1> QED BY <1>2, <1>3, <1>4, <1>5, <1>6, StepKinds DEF AssetInv

LEMMA SupplyInit == Init => SupplyInv
<1> SUFFICES ASSUME Init PROVE SupplyInv
    OBVIOUS
<1>1. IsFiniteSet(Accounts) /\ MaxUint \in Nat
    BY AccountAssumption, AmountAssumption
<1>2. CASE kind = "FreezableToken"
    <2>1. PICK supply \in Amounts, owner \in Senders :
              /\ totalSupply = supply
              /\ balance = [a \in Accounts |-> IF a = owner THEN supply ELSE 0]
        BY <1>2 DEF Init, InitialBalance
    <2>2. supply \in Int /\ supply <= MaxUint /\ owner \in Accounts
        BY <1>1, AmountAssumption DEF Senders
    <2> QED BY <1>1, <2>1, <2>2, SumOfOne DEF SupplyInv
<1>3. CASE kind # "FreezableToken"
    BY <1>1, <1>3, SumOfZeros DEF Init, InitialBalance, SupplyInv
<1> QED BY <1>2, <1>3

\* The balances of the three tokens add up to the supply, so that unchecked
\* additions of balances do not overflow.
THEOREM SupplyHeld == Spec => []SupplyIsHeld
<1>1. AssetInv /\ SupplyInv /\ [Next]_vars => SupplyInv'
    <2> SUFFICES ASSUME AssetInv, SupplyInv, [Next]_vars PROVE SupplyInv'
        OBVIOUS
    <2>1. CASE UNCHANGED vars
        BY <2>1 DEF SupplyInv, vars, money
    <2> QED BY <2>1, SupplyStep
<1>2. AssetInv /\ SupplyInv => SupplyIsHeld
    <2> SUFFICES ASSUME AssetInv, SupplyInv PROVE SupplyIsHeld
        OBVIOUS
    <2>1. /\ IsFiniteSet(Accounts) /\ balance \in [Accounts -> Nat]
          /\ DOMAIN balance = Accounts /\ MaxUint \in Nat
        BY AccountAssumption, AmountAssumption DEF AssetInv, AssetTypeOK
    <2>2. /\ SumFunctionOnSet(balance, Accounts) \in Nat
          /\ \A a \in Accounts : balance[a] <= SumFunctionOnSet(balance, Accounts)
        BY <2>1, SumBounds
    <2> QED BY <2>1, <2>2 DEF SupplyInv, SupplyIsHeld, SumFunction
<1> QED BY <1>1, <1>2, SupplyInit, AssetInvHolds, PTL DEF Spec
===============================================================================
