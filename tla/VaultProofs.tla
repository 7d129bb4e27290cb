------------------------------ MODULE VaultProofs ------------------------------
(***************************************************************************)
(* What a client's theorems give its vaults, for any users, amounts and    *)
(* recipients.                                                             *)
(***************************************************************************)
EXTENDS Vaults, ClientProofs

LEMMA VaultCallType ==
    ASSUME NEW u \in Users, NEW to \in Users, NEW n \in Amounts
    PROVE  /\ Encoded(u, 0, "_executeWithdraw", to, n) \in VaultCall
           /\ Encoded(u, 0, "_executeTransfer", to, n) \in VaultCall
           /\ Encoded(u, n, "_executeLock", u, n) \in VaultCall
BY DEF VaultCall

\* A vault's step is a step of a client, or leaves clients and registries alone.
LEMMA VaultIsClientStep == [VaultNext]_allVars => [SystemNext]_systemVars
<1> SUFFICES ASSUME [VaultNext]_allVars PROVE [SystemNext]_systemVars
    OBVIOUS
<1>1. ASSUME NEW v \in Clients, NEW u \in Users, NEW n \in Amounts, NEW att \in Attestation,
             DepositAndLock(v, u, n, att)
      PROVE  SystemNext
    BY <1>1, VaultCallType, VaultCallAssumption DEF DepositAndLock, SystemNext
<1>2. ASSUME NEW v \in Clients, NEW u \in Users, NEW to \in Users, NEW n \in Amounts,
             NEW att \in Attestation, Withdraw(v, u, to, n, att)
      PROVE  SystemNext
    BY <1>2, VaultCallType, VaultCallAssumption DEF Withdraw, EncodedWithdrawal, SystemNext
<1>3. ASSUME NEW v \in Clients, NEW u \in Users, NEW to \in Users, NEW n \in Amounts,
             NEW att \in Attestation, TransferTo(v, u, to, n, att)
      PROVE  SystemNext
    BY <1>3, VaultCallType, VaultCallAssumption DEF TransferTo, SystemNext
<1>4. ASSUME NEW v \in Clients, VaultStep(v) PROVE [SystemNext]_systemVars
    BY <1>1, <1>2, <1>3, <1>4 DEF VaultStep, Deposit, ForceEther
<1>5. ASSUME NEW v \in Clients, Configure(v) PROVE SystemNext
    BY <1>5 DEF SystemNext
<1>6. CASE Surroundings
    BY <1>6 DEF SystemNext
<1>7. CASE UNCHANGED allVars
    BY <1>7 DEF allVars
<1> QED
    BY <1>4, <1>5, <1>6, <1>7 DEF VaultNext

\* Every vault is a client: what holds of clients holds of vaults.
THEOREM VaultIsClient == VaultSpec => SystemSpec
<1>1. VaultInit => ClientInit
    BY DEF VaultInit
<1> QED
    BY <1>1, VaultIsClientStep, PTL DEF VaultSpec, SystemSpec

(***************************************************************************)
(* What a vault's functions do to its books, one lemma each.               *)
(***************************************************************************)
BooksTypeOK ==
    /\ balances \in [Clients -> [Users -> Nat]]
    /\ ether \in [Clients -> Nat]
    /\ wallet \in [Users -> Nat]

LEMMA PayInFacts ==
    ASSUME BooksTypeOK, NEW v \in Clients, NEW u \in Users, NEW n \in Amounts, PayIn(v, u, n)
    PROVE  /\ ether' \in [Clients -> Nat] /\ wallet' \in [Users -> Nat]
           /\ \A w \in Clients : ether'[w] >= ether[w]
BY FundAssumption DEF BooksTypeOK, PayIn

LEMMA CreditFacts ==
    ASSUME BooksTypeOK, NEW v \in Clients, NEW u \in Users, NEW n \in Amounts, Credit(v, u, n)
    PROVE  /\ balances' \in [Clients -> [Users -> Nat]]
           /\ \A w \in Clients, x \in Users : balances'[w][x] >= balances[w][x]
<1>1. n \in Nat
    BY FundAssumption
<1>2. balances' = [balances EXCEPT ![v] = [balances[v] EXCEPT ![u] = @ + n]]
    BY DEF Credit, BooksTypeOK
<1>3. [balances[v] EXCEPT ![u] = @ + n] \in [Users -> Nat]
    BY <1>1 DEF BooksTypeOK
<1> QED
    BY <1>1, <1>2, <1>3 DEF BooksTypeOK

LEMMA WithdrawFacts ==
    ASSUME BooksTypeOK, NEW v \in Clients, NEW u \in Users, NEW to \in Users, NEW n \in Amounts,
           NEW att \in Attestation, Withdraw(v, u, to, n, att)
    PROVE  /\ BooksTypeOK'
           /\ balances'[v][u] = balances[v][u] - n
           /\ ether[v] - ether'[v] = n /\ wallet'[to] = wallet[to] + n
           /\ \A w \in Clients, x \in Users :
                  w # v \/ x # u => balances'[w][x] = balances[w][x]
<1>1. n \in Nat /\ n <= balances[v][u] /\ n <= ether[v]
    BY FundAssumption DEF Withdraw, Covers, PayOut
<1>2. balances' = [balances EXCEPT ![v] = [balances[v] EXCEPT ![u] = @ - n]]
    BY DEF Withdraw, BooksTypeOK
<1>3. [balances[v] EXCEPT ![u] = @ - n] \in [Users -> Nat]
    BY <1>1 DEF BooksTypeOK
<1>4. /\ ether' = [ether EXCEPT ![v] = @ - n] /\ wallet' = [wallet EXCEPT ![to] = @ + n]
    BY DEF Withdraw, PayOut
<1>5. ether' \in [Clients -> Nat] /\ wallet' \in [Users -> Nat]
    BY <1>1, <1>4 DEF BooksTypeOK
<1>6. ether[v] - ether'[v] = n /\ wallet'[to] = wallet[to] + n
    BY <1>1, <1>4 DEF BooksTypeOK
<1>7. balances' \in [Clients -> [Users -> Nat]]
    BY <1>2, <1>3 DEF BooksTypeOK
<1>8. /\ balances'[v][u] = balances[v][u] - n
      /\ \A w \in Clients, x \in Users : w # v \/ x # u => balances'[w][x] = balances[w][x]
    BY <1>2 DEF BooksTypeOK
<1> QED
    BY <1>5, <1>6, <1>7, <1>8 DEF BooksTypeOK

\* A transfer to oneself changes nothing; any other debits one user and credits
\* another.
LEMMA TransferFacts ==
    ASSUME BooksTypeOK, NEW v \in Clients, NEW u \in Users, NEW to \in Users, NEW n \in Amounts,
           NEW att \in Attestation, TransferTo(v, u, to, n, att)
    PROVE  /\ BooksTypeOK' /\ ether' = ether
           /\ \A w \in Clients, x \in Users : balances'[w][x] < balances[w][x] =>
                  /\ w = v /\ x = u
                  /\ balances'[v][u] = balances[v][u] - n
                  /\ balances'[v][to] = balances[v][to] + n
<1> DEFINE bal == balances[v]
           debited == [bal EXCEPT ![u] = @ - n]
           moved == [debited EXCEPT ![to] = @ + n]
<1>1. n \in Nat /\ n <= bal[u] /\ bal \in [Users -> Nat]
    BY FundAssumption DEF TransferTo, Covers, BooksTypeOK
<1>2. balances' = [balances EXCEPT ![v] = moved] /\ ether' = ether /\ wallet' = wallet
    BY DEF TransferTo, Moved
<1>3. debited \in [Users -> Nat] /\ debited[u] = bal[u] - n
      /\ \A x \in Users \ {u} : debited[x] = bal[x]
    BY <1>1
<1> HIDE DEF debited
<1>4. moved \in [Users -> Nat] /\ moved[to] = debited[to] + n
      /\ \A x \in Users \ {to} : moved[x] = debited[x]
    BY <1>1, <1>3
<1> HIDE DEF moved
<1>5. \A x \in Users : moved[x] < bal[x] =>
          x = u /\ moved[u] = bal[u] - n /\ moved[to] = bal[to] + n
    BY <1>1, <1>3, <1>4
<1>6. balances' \in [Clients -> [Users -> Nat]]
    BY <1>2, <1>4 DEF BooksTypeOK
<1>7. balances'[v] = moved /\ \A w \in Clients \ {v} : balances'[w] = balances[w]
    BY <1>2 DEF BooksTypeOK
<1>8. \A w \in Clients, x \in Users : balances'[w][x] < balances[w][x] =>
          w = v /\ x = u /\ moved[u] = bal[u] - n /\ moved[to] = bal[to] + n
    BY <1>5, <1>7 DEF BooksTypeOK
<1> QED
    BY <1>2, <1>6, <1>7, <1>8 DEF BooksTypeOK

LEMMA BooksStep == BooksTypeOK /\ [VaultNext]_allVars => BooksTypeOK'
<1> SUFFICES ASSUME BooksTypeOK, [VaultNext]_allVars PROVE BooksTypeOK'
    OBVIOUS
<1>1. ASSUME NEW v \in Clients, NEW u \in Users, NEW n \in Amounts,
             Deposit(v, u, n) \/ \E att \in Attestation : DepositAndLock(v, u, n, att)
      PROVE  BooksTypeOK'
    BY <1>1, PayInFacts, CreditFacts DEF Deposit, DepositAndLock, BooksTypeOK
<1>2. ASSUME NEW v \in Clients, NEW u \in Users, NEW n \in Amounts, ForceEther(v, u, n)
      PROVE  BooksTypeOK'
    BY <1>2, PayInFacts DEF ForceEther, BooksTypeOK
<1>3. ASSUME NEW v \in Clients, VaultStep(v) PROVE BooksTypeOK'
    BY <1>1, <1>2, <1>3, WithdrawFacts, TransferFacts DEF VaultStep
<1>4. CASE UNCHANGED vaultVars
    BY <1>4 DEF vaultVars, BooksTypeOK
<1> QED
    BY <1>3, <1>4 DEF VaultNext, allVars

LEMMA BooksTypeCorrect == VaultSpec => []BooksTypeOK
<1>1. VaultInit => BooksTypeOK
    BY FundAssumption DEF VaultInit, BooksTypeOK
<1> QED
    BY <1>1, BooksStep, PTL DEF VaultSpec

\* No balance, no vault's ether and no wallet is ever below zero.
THEOREM VaultTypeCorrect == VaultSpec => []VaultTypeOK
<1>1. SystemInv /\ BooksTypeOK => VaultTypeOK
    BY DEF SystemInv, BooksTypeOK, VaultTypeOK
<1> QED
    BY <1>1, VaultIsClient, SystemAlwaysSound, BooksTypeCorrect, PTL

\* The approval a protected call spends is the last one logged.
LEMMA LastFacts ==
    ASSUME ClientTypeOK, NEW v \in Clients, NEW call \in Calls, NEW att \in Attestation,
           ProtectedCall(v, call, att)
    PROVE  /\ Len(executed'[v]) = Len(executed[v]) + 1
           /\ LastApproved(executed'[v]) = AuthorizedCall(v, call)
<1>1. /\ Len(executed'[v]) = Len(executed[v]) + 1
      /\ executed'[v][Len(executed[v]) + 1].signature = att.signature
    BY LongerLog
<1> QED
    BY <1>1, ApprovalFacts DEF LastApproved

\* The vault pays whom, and debits by what, the approval of the call names.
PaysAsApproved(v, u) ==
    /\ Len(executed'[v]) = Len(executed[v]) + 1
    /\ LET approved == LastApproved(executed'[v])
           paid == ether[v] - ether'[v]
           to == IF v \in BasicClients THEN approved.sender ELSE approved.to
       IN  /\ approved.sender = u
           /\ paid > 0 => wallet'[to] = wallet[to] + paid
           /\ v \notin BasicClients =>
                  /\ approved.amount = balances[v][u] - balances'[v][u]
                  /\ paid > 0 => paid = approved.amount
                  /\ paid = 0 => balances'[v][to] = balances[v][to] + approved.amount

LEMMA WithdrawPays ==
    ASSUME ClientTypeOK, BooksTypeOK, NEW v \in Clients, NEW u \in Users, NEW to \in Users,
           NEW n \in Amounts, NEW att \in Attestation, Withdraw(v, u, to, n, att)
    PROVE  PaysAsApproved(v, u)
<1> DEFINE call == EncodedWithdrawal(u, to, n)
<1>1. /\ call \in Calls /\ BareCall[call].sender = u
      /\ call.sender = u /\ call.to = to /\ call.amount = n
    BY VaultCallType, VaultCallAssumption DEF EncodedWithdrawal, Encoded
<1> HIDE DEF call
<1>2. ProtectedCall(v, call, att) /\ (v \in BasicClients => to = u)
    BY DEF Withdraw, call
<1>3. /\ Len(executed'[v]) = Len(executed[v]) + 1
      /\ LastApproved(executed'[v]) = AuthorizedCall(v, call)
    BY <1>1, <1>2, LastFacts
<1>4. n \in Nat \ {0} /\ balances[v][u] \in Nat
    BY FundAssumption DEF BooksTypeOK
<1>5. /\ balances[v][u] - balances'[v][u] = n
      /\ ether[v] - ether'[v] = n /\ wallet'[to] = wallet[to] + n
    BY <1>4, WithdrawFacts
<1>6. CASE v \in BasicClients
    BY <1>1, <1>2, <1>3, <1>5, <1>6 DEF PaysAsApproved, AuthorizedCall
<1>7. CASE v \notin BasicClients
    BY <1>1, <1>3, <1>4, <1>5, <1>7 DEF PaysAsApproved, AuthorizedCall
<1> QED
    BY <1>6, <1>7

LEMMA TransferPays ==
    ASSUME ClientTypeOK, BooksTypeOK, NEW v \in Clients, NEW u \in Users, NEW to \in Users,
           NEW n \in Amounts, NEW att \in Attestation, TransferTo(v, u, to, n, att),
           balances'[v][u] < balances[v][u]
    PROVE  PaysAsApproved(v, u)
<1> DEFINE call == Encoded(u, 0, "_executeTransfer", to, n)
<1>1. call \in Calls /\ call.sender = u /\ call.to = to /\ call.amount = n
    BY VaultCallType, VaultCallAssumption DEF Encoded
<1> HIDE DEF call
<1>2. ProtectedCall(v, call, att) /\ v \notin BasicClients
    BY DEF TransferTo, call
<1>3. /\ Len(executed'[v]) = Len(executed[v]) + 1
      /\ LastApproved(executed'[v]) = call
    BY <1>1, <1>2, LastFacts DEF AuthorizedCall
<1>4. /\ balances[v][u] \in Nat /\ n \in Nat /\ ether[v] \in Nat
    BY FundAssumption DEF BooksTypeOK
<1>5. /\ balances'[v][u] = balances[v][u] - n /\ balances'[v][to] = balances[v][to] + n
      /\ ether' = ether
    BY TransferFacts
<1>6. balances[v][u] - balances'[v][u] = n /\ ether[v] - ether'[v] = 0
    BY <1>4, <1>5
<1> QED
    BY <1>1, <1>2, <1>3, <1>5, <1>6 DEF PaysAsApproved

\* Whoever pays, how much and to whom, is what the approval spent in the same
\* call says, in every vault.
THEOREM VaultPaysAsApproved == VaultSpec => PaidAsApproved
<1> DEFINE Paid ==
        \A v \in Clients : \A u \in Users :
            balances'[v][u] < balances[v][u] => PaysAsApproved(v, u)
<1>1. ASSUME ClientTypeOK, BooksTypeOK, [VaultNext]_allVars PROVE Paid
    <2> SUFFICES ASSUME NEW v \in Clients, NEW u \in Users, balances'[v][u] < balances[v][u]
                 PROVE  PaysAsApproved(v, u)
        OBVIOUS
    <2>1. balances[v][u] \in Nat
        BY <1>1 DEF BooksTypeOK
    <2>2. ASSUME NEW w \in Clients, NEW x \in Users, NEW n \in Amounts, Credit(w, x, n)
          PROVE  FALSE
        <3>1. balances'[v][u] >= balances[v][u] /\ balances'[v][u] \in Nat
            BY <1>1, <2>2, CreditFacts
        <3> QED
            BY <2>1, <3>1
    <2>3. balances' # balances
        BY <2>1
    <2>4. PICK w \in Clients, x \in Users, n \in Amounts, to \in Users, att \in Attestation :
              Withdraw(w, x, to, n, att) \/ TransferTo(w, x, to, n, att)
        BY <1>1, <2>2, <2>3 DEF VaultNext, VaultStep, Deposit, DepositAndLock, ForceEther,
                                allVars, vaultVars
    <2>5. CASE Withdraw(w, x, to, n, att)
        <3>1. w = v /\ x = u
            BY <1>1, <2>1, <2>5, WithdrawFacts
        <3> QED
            BY <1>1, <2>5, <3>1, WithdrawPays
    <2>6. CASE TransferTo(w, x, to, n, att)
        <3>1. w = v /\ x = u
            BY <1>1, <2>6, TransferFacts
        <3> QED
            BY <1>1, <2>6, <3>1, TransferPays
    <2> QED
        BY <2>4, <2>5, <2>6
<1>2. ClientTypeOK /\ BooksTypeOK /\ [VaultNext]_allVars => [Paid]_allVars
    BY <1>1
<1>3. SystemInv => ClientTypeOK
    BY DEF SystemInv
<1>4. [Paid]_allVars => [\A v \in Clients : \A u \in Users :
           balances'[v][u] < balances[v][u] =>
               /\ Len(executed'[v]) = Len(executed[v]) + 1
               /\ LET approved == LastApproved(executed'[v])
                      paid == ether[v] - ether'[v]
                      to == IF v \in BasicClients THEN approved.sender ELSE approved.to
                  IN  /\ approved.sender = u
                      /\ paid > 0 => wallet'[to] = wallet[to] + paid
                      /\ v \notin BasicClients =>
                             /\ approved.amount = balances[v][u] - balances'[v][u]
                             /\ paid > 0 => paid = approved.amount
                             /\ paid = 0 => balances'[v][to] = balances[v][to] + approved.amount]_allVars
    BY DEF PaysAsApproved
<1> HIDE DEF Paid
<1> QED
    BY <1>2, <1>3, <1>4, VaultIsClient, SystemAlwaysSound, BooksTypeCorrect, PTL
    DEF VaultSpec, PaidAsApproved

(***************************************************************************)
(* Solvency is inductive with the types of the books: each function        *)
(* changes the sum of a vault's books by what it changes its ether, or     *)
(* keeps both; only ether forced on a vault makes a difference.            *)
(***************************************************************************)
Owed(v) == SumFunction(balances[v])

\* The books of one vault change for one user only.
LEMMA OwedChanged ==
    ASSUME BooksTypeOK, BooksTypeOK', NEW v \in Clients, NEW u \in Users, NEW d \in Int,
           balances'[v][u] = balances[v][u] + d,
           \A x \in Users \ {u} : balances'[v][x] = balances[v][x]
    PROVE  Owed(v)' = Owed(v) + d
<1> DEFINE f == balances[v]
           g == balances'[v]
<1>1. f \in [Users -> Int] /\ g \in [Users -> Int] /\ IsFiniteSet(Users)
    BY UserAssumption DEF BooksTypeOK
<1>2. g[u] = f[u] + d /\ \A x \in Users \ {u} : g[x] = f[x]
    OBVIOUS
<1> HIDE DEF f, g
<1>3. SumFunction(g) = SumFunction(f) + d
    BY <1>1, <1>2, SumChanged
<1> QED
    BY <1>3 DEF f, g, Owed

\* A deposit, with or without a lock.
LEMMA DepositOwed ==
    ASSUME BooksTypeOK, NEW v \in Clients, NEW u \in Users, NEW n \in Amounts,
           PayIn(v, u, n), Credit(v, u, n)
    PROVE  /\ Owed(v)' = Owed(v) + n /\ ether'[v] = ether[v] + n
           /\ \A w \in Clients \ {v} : balances'[w] = balances[w] /\ ether'[w] = ether[w]
<1>1. n \in Nat /\ BooksTypeOK'
    BY FundAssumption, PayInFacts, CreditFacts DEF BooksTypeOK
<1>2. /\ balances'[v][u] = balances[v][u] + n
      /\ \A x \in Users \ {u} : balances'[v][x] = balances[v][x]
      /\ \A w \in Clients \ {v} : balances'[w] = balances[w]
    BY <1>1 DEF Credit, BooksTypeOK
<1>3. ether'[v] = ether[v] + n /\ \A w \in Clients \ {v} : ether'[w] = ether[w]
    BY <1>1 DEF PayIn, BooksTypeOK
<1>4. Owed(v)' = Owed(v) + n
    BY <1>1, <1>2, OwedChanged
<1> QED
    BY <1>2, <1>3, <1>4

LEMMA WithdrawOwed ==
    ASSUME BooksTypeOK, NEW v \in Clients, NEW u \in Users, NEW to \in Users, NEW n \in Amounts,
           NEW att \in Attestation, Withdraw(v, u, to, n, att)
    PROVE  /\ Owed(v)' = Owed(v) - n /\ ether'[v] = ether[v] - n
           /\ \A w \in Clients \ {v} : balances'[w] = balances[w] /\ ether'[w] = ether[w]
<1>1. n \in Nat /\ BooksTypeOK'
    BY FundAssumption, WithdrawFacts
<1>2. /\ balances' = [balances EXCEPT ![v][u] = @ - n]
      /\ ether' = [ether EXCEPT ![v] = @ - n]
    BY DEF Withdraw, PayOut
<1>3. /\ balances'[v][u] = balances[v][u] + (-n)
      /\ \A x \in Users \ {u} : balances'[v][x] = balances[v][x]
      /\ \A w \in Clients \ {v} : balances'[w] = balances[w]
    BY <1>1, <1>2 DEF BooksTypeOK
<1>4. ether'[v] = ether[v] - n /\ \A w \in Clients \ {v} : ether'[w] = ether[w]
    BY <1>2 DEF BooksTypeOK
<1>5. -n \in Int
    BY <1>1
<1>6. Owed(v)' = Owed(v) + (-n)
    BY <1>1, <1>3, <1>5, OwedChanged
<1>7. Owed(v) \in Int
    <2>1. IsFiniteSet(Users) /\ balances[v] \in [Users -> Nat]
        BY UserAssumption DEF BooksTypeOK
    <2>2. \A x \in Users : balances[v][x] \in Int
        BY <2>1
    <2>3. DOMAIN balances[v] = Users
        BY <2>1
    <2> QED
        BY <2>1, <2>2, <2>3, SumType DEF Owed, SumFunction
<1> QED
    BY <1>1, <1>3, <1>4, <1>6, <1>7

\* From user to user, oneself included.
LEMMA TransferOwed ==
    ASSUME BooksTypeOK, NEW v \in Clients, NEW u \in Users, NEW to \in Users, NEW n \in Amounts,
           NEW att \in Attestation, TransferTo(v, u, to, n, att)
    PROVE  /\ Owed(v)' = Owed(v) /\ ether' = ether
           /\ \A w \in Clients \ {v} : balances'[w] = balances[w]
<1> DEFINE f == balances[v]
           debited == [f EXCEPT ![u] = @ - n]
           g == [debited EXCEPT ![to] = @ + n]
<1>1. n \in Nat /\ f \in [Users -> Nat] /\ IsFiniteSet(Users)
    BY FundAssumption, UserAssumption DEF BooksTypeOK
<1>2. balances' = [balances EXCEPT ![v] = g] /\ ether' = ether
    BY DEF TransferTo, Moved
<1>3. /\ debited \in [Users -> Int] /\ debited[u] = f[u] - n
      /\ \A x \in Users \ {u} : debited[x] = f[x]
    BY <1>1
<1> HIDE DEF debited
<1>4. /\ g \in [Users -> Int] /\ g[to] = debited[to] + n
      /\ \A x \in Users \ {to} : g[x] = debited[x]
    BY <1>1, <1>3
<1> HIDE DEF g
<1>5. balances'[v] = g /\ \A w \in Clients \ {v} : balances'[w] = balances[w]
    BY <1>2 DEF BooksTypeOK
<1> HIDE DEF f
<1>6. f \in [Users -> Int] /\ f[u] \in Int /\ f[to] \in Int
    BY <1>1
<1>7. CASE u = to
    <2>1. g[u] = f[u] /\ \A x \in Users : g[x] = f[x]
        BY <1>1, <1>3, <1>4, <1>6, <1>7
    <2>2. g = f
        BY <1>4, <1>6, <2>1
    <2> QED
        BY <1>2, <1>5, <2>2 DEF Owed, f
<1>8. CASE u # to
    <2>1. g[u] + g[to] = f[u] + f[to]
        BY <1>1, <1>3, <1>4, <1>6, <1>8
    <2>2. \A x \in Users \ {u, to} : g[x] = f[x]
        BY <1>3, <1>4
    <2>3. SumFunction(g) = SumFunction(f)
        BY <1>1, <1>4, <1>6, <1>8, <2>1, <2>2, SumOfMove
    <2> QED
        BY <1>2, <1>5, <2>3 DEF Owed, f
<1> QED
    BY <1>7, <1>8

LEMMA SolventStep == BooksTypeOK /\ Solvent /\ [VaultNext]_allVars => Solvent'
<1> SUFFICES ASSUME BooksTypeOK, Solvent, [VaultNext]_allVars PROVE Solvent'
    OBVIOUS
<1>1. \A v \in Clients : ether[v] \in Nat /\ Owed(v) \in Int /\ Owed(v) <= ether[v]
    <2> TAKE v \in Clients
    <2>1. IsFiniteSet(Users) /\ balances[v] \in [Users -> Nat] /\ ether[v] \in Nat
        BY UserAssumption DEF BooksTypeOK
    <2>2. (\A x \in Users : balances[v][x] \in Int) /\ DOMAIN balances[v] = Users
        BY <2>1
    <2>3. Owed(v) \in Int
        BY <2>1, <2>2, SumType DEF Owed, SumFunction
    <2> QED
        BY <2>1, <2>3 DEF Solvent, Owed
<1>2. \A n \in Amounts : n \in Nat
    BY FundAssumption
<1>3. ASSUME NEW v \in Clients, NEW u \in Users, NEW n \in Amounts,
             PayIn(v, u, n), Credit(v, u, n)
      PROVE  Solvent'
    <2>1. /\ Owed(v)' = Owed(v) + n /\ ether'[v] = ether[v] + n
          /\ \A w \in Clients \ {v} : balances'[w] = balances[w] /\ ether'[w] = ether[w]
        BY <1>3, DepositOwed
    <2>2. Owed(v)' <= ether'[v]
        BY <1>1, <1>2, <2>1
    <2>3. \A w \in Clients \ {v} : Owed(w)' <= ether'[w]
        BY <1>1, <2>1 DEF Owed
    <2> QED
        BY <2>2, <2>3 DEF Solvent, Owed
<1>4. ASSUME NEW v \in Clients, NEW u \in Users, NEW n \in Amounts, ForceEther(v, u, n)
      PROVE  Solvent'
    <2>1. \A w \in Clients : ether'[w] \in Nat /\ ether'[w] >= ether[w]
        BY <1>4, PayInFacts DEF ForceEther
    <2>2. \A w \in Clients : Owed(w)' = Owed(w)
        BY <1>4 DEF ForceEther, Owed
    <2>3. \A w \in Clients : Owed(w)' <= ether'[w]
        BY <1>1, <2>1, <2>2
    <2> QED
        BY <2>3 DEF Solvent, Owed
<1>5. ASSUME NEW v \in Clients, NEW u \in Users, NEW to \in Users, NEW n \in Amounts,
             NEW att \in Attestation, Withdraw(v, u, to, n, att)
      PROVE  Solvent'
    <2>1. /\ Owed(v)' = Owed(v) - n /\ ether'[v] = ether[v] - n
          /\ \A w \in Clients \ {v} : balances'[w] = balances[w] /\ ether'[w] = ether[w]
        BY <1>5, WithdrawOwed
    <2>2. Owed(v)' <= ether'[v]
        BY <1>1, <1>2, <2>1
    <2>3. \A w \in Clients \ {v} : Owed(w)' <= ether'[w]
        BY <1>1, <2>1 DEF Owed
    <2> QED
        BY <2>2, <2>3 DEF Solvent, Owed
<1>6. ASSUME NEW v \in Clients, NEW u \in Users, NEW to \in Users, NEW n \in Amounts,
             NEW att \in Attestation, TransferTo(v, u, to, n, att)
      PROVE  Solvent'
    <2>1. /\ Owed(v)' = Owed(v) /\ ether' = ether
          /\ \A w \in Clients \ {v} : balances'[w] = balances[w]
        BY <1>6, TransferOwed
    <2>2. \A w \in Clients : Owed(w)' <= ether'[w]
        BY <1>1, <2>1 DEF Owed
    <2> QED
        BY <2>2 DEF Solvent, Owed
<1>7. ASSUME NEW v \in Clients, VaultStep(v) PROVE Solvent'
    BY <1>3, <1>4, <1>5, <1>6, <1>7 DEF VaultStep, Deposit, DepositAndLock
<1>8. CASE UNCHANGED vaultVars
    BY <1>8 DEF vaultVars, Solvent
<1> QED
    BY <1>7, <1>8 DEF VaultNext, allVars

\* A vault's ether covers its books after any sequence of calls of any of its
\* users, whatever approvals there are and however much ether it is forced to
\* take.
THEOREM VaultSolvent == VaultSpec => []Solvent
<1>1. VaultInit => Solvent
    <2> SUFFICES ASSUME VaultInit PROVE Solvent
        OBVIOUS
    <2>1. \A v \in Clients : balances[v] = [u \in Users |-> 0] /\ ether[v] = 0
        BY DEF VaultInit
    <2>2. SumFunction([u \in Users |-> 0]) = 0
        BY UserAssumption, SumOfZeros
    <2> QED
        BY <2>1, <2>2 DEF Solvent
<1> QED
    BY <1>1, SolventStep, BooksTypeCorrect, PTL DEF VaultSpec

\* No withdrawal that the books allow fails for want of ether.
THEOREM WithdrawalsCovered ==
    VaultSpec => [](\A v \in Clients : \A u \in Users : balances[v][u] <= ether[v])
<1> DEFINE Covered == \A v \in Clients : \A u \in Users : balances[v][u] <= ether[v]
<1>1. BooksTypeOK /\ Solvent => Covered
    <2> SUFFICES ASSUME BooksTypeOK, Solvent, NEW v \in Clients, NEW u \in Users
                 PROVE  balances[v][u] <= ether[v]
        OBVIOUS
    <2> DEFINE f == balances[v]
    <2>1. /\ IsFiniteSet(Users) /\ f \in [Users -> Nat] /\ ether[v] \in Nat
          /\ DOMAIN f = Users /\ SumFunction(f) <= ether[v]
        BY UserAssumption DEF BooksTypeOK, Solvent
    <2> HIDE DEF f
    <2>2. SumFunctionOnSet(f, Users) \in Nat /\ f[u] <= SumFunctionOnSet(f, Users)
        BY <2>1, SumBounds
    <2>3. f[u] <= ether[v]
        BY <2>1, <2>2 DEF SumFunction
    <2> QED
        BY <2>3 DEF f
<1> QED
    BY <1>1, VaultSolvent, BooksTypeCorrect, PTL
===============================================================================
