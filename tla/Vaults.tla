--------------------------------- MODULE Vaults ---------------------------------
(***************************************************************************)
(* The vaults (src/src/examples/inheritance): clients that hold ether for  *)
(* their users and pay it out on an attestation only.  An AdvancedVault is *)
(* a PredicateClient, whose approvals name the function, the amount and    *)
(* the recipient; a BasicVault is a BasicPredicateClient, whose approvals  *)
(* name the user alone.                                                    *)
(*                                                                         *)
(* A payment is made with address.transfer, whose 2300 gas let the payee   *)
(* write nothing: it either takes the ether or undoes the whole call.      *)
(***************************************************************************)
EXTENDS PredicateClient

CONSTANTS
    Users,
    Amounts,        \* amounts of ether, in the units the model counts in
    Funds           \* the ether a user starts with

ASSUME FundAssumption == Amounts \subseteq Nat \ {0} /\ Funds \in Nat

\* A vault's setters are its owner's alone.
ASSUME OwnedAssumption == Proxies = {}

\* An address has 160 bits.
ASSUME UserAssumption == IsFiniteSet(Users)

VARIABLES
    balances,       \* balances[v][u], as vault v's books have it
    ether,          \* ether[v], as the chain has it
    wallet          \* the ether users hold themselves

vaultVars == <<balances, ether, wallet>>
allVars == <<systemVars, vaultVars>>

\* What an approval says: msg.sender, msg.value, and the encoded call.
Encoded(sender, value, function, to, amount) ==
    [sender |-> sender, value |-> value, function |-> function, to |-> to, amount |-> amount]

VaultCall ==
    {Encoded(u, 0, f, to, n) : u, to \in Users, n \in Amounts,
         f \in {"_executeWithdraw", "_executeTransfer"}}
        \cup {Encoded(u, n, "_executeLock", u, n) : u \in Users, n \in Amounts}

ASSUME VaultCallAssumption ==
    /\ VaultCall \subseteq Calls
    /\ \A call \in VaultCall : BareCall[call].sender = call.sender

VaultTypeOK ==
    /\ ClientTypeOK
    /\ balances \in [Clients -> [Users -> Nat]]
    /\ ether \in [Clients -> Nat]
    /\ wallet \in [Users -> Nat]

VaultInit ==
    /\ ClientInit
    /\ balances = [v \in Clients |-> [u \in Users |-> 0]]
    /\ ether = [v \in Clients |-> 0]
    /\ wallet = [u \in Users |-> Funds]

-------------------------------------------------------------------------------
(* Ether in.                                                                *)

\* Ether sent along with a call.
PayIn(v, user, amount) ==
    /\ amount <= wallet[user]
    /\ wallet' = [wallet EXCEPT ![user] = @ - amount]
    /\ ether' = [ether EXCEPT ![v] = @ + amount]

Credit(v, user, amount) == balances' = [balances EXCEPT ![v][user] = @ + amount]

Deposit(v, user, amount) ==
    /\ deployed[v]
    /\ PayIn(v, user, amount)
    /\ Credit(v, user, amount)
    /\ UNCHANGED systemVars

\* Of the lock itself there is no code yet; its period is left out.
DepositAndLock(v, user, amount, att) ==
    /\ v \notin BasicClients
    /\ ProtectedCall(v, Encoded(user, amount, "_executeLock", user, amount), att)
    /\ PayIn(v, user, amount)
    /\ Credit(v, user, amount)

\* Ether can be forced on a contract, which then knows nothing of it.
ForceEther(v, user, amount) ==
    /\ PayIn(v, user, amount)
    /\ UNCHANGED <<systemVars, balances>>

-------------------------------------------------------------------------------
(* Ether out, and from user to user.                                        *)

\* Mutant: the balance is not compared with the amount, nor the subtraction
\* checked.
CoversAnything(v, user, amount) == amount > 0

\* The comparison comes first, before the approval is spent.
Covers(v, user, amount) == amount <= balances[v][user]

\* The payee takes the ether; if it refuses, the call is undone.
PayOut(v, to, amount) ==
    /\ amount <= ether[v]
    /\ ether' = [ether EXCEPT ![v] = @ - amount]
    /\ wallet' = [wallet EXCEPT ![to] = @ + amount]

\* Mutant: a withdrawal to somebody else is encoded as one to oneself.
EncodedToSelf(user, to, amount) == Encoded(user, 0, "_executeWithdraw", user, amount)

\* withdraw and withdrawTo encode alike: to whom, and how much.
EncodedWithdrawal(user, to, amount) == Encoded(user, 0, "_executeWithdraw", to, amount)

\* withdraw pays the user, withdrawTo anybody; only an AdvancedVault has both.
Withdraw(v, user, to, amount, att) ==
    /\ v \in BasicClients => to = user
    /\ Covers(v, user, amount)
    /\ ProtectedCall(v, EncodedWithdrawal(user, to, amount), att)
    /\ balances' = [balances EXCEPT ![v][user] = @ - amount]
    /\ PayOut(v, to, amount)

\* Mutant: the credit is computed from the balance before the debit.
MovedStale(bal, from, to, amount) == [bal EXCEPT ![from] = @ - amount, ![to] = bal[to] + amount]

Moved(bal, from, to, amount) ==
    LET debited == [bal EXCEPT ![from] = @ - amount]
    IN  [debited EXCEPT ![to] = @ + amount]

TransferTo(v, user, to, amount, att) ==
    /\ v \notin BasicClients
    /\ Covers(v, user, amount)
    /\ ProtectedCall(v, Encoded(user, 0, "_executeTransfer", to, amount), att)
    /\ balances' = [balances EXCEPT ![v] = Moved(@, user, to, amount)]
    /\ UNCHANGED <<ether, wallet>>

VaultStep(v) ==
    \E user \in Users, amount \in Amounts :
        \/ Deposit(v, user, amount) \/ ForceEther(v, user, amount)
        \/ \E att \in Attestation :
               \/ DepositAndLock(v, user, amount, att)
               \/ \E to \in Users : Withdraw(v, user, to, amount, att)
               \/ \E to \in Users : TransferTo(v, user, to, amount, att)

VaultNext ==
    \/ \E v \in Clients : VaultStep(v)
    \/ ((\E v \in Clients : Configure(v)) \/ Surroundings) /\ UNCHANGED vaultVars

VaultSpec == VaultInit /\ [][VaultNext]_allVars

-------------------------------------------------------------------------------
(* What must hold.                                                          *)

\* A vault's ether covers what its books owe, through deposits, locks,
\* withdrawals to oneself and to others, and transfers to anybody.
Solvent == \A v \in Clients : SumFunction(balances[v]) <= ether[v]

\* The approval of the last function that ran.
LastApproved(log) == log[Len(log)].signature.digest.call

\* "Policy validates BOTH recipient AND amount": an AdvancedVault pays, and
\* debits a user, by the amount and to the payee an attester approved for that
\* user in the same call; a BasicVault pays the approved user.
PaidAsApproved ==
    [][\A v \in Clients : \A u \in Users :
           balances'[v][u] < balances[v][u] =>
               /\ Len(executed'[v]) = Len(executed[v]) + 1
               /\ LET approved == LastApproved(executed'[v])
                      paid == ether[v] - ether'[v]
                      to == IF v \in BasicClients THEN approved.sender ELSE approved.to
                  IN  /\ approved.sender = u
                      /\ paid > 0 => wallet'[to] = wallet[to] + paid
                      /\ v \notin BasicClients =>
                             /\ approved.amount = balances[v][u] - balances'[v][u]
                             /\ paid > 0 => paid = approved.amount
                             /\ paid = 0 => balances'[v][to] = balances[v][to] + approved.amount]_allVars
===============================================================================
