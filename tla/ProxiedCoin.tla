------------------------------ MODULE ProxiedCoin ------------------------------
(***************************************************************************)
(* The two MetaCoins.  One (src/src/examples/inheritance/MetaCoin.sol)     *)
(* inherits PredicateClient and asks for approval itself.  The other       *)
(* (src/src/examples/proxy) knows no registry: a PredicateClientProxy asks *)
(* and forwards, and the coin, a PredicateProtected contract, takes its    *)
(* orders from the proxy alone, once its owner has switched that on.  The  *)
(* proxy's own setters are open to everybody.                              *)
(*                                                                         *)
(* Each client c is a coin or the proxy before one; coins[c] are that      *)
(* coin's balances.  Ether sent along stays in the contracts for good and  *)
(* is left out.                                                            *)
(***************************************************************************)
EXTENDS PredicateClient

CONSTANTS
    NoProxy,        \* address(0)
    Users,
    Supply          \* a coin's, all its owner's at first

ASSUME ProxyAssumption == NoProxy \notin Callers
ASSUME SupplyAssumption == Supply \in Nat

\* An address has 160 bits.
ASSUME UserAssumption == IsFiniteSet(Users)

\* Neither the inheriting coin nor the proxy is a BasicPredicateClient.
ASSUME FullApprovalAssumption == BasicClients = {}

VARIABLES
    coins,
    predicateProxyEnabled,  \* in the coin behind a proxy
    predicateProxy

coinVars == <<coins, predicateProxyEnabled, predicateProxy>>
allVars == <<systemVars, coinVars>>

\* What an approval says: msg.sender, and the encoded _sendCoin.
SendCoinCall == [sender : Users, receiver : Users, amount : 0 .. Supply]

ASSUME CoinCallAssumption == SendCoinCall \subseteq Calls

\* A coin may be given any address for its proxy, one with no code included.
CoinInit ==
    /\ ClientInit
    /\ \E owner0 \in Users :
           coins = [c \in Clients |-> [u \in Users |-> IF u = owner0 THEN Supply ELSE 0]]
    /\ predicateProxyEnabled = [c \in Clients |-> FALSE]
    /\ predicateProxy \in [Clients -> Callers \cup {NoProxy}]

\* Mutant: the credit is computed from the balance before the debit.
MovedStale(bal, call) ==
    [bal EXCEPT ![call.sender] = @ - call.amount,
                ![call.receiver] = bal[call.receiver] + call.amount]

Moved(bal, call) ==
    LET debited == [bal EXCEPT ![call.sender] = @ - call.amount]
    IN  [debited EXCEPT ![call.receiver] = @ + call.amount]

\* _sendCoin.
SendCoin(c, call) ==
    /\ call.amount <= coins[c][call.sender]
    /\ coins' = [coins EXCEPT ![c] = Moved(@, call)]
    /\ UNCHANGED <<predicateProxyEnabled, predicateProxy>>

\* Mutant: the modifier asks whether there is a proxy, not whether it calls.
HasProxy(c, caller) == predicateProxyEnabled[c] => predicateProxy[c] # NoProxy

\* onlyPredicateProxy.
OnlyPredicateProxy(c, caller) ==
    predicateProxyEnabled[c] => predicateProxy[c] # NoProxy /\ caller = predicateProxy[c]

\* sendCoin of the one coin, proxySendCoin before the other.
ApprovedSend(c, call, att) ==
    /\ ProtectedCall(c, call, att)
    /\ c \in Proxies => OnlyPredicateProxy(c, c)
    /\ SendCoin(c, call)

\* proxySendCoin of a proxy whose registry is a contract of somebody's own.
UnapprovedSend(c, call) ==
    /\ c \in Proxies
    /\ ForeignCall(c, call)
    /\ OnlyPredicateProxy(c, c)
    /\ SendCoin(c, call)

\* sendCoin of the coin behind a proxy, called by somebody else.
DirectSend(c, caller, call) ==
    /\ c \in Proxies
    /\ OnlyPredicateProxy(c, caller)
    /\ SendCoin(c, call)
    /\ UNCHANGED systemVars

\* setPredicateProxy, enablePredicateProxy and disablePredicateProxy, by the
\* coin's owner.
SetProxy(c) ==
    /\ c \in Proxies
    /\ \/ /\ \E p \in Callers \cup {NoProxy} :
                 predicateProxy' = [predicateProxy EXCEPT ![c] = p]
          /\ UNCHANGED predicateProxyEnabled
       \/ /\ \E on \in BOOLEAN :
                 predicateProxyEnabled' = [predicateProxyEnabled EXCEPT ![c] = on]
          /\ UNCHANGED predicateProxy
    /\ UNCHANGED <<systemVars, coins>>

CoinNext ==
    \/ \E c \in Clients, call \in SendCoinCall :
           \/ \E att \in Attestation : ApprovedSend(c, call, att)
           \/ UnapprovedSend(c, call)
           \/ \E caller \in Callers \ Clients : DirectSend(c, caller, call)
    \/ \E c \in Clients : SetProxy(c)
    \/ ((\E c \in Clients : Configure(c)) \/ Surroundings) /\ UNCHANGED coinVars

CoinSpec == CoinInit /\ [][CoinNext]_allVars

-------------------------------------------------------------------------------
(* What must hold.                                                          *)

\* A coin without a proxy, or one that obeys its proxy alone.
Guarded(c) == c \in Proxies => predicateProxyEnabled[c] /\ predicateProxy[c] = c

\* What a client ran last.
LastRun(c) == executed[c][Len(executed[c])]

\* A guarded coin leaves an account only by a call of that account's own to the
\* coin or its proxy, in that amount and to that receiver, and on the answer of
\* the registry set at the moment, whatever the owner and the openness of the
\* proxy's setters made of registry, policy, proxy and switch before.  One of
\* Predicate's registries answers for that very call only; and nothing but one
\* of them moves the coin that asks for itself.
GuardedCoinMoves ==
    [][\A c \in Clients : \A u \in Users :
           Guarded(c) /\ coins'[c][u] < coins[c][u] =>
               LET run == LastRun(c)'
               IN  /\ Len(executed'[c]) = Len(executed[c]) + 1
                   /\ run.call.sender = u
                   /\ run.call.amount = coins[c][u] - coins'[c][u]
                   /\ coins'[c] = Moved(coins[c], run.call)
                   /\ run.registry = clientRegistry[c]
                   /\ IF run.registry \in Registries
                      THEN run.signature.digest.call = run.call
                      ELSE c \in Proxies]_allVars

\* The documents promise more: "The proxy validates transactions through
\* Predicate before forwarding them", so that a guarded coin moves as an
\* attester approved, through a proxy too.
CoinsMoveAsApproved ==
    [][\A c \in Clients : \A u \in Users :
           Guarded(c) /\ coins'[c][u] < coins[c][u] =>
               LET run == LastRun(c)'
               IN  /\ Len(executed'[c]) = Len(executed[c]) + 1
                   /\ run.registry \in Registries
                   /\ run.signature.digest.call.sender = u
                   /\ run.signature.digest.call.amount = coins[c][u] - coins'[c][u]]_allVars

\* However a coin is moved, by itself, by a proxy or by anybody while it has
\* none, to oneself included, its users have together what its owner began with.
CoinsConserved == \A c \in Clients : SumFunction(coins[c]) = Supply
===============================================================================
