------------------------------ MODULE CoinProofs -------------------------------
(***************************************************************************)
(* What a client's theorems give the two coins, for any users, any supply  *)
(* and any proxies.                                                        *)
(***************************************************************************)
EXTENDS ProxiedCoin, ClientProofs

\* A coin's step is a step of a client, or leaves clients and registries alone.
LEMMA CoinIsClientStep == [CoinNext]_allVars => [SystemNext]_systemVars
<1> SUFFICES ASSUME [CoinNext]_allVars PROVE [SystemNext]_systemVars
    OBVIOUS
<1>1. ASSUME NEW c \in Clients, NEW call \in SendCoinCall, NEW att \in Attestation,
             ApprovedSend(c, call, att)
      PROVE  SystemNext
    BY <1>1, CoinCallAssumption DEF ApprovedSend, SystemNext
<1>6. ASSUME NEW c \in Clients, NEW call \in SendCoinCall, UnapprovedSend(c, call)
      PROVE  SystemNext
    BY <1>6, CoinCallAssumption DEF UnapprovedSend, SystemNext
<1>2. ASSUME NEW c \in Clients, NEW caller, NEW call, DirectSend(c, caller, call)
      PROVE  UNCHANGED systemVars
    BY <1>2 DEF DirectSend
<1>3. ASSUME NEW c \in Clients, SetProxy(c) PROVE UNCHANGED systemVars
    BY <1>3 DEF SetProxy
<1>4. CASE (\E c \in Clients : Configure(c)) \/ Surroundings
    BY <1>4 DEF SystemNext
<1>5. CASE UNCHANGED allVars
    BY <1>5 DEF allVars
<1> QED
    BY <1>1, <1>2, <1>3, <1>4, <1>5, <1>6 DEF CoinNext

\* A coin that asks for approval itself, and the proxy before one that does
\* not, are clients: what holds of clients holds of them.
THEOREM CoinIsClient == CoinSpec => SystemSpec
<1>1. CoinInit => ClientInit
    BY DEF CoinInit
<1> QED
    BY <1>1, CoinIsClientStep, PTL DEF CoinSpec, SystemSpec

(***************************************************************************)
(* What a transfer of coins does to the balances of one coin.              *)
(***************************************************************************)
CoinsTypeOK == coins \in [Clients -> [Users -> Nat]]

LEMMA MovedFacts ==
    ASSUME NEW bal \in [Users -> Nat], NEW call \in SendCoinCall, call.amount <= bal[call.sender]
    PROVE  /\ Moved(bal, call) \in [Users -> Nat]
           /\ SumFunction(Moved(bal, call)) = SumFunction(bal)
           /\ \A u \in Users : Moved(bal, call)[u] < bal[u] =>
                  u = call.sender /\ bal[u] - Moved(bal, call)[u] = call.amount
<1> DEFINE debited == [bal EXCEPT ![call.sender] = @ - call.amount]
           moved == [debited EXCEPT ![call.receiver] = @ + call.amount]
<1>1. /\ call.sender \in Users /\ call.receiver \in Users /\ call.amount \in Nat
      /\ Moved(bal, call) = moved
    BY SupplyAssumption DEF SendCoinCall, Moved
<1>2. /\ debited \in [Users -> Nat]
      /\ debited[call.sender] = bal[call.sender] - call.amount
      /\ \A u \in Users \ {call.sender} : debited[u] = bal[u]
    BY <1>1
<1> HIDE DEF debited
<1>3. /\ moved \in [Users -> Nat]
      /\ moved[call.receiver] = debited[call.receiver] + call.amount
      /\ \A u \in Users \ {call.receiver} : moved[u] = debited[u]
    BY <1>1, <1>2
<1> HIDE DEF moved
<1>4. \A u \in Users : moved[u] < bal[u] => u = call.sender /\ bal[u] - moved[u] = call.amount
    BY <1>1, <1>2, <1>3
<1>5. SumFunction(moved) = SumFunction(bal)
    <2>1. bal \in [Users -> Int] /\ debited \in [Users -> Int] /\ moved \in [Users -> Int]
        BY <1>2, <1>3
    <2>2. /\ SumFunction(bal) \in Int
          /\ SumFunction(debited) = SumFunction(bal) - bal[call.sender] + debited[call.sender]
        BY <1>1, <1>2, <2>1, UserAssumption, SumUpdate
    <2>3. SumFunction(moved) =
              SumFunction(debited) - debited[call.receiver] + moved[call.receiver]
        BY <1>1, <1>3, <2>1, UserAssumption, SumUpdate
    <2>4. /\ bal[call.sender] \in Int /\ debited[call.receiver] \in Int
          /\ debited[call.sender] \in Int
        BY <1>1, <2>1
    <2> QED
        BY <1>1, <1>2, <1>3, <2>2, <2>3, <2>4
<1> QED
    BY <1>1, <1>3, <1>4, <1>5

\* The coins of one client move, the others' stay.
LEMMA SendFacts ==
    ASSUME CoinsTypeOK, NEW c \in Clients, NEW call \in SendCoinCall, SendCoin(c, call)
    PROVE  /\ CoinsTypeOK'
           /\ coins'[c] = Moved(coins[c], call)
           /\ \A d \in Clients \ {c} : coins'[d] = coins[d]
           /\ \A d \in Clients : SumFunction(coins'[d]) = SumFunction(coins[d])
           /\ \A d \in Clients, u \in Users : coins'[d][u] < coins[d][u] =>
                  /\ d = c /\ u = call.sender
                  /\ coins[d][u] - coins'[d][u] = call.amount
<1>1. coins[c] \in [Users -> Nat] /\ call.amount <= coins[c][call.sender]
    BY DEF CoinsTypeOK, SendCoin
<1>2. coins' = [coins EXCEPT ![c] = Moved(coins[c], call)]
    BY DEF SendCoin
<1>3. /\ coins'[c] = Moved(coins[c], call)
      /\ \A d \in Clients \ {c} : coins'[d] = coins[d]
    BY <1>2 DEF CoinsTypeOK
<1>4. /\ Moved(coins[c], call) \in [Users -> Nat]
      /\ SumFunction(Moved(coins[c], call)) = SumFunction(coins[c])
      /\ \A u \in Users : Moved(coins[c], call)[u] < coins[c][u] =>
             u = call.sender /\ coins[c][u] - Moved(coins[c], call)[u] = call.amount
    BY <1>1, MovedFacts
<1>5. CoinsTypeOK'
    BY <1>2, <1>4 DEF CoinsTypeOK
<1>6. \A d \in Clients : SumFunction(coins'[d]) = SumFunction(coins[d])
    BY <1>3, <1>4
<1>7. \A d \in Clients \ {c}, u \in Users : coins'[d][u] = coins[d][u] /\ coins[d][u] \in Nat
    BY <1>3 DEF CoinsTypeOK
<1>8. ASSUME NEW d \in Clients, NEW u \in Users, coins'[d][u] < coins[d][u]
      PROVE  d = c /\ u = call.sender /\ coins[d][u] - coins'[d][u] = call.amount
    <2>1. d = c
        BY <1>7, <1>8
    <2> QED
        BY <1>3, <1>4, <1>8, <2>1
<1> QED
    BY <1>3, <1>5, <1>6, <1>8

LEMMA CoinsKept ==
    ASSUME [CoinNext]_allVars
    PROVE  \/ UNCHANGED coins
           \/ \E c \in Clients, call \in SendCoinCall :
                  \/ \E att \in Attestation : ApprovedSend(c, call, att)
                  \/ UnapprovedSend(c, call)
                  \/ \E caller \in Callers \ Clients : DirectSend(c, caller, call)
BY DEF CoinNext, SetProxy, allVars, coinVars

CoinInv == CoinsTypeOK /\ CoinsConserved

LEMMA CoinStep == CoinInv /\ [CoinNext]_allVars => CoinInv'
<1> SUFFICES ASSUME CoinInv, [CoinNext]_allVars PROVE CoinInv'
    OBVIOUS
<1>1. CASE UNCHANGED coins
    BY <1>1 DEF CoinInv, CoinsTypeOK, CoinsConserved
<1>2. ASSUME NEW c \in Clients, NEW call \in SendCoinCall, SendCoin(c, call)
      PROVE  CoinInv'
    BY <1>2, SendFacts DEF CoinInv, CoinsConserved
<1> QED
    BY <1>1, <1>2, CoinsKept DEF ApprovedSend, UnapprovedSend, DirectSend

LEMMA CoinAlways == CoinSpec => []CoinInv
<1>1. CoinInit => CoinInv
    <2> SUFFICES ASSUME CoinInit PROVE CoinInv
        OBVIOUS
    <2>1. PICK owner0 \in Users :
              coins = [c \in Clients |-> [u \in Users |-> IF u = owner0 THEN Supply ELSE 0]]
        BY DEF CoinInit
    <2>2. CoinsTypeOK
        BY <2>1, SupplyAssumption DEF CoinsTypeOK
    <2>3. SumFunction([u \in Users |-> IF u = owner0 THEN Supply ELSE 0]) = Supply
        BY UserAssumption, SupplyAssumption, SumOfOne
    <2> QED
        BY <2>1, <2>2, <2>3 DEF CoinInv, CoinsConserved
<1> QED
    BY <1>1, CoinStep, PTL DEF CoinSpec

\* No transfer makes or loses a coin.
THEOREM SupplyConserved == CoinSpec => []CoinsConserved
<1>1. CoinInv => CoinsConserved
    BY DEF CoinInv
<1> QED
    BY <1>1, CoinAlways, PTL

\* A guarded coin hears nobody but its own client.
LEMMA GuardedRefuses ==
    ASSUME NEW c \in Clients, NEW caller \in Callers \ Clients, NEW call,
           DirectSend(c, caller, call)
    PROVE  ~Guarded(c)
BY DEF DirectSend, OnlyPredicateProxy, Guarded

\* The last run of a coin that moved with an approval, or without one.
LEMMA SendRun ==
    ASSUME ClientTypeOK, NEW c \in Clients, NEW call \in SendCoinCall,
           (\E att \in Attestation : ApprovedSend(c, call, att)) \/ UnapprovedSend(c, call)
    PROVE  LET run == LastRun(c)'
           IN  /\ Len(executed'[c]) = Len(executed[c]) + 1
               /\ run.call = call /\ run.registry = clientRegistry[c]
               /\ IF run.registry \in Registries
                  THEN run.signature.digest.call = call
                  ELSE c \in Proxies
<1>1. call \in Calls
    BY CoinCallAssumption
<1>2. ASSUME NEW att \in Attestation, ApprovedSend(c, call, att)
      PROVE  /\ Len(executed'[c]) = Len(executed[c]) + 1
             /\ LastRun(c)'.call = call /\ LastRun(c)'.registry = clientRegistry[c]
             /\ clientRegistry[c] \in Registries
             /\ LastRun(c)'.signature.digest.call = call
    <2>1. ProtectedCall(c, call, att)
        BY <1>2 DEF ApprovedSend
    <2>2. AuthorizedCall(c, call) = call
        BY FullApprovalAssumption DEF AuthorizedCall
    <2> QED
        BY <1>1, <2>1, <2>2, LongerLog, ApprovalFacts, SpendFacts DEF LastRun
<1>3. ASSUME UnapprovedSend(c, call)
      PROVE  /\ Len(executed'[c]) = Len(executed[c]) + 1
             /\ LastRun(c)'.call = call /\ LastRun(c)'.registry = ForeignRegistry
             /\ clientRegistry[c] = ForeignRegistry
             /\ c \in Proxies /\ ForeignRegistry \notin Registries
    <2>1. ForeignCall(c, call)
        BY <1>3 DEF UnapprovedSend
    <2>2. clientRegistry[c] = ForeignRegistry /\ ForeignRegistry \notin Registries
        BY <2>1, RegistryAddressAssumption DEF ForeignCall
    <2>3. /\ Len(executed'[c]) = Len(executed[c]) + 1 /\ c \in Proxies
          /\ executed'[c][Len(executed[c]) + 1].call = call
          /\ executed'[c][Len(executed[c]) + 1].registry = ForeignRegistry
        BY <1>1, <2>1, ForeignLog
    <2> QED
        BY <2>2, <2>3 DEF LastRun
<1> QED
    BY <1>2, <1>3

\* A guarded coin leaves an account only by that account's own call, as a
\* registry of Predicate's approved it; but for a proxy that somebody has
\* pointed at a contract of their own, which still moves none but its caller's.
THEOREM GuardedMoves == CoinSpec => GuardedCoinMoves
<1> DEFINE OwnCall(c, u) ==
        LET run == LastRun(c)'
        IN  /\ Len(executed'[c]) = Len(executed[c]) + 1
            /\ run.call.sender = u
            /\ run.call.amount = coins[c][u] - coins'[c][u]
            /\ coins'[c] = Moved(coins[c], run.call)
            /\ run.registry = clientRegistry[c]
            /\ IF run.registry \in Registries
               THEN run.signature.digest.call = run.call
               ELSE c \in Proxies
           Moves == \A c \in Clients : \A u \in Users :
                        Guarded(c) /\ coins'[c][u] < coins[c][u] => OwnCall(c, u)
<1>1. ASSUME ClientTypeOK, CoinsTypeOK, [CoinNext]_allVars PROVE Moves
    <2> SUFFICES ASSUME NEW c \in Clients, NEW u \in Users, Guarded(c),
                        coins'[c][u] < coins[c][u]
                 PROVE  OwnCall(c, u)
        OBVIOUS
    <2>1. coins' # coins
        BY <1>1 DEF CoinsTypeOK
    <2>2. PICK d \in Clients, call \in SendCoinCall :
              \/ \E att \in Attestation : ApprovedSend(d, call, att)
              \/ UnapprovedSend(d, call)
              \/ \E caller \in Callers \ Clients : DirectSend(d, caller, call)
        BY <1>1, <2>1, CoinsKept
    <2>3. SendCoin(d, call)
        BY <2>2 DEF ApprovedSend, UnapprovedSend, DirectSend
    <2>4. /\ d = c /\ u = call.sender /\ coins[c][u] - coins'[c][u] = call.amount
          /\ coins'[c] = Moved(coins[c], call)
        BY <1>1, <2>3, SendFacts
    <2>5. (\E att \in Attestation : ApprovedSend(c, call, att)) \/ UnapprovedSend(c, call)
        BY <2>2, <2>4, GuardedRefuses
    <2> QED
        BY <1>1, <2>4, <2>5, SendRun
<1>2. ClientTypeOK /\ CoinsTypeOK /\ [CoinNext]_allVars => [Moves]_allVars
    BY <1>1
<1>3. SystemInv => ClientTypeOK
    BY DEF SystemInv
<1>4. CoinInv => CoinsTypeOK
    BY DEF CoinInv
<1>5. [Moves]_allVars => [\A c \in Clients : \A u \in Users :
           Guarded(c) /\ coins'[c][u] < coins[c][u] =>
               LET run == LastRun(c)'
               IN  /\ Len(executed'[c]) = Len(executed[c]) + 1
                   /\ run.call.sender = u
                   /\ run.call.amount = coins[c][u] - coins'[c][u]
                   /\ coins'[c] = Moved(coins[c], run.call)
                   /\ run.registry = clientRegistry[c]
                   /\ IF run.registry \in Registries
                      THEN run.signature.digest.call = run.call
                      ELSE c \in Proxies]_allVars
    OBVIOUS
<1> HIDE DEF Moves
<1> QED
    BY <1>2, <1>3, <1>4, <1>5, CoinIsClient, SystemAlwaysSound, CoinAlways, PTL
    DEF CoinSpec, GuardedCoinMoves
===============================================================================
