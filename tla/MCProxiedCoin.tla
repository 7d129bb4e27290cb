----------------------------- MODULE MCProxiedCoin -----------------------------
(***************************************************************************)
(* A coin of either kind; its client may point at two registries, and, if  *)
(* it is the proxy, at a contract of somebody's own.                       *)
(***************************************************************************)
EXTENDS ProxiedCoin, TLC

OneChain == [r \in Registries |-> 1]

\* No client here is a Basic one.
SameCall == [call \in SendCoinCall |-> call]

\* Bound: one client is deployed, and the outsider sets no policies.
OneClient ==
    /\ \E c \in Clients :
           /\ \A s \in signatures : s.digest.target = c
           /\ \A d \in Clients \ {c} :
                  /\ ~deployed[d] /\ predicateProxy[d] = NoProxy
                  /\ ~predicateProxyEnabled[d]
    /\ \A r \in Registries, c \in Callers \ Clients : clientToPolicy[r][c] = NoPolicy

\* Bound: registries stay with their owners; MCAdmin is about that.
SettledOwnership ==
    \A r \in Registries :
        pendingOwner[r] = ZeroAddress /\ (initialized[r] => owner[r] # ZeroAddress)

\* Bound: a client runs once, with approval or without, before what is checked.
FewRuns == \A c \in Clients : Len(executed[c]) <= 1

\* Bound: an approval is for a real transfer.
RealTransfers ==
    \A s \in signatures : s.digest.call.amount > 0 /\ s.digest.call.sender # s.digest.call.receiver

Bounds == OneClient /\ SettledOwnership /\ RealTransfers /\ FewRuns

Interchangeable ==
    Permutations(Users) \cup Permutations(Registries) \cup Permutations(Policies \ {NoPolicy})
===============================================================================
