-------------------------------- MODULE MCVaults --------------------------------
(***************************************************************************)
(* A BasicVault or an AdvancedVault, its users, and an outsider, on one    *)
(* registry.                                                               *)
(***************************************************************************)
EXTENDS Vaults, TLC

CONSTANTS alice, gov

OneChain == [r \in Registries |-> 1]

Bare(sender) == Encoded(sender, 0, "none", sender, 0)
EncodedCalls == VaultCall \cup {Bare(u) : u \in Users}
SenderOnly == [call \in EncodedCalls |-> Bare(call.sender)]

\* Bound: only alice asks for approvals.
FewApprovals == \A s \in signatures : s.digest.call.sender = alice

\* Bound: the registry stays with its first owner.
SettledOwnership ==
    \A r \in Registries :
        pendingOwner[r] = ZeroAddress /\ (initialized[r] => owner[r] = gov)

\* Bound: approvals are given to one vault, and one vault holds ether.
OneVault ==
    \E v \in Clients :
        /\ \A s \in signatures : s.digest.target = v
        /\ \A w \in Clients \ {v} : ether[w] = 0 /\ ~deployed[w]

\* Bound: a vault in use stays with its registry and a policy.
SettledVault ==
    \A v \in Clients : deployed[v] => clientRegistry[v] # NoRegistry /\ policy[v] # NoPolicy

Bounds == FewApprovals /\ SettledOwnership /\ OneVault /\ SettledVault

Interchangeable == Permutations(UUIDs)
===============================================================================
