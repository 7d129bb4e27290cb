------------------------------ MODULE MCValidation ------------------------------
(***************************************************************************)
(* Validation of attestations by registries on two chains: contracts and   *)
(* outsiders call with any calldata, attesters sign statements, attesters  *)
(* come and go, time passes.                                               *)
(***************************************************************************)
EXTENDS PredicateRegistry, TLC

CONSTANTS east, west

TwoChains == [r \in Registries |-> IF r = east THEN 1 ELSE 2]

\* Bound: nobody hands over or renounces a registry; MCAdmin is about that.
SettledOwnership ==
    \A r \in Registries :
        pendingOwner[r] = ZeroAddress /\ (initialized[r] => owner[r] # ZeroAddress)

Interchangeable == Permutations(Attesters) \cup Permutations(Callers) \cup Permutations(UUIDs)
===============================================================================
