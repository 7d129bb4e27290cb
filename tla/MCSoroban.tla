-------------------------------- MODULE MCSoroban --------------------------------
(***************************************************************************)
(* The Soroban registry with lifetimes so short that the contract, the     *)
(* markers and the policies are archived within a few ledgers.             *)
(***************************************************************************)
EXTENDS SorobanRegistry, TLC

Interchangeable == Permutations(Attesters) \cup Permutations(Callers)
===============================================================================
