-------------------------------- MODULE MCAdmin --------------------------------
(***************************************************************************)
(* Administration of one registry: ownership, attesters, index migration,  *)
(* policies.  Nothing is signed (MaxSignatures = 0) and time stands still. *)
(***************************************************************************)
EXTENDS PredicateRegistry, TLC

OneChain == [r \in Registries |-> 1]

Interchangeable == Permutations(Attesters)
===============================================================================
