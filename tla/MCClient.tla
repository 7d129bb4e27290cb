-------------------------------- MODULE MCClient --------------------------------
(***************************************************************************)
(* Client contracts and two registries of one chain.                       *)
(***************************************************************************)
EXTENDS PredicateClient, TLC

CONSTANTS bare

OneChain == [r \in Registries |-> 1]
SenderOnly == [call \in Calls |-> bare]

Interchangeable == Permutations(UUIDs)
===============================================================================
