-------------------------------- MODULE MCToken --------------------------------
(***************************************************************************)
(* The compliant token on a Soroban registry: two holders, every transfer  *)
(* between them and to themselves.                                         *)
(***************************************************************************)
EXTENDS CompliantToken, TLC

\* Minting takes any amount, a negative one too.
SmallAmounts == {-1, 1}

Transfers == [from : Holders, to : Holders, amount : SmallAmounts]

\* Bound: what does not matter to the token stays as it was, the registry's
\* ownership and the other callers' policies.
OnlyTheToken ==
    /\ pendingOwner = NoAccount
    /\ \A c \in Callers \ {Token} : policyUntil[c] = -1

Interchangeable == Permutations(Holders) \cup Permutations(UUIDs)
===============================================================================
