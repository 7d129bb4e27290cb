----------------------------- MODULE AttesterList -----------------------------
(***************************************************************************)
(* The two list operations a registry performs on its array of attesters:  *)
(* push at the end, and removal by "swap and pop" (the last element moves  *)
(* into the freed position and the array shrinks by one).  The Solidity    *)
(* registry keeps the position of every attester in a mapping, the Soroban *)
(* registry scans for it; both remove the same way.  Positions are 1-based *)
(* here; a Solidity index i is position i + 1.                             *)
(***************************************************************************)
EXTENDS Integers, Sequences, Functions

\* Every element once: no position repeats another's value.
NoDuplicates(list) == IsInjective(list)

SwapAndPop(list, k) ==
    [i \in 1 .. Len(list) - 1 |-> IF i = k THEN list[Len(list)] ELSE list[i]]

\* The first position at which an element of list stands.
FirstPosition(list, a) ==
    CHOOSE k \in DOMAIN list :
        list[k] = a /\ \A j \in DOMAIN list : list[j] = a => k <= j

\* The last position at which an element of list stands.
LastPosition(list, a) ==
    CHOOSE k \in DOMAIN list :
        list[k] = a /\ \A j \in DOMAIN list : list[j] = a => j <= k
===============================================================================
