------------------------------- MODULE MCSacAdmin -------------------------------
(***************************************************************************)
(* The asset administrator over two users, an account and a contract, with *)
(* lifetimes of a few ledgers.                                             *)
(***************************************************************************)
EXTENDS SacAdmin, TLC

\* Bound: two operators hold two roles each.
TwoOperators ==
    /\ role["Minter"] = role["Onboarder"]
    /\ role["BlockOperator"] = role["UnblockOperator"]
    /\ role["Minter"] # role["BlockOperator"]

\* Bound: how much is published about a user.
FewEvents == \A u \in Users : Len(events[u]) <= 3

Bounds == TwoOperators /\ FewEvents

Interchangeable == Permutations(Operators)
===============================================================================
