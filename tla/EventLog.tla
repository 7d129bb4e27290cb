-------------------------------- MODULE EventLog --------------------------------
(***************************************************************************)
(* Places in a log of events: a subsequence is the set of the places it    *)
(* takes, and its n-th element stands at the place of rank n.              *)
(***************************************************************************)
EXTENDS Integers, FiniteSets

\* How many of the places come no later than place i.
Rank(places, i) == Cardinality({j \in places : j <= i})
===============================================================================
