--------------------------- MODULE MCAssetCompliance ---------------------------
(***************************************************************************)
(* The three tokens among an issuer and two holders.                       *)
(***************************************************************************)
EXTENDS AssetCompliance

CONSTANTS issuer, alice, bob

\* Bound: the issuer holds every role but the freezing one, which comes and
\* goes between the issuer and a holder.
FewRoles ==
    \A r \in Role \ {"FREEZE_MANAGER_ROLE"} :
        holders[r] = IF r \in RolesOf(kind) THEN {issuer} ELSE {}

OneFreezer == holders["FREEZE_MANAGER_ROLE"] \in {{issuer}, {bob}, {}}

\* Bound: one holder approves, the other spends.
OneAllowance == \A a, s \in Accounts : allowance[a][s] > 0 => a = alice /\ s = bob

\* Bound: how much is seized.
FewSeizures == SumFunction(seized) <= MaxUint

Bounds == FewRoles /\ OneFreezer /\ OneAllowance /\ FewSeizures
===============================================================================
