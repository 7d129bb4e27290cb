-------------------------- MODULE OneShotAuthorization --------------------------
(***************************************************************************)
(* What a registry promises, without lists, hashes or calldata.  Trusted   *)
(* issuers issue permits.  A permit names one action and one serial number *)
(* and lapses at a deadline.  An action is granted only on a permit that   *)
(* was issued for exactly that action, by an issuer trusted at the moment  *)
(* of the grant, in time, and a serial number is granted at most once.     *)
(***************************************************************************)
EXTENDS Naturals

CONSTANTS Issuers, Serials, Actions, Deadlines

VARIABLES
    trusted,    \* the issuers trusted at present
    permits,    \* every permit issued so far
    spent,      \* the serial numbers that cannot be used any more
    granted,    \* every permit granted so far
    time

vars == <<trusted, permits, spent, granted, time>>

Permit == [issuer : Issuers, serial : Serials, action : Actions, deadline : Deadlines]

Init ==
    /\ trusted \in SUBSET Issuers
    /\ spent \in SUBSET Serials
    /\ permits = {}
    /\ granted = {}
    /\ time = 0

Trust(i) ==
    /\ trusted' = trusted \cup {i}
    /\ UNCHANGED <<permits, spent, granted, time>>

Distrust(i) ==
    /\ trusted' = trusted \ {i}
    /\ UNCHANGED <<permits, spent, granted, time>>

Issue(p) ==
    /\ permits' = permits \cup {p}
    /\ UNCHANGED <<trusted, spent, granted, time>>

Grant(p) ==
    /\ p.issuer \in trusted
    /\ p.serial \notin spent
    /\ time <= p.deadline
    /\ granted' = granted \cup {p}
    /\ spent' = spent \cup {p.serial}
    /\ UNCHANGED <<trusted, permits, time>>

Advance ==
    /\ time' = time + 1
    /\ UNCHANGED <<trusted, permits, spent, granted>>

Next ==
    \/ \E i \in Issuers : Trust(i) \/ Distrust(i)
    \/ \E p \in Permit : Issue(p)
    \/ \E p \in permits : Grant(p)
    \/ Advance

Spec == Init /\ [][Next]_vars

\* A serial number is granted at most once: two grants never share one.
OnePerSerial == \A p, q \in granted : p.serial = q.serial => p = q
===============================================================================
