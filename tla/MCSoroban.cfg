SPECIFICATION Spec
CONSTANTS
    Networks = {main, test}
    Network = main
    Accounts = {alice, bob}
    NoAccount = none
    Attesters = {a1, a2}
    Callers = {c1, c2}
    UUIDs = {u1}
    Calls = {call}
    Policies = {empty}
    NoPolicy = empty
    Expirations = {3}
    Codes = {code}
    MinTTL = 1
    MaxTTL = 2
    MaxLedger = 4
    MaxSignatures = 2
SYMMETRY Interchangeable
INVARIANTS
    TypeOK
    ProposalFromOwner
    OneEntryPerAttester
    AcceptedWasSigned
    SpentForLifetime
    UseKeepsAlive
PROPERTIES
    ImplementsWhileMarked
