SPECIFICATION Spec
CONSTANTS
    east = east
    west = west
    Registries = {east, west}
    ChainOf <- TwoChains
    Upgraded = {}
    Accounts = {zero, alice}
    ZeroAddress = zero
    Attesters = {a1, a2}
    Callers = {c1, c2}
    UUIDs = {u1, u2}
    Calls = {call}
    Policies = {none}
    NoPolicy = none
    Expirations = {0, 1}
    MaxTime = 1
    MaxSignatures = 2
SYMMETRY Interchangeable
CONSTRAINT SettledOwnership
INVARIANTS
    NeverTwice
    AcceptedWasSigned
PROPERTIES
    UsableUntilSpent
    ImplementsAuthorization
