SPECIFICATION Spec
CONSTANTS
    Registries = {fresh, old}
    ChainOf <- OneChain
    Upgraded = {old}
    Accounts = {zero, alice, bob}
    ZeroAddress = zero
    Attesters = {a1, a2, a3}
    Callers = {client}
    UUIDs = {u1}
    Calls = {call}
    Policies = {none}
    NoPolicy = none
    Expirations = {0}
    MaxTime = 0
    MaxSignatures = 0
SYMMETRY Interchangeable
INVARIANTS
    TypeOK
    ListSound
    IndexSound
    RevocationPossible
PROPERTIES
    RenouncedIsFinal
