SPECIFICATION VaultSpec
CONSTANTS
    alice = alice
    gov = gov
    Registries = {r1}
    ChainOf <- OneChain
    Upgraded = {}
    Accounts = {zero, gov}
    ZeroAddress = zero
    Attesters = {a1}
    Callers = {vault, basic, other}
    Clients = {vault, basic}
    BasicClients = {basic}
    BareCall <- SenderOnly
    Proxies = {}
    NoRegistry = nowhere
    ForeignRegistry = foreign
    UUIDs = {u1, u2}
    Calls <- EncodedCalls
    Policies = {none, p1}
    NoPolicy = none
    Expirations = {0}
    MaxTime = 1
    MaxSignatures = 2
    Users = {alice, bob}
    Amounts = {1, 2}
    Funds = 2
SYMMETRY Interchangeable
CONSTRAINT Bounds
INVARIANTS
    VaultTypeOK
    ExecutedWasApproved
    SpentMeansExecuted
    OncePerRegistry
    Solvent
PROPERTIES
    PaidAsApproved
