SPECIFICATION SystemSpec
CONSTANTS
    bare = bare
    Registries = {r1, r2}
    ChainOf <- OneChain
    Upgraded = {}
    Accounts = {zero, gov}
    ZeroAddress = zero
    Attesters = {a1}
    Callers = {vault}
    Clients = {vault}
    BasicClients = {}
    BareCall <- SenderOnly
    Proxies = {}
    NoRegistry = nowhere
    ForeignRegistry = foreign
    UUIDs = {u1}
    Calls = {bare, call}
    Policies = {none, p1}
    NoPolicy = none
    Expirations = {0}
    MaxTime = 1
    MaxSignatures = 1
INVARIANTS
    OncePerApproval
