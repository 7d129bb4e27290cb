SPECIFICATION CoinSpec
CONSTANTS
    Registries = {r1, r2}
    ChainOf <- OneChain
    Upgraded = {}
    Accounts = {zero, gov}
    ZeroAddress = zero
    Attesters = {a1}
    Callers = {coin, proxy, other}
    Clients = {coin, proxy}
    BasicClients = {}
    BareCall <- SameCall
    Proxies = {proxy}
    NoRegistry = nowhere
    ForeignRegistry = foreign
    UUIDs = {u1}
    Calls <- SendCoinCall
    Policies = {none, p1, p2}
    NoPolicy = none
    Expirations = {0}
    MaxTime = 0
    MaxSignatures = 1
    NoProxy = none
    Users = {alice, bob}
    Supply = 1
SYMMETRY Interchangeable
CONSTRAINT Bounds
INVARIANTS
    PolicyRegistered
    CoinsConserved
PROPERTIES
    CurrentPolicyOnly
    GuardedCoinMoves
