SPECIFICATION SystemSpec
CONSTANTS
    Networks = {main}
    Network = main
    Accounts = {alice}
    NoAccount = none
    Attesters = {a1}
    Callers = {token, other}
    UUIDs = {u1, u2}
    Calls <- Transfers
    Policies = {empty, p1}
    NoPolicy = empty
    Expirations = {2}
    Codes = {code}
    MinTTL = 1
    MaxTTL = 1
    MaxLedger = 2
    MaxSignatures = 2
    Token = token
    Holders = {h1, h2}
    TokenPolicy = p1
    Amounts <- SmallAmounts
    MaxBalance = 2
SYMMETRY Interchangeable
CONSTRAINT OnlyTheToken
INVARIANTS
    TokenTypeOK
    PolicyStaysTheTokens
    TransfersMatchEvents
    ExcessIsSelfSent
