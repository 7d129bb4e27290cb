SPECIFICATION Spec
CONSTANTS
    issuer = issuer
    alice = alice
    bob = bob
    Accounts = {zero, issuer, alice, bob}
    ZeroAddress = zero
    Amounts = {1, 2}
    MaxUint = 2
CONSTRAINT Bounds
INVARIANTS
    AssetTypeOK
    SupplyIsHeld
PROPERTIES
    FrozenStandsStill
    PausedOnlySeizes
    OffboardedOnlyBurned
