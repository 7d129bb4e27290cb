SPECIFICATION Spec
CONSTANTS
    Users = {holder, pool}
    AccountUsers = {holder}
    Operators = {issuing, blocking}
    Amounts = {1}
    MaxBalance = 1
    InstanceThreshold = 0
    InstanceBump = 1
    PersistentThreshold = 3
    PersistentBump = 4
    MinTTL = 1
    MaxTTL = 2
    MaxLedger = 3
SYMMETRY Interchangeable
CONSTRAINT Bounds
INVARIANTS
    SacTypeOK
    OnlyClearedAuthorized
    EventsTellRecords
    UseKeepsRecord
PROPERTIES
    BlockedStandStill
