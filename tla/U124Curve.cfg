CONSTANTS
    alice = alice
    issuer = issuer
    Payers = {alice, issuer}
    Careless = {issuer}
    Issuer = issuer
    MaxAmount = 6
    FeeEscrow = 2
    Fees = {1}
    Cap = 2
    Threshold = 1
    Liquidity = 1
    Unit = 1
    Base = 1
    Step = 1
    MaxSent = 4
    MaxCheckpoint = 1
    Orders <- SmallOrders
    Payments <- SmallPayments
SPECIFICATION Spec
INVARIANTS CurveInv TargetGetsAll NothingStuck
PROPERTY SettledOnSignedTerms
CHECK_DEADLOCK FALSE
