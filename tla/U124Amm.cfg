SPECIFICATION Spec
CONSTANTS
    Payers = {alice, bob}
    Careless = {bob}
    alice = alice
    bob = bob
    MaxAmount = 12
    FeeEscrow = 4
    Fees = {1}
    FeeNum = 9970
    FeeDen = 10000
    LockedShares = 1
    Orders <- SmallOrders
    Payments <- SmallPayments
    MaxSent = 8
    MaxCheckpoint = 1
INVARIANT AmmInv
INVARIANT SharesAddUp
PROPERTY SettledOnSignedTerms
PROPERTY ShareValueNeverFalls
PROPERTY ImplementsPool
CHECK_DEADLOCK FALSE
