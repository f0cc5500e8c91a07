CONSTANTS
    Sellers = {s1, s2}
    Careless = {s1}
    AmountCap = 2
    FeeEscrow = 2
    Fees = {1, 2}
    Orders <- SmallOrders
    Payments <- SmallPayments
    MaxSent = 6
    MaxCheckpoint = 1
SPECIFICATION Spec
INVARIANTS OrderbookInv NothingStuck
PROPERTIES SettledOnSignedTerms ImplementsExchange
CHECK_DEADLOCK FALSE
