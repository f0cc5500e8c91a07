SPECIFICATION Spec
CONSTANTS
    Issuer = issuer
    Users = {issuer, alice, bob}
    NoUser = nobody
    MaxFelt = 2
    Amounts = {1, 2}
    Channels = {}
    Symbols = {"psy"}
    Decimals = {18, 19}
    Batches2 <- SmallBatches2
    Batches5 <- SmallBatches5
SYMMETRY HolderSymmetry
INVARIANTS TokenInv Conservation
PROPERTIES ImplementsLedger
CHECK_DEADLOCK FALSE
