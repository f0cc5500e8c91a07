SPECIFICATION Spec
CONSTANTS
    Base = 3
    Issuer = issuer
    Users = {issuer, alice}
    NoUser = nobody
    Amounts <- SmallAmounts
    Channels = {slot}
    Symbols = {"psy"}
    Decimals = {18, 19}
    Batches2 <- SmallBatches2
    Batches5 <- SmallBatches5
INVARIANTS NothingRefused
CONSTRAINTS FewUnits OneOwner
PROPERTY ImplementsToken
CHECK_DEADLOCK FALSE
