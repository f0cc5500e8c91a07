SPECIFICATION DelegationSpec
CONSTANTS
    Issuer = issuer
    Users = {issuer, alice, bob}
    NoUser = nobody
    MaxFelt = 3
    Amounts = {1, 3}
    Channels = {slot}
    Symbols = {}
    Decimals = {}
    Batches2 = {}
    Batches5 = {}
SYMMETRY HolderSymmetry
INVARIANTS TokenInv NothingStranded
PROPERTIES ImplementsLedger PayoutsAreEscrowed RefundIsExact
CHECK_DEADLOCK FALSE
