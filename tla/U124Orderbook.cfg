CONSTANTS
    alice = alice
    bob = bob
    carol = carol
    Rival = carol
    Payers = {alice, bob, carol}
    Careless = {bob}
    MaxAmount = 3
    FeeEscrow = 2
    Fees = {1}
    MaxSent = 4
    MaxCheckpoint = 1
    Sells <- SmallSells
    Payments <- SmallPayments
SPECIFICATION BookSpec
CONSTRAINT FewActs
INVARIANTS NoSellerStuck
PROPERTIES SellersKeepTheirTerms ImplementsExchange
CHECK_DEADLOCK FALSE
