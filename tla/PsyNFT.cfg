SPECIFICATION Spec
CONSTANTS
    Issuer = issuer
    Users = {issuer, alice}
    NoUser = nobody
    MaxFelt = 5
    Slots = {s1, s2}
    Symbols = {"x"}
    Caps = {1, 2}
SYMMETRY SlotSymmetry
CONSTRAINT FewSteps
INVARIANTS NFTInv NothingStranded Accounted
PROPERTIES ImplementsRegistry
CHECK_DEADLOCK FALSE
