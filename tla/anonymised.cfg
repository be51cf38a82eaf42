SPECIFICATION CSSpec
CONSTANTS
    NumAccounts = 2
    Phones = {f1, f2}
    FirstPhone = f1
    Freed = Freed
    MaxInputs = 4
    MaxForeign = 1
    MaxPending = 2
    LeafSize = 1
    Nobody = Nobody
INVARIANT
    ArchivedStaysAnonymous
CHECK_DEADLOCK FALSE
