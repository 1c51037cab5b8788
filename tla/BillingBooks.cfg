SPECIFICATION FairSpec
CONSTANTS
    Requests = {r1, r2}
    Prefs = {"subscription_first", "wallet_first"}
    Flags <- ApiAndPlayground
    Estimates = {0, 2}
    Actuals = {0, 2}
    Turns = 0
    InitWallet = 3
    InitToken = 4
    HasSub = TRUE
    SubTotal = 3
    AllowOverflow = TRUE
    TrustQuota = 2
    Fee = 1
    Faults = {}
INVARIANTS
    BooksBalance
PROPERTIES
    ImplementsEscrow AllFinish
CHECK_DEADLOCK FALSE
