SPECIFICATION FairSpec
CONSTANTS
    A = A  B = B  u = u
    Servers = {A, B}
    Accounts = {u}
    NoServer = NoServer
    NoAccount = NoAccount
    NoTokens = NoTokens
    NoBlob = NoBlob
    NoRestore = NoRestore
    KeyringRetries = 1
    MaxFlows = 3
    MaxCalls = 1
    MaxRuns = 2
    PortalPrompts = FALSE
INVARIANTS
    SingleFlight
    SavedTokensAreHome
    SignedInIsRestorable
    RetryIsForTheChosenServer
PROPERTIES
    SignedInUntilRefused
    EveryCallAnswered
CHECK_DEADLOCK FALSE
