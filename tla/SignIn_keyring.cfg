SPECIFICATION FairSpec
CONSTANTS
    A = A  B = B  u = u
    Servers = {A, B}
    Accounts = {u}
    NoServer = NoServer
    NoAccount = NoAccount
    NoTokens = NoTokens
    NoBlob = NoBlob
    NoRestore = NoRestore
    KeyringRetries = 1
    MaxFlows = 3
    MaxCalls = 0
    MaxRuns = 2
    PortalPrompts = TRUE
PROPERTIES
    BusyEnds
CHECK_DEADLOCK FALSE
