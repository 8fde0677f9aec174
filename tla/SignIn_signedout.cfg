SPECIFICATION Spec
CONSTANTS
    A = A  B = B  u = u
    Servers = {A, B}
    Accounts = {u}
    NoServer = NoServer
    NoAccount = NoAccount
    NoTokens = NoTokens
    NoBlob = NoBlob
    NoRestore = NoRestore
    KeyringRetries = 1
    MaxFlows = 1
    MaxCalls = 1
    MaxRuns = 1
    PortalPrompts = FALSE
INVARIANT SignedOutStaysOut
CHECK_DEADLOCK FALSE
