SPECIFICATION Spec
CONSTANTS
    A = A  B = B  u = u
    Servers = {A, B}
    Accounts = {u}
    NoServer = NoServer
    NoAccount = NoAccount
    NoTokens = NoTokens
    NoBlob = NoBlob
    NoRestore = NoRestore
    KeyringRetries = 1
    MaxFlows = 2
    MaxCalls = 0
    MaxRuns = 1
    PortalPrompts = FALSE
PROPERTY StaysSignedIn
CHECK_DEADLOCK FALSE
