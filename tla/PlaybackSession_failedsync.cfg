SPECIFICATION Spec
CONSTANTS
    b1 = b1  b2 = b2  e1 = e1  s1 = s1  s2 = s2
    Books = {b1}
    Episodes = {}
    Timeline <- PlainTimeline
    NoMedium = NoMedium
    NoReport = NoReport
    Slots = {s1, s2}
    MaxPlays = 2
    MaxTicks = 1
    MaxTokens = 1
    MaxEpochs = 0
    MaxPosted = 1
    FallbackSkip = 1
    Controls = {"play", "stop"}
    InputRaces = TRUE
    LostReplies = FALSE
    JumpMargin = 0
    RestartAfter = 1
PROPERTY FailedSyncIsKept
CHECK_DEADLOCK FALSE
