SPECIFICATION Spec
CONSTANTS
    b1 = b1  b2 = b2  e1 = e1  s1 = s1  s2 = s2
    Books = {b1}
    Episodes = {e1}
    Timeline <- PlainTimeline
    NoMedium = NoMedium
    NoReport = NoReport
    Slots = {s1, s2}
    MaxPlays = 2
    MaxTicks = 2
    MaxTokens = 1
    MaxEpochs = 1
    MaxPosted = 1
    FallbackSkip = 1
    Controls = {"play", "stop", "server", "quit"}
    InputRaces = TRUE
    LostReplies = FALSE
    JumpMargin = 0
    RestartAfter = 1
INVARIANTS
    EachTickInOnePlace
    CreditedOnce
    NothingAfterClose
    OnlyTheNewestPlayOpens
    QuitLeavesNoSession
PROPERTY ImplementsLedger

CHECK_DEADLOCK FALSE
