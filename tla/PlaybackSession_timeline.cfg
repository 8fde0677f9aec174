SPECIFICATION Spec
CONSTANTS
    b1 = b1  b2 = b2  e1 = e1  s1 = s1  s2 = s2
    Books = {b1}
    Episodes = {e1}
    Timeline <- ShortTimeline
    NoMedium = NoMedium
    NoReport = NoReport
    Slots = {s1}
    MaxPlays = 2
    MaxTicks = 0
    MaxTokens = 2
    MaxEpochs = 0
    MaxPosted = 1
    FallbackSkip = 1
    Controls = {"play", "stop", "pause", "seek", "sleep"}
    InputRaces = TRUE
    LostReplies = FALSE
    JumpMargin = 0
    RestartAfter = 1
INVARIANTS
    NoUntrackedAudio
    ProgressAttribution
    BearerStaysHome
    TimersFollowSound
CHECK_DEADLOCK FALSE
