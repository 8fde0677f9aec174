SPECIFICATION Spec
CONSTANTS
    Hosts = {S, T}
    Books = {book}
    Seconds = {s1, s2}
    Titles = {x, y}
    MaxChanges = 4
    Origins = {S, T}
    Images = {i1, i2}
    NoPath = NoPath
    DiskLimit = 1
    MaxLooks = 5
    Accounts = {a, b}
    NoAccount = NoAccount
    NoKey = NoKey
    PortalKey = PortalKey
    Flatpak = TRUE
    MaxPrompts = 2
    MaxUses = 5
    Launches = {p, q, r}
    Nobody = Nobody
INVARIANTS
    LocalTypeOK
    BookmarksSettle
    CoversStayRight
    SavedSecretsOpen
    CallbackArrives
PROPERTIES
    StickyProvider
CHECK_DEADLOCK FALSE
