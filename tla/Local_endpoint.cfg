SPECIFICATION Spec
CONSTANTS
    Hosts = {S, T}
    Books = {book}
    Seconds = {s1, s2}
    Titles = {x, y}
    MaxChanges = 1
    Origins = {S, T}
    Images = {i1, i2}
    NoPath = NoPath
    DiskLimit = 1
    MaxLooks = 1
    Accounts = {a, b}
    NoAccount = NoAccount
    NoKey = NoKey
    PortalKey = PortalKey
    Flatpak = TRUE
    MaxPrompts = 2
    MaxUses = 1
    Launches = {p, q, r}
    Nobody = Nobody
INVARIANT OwnsTheEndpoint
CHECK_DEADLOCK FALSE
