SPECIFICATION FairSpec
CONSTANTS
    S = S  T = T  fiction = fiction  science = science
    toRead = toRead  book1 = book1  book2 = book2  all = all  series = series  q = q  p = p
    Servers = {S, T}
    Libraries = {fiction, science}
    Playlists = {toRead}
    Items = {book1, book2}
    Filters = {all, series}
    Queries = {q, p}
    NoServer = NoServer
    NoLibrary = NoLibrary
    NoFilter = NoFilter
    NoQuery = NoQuery
    NoDetails = NoDetails
    AllItems = all
    LibrariesOf <- MCLibrariesOf
    PlaylistsOf <- MCPlaylistsOf
    EntriesOf <- MCEntriesOf
    PagesOf <- MCPagesOf
    UsersProgress <- MCUsersProgress
    MaxOps = 3
INVARIANTS
    TypeOK
    ListingIsWhole
    NextUpFollows
    OnlyThisSession
PROPERTIES
    SearchNeverGoesBack
    LoadingEnds
CHECK_DEADLOCK FALSE
