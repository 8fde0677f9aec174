------------------------------- MODULE Library -------------------------------
(***************************************************************************)
(* What the signed-in screens show: the libraries, home shelves,           *)
(* playlists, search hits and item details of app/Backend.cpp, the paged   *)
(* list of model/LibraryItemsModel.cpp, and the progress of the items in   *)
(* model/ProgressStore.cpp, which with the playlists makes up Home's       *)
(* "Playlist Next Up" shelf.                                               *)
(*                                                                         *)
(* Every reply may come late, in any order, or fail.  What is on screen is *)
(* represented by where it comes from: the library, query or page it was   *)
(* fetched for, and the sign-in (login) it was fetched under.  Two equal   *)
(* requests in flight at once are one: their replies do the same.          *)
(***************************************************************************)
EXTENDS Naturals, FiniteSets, Sequences

CONSTANTS
    Servers, Libraries, Playlists, Items, Filters, Queries,
    NoServer, NoLibrary, NoFilter, NoQuery, NoDetails,
    AllItems,       \* the filter selectLibrary() browses with
    LibrariesOf,    \* the lists of libraries each server may answer with
    PlaylistsOf,    \* the playlists of each library, in order
    EntriesOf,      \* the entries of each playlist, in order
    PagesOf,        \* how many pages a listing of a library has, by filter
    UsersProgress,  \* what a server may tell of the items at sign-in: some begun, some finished
    MaxOps          \* bound: sign-ins, and things the user asks for

Logins  == 0 .. MaxOps
\* What is known of an item: has it been begun, is it finished, under which sign-in
\* was this learned (0: nothing is known), and did it come from a listening session
\* that outlived its sign-in.
Records  == [begun : BOOLEAN, finished : BOOLEAN, login : Logins, stray : BOOLEAN]
NoRecord == [begun |-> FALSE, finished |-> FALSE, login |-> 0, stray |-> FALSE]
\* The library something on screen belongs to.
Shown   == [lib : Libraries \cup {NoLibrary}, login : Logins]
Nothing == [lib |-> NoLibrary, login |-> 0]
Hits    == [query : Queries \cup {NoQuery}, login : Logins]
NoHits  == [query |-> NoQuery, login |-> 0]
Details == [item : Items, of : Servers, login : Logins]
Pages   == [lib : Libraries, filter : Filters, page : Nat, login : Logins]

ContentRequests == [kind : {"libraries", "home", "playlists"}, lib : Libraries \cup {NoLibrary},
                    login : Logins, gen : Nat]
PageRequests    == [kind : {"page"}, of : Pages, nth : Nat]
SearchRequests  == [kind : {"search"}, query : Queries, login : Logins, gen : Nat, nth : Nat]
ItemRequests    == [kind : {"item"}, item : Items, login : Logins, gen : Nat]
MarkRequests    == [kind : {"mark"}, item : Items, login : Logins, gen : Nat, finished : BOOLEAN]
Requests == ContentRequests \cup PageRequests \cup SearchRequests \cup ItemRequests
            \cup MarkRequests

ASSUME LibraryAssumption ==
    /\ NoServer \notin Servers /\ NoLibrary \notin Libraries /\ NoFilter \notin Filters
    /\ NoQuery \notin Queries /\ NoDetails \notin Details /\ AllItems \in Filters
    /\ LibrariesOf \in [Servers -> SUBSET Seq(Libraries)]
    /\ PlaylistsOf \in [Libraries -> Seq(Playlists)]
    /\ EntriesOf \in [Playlists -> Seq([item : Items, book : BOOLEAN])]
    /\ PagesOf \in [Libraries -> [Filters -> Nat]]
    /\ UsersProgress \subseteq [begun : SUBSET Items, finished : SUBSET Items]
    /\ MaxOps \in Nat

VARIABLES
    phase,          \* "in": signed in; "out": signed out; "lost": the session was refused
    server,         \* the server the client points at
    login,          \* the current sign-in, counted
    stray,          \* a sign-in that is over but whose /play was still to be answered, or 0
    generation,     \* Backend::m_serverGeneration
    library,        \* m_currentLibraryId
    libraries,      \* m_libraries: the sign-in whose list it is
    home,           \* m_homeShelves without its Next Up row
    playlists,      \* m_playlists
    picked,         \* m_nextUpPlaylistIds
    enabled,        \* m_playlistNextUpEnabled
    cards,          \* the Next Up row of m_homeShelves
    searches, hits, \* m_searchGeneration, m_searchResults
    asked,          \* history: what search() was last given, NoQuery once that is cleared
    list,           \* m_libraryItems
    progress,       \* ProgressStore::m_byItem
    details,        \* what itemLoaded() last gave the details screen
    lastLibrary, savedPicks, cache, \* disk: two settings per server, the item cache
    flying,         \* requests in flight
    ops             \* bound: how much the user has done

sessionVars == <<phase, server, login, stray, generation>>
shelfVars   == <<library, libraries, home>>
nextUpVars  == <<playlists, picked, enabled, cards>>
searchVars  == <<searches, hits, asked>>
diskVars    == <<lastLibrary, savedPicks, cache>>
vars == <<sessionVars, shelfVars, nextUpVars, searchVars, list, progress, details,
          diskVars, flying, ops>>

\* cards is left to NextUpFollows, which says what it is.
TypeOK ==
    /\ phase \in {"in", "out", "lost"} /\ server \in Servers
    /\ login \in Logins /\ stray \in Logins /\ generation \in Nat
    /\ library \in Libraries \cup {NoLibrary} /\ libraries \in Logins
    /\ home \in Shown /\ playlists \in Shown
    /\ picked \subseteq Playlists /\ enabled \in BOOLEAN
    /\ searches \in Nat /\ hits \in Hits /\ asked \in Queries \cup {NoQuery}
    /\ list \in [lib : Libraries \cup {NoLibrary}, filter : Filters \cup {NoFilter},
                 items : Seq(Pages), page : Nat, more : BOOLEAN, loading : BOOLEAN, nth : Nat]
    /\ progress \in [Items -> Records] /\ details \in Details \cup {NoDetails}
    /\ lastLibrary \in [Servers -> Libraries \cup {NoLibrary}]
    /\ savedPicks \in [Servers -> SUBSET Playlists]
    /\ cache \in [Servers \X Items -> Servers \cup {NoServer}]
    /\ flying \subseteq Requests /\ ops \in 0 .. MaxOps
-----------------------------------------------------------------------------
(* The Next Up shelf *)

\* The books on a playlist that are not finished; the shelf shows the first that
\* is begun, or else the first.
Unfinished(p, known) ==
    SelectSeq(EntriesOf[p], LAMBDA e : e.book /\ ~known[e.item].finished)

Card(p, known) ==
    LET begun == SelectSeq(Unfinished(p, known), LAMBDA e : known[e.item].begun)
    IN  [playlist |-> p,
         item |-> Head(IF begun = <<>> THEN Unfinished(p, known) ELSE begun).item]

\* updatePlaylistNextUp()
NextUp(shown, known, chosen, on) ==
    IF ~on \/ shown.lib = NoLibrary THEN <<>>
    ELSE LET rows == SelectSeq(PlaylistsOf[shown.lib],
                               LAMBDA p : p \in chosen /\ Unfinished(p, known) # <<>>)
         IN  [k \in 1 .. Len(rows) |-> Card(rows[k], known)]

\* Slip: the shelf follows the playlists and the picks only.
UpdateNextUpPlaylists ==
    cards' = IF playlists' = playlists /\ picked' = picked /\ enabled' = enabled THEN cards
             ELSE NextUp(playlists', progress', picked', enabled')

\* What the shelf is made from has changed; whoever changes it calls this.
UpdateNextUp == cards' = NextUp(playlists', progress', picked', enabled')
-----------------------------------------------------------------------------
(* The paged list *)

Ask(kind, lib) == [kind |-> kind, lib |-> lib, login |-> login', gen |-> generation']

\* fetchPage()
AskPage(l, page) ==
    [kind |-> "page", nth |-> l.nth,
     of |-> [lib |-> l.lib, filter |-> l.filter, page |-> page, login |-> login']]

\* loadLibrary(), without the request for page 0 that follows
Loaded(l, lib, filter) ==
    [lib |-> lib, filter |-> filter, items |-> <<>>, page |-> 0, more |-> FALSE,
     loading |-> TRUE, nth |-> l.nth + 1]

\* Slip: the flag is left to the request that set it.
EmptiedOnly(l) == [l EXCEPT !.items = <<>>, !.more = FALSE, !.nth = @ + 1]

\* setItems() of nothing
Emptied(l) == [l EXCEPT !.items = <<>>, !.more = FALSE, !.loading = FALSE, !.nth = @ + 1]

\* fetchPage() is answered: a page past the last one is empty.
Appended(l, of) ==
    LET total == PagesOf[of.lib][of.filter]
        items == IF of.page < total THEN Append(l.items, of) ELSE l.items
    IN  [l EXCEPT !.items = items, !.page = of.page, !.loading = FALSE,
                  !.more = Len(items) < total]

\* Slip: any page of the library on screen.
SameLibrary(l, r) == r.of.lib = l.lib

\* Is this the page the list is waiting for?
Current(l, r) == r.nth = l.nth
-----------------------------------------------------------------------------
(* Signing in and out *)

\* The library an earlier run of the application may have left as the last used.
UsedBefore == {last \in [Servers -> Libraries \cup {NoLibrary}] :
                 \A s \in Servers : \E libs \in LibrariesOf[s] :
                     IF libs = <<>> THEN last[s] = NoLibrary ELSE last[s] = libs[Len(libs)]}

\* Nothing is on disk yet, or what an earlier run has left there.
Init ==
    /\ phase = "out" /\ server \in Servers /\ login = 0 /\ stray = 0 /\ generation = 0
    /\ library = NoLibrary /\ libraries = 0 /\ home = Nothing
    /\ playlists = Nothing /\ picked = {} /\ cards = <<>>
    /\ searches = 0 /\ hits = NoHits /\ asked = NoQuery
    /\ list = [lib |-> NoLibrary, filter |-> NoFilter, items |-> <<>>, page |-> 0,
               more |-> FALSE, loading |-> FALSE, nth |-> 0]
    /\ progress = [i \in Items |-> NoRecord]
    /\ details = NoDetails
    /\ \/ /\ enabled = FALSE
          /\ lastLibrary = [s \in Servers |-> NoLibrary]
          /\ savedPicks = [s \in Servers |-> {}]
          /\ cache = [k \in Servers \X Items |-> NoServer]
       \/ /\ enabled = TRUE
          /\ lastLibrary \in UsedBefore
          /\ savedPicks = [s \in Servers |-> Playlists]
          /\ cache = [k \in Servers \X Items |-> k[1]]
    /\ flying = {} /\ ops = 0

\* loadFromUser()
Told(user, n) ==
    [i \in Items |-> IF i \notin user.begun \cup user.finished THEN NoRecord
                     ELSE [begun |-> TRUE, finished |-> i \in user.finished, login |-> n,
                           stray |-> FALSE]]

\* One more thing the user does: a sign-in, a book played, whatever is asked for.
Counted == ops < MaxOps /\ ops' = ops + 1

\* reset(), less the picks
Reset ==
    /\ generation' = generation + 1 /\ searches' = searches + 1
    /\ library' = NoLibrary /\ libraries' = 0
    /\ home' = Nothing /\ playlists' = Nothing
    /\ list' = Emptied(list) /\ hits' = NoHits /\ asked' = NoQuery

\* A listening session of sign-in n closes: the place it reached, be it the very
\* start, becomes the item's progress.
Recorded(n, outlived) ==
    \E i \in Items, begun, finished \in BOOLEAN :
        /\ finished => begun
        /\ progress' = [progress EXCEPT ![i] = [begun |-> begun, finished |-> finished,
                                               login |-> n, stray |-> outlived]]

\* The /play left behind is over: it failed or became stale, or the session it
\* opened behind the login screen has closed.
StrayEnds ==
    /\ stray' = 0
    /\ \/ UNCHANGED progress
       \/ stray # 0 /\ Recorded(stray, TRUE)
    /\ UNCHANGED <<playlists, picked, enabled>>
    /\ UpdateNextUp

\* The sign-in ends with no session open, or with its /play unanswered.
LeftOpening ==
    \/ stray' \in {0, stray} /\ UNCHANGED ops
    \/ stray' = login /\ Counted

\* The login screen points the client at another server, which completes every
\* request in flight as stale: each handler returns at once.  The state then
\* changes, and a session still open is closed.
ChooseServer(s) ==
    /\ phase # "in" /\ s # server
    /\ server' = s /\ flying' = {}
    /\ StrayEnds
    /\ UNCHANGED <<phase, login, generation, shelfVars, searchVars, list, details, diskVars, ops>>

\* authenticated(): reset(), the user's progress, then loadLibraries().  A /play
\* of the sign-in before may still be unanswered, or just have been.
Authenticated ==
    /\ phase # "in" /\ Counted
    /\ phase' = "in" /\ login' = login + 1
    /\ Reset
    /\ \E user \in UsersProgress : progress' = Told(user, login')
    /\ picked' = savedPicks[server]
    /\ UNCHANGED enabled
    /\ UpdateNextUp
    /\ flying' = flying \cup {Ask("libraries", NoLibrary)}
    /\ UNCHANGED <<server, stray, details, diskVars>>

\* sessionEnding(): the session closes, reset(), and nothing is known of any item.
SessionEnding ==
    /\ phase = "in"
    /\ phase' = "out"
    /\ LeftOpening
    /\ Reset
    /\ progress' = [i \in Items |-> NoRecord]
    /\ picked' = {}
    /\ UNCHANGED enabled
    /\ UpdateNextUp
    /\ UNCHANGED <<server, login, details, diskVars, flying>>

\* The session is refused: the login screen covers what is shown, and an open
\* listening session is closed.
SessionRefused ==
    /\ phase = "in"
    /\ phase' = "lost"
    /\ \/ StrayEnds /\ UNCHANGED ops
       \/ /\ stray = 0 /\ stray' = 0 /\ Recorded(login, FALSE) /\ Counted
          /\ UNCHANGED <<playlists, picked, enabled>>
          /\ UpdateNextUp
       \/ LeftOpening /\ UNCHANGED <<progress, nextUpVars>>
    /\ UNCHANGED <<server, login, generation, shelfVars, searchVars, list, details, diskVars,
                   flying>>

\* It may end at any time, after the next sign-in too: play() of another book
\* ends it at the latest.
StrayOver ==
    /\ stray # 0
    /\ StrayEnds
    /\ UNCHANGED <<phase, server, login, generation, shelfVars, searchVars, list, details,
                   diskVars, flying, ops>>
-----------------------------------------------------------------------------
(* What the user asks for *)

Asks == phase = "in" /\ Counted /\ UNCHANGED sessionVars

\* selectLibrary(), called by the user and by loadLibraries()
Select(lib) ==
    /\ library' = lib
    /\ playlists' = IF lib = library THEN playlists ELSE Nothing
    /\ lastLibrary' = [lastLibrary EXCEPT ![server] = lib]
    /\ list' = Loaded(list, lib, AllItems)

SelectRequests(lib) == {Ask("home", lib), Ask("playlists", lib), AskPage(list', 0)}

SelectLibrary(lib) ==
    /\ Asks /\ libraries # 0
    /\ Select(lib)
    /\ flying' = flying \cup SelectRequests(lib)
    /\ UNCHANGED <<picked, enabled, progress>>
    /\ UpdateNextUp
    /\ UNCHANGED <<libraries, home, searchVars, details, savedPicks, cache>>

\* refreshHome(), refreshPlaylists()
Refresh(kind) ==
    /\ Asks /\ library # NoLibrary
    /\ flying' = flying \cup {Ask(kind, library)}
    /\ UNCHANGED <<shelfVars, nextUpVars, searchVars, list, progress, details, diskVars>>

\* browse(), browseSeries(), browseAuthor()
Browse(filter) ==
    /\ Asks /\ library # NoLibrary
    /\ list' = Loaded(list, library, filter)
    /\ flying' = flying \cup {AskPage(list', 0)}
    /\ UNCHANGED <<shelfVars, nextUpVars, searchVars, progress, details, diskVars>>

CanLoadMore(l) == l.more /\ ~l.loading

LoadMore ==
    /\ Asks /\ CanLoadMore(list)
    /\ list' = [list EXCEPT !.loading = TRUE]
    /\ flying' = flying \cup {AskPage(list, list.page + 1)}
    /\ UNCHANGED <<shelfVars, nextUpVars, searchVars, progress, details, diskVars>>

Search(query) ==
    /\ Asks /\ library # NoLibrary
    /\ searches' = searches + 1 /\ asked' = query
    /\ flying' = flying \cup {[kind |-> "search", query |-> query, login |-> login,
                               gen |-> generation, nth |-> searches']}
    /\ UNCHANGED <<shelfVars, nextUpVars, hits, list, progress, details, diskVars>>

\* Slip: the hits go, the search in flight stays good.
ClearHitsOnly ==
    /\ Asks
    /\ hits' = NoHits /\ asked' = NoQuery
    /\ UNCHANGED <<searches, shelfVars, nextUpVars, list, progress, details, diskVars, flying>>

\* An emptied search box, and every opening of the search screen.
ClearSearch ==
    /\ Asks
    /\ searches' = searches + 1 /\ hits' = NoHits /\ asked' = NoQuery
    /\ UNCHANGED <<shelfVars, nextUpVars, list, progress, details, diskVars, flying>>

AskItem(i) == [kind |-> "item", item |-> i, login |-> login, gen |-> generation]

LoadItem(i) ==
    /\ Asks
    /\ flying' = flying \cup {AskItem(i)}
    /\ UNCHANGED <<shelfVars, nextUpVars, searchVars, list, progress, details, diskVars>>

MarkFinished(i, finished) ==
    /\ Asks
    /\ flying' = flying \cup {[kind |-> "mark", item |-> i, login |-> login, gen |-> generation,
                               finished |-> finished]}
    /\ UNCHANGED <<shelfVars, nextUpVars, searchVars, list, progress, details, diskVars>>

SetNextUpPlaylist(p) ==
    /\ Asks
    /\ picked' = IF p \in picked THEN picked \ {p} ELSE picked \cup {p}
    /\ savedPicks' = [savedPicks EXCEPT ![server] = picked']
    /\ UNCHANGED <<playlists, enabled, progress>>
    /\ UpdateNextUp
    /\ UNCHANGED <<shelfVars, searchVars, list, details, lastLibrary, cache, flying>>

SetPlaylistNextUpEnabled ==
    /\ Asks
    /\ enabled' = ~enabled
    /\ UNCHANGED <<playlists, picked, progress>>
    /\ UpdateNextUp
    /\ UNCHANGED <<shelfVars, searchVars, list, details, diskVars, flying>>

\* A book has been played: play() has ended what strayed, and the session closes.
BookCloses ==
    /\ Asks /\ stray = 0
    /\ Recorded(login, FALSE)
    /\ UNCHANGED <<playlists, picked, enabled>>
    /\ UpdateNextUp
    /\ UNCHANGED <<shelfVars, searchVars, list, details, diskVars, flying>>
-----------------------------------------------------------------------------
(* The replies *)

\* Most handlers drop the reply to a request of before the last reset().
OfThisGeneration(r) == r.gen = generation

\* The first of the list, unless the library last used here is on it.
Preferred(libs) == IF \E k \in DOMAIN libs : libs[k] = lastLibrary[server]
                   THEN lastLibrary[server] ELSE Head(libs)

LibrariesOk(r, libs) ==
    /\ r.kind = "libraries" /\ OfThisGeneration(r)
    /\ libraries' = r.login
    /\ \/ /\ libs # <<>> /\ library = NoLibrary
          /\ UNCHANGED sessionVars
          /\ Select(Preferred(libs))
          /\ flying' = (flying \ {r}) \cup SelectRequests(Preferred(libs))
          /\ UNCHANGED <<picked, enabled, progress>>
          /\ UpdateNextUp
       \/ /\ libs = <<>> \/ library # NoLibrary
          /\ flying' = flying \ {r}
          /\ UNCHANGED <<sessionVars, library, playlists, picked, enabled, cards, lastLibrary,
                         list, progress>>
    /\ UNCHANGED <<home, searchVars, details, savedPicks, cache, ops>>

HomeOk(r) ==
    /\ r.kind = "home" /\ OfThisGeneration(r)
    /\ home' = [lib |-> r.lib, login |-> r.login]
    /\ flying' = flying \ {r}
    /\ UNCHANGED <<sessionVars, library, libraries, nextUpVars, searchVars, list, progress,
                   details, diskVars, ops>>

\* Slip: the library may have changed since.
AnyLibrary(r) == OfThisGeneration(r)

OfThisLibrary(r) == OfThisGeneration(r) /\ r.lib = library

PlaylistsOk(r) ==
    /\ r.kind = "playlists" /\ OfThisLibrary(r)
    /\ playlists' = [lib |-> r.lib, login |-> r.login]
    /\ flying' = flying \ {r}
    /\ UNCHANGED <<picked, enabled, progress>>
    /\ UpdateNextUp
    /\ UNCHANGED <<sessionVars, shelfVars, searchVars, list, details, diskVars, ops>>

PageAnswered(r, ok) ==
    /\ r.kind = "page" /\ Current(list, r)
    /\ list' = IF ok THEN Appended(list, r.of) ELSE [list EXCEPT !.loading = FALSE]
    /\ flying' = flying \ {r}
    /\ UNCHANGED <<sessionVars, shelfVars, nextUpVars, searchVars, progress, details,
                   diskVars, ops>>

LatestSearch(r) == OfThisGeneration(r) /\ r.nth = searches

SearchOk(r) ==
    /\ r.kind = "search" /\ LatestSearch(r)
    /\ hits' = [query |-> r.query, login |-> r.login]
    /\ flying' = flying \ {r}
    /\ UNCHANGED <<sessionVars, shelfVars, nextUpVars, searches, asked, list, progress, details,
                   diskVars, ops>>

ItemCacheKey(i) == <<server, i>>

\* The item is cached, shown, and its progress is taken over when it has any.
ItemOk(r) ==
    /\ r.kind = "item" /\ OfThisGeneration(r)
    /\ cache' = [cache EXCEPT ![ItemCacheKey(r.item)] = server]
    /\ details' = [item |-> r.item, of |-> server, login |-> r.login]
    /\ \/ UNCHANGED progress
       \/ \E finished \in BOOLEAN : progress' = [progress EXCEPT ![r.item] =
                                                [begun |-> TRUE, finished |-> finished,
                                                 login |-> r.login, stray |-> FALSE]]
    /\ flying' = flying \ {r}
    /\ UNCHANGED <<playlists, picked, enabled>>
    /\ UpdateNextUp
    /\ UNCHANGED <<sessionVars, shelfVars, searchVars, list, lastLibrary, savedPicks, ops>>

\* Slip: what the cache holds is not looked at.
ItemFailsBlindly(r) ==
    /\ r.kind = "item" /\ OfThisGeneration(r)
    /\ details' = [item |-> r.item, of |-> cache[ItemCacheKey(r.item)], login |-> r.login]
    /\ flying' = flying \ {r}
    /\ UNCHANGED <<sessionVars, shelfVars, nextUpVars, searchVars, list, progress,
                   diskVars, ops>>

\* Failing that, the details of the last time are shown.
ItemFails(r) ==
    /\ r.kind = "item" /\ OfThisGeneration(r)
    /\ details' = IF cache[ItemCacheKey(r.item)] = NoServer THEN details
                  ELSE [item |-> r.item, of |-> cache[ItemCacheKey(r.item)], login |-> r.login]
    /\ flying' = flying \ {r}
    /\ UNCHANGED <<sessionVars, shelfVars, nextUpVars, searchVars, list, progress,
                   diskVars, ops>>

\* setFinished(), then loadItem()
MarkOk(r) ==
    /\ r.kind = "mark" /\ OfThisGeneration(r)
    /\ progress' = [progress EXCEPT ![r.item] =
                      IF @ = NoRecord
                      THEN [begun |-> r.finished, finished |-> r.finished, login |-> login,
                            stray |-> FALSE]
                      ELSE [@ EXCEPT !.finished = r.finished]]
    /\ flying' = (flying \ {r}) \cup {AskItem(r.item)}
    /\ UNCHANGED <<playlists, picked, enabled>>
    /\ UpdateNextUp
    /\ UNCHANGED <<sessionVars, shelfVars, searchVars, list, details, diskVars, ops>>

\* The replies that change nothing: those of before the last reset(), late ones,
\* and failures other than a page's or an item's.
Dropped(r) ==
    /\ \/ r.kind # "page" /\ ~OfThisGeneration(r)
       \/ r.kind = "playlists" /\ ~OfThisLibrary(r)
       \/ r.kind = "search" /\ ~LatestSearch(r)
       \/ r.kind = "page" /\ ~Current(list, r)
       \/ r.kind \notin {"page", "item"}
    /\ flying' = flying \ {r}
    /\ UNCHANGED <<sessionVars, shelfVars, nextUpVars, searchVars, list, progress, details,
                   diskVars, ops>>
-----------------------------------------------------------------------------

Wiring ==
    \/ \E s \in Servers : ChooseServer(s)
    \/ Authenticated
    \/ SessionEnding
    \/ SessionRefused
    \/ StrayOver

UserStep ==
    \/ \E lib \in Libraries : SelectLibrary(lib)
    \/ \E kind \in {"home", "playlists"} : Refresh(kind)
    \/ \E filter \in Filters : Browse(filter)
    \/ LoadMore
    \/ \E query \in Queries : Search(query)
    \/ ClearSearch
    \/ \E i \in Items : LoadItem(i)
    \/ \E i \in Items, finished \in BOOLEAN : MarkFinished(i, finished)
    \/ \E p \in Playlists : SetNextUpPlaylist(p)
    \/ SetPlaylistNextUpEnabled
    \/ BookCloses

Answer(r) ==
    \/ \E libs \in LibrariesOf[server] : LibrariesOk(r, libs)
    \/ HomeOk(r)
    \/ PlaylistsOk(r)
    \/ \E ok \in BOOLEAN : PageAnswered(r, ok)
    \/ SearchOk(r)
    \/ ItemOk(r)
    \/ ItemFails(r)
    \/ MarkOk(r)
    \/ Dropped(r)

Reply == \E r \in flying : Answer(r)

Next == Wiring \/ UserStep \/ Reply

Spec == Init /\ [][Next]_vars

\* Fairness: every request has a transfer timeout, so it is answered in the end.
FairSpec == Spec /\ WF_vars(Reply)
-----------------------------------------------------------------------------
\* LibraryItemsModel: what is listed is the beginning of one listing, the current
\* one, page by page, with no page missing, repeated or of another listing; and
\* "more" is on offer exactly when there is more.
ListingIsWhole ==
    /\ \A k \in DOMAIN list.items :
          list.items[k] = [lib |-> list.lib, filter |-> list.filter, page |-> k - 1,
                           login |-> login]
    /\ list.items # <<>> => list.page = Len(list.items) - 1
    /\ list.more <=> /\ list.items # <<>>
                     /\ Len(list.items) < PagesOf[list.lib][list.filter]

\* Backend: the Next Up shelf always shows what the playlists, the picks, the
\* setting and the progress of the items, as they are now, amount to.
NextUpFollows == cards = NextUp(playlists, progress, picked, enabled)

\* reset(), main.cpp:155: nothing on screen was fetched under an earlier sign-in,
\* nothing at all is left after signing out, the playlists are those of the
\* selected library, and the item shown (a saved copy included) is of this server.
\* What a /play left unanswered at the end of its sign-in comes to record is the
\* one exception.
OnlyThisSession ==
    /\ {libraries, home.login, playlists.login, hits.login} \subseteq {0, login}
    /\ \A i \in Items : progress[i].login \in {0, login} \/ progress[i].stray
    /\ playlists.lib \in {NoLibrary, library}
    /\ phase = "out" => /\ <<library, libraries, home, playlists>>
                             = <<NoLibrary, 0, Nothing, Nothing>>
                        /\ <<picked, cards, hits, list.items>> = <<{}, <<>>, NoHits, <<>>>>
                        /\ \A i \in Items : progress[i] = NoRecord \/ progress[i].stray
    /\ phase = "in" /\ details # NoDetails /\ details.login = login => details.of = server

\* search(), clearSearch(): hits that appear are of what was last asked for, never of
\* a query typed past; and while the search box is empty, or the sign-in new, none
\* are shown, whatever is still answered.
SearchNeverGoesBack ==
    [][/\ asked' = NoQuery => hits' = NoHits
       /\ hits' # hits => hits' = NoHits \/ hits'.query = asked']_vars

\* Liveness: the list never reports loading for ever.
LoadingEnds == (phase = "in" /\ list.loading) ~> (phase # "in" \/ ~list.loading)
=============================================================================
