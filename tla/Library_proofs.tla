---------------------------- MODULE Library_proofs ----------------------------
(***************************************************************************)
(* What is proved of the signed-in screens: the types, that the Next Up    *)
(* shelf follows what it is made from, that the list on screen is a whole  *)
(* beginning of one listing, and that nothing of an earlier session shows. *)
(***************************************************************************)
EXTENDS Library, TLAPS

(* The Next Up shelf *)

\* updatePlaylistNextUp(): each handler either leaves alone all that the shelf is
\* made from or makes it anew, so the shelf always shows what these amount to.
THEOREM ShelfFollows == Spec => []NextUpFollows
<1>1. Init => NextUpFollows
  BY DEF Init, NextUpFollows, NextUp, Nothing
<1>2. NextUpFollows /\ [Next]_vars => NextUpFollows'
  <2> SUFFICES ASSUME NextUpFollows, [Next]_vars PROVE NextUpFollows'
    OBVIOUS
  <2> USE DEF sessionVars, shelfVars, nextUpVars, searchVars, diskVars
  <2>1. CASE UpdateNextUp
    BY <2>1 DEF UpdateNextUp, NextUpFollows
  <2>2. CASE UNCHANGED <<playlists, progress, picked, enabled, cards>>
    BY <2>2 DEF NextUpFollows
  <2>3. CASE Wiring
    BY <2>1, <2>2, <2>3
       DEF Wiring, ChooseServer, Authenticated, SessionEnding, SessionRefused, StrayOver, StrayEnds
  <2>4. CASE UserStep
    BY <2>1, <2>2, <2>4
       DEF UserStep, SelectLibrary, Refresh, Browse, LoadMore, Search, ClearSearch, LoadItem,
           MarkFinished, SetNextUpPlaylist, SetPlaylistNextUpEnabled, BookCloses
  <2>5. CASE Reply
    BY <2>1, <2>2, <2>5
       DEF Reply, Answer, LibrariesOk, HomeOk, PlaylistsOk, PageAnswered, SearchOk, ItemOk,
           ItemFails, MarkOk, Dropped
  <2>6. CASE UNCHANGED vars
    BY <2>2, <2>6 DEF vars
  <2> QED
    BY <2>3, <2>4, <2>5, <2>6 DEF Next
<1> QED
  BY <1>1, <1>2, PTL DEF Spec
-----------------------------------------------------------------------------
(* Types *)

\* The sign-ins are counted within the bound.
Bounds == login <= ops

\* A request for a page is one of an older listing, or the one the list awaits: its
\* next page, which it has been told there is unless it is the first.
Awaited(r) ==
    /\ list.loading
    /\ r.of = [lib |-> list.lib, filter |-> list.filter, page |-> Len(list.items), login |-> login]
    /\ list.items # <<>> => list.more

Listing ==
    /\ ListingIsWhole
    /\ \A r \in flying : r.kind = "page" => /\ r.nth <= list.nth
                                            /\ r.nth = list.nth => Awaited(r)

Lists == [lib : Libraries \cup {NoLibrary}, filter : Filters \cup {NoFilter},
          items : Seq(Pages), page : Nat, more : BOOLEAN, loading : BOOLEAN, nth : Nat]

LEMMA RequestKinds ==
    ASSUME NEW r \in Requests
    PROVE  /\ r.kind = "page" => r \in PageRequests
           /\ r.kind = "search" => r \in SearchRequests
           /\ r.kind = "item" => r \in ItemRequests
           /\ r.kind = "mark" => r \in MarkRequests
           /\ r.kind \in {"libraries", "home", "playlists"} => r \in ContentRequests
           /\ r.kind \in {"page", "search", "item", "mark", "libraries", "home", "playlists"}
  BY DEF Requests, PageRequests, SearchRequests, ItemRequests, MarkRequests, ContentRequests

LEMMA AsksTyped ==
    ASSUME NEW kind \in {"libraries", "home", "playlists"}, NEW lib \in Libraries \cup {NoLibrary},
           login' \in Logins, generation' \in Nat
    PROVE  /\ Ask(kind, lib) \in Requests /\ Ask(kind, lib).kind = kind
           /\ Ask(kind, lib).login = login' /\ Ask(kind, lib).gen = generation'
  BY DEF Ask, Requests, ContentRequests

LEMMA AskPageTyped ==
    ASSUME NEW l \in Lists, l.lib \in Libraries, l.filter \in Filters, NEW page \in Nat,
           login' \in Logins
    PROVE  /\ AskPage(l, page) \in Requests /\ AskPage(l, page).kind = "page"
           /\ AskPage(l, page).nth = l.nth
           /\ AskPage(l, page).of = [lib |-> l.lib, filter |-> l.filter, page |-> page,
                                     login |-> login']
<1>1. [lib |-> l.lib, filter |-> l.filter, page |-> page, login |-> login'] \in Pages
  BY DEF Pages
<1> QED
  BY <1>1 DEF AskPage, Requests, PageRequests, Lists

LEMMA ListedTyped ==
    ASSUME TypeOK, Listing, list.more
    PROVE  list.items # <<>> /\ list.lib \in Libraries /\ list.filter \in Filters
<1>1. list.items # <<>> /\ list.items \in Seq(Pages)
  BY DEF TypeOK, Listing, ListingIsWhole
<1>2. list.items[1] \in Pages /\ 1 \in DOMAIN list.items
  BY <1>1
<1>3. list.items[1].lib = list.lib /\ list.items[1].filter = list.filter
  <2>1. \A k \in DOMAIN list.items :
           list.items[k] = [lib |-> list.lib, filter |-> list.filter, page |-> k - 1,
                            login |-> login]
    BY DEF Listing, ListingIsWhole
  <2>2. list.items[1] = [lib |-> list.lib, filter |-> list.filter, page |-> 1 - 1,
                         login |-> login]
    BY <1>2, <2>1
  <2> QED
    BY <2>2
<1> QED
  BY <1>1, <1>2, <1>3 DEF Pages

LEMMA EmptiedTyped ==
    ASSUME NEW l \in Lists
    PROVE  /\ Emptied(l) \in Lists /\ Emptied(l).items = <<>> /\ ~Emptied(l).more
           /\ ~Emptied(l).loading /\ Emptied(l).nth = l.nth + 1
<1>1. l.nth \in Nat /\ l.nth + 1 \in Nat /\ <<>> \in Seq(Pages)
  BY DEF Lists
<1>2. Emptied(l) \in Lists
  BY <1>1 DEF Lists, Emptied
<1>3. /\ Emptied(l).items = <<>> /\ ~Emptied(l).more /\ ~Emptied(l).loading
      /\ Emptied(l).nth = l.nth + 1
  BY DEF Lists, Emptied
<1> QED
  BY <1>2, <1>3

LEMMA LoadedTyped ==
    ASSUME NEW l \in Lists, NEW lib \in Libraries, NEW filter \in Filters
    PROVE  /\ Loaded(l, lib, filter) \in Lists /\ Loaded(l, lib, filter).items = <<>>
           /\ ~Loaded(l, lib, filter).more /\ Loaded(l, lib, filter).loading
           /\ Loaded(l, lib, filter).nth = l.nth + 1
           /\ Loaded(l, lib, filter).lib = lib /\ Loaded(l, lib, filter).filter = filter
<1>1. l.nth + 1 \in Nat /\ <<>> \in Seq(Pages)
  BY DEF Lists
<1>2. Loaded(l, lib, filter) \in Lists
  BY <1>1 DEF Lists, Loaded
<1> QED
  BY <1>2 DEF Loaded

\* The page a listing awaited becomes its last, if there is such a page.
LEMMA AppendedTyped ==
    ASSUME NEW l \in Lists, NEW of \in Pages
    PROVE  LET total == PagesOf[of.lib][of.filter]
               new == Appended(l, of)
           IN  /\ total \in Nat /\ new \in Lists
               /\ new.items = IF of.page < total THEN Append(l.items, of) ELSE l.items
               /\ new.page = of.page /\ ~new.loading /\ new.more = (Len(new.items) < total)
               /\ new.lib = l.lib /\ new.filter = l.filter /\ new.nth = l.nth
<1> DEFINE total == PagesOf[of.lib][of.filter]
           items == IF of.page < total THEN Append(l.items, of) ELSE l.items
<1>1. total \in Nat
  BY LibraryAssumption DEF Pages
<1>2. items \in Seq(Pages) /\ of.page \in Nat
  <2>1. l.items \in Seq(Pages)
    BY DEF Lists
  <2>2. of.page \in Nat
    BY DEF Pages
  <2> QED
    BY <2>1, <2>2
<1>3. (Len(items) < total) \in BOOLEAN
  OBVIOUS
<1>4. Appended(l, of) = [l EXCEPT !.items = items, !.page = of.page, !.loading = FALSE,
                                  !.more = Len(items) < total]
  BY DEF Appended
<1> HIDE DEF items, total
<1>5. /\ Appended(l, of) \in Lists /\ Appended(l, of).items = items
      /\ Appended(l, of).page = of.page /\ ~Appended(l, of).loading
      /\ Appended(l, of).more = (Len(items) < total)
      /\ Appended(l, of).lib = l.lib /\ Appended(l, of).filter = l.filter
      /\ Appended(l, of).nth = l.nth
  BY <1>2, <1>3, <1>4 DEF Lists
<1> QED
  BY <1>1, <1>5 DEF items, total

LEMMA ToldTyped ==
    ASSUME NEW user \in UsersProgress, NEW n \in Logins
    PROVE  Told(user, n) \in [Items -> Records] /\ \A i \in Items : Told(user, n)[i].login \in {0, n}
<1>1. 0 \in Logins
  BY LibraryAssumption DEF Logins
<1> QED
  BY <1>1 DEF Told, Records, NoRecord

\* A listening session that closes makes one record, of the sign-in it was of.
LEMMA RecordedTyped ==
    ASSUME TypeOK, NEW n \in Logins, NEW outlived \in BOOLEAN, Recorded(n, outlived)
    PROVE  /\ progress' \in [Items -> Records]
           /\ \A i \in Items : \/ progress'[i] = progress[i]
                              \/ /\ progress'[i].login = n
                                 /\ progress'[i].stray = outlived
<1>1. PICK i \in Items, begun \in BOOLEAN, finished \in BOOLEAN :
         progress' = [progress EXCEPT ![i] = [begun |-> begun, finished |-> finished,
                                              login |-> n, stray |-> outlived]]
  BY DEF Recorded
<1>2. progress \in [Items -> Records]
  BY DEF TypeOK
<1> QED
  BY <1>1, <1>2 DEF Records

\* The end of what outlived its sign-in leaves at most one record, marked as its own.
LEMMA StrayTyped ==
    ASSUME TypeOK, StrayEnds
    PROVE  /\ stray' \in Logins /\ progress' \in [Items -> Records]
           /\ \A i \in Items : progress'[i] = progress[i] \/ progress'[i].stray
           /\ UNCHANGED <<playlists, picked, enabled>> /\ UpdateNextUp
<1>1. stray' = 0 /\ 0 \in Logins /\ stray \in Logins
  BY LibraryAssumption DEF StrayEnds, TypeOK, Logins
<1>2. CASE UNCHANGED progress
  BY <1>1, <1>2 DEF StrayEnds, TypeOK
<1>3. CASE Recorded(stray, TRUE)
  BY <1>1, <1>3, RecordedTyped DEF StrayEnds
<1> QED
  BY <1>2, <1>3 DEF StrayEnds

\* What a sign-in leaves unanswered is its own /play.
LEMMA LeftTyped ==
    ASSUME TypeOK, Bounds, LeftOpening
    PROVE  stray' \in Logins /\ ops' \in 0 .. MaxOps /\ login <= ops'
<1>1. /\ MaxOps \in Nat /\ 0 \in Logins /\ stray \in Logins /\ login \in Logins
      /\ ops \in 0 .. MaxOps /\ login <= ops /\ login \in Nat
  BY LibraryAssumption DEF TypeOK, Logins, Bounds
<1> QED
  BY <1>1 DEF LeftOpening, Counted

LEMMA PreferredTyped ==
    ASSUME TypeOK, NEW libs \in LibrariesOf[server], libs # <<>>
    PROVE  Preferred(libs) \in Libraries
<1>1. libs \in Seq(Libraries)
  BY LibraryAssumption DEF TypeOK
<1> QED
  BY <1>1 DEF Preferred

LEMMA SelectTyped ==
    ASSUME TypeOK, NEW lib \in Libraries, Select(lib), login' = login, generation' = generation
    PROVE  /\ library' \in Libraries \cup {NoLibrary} /\ playlists' \in Shown
           /\ lastLibrary' \in [Servers -> Libraries \cup {NoLibrary}]
           /\ list' \in Lists /\ list'.items = <<>> /\ ~list'.more /\ SelectRequests(lib) \subseteq Requests
<1>1. list \in Lists /\ AllItems \in Filters /\ login' \in Logins /\ generation' \in Nat
  BY LibraryAssumption DEF TypeOK, Lists
<1>2. list' = Loaded(list, lib, AllItems)
  BY DEF Select
<1>3. /\ list' \in Lists /\ list'.items = <<>> /\ ~list'.more /\ list'.lib = lib
      /\ list'.filter = AllItems
  BY <1>1, <1>2, LoadedTyped
<1>4. /\ Ask("home", lib) \in Requests /\ Ask("playlists", lib) \in Requests
      /\ AskPage(list', 0) \in Requests
  BY <1>1, <1>3, AsksTyped, AskPageTyped
<1>5. Nothing \in Shown
  BY LibraryAssumption DEF Nothing, Shown, Logins
<1> QED
  BY <1>3, <1>4, <1>5 DEF Select, SelectRequests, TypeOK

LEMMA ResetTyped ==
    ASSUME TypeOK, Reset
    PROVE  /\ generation' \in Nat /\ searches' \in Nat /\ library' \in Libraries \cup {NoLibrary}
           /\ libraries' \in Logins /\ home' \in Shown /\ playlists' \in Shown /\ hits' \in Hits
           /\ asked' \in Queries \cup {NoQuery}
           /\ list' \in Lists /\ list'.items = <<>> /\ ~list'.more
<1>1. list \in Lists /\ list' = Emptied(list)
  BY DEF TypeOK, Lists, Reset
<1>2. list' \in Lists /\ list'.items = <<>> /\ ~list'.more
  BY <1>1, EmptiedTyped
<1>3. Nothing \in Shown /\ NoHits \in Hits /\ 0 \in Logins
  BY LibraryAssumption DEF Nothing, Shown, NoHits, Hits, Logins
<1> QED
  BY <1>2, <1>3 DEF Reset, TypeOK

LEMMA AnswersTyped ==
    ASSUME TypeOK, Bounds, NEW r \in flying, Answer(r)
    PROVE  TypeOK' /\ Bounds'
<1> USE DEF sessionVars, shelfVars, nextUpVars, searchVars, diskVars
<1>1. /\ MaxOps \in Nat /\ login \in Logins /\ generation \in Nat /\ list \in Lists
      /\ progress \in [Items -> Records] /\ flying \subseteq Requests /\ r \in Requests
      /\ server \in Servers /\ flying \ {r} \subseteq Requests
  BY LibraryAssumption DEF TypeOK, Lists
<1>2. /\ r.kind = "page" => r \in PageRequests
      /\ r.kind = "search" => r \in SearchRequests
      /\ r.kind = "item" => r \in ItemRequests
      /\ r.kind = "mark" => r \in MarkRequests
      /\ r.kind \in {"libraries", "home", "playlists"} => r \in ContentRequests
  BY <1>1, RequestKinds
<1>3. ASSUME UNCHANGED <<login, ops>> PROVE Bounds'
  BY <1>3 DEF Bounds
<1>4. ASSUME NEW libs \in LibrariesOf[server], LibrariesOk(r, libs) PROVE TypeOK' /\ Bounds'
  <2>1. /\ libraries' \in Logins
        /\ UNCHANGED <<phase, server, login, stray, generation, home, searches, hits, asked, details,
                       savedPicks, cache, ops, picked, enabled, progress>>
    BY <1>2, <1>4 DEF LibrariesOk, ContentRequests
  <2>2. CASE libs # <<>> /\ library = NoLibrary
    <3> DEFINE lib == Preferred(libs)
    <3>1. lib \in Libraries /\ Select(lib) /\ flying' = (flying \ {r}) \cup SelectRequests(lib)
      BY <1>4, <2>2, PreferredTyped DEF LibrariesOk
    <3> HIDE DEF lib
    <3>2. /\ library' \in Libraries \cup {NoLibrary} /\ playlists' \in Shown
          /\ lastLibrary' \in [Servers -> Libraries \cup {NoLibrary}] /\ list' \in Lists
          /\ list'.items = <<>> /\ ~list'.more /\ SelectRequests(lib) \subseteq Requests
      BY <2>1, <3>1, SelectTyped
    <3>3. TypeOK'
      BY <1>1, <2>1, <3>1, <3>2 DEF TypeOK, Lists
    <3> QED
      BY <2>1, <3>2, <3>3 DEF Bounds
  <2>3. CASE libs = <<>> \/ library # NoLibrary
    BY <1>1, <1>3, <1>4, <2>1, <2>3 DEF LibrariesOk, TypeOK
  <2> QED
    BY <2>2, <2>3
<1>5. CASE HomeOk(r)
  <2>1. home' \in Shown
    BY <1>2, <1>5 DEF HomeOk, Shown, ContentRequests
  <2> QED
    BY <1>1, <1>3, <1>5, <2>1 DEF HomeOk, TypeOK
<1>6. CASE PlaylistsOk(r)
  <2>1. playlists' \in Shown
    BY <1>2, <1>6 DEF PlaylistsOk, Shown, ContentRequests
  <2> QED
    BY <1>1, <1>3, <1>6, <2>1 DEF PlaylistsOk, TypeOK
<1>7. ASSUME NEW ok \in BOOLEAN, PageAnswered(r, ok) PROVE TypeOK' /\ Bounds'
  <2>1. r \in PageRequests /\ r.of \in Pages /\ r.of.lib \in Libraries /\ r.of.filter \in Filters
    BY <1>2, <1>7 DEF PageAnswered, PageRequests, Pages
  <2>2. /\ list' = IF ok THEN Appended(list, r.of) ELSE [list EXCEPT !.loading = FALSE]
        /\ flying' = flying \ {r}
    BY <1>7 DEF PageAnswered
  <2>3. list' \in Lists
    BY <1>1, <2>1, <2>2, AppendedTyped DEF Lists
  <2>4. TypeOK'
    BY <1>1, <1>7, <2>2, <2>3 DEF PageAnswered, TypeOK, Lists
  <2> QED
    BY <1>3, <1>7, <2>4 DEF PageAnswered
<1>8. CASE SearchOk(r)
  <2>1. hits' \in Hits
    BY <1>2, <1>8 DEF SearchOk, Hits, SearchRequests
  <2> QED
    BY <1>1, <1>3, <1>8, <2>1 DEF SearchOk, TypeOK
<1>9. CASE ItemOk(r)
  <2>1. r.item \in Items /\ r.login \in Logins
    BY <1>2, <1>9 DEF ItemOk, ItemRequests
  <2>2. details' \in Details
    BY <1>1, <1>9, <2>1 DEF ItemOk, Details
  <2>3. cache' \in [Servers \X Items -> Servers \cup {NoServer}]
    BY <1>1, <1>9, <2>1 DEF ItemOk, ItemCacheKey, TypeOK
  <2>4. progress' \in [Items -> Records]
    <3>1. CASE UNCHANGED progress
      BY <1>1, <3>1
    <3>2. CASE \E finished \in BOOLEAN :
                 progress' = [progress EXCEPT ![r.item] = [begun |-> TRUE, finished |-> finished,
                                                           login |-> r.login, stray |-> FALSE]]
      BY <1>1, <2>1, <3>2 DEF Records
    <3> QED
      BY <1>9, <3>1, <3>2 DEF ItemOk
  <2> QED
    BY <1>1, <1>3, <1>9, <2>2, <2>3, <2>4 DEF ItemOk, TypeOK
<1>10. CASE ItemFails(r)
  <2>1. r.item \in Items /\ r.login \in Logins
    BY <1>2, <1>10 DEF ItemFails, ItemRequests
  <2>2. cache[ItemCacheKey(r.item)] \in Servers \cup {NoServer}
    BY <1>1, <2>1 DEF ItemCacheKey, TypeOK
  <2>3. details' \in Details \cup {NoDetails}
    BY <1>1, <1>10, <2>1, <2>2 DEF ItemFails, Details, TypeOK
  <2> QED
    BY <1>1, <1>3, <1>10, <2>3 DEF ItemFails, TypeOK
<1>11. CASE MarkOk(r)
  <2>1. r.item \in Items /\ r.finished \in BOOLEAN
    BY <1>2, <1>11 DEF MarkOk, MarkRequests
  <2>2. flying' \subseteq Requests
    BY <1>1, <1>11, <2>1 DEF MarkOk, AskItem, Requests, ItemRequests
  <2>3. /\ [begun |-> r.finished, finished |-> r.finished, login |-> login,
             stray |-> FALSE] \in Records
        /\ [progress[r.item] EXCEPT !.finished = r.finished] \in Records
    BY <1>1, <2>1 DEF Records
  <2>4. progress' \in [Items -> Records]
    BY <1>1, <1>11, <2>1, <2>3 DEF MarkOk
  <2> QED
    BY <1>1, <1>3, <1>11, <2>2, <2>4 DEF MarkOk, TypeOK
<1>12. CASE Dropped(r)
  BY <1>1, <1>3, <1>12 DEF Dropped, TypeOK
<1> QED
  BY <1>4, <1>5, <1>6, <1>7, <1>8, <1>9, <1>10, <1>11, <1>12 DEF Answer

LEMMA TypesStep == TypeOK /\ Bounds /\ Listing /\ [Next]_vars => TypeOK' /\ Bounds'
<1> SUFFICES ASSUME TypeOK, Bounds, Listing, [Next]_vars PROVE TypeOK' /\ Bounds'
  OBVIOUS
<1> USE DEF sessionVars, shelfVars, nextUpVars, searchVars, diskVars
<1>1. /\ MaxOps \in Nat /\ login \in Logins /\ ops \in 0 .. MaxOps /\ generation \in Nat
      /\ list \in Lists /\ progress \in [Items -> Records] /\ flying \subseteq Requests
      /\ server \in Servers /\ searches \in Nat /\ login <= ops /\ login \in Nat
  BY LibraryAssumption DEF TypeOK, Lists, Bounds, Logins
<1>2. ASSUME Asks PROVE ops' \in 0 .. MaxOps /\ login <= ops' /\ UNCHANGED <<login, stray, generation>>
  BY <1>1, <1>2 DEF Asks, Counted
<1>3. ASSUME UNCHANGED <<login, ops>> PROVE Bounds'
  BY <1>3 DEF Bounds
<1>4. ASSUME NEW s \in Servers, ChooseServer(s) PROVE TypeOK' /\ Bounds'
  <2>1. StrayEnds /\ {} \subseteq Requests
    BY <1>4 DEF ChooseServer
  <2> QED
    BY <1>1, <1>4, <2>1, StrayTyped DEF ChooseServer, TypeOK, Bounds
<1>5. CASE Authenticated
  <2>1. /\ login' \in Logins /\ ops' \in 0 .. MaxOps /\ login' <= ops'
    BY <1>1, <1>5 DEF Authenticated, Counted, Logins
  <2>2. Reset
    BY <1>5 DEF Authenticated
  <2>3. progress' \in [Items -> Records]
    BY <1>5, <2>1, ToldTyped DEF Authenticated
  <2>4. generation' \in Nat
    BY <2>2, ResetTyped
  <2>5. flying' \subseteq Requests
    BY <1>1, <1>5, <2>1, <2>4, AsksTyped DEF Authenticated
  <2>6. picked' \subseteq Playlists
    BY <1>5 DEF Authenticated, TypeOK
  <2>7. TypeOK'
    BY <1>5, <2>1, <2>2, <2>3, <2>5, <2>6, ResetTyped DEF Authenticated, TypeOK, Lists
  <2> QED
    BY <2>1, <2>2, <2>7, ResetTyped DEF Bounds
<1>6. CASE SessionEnding
  <2>1. /\ Reset /\ LeftOpening /\ phase' = "out" /\ picked' = {}
        /\ UNCHANGED <<server, login, details, lastLibrary, savedPicks, cache, flying, enabled>>
    BY <1>6 DEF SessionEnding
  <2>2. progress' \in [Items -> Records]
    BY <1>1, <1>6 DEF SessionEnding, Records, NoRecord, Logins
  <2>3. TypeOK'
    BY <2>1, <2>2, ResetTyped, LeftTyped DEF TypeOK, Lists
  <2> QED
    BY <1>1, <2>1, <2>3, LeftTyped DEF Bounds
<1>7. ASSUME /\ phase' \in {"in", "out", "lost"}
             /\ UNCHANGED <<server, login, generation, shelfVars, searchVars, list, details,
                            diskVars, flying, playlists, picked, enabled>>
             /\ stray' \in Logins /\ progress' \in [Items -> Records]
             /\ ops' \in 0 .. MaxOps /\ login <= ops'
      PROVE  TypeOK' /\ Bounds'
  BY <1>7 DEF TypeOK, Bounds
<1>22. CASE SessionRefused
  <2>1. /\ phase' = "lost"
        /\ UNCHANGED <<server, login, generation, shelfVars, searchVars, list, details,
                       diskVars, flying>>
    BY <1>22 DEF SessionRefused
  <2>2. CASE StrayEnds /\ UNCHANGED ops
    BY <1>1, <1>7, <2>1, <2>2, StrayTyped
  <2>3. CASE /\ stray' = 0 /\ Recorded(login, FALSE) /\ Counted
             /\ UNCHANGED <<playlists, picked, enabled>>
    <3>1. stray' \in Logins /\ ops' \in 0 .. MaxOps /\ login <= ops'
      BY <1>1, <2>3 DEF Counted, Logins
    <3>2. progress' \in [Items -> Records]
      BY <1>1, <2>3, RecordedTyped
    <3> QED
      BY <1>7, <2>1, <2>3, <3>1, <3>2
  <2>4. CASE LeftOpening /\ UNCHANGED <<progress, nextUpVars>>
    BY <1>1, <1>7, <2>1, <2>4, LeftTyped
  <2> QED
    BY <1>22, <2>2, <2>3, <2>4 DEF SessionRefused
<1>23. CASE StrayOver
  <2>1. /\ StrayEnds /\ phase' \in {"in", "out", "lost"}
        /\ UNCHANGED <<phase, server, login, generation, shelfVars, searchVars, list, details,
                       diskVars, flying, ops>>
    BY <1>23 DEF StrayOver, TypeOK
  <2> QED
    BY <1>1, <1>7, <2>1, StrayTyped
<1>8. ASSUME NEW lib \in Libraries, SelectLibrary(lib) PROVE TypeOK' /\ Bounds'
  <2>1. /\ Asks /\ Select(lib) /\ flying' = flying \cup SelectRequests(lib)
        /\ UNCHANGED <<phase, server, login, stray, generation, picked, enabled, progress,
                       libraries, home, searches, hits, asked, details, savedPicks, cache>>
    BY <1>8 DEF SelectLibrary, Asks
  <2>2. TypeOK'
    BY <1>2, <2>1, SelectTyped DEF TypeOK, Lists
  <2> QED
    BY <1>2, <2>1, <2>2, SelectTyped DEF Bounds
<1>9. ASSUME NEW kind \in {"home", "playlists"}, Refresh(kind) PROVE TypeOK' /\ Bounds'
  <2>1. Asks /\ library # NoLibrary /\ flying' = flying \cup {Ask(kind, library)}
    BY <1>9 DEF Refresh
  <2>2. flying' \subseteq Requests
    BY <1>1, <1>2, <2>1, AsksTyped DEF TypeOK
  <2> QED
    BY <1>2, <1>9, <2>1, <2>2 DEF Refresh, Asks, TypeOK, Bounds
<1>10. ASSUME NEW filter \in Filters, Browse(filter) PROVE TypeOK' /\ Bounds'
  <2>1. /\ Asks /\ library \in Libraries /\ list' = Loaded(list, library, filter)
        /\ flying' = flying \cup {AskPage(list', 0)}
    BY <1>10 DEF Browse, TypeOK
  <2>2. list' \in Lists /\ list'.items = <<>> /\ ~list'.more /\ list'.lib = library
        /\ list'.filter = filter
    BY <1>1, <2>1, LoadedTyped
  <2>3. flying' \subseteq Requests
    BY <1>1, <1>2, <2>1, <2>2, AskPageTyped
  <2>4. TypeOK'
    BY <1>2, <1>10, <2>1, <2>2, <2>3 DEF Browse, Asks, TypeOK, Lists
  <2> QED
    BY <1>2, <2>1, <2>2, <2>4 DEF Bounds
<1>11. CASE LoadMore
  <2>1. /\ Asks /\ list.more /\ list' = [list EXCEPT !.loading = TRUE]
        /\ flying' = flying \cup {AskPage(list, list.page + 1)}
    BY <1>11 DEF LoadMore, CanLoadMore
  <2>2. list.lib \in Libraries /\ list.filter \in Filters /\ list.page + 1 \in Nat
    BY <1>1, <2>1, ListedTyped DEF Lists
  <2>3. flying' \subseteq Requests
    BY <1>1, <1>2, <2>1, <2>2, AskPageTyped
  <2>4. /\ list' \in Lists /\ list'.items = list.items /\ list'.lib = list.lib
        /\ list'.filter = list.filter /\ list'.more = list.more
    BY <1>1, <2>1 DEF Lists
  <2>5. TypeOK'
    BY <1>2, <1>11, <2>1, <2>3, <2>4 DEF LoadMore, Asks, TypeOK, Lists
  <2> QED
    BY <1>2, <2>1, <2>4, <2>5 DEF Bounds
<1>12. ASSUME NEW query \in Queries, Search(query) PROVE TypeOK' /\ Bounds'
  <2>1. /\ Asks /\ searches' = searches + 1
        /\ flying' = flying \cup {[kind |-> "search", query |-> query, login |-> login,
                                   gen |-> generation, nth |-> searches']}
    BY <1>12 DEF Search
  <2>2. flying' \subseteq Requests
    BY <1>1, <2>1 DEF Requests, SearchRequests
  <2> QED
    BY <1>1, <1>2, <1>12, <2>1, <2>2 DEF Search, Asks, TypeOK, Bounds
<1>13. CASE ClearSearch
  <2>1. Asks /\ searches' \in Nat /\ hits' \in Hits
    BY <1>1, <1>13, LibraryAssumption DEF ClearSearch, NoHits, Hits, Logins
  <2> QED
    BY <1>2, <1>13, <2>1 DEF ClearSearch, Asks, TypeOK, Bounds
<1>14. ASSUME NEW i \in Items PROVE AskItem(i) \in Requests
  BY <1>1 DEF AskItem, Requests, ItemRequests
<1>15. ASSUME NEW i \in Items, LoadItem(i) PROVE TypeOK' /\ Bounds'
  <2>1. Asks /\ flying' \subseteq Requests
    BY <1>1, <1>14, <1>15 DEF LoadItem
  <2> QED
    BY <1>2, <1>15, <2>1 DEF LoadItem, Asks, TypeOK, Bounds
<1>16. ASSUME NEW i \in Items, NEW finished \in BOOLEAN, MarkFinished(i, finished)
       PROVE  TypeOK' /\ Bounds'
  <2>1. [kind |-> "mark", item |-> i, login |-> login, gen |-> generation,
         finished |-> finished] \in Requests
    BY <1>1 DEF Requests, MarkRequests
  <2>2. Asks /\ flying' \subseteq Requests
    BY <1>1, <1>16, <2>1 DEF MarkFinished
  <2> QED
    BY <1>2, <1>16, <2>2 DEF MarkFinished, Asks, TypeOK, Bounds
<1>17. ASSUME NEW p \in Playlists, SetNextUpPlaylist(p) PROVE TypeOK' /\ Bounds'
  <2>1. Asks /\ picked' \subseteq Playlists
    BY <1>17 DEF SetNextUpPlaylist, TypeOK
  <2>2. savedPicks' \in [Servers -> SUBSET Playlists]
    BY <1>17, <2>1 DEF SetNextUpPlaylist, TypeOK
  <2> QED
    BY <1>2, <1>17, <2>1, <2>2 DEF SetNextUpPlaylist, Asks, TypeOK, Bounds
<1>18. CASE SetPlaylistNextUpEnabled
  <2>1. Asks /\ enabled' = (~enabled)
    BY <1>18 DEF SetPlaylistNextUpEnabled
  <2> QED
    BY <1>2, <1>18, <2>1 DEF SetPlaylistNextUpEnabled, Asks, TypeOK, Bounds
<1>19. CASE BookCloses
  <2>1. Asks /\ progress' \in [Items -> Records]
    BY <1>1, <1>19, RecordedTyped DEF BookCloses
  <2> QED
    BY <1>2, <1>19, <2>1 DEF BookCloses, Asks, TypeOK, Bounds
<1>20. ASSUME NEW r \in flying, Answer(r) PROVE TypeOK' /\ Bounds'
  BY <1>20, AnswersTyped
<1>21. CASE UNCHANGED vars
  BY <1>3, <1>21 DEF vars, TypeOK
<1> QED
  BY <1>4, <1>5, <1>6, <1>7, <1>8, <1>9, <1>10, <1>11, <1>12, <1>13, <1>15, <1>16, <1>17, <1>18,
     <1>19, <1>20, <1>21, <1>22, <1>23 DEF Next, Wiring, UserStep, Reply
-----------------------------------------------------------------------------
(* The list on screen *)

\* A list that is new, or emptied, and is not the one any request was made for yet.
LEMMA FreshListing ==
    ASSUME TypeOK, Listing, list' \in Lists, list'.items = <<>>, ~list'.more,
           list'.nth = list.nth + 1,
           \A r \in flying' \ flying : r.kind = "page" => r.nth = list'.nth /\ Awaited(r)'
    PROVE  Listing'
<1>1. \A r \in flying : r.kind = "page" => r.nth \in Nat
  BY RequestKinds DEF TypeOK, PageRequests
<1>2. list.nth \in Nat
  BY DEF TypeOK
<1>3. ListingIsWhole'
  BY DEF ListingIsWhole
<1>4. ASSUME NEW r \in flying', r.kind = "page"
      PROVE  r.nth <= list'.nth /\ (r.nth = list'.nth => Awaited(r)')
  <2>1. CASE r \in flying
    BY <1>1, <1>2, <1>4, <2>1 DEF Listing
  <2>2. CASE r \notin flying
    BY <1>2, <1>4, <2>2
  <2> QED
    BY <2>1, <2>2
<1> QED
  BY <1>3, <1>4 DEF Listing

\* Nothing that concerns the list.
LEMMA SameListing ==
    ASSUME Listing, UNCHANGED <<list, login>>, \A r \in flying' \ flying : r.kind # "page"
    PROVE  Listing'
<1>1. ListingIsWhole'
  BY DEF Listing, ListingIsWhole
<1>2. \A r \in flying : Awaited(r) => Awaited(r)'
  BY DEF Awaited
<1> QED
  BY <1>1, <1>2 DEF Listing

\* The requests of a listing are one and the same.
LEMMA OneAwaited ==
    ASSUME TypeOK, NEW r \in flying, NEW s \in flying, r.kind = "page", s.kind = "page",
           r.nth = s.nth, Awaited(r), Awaited(s)
    PROVE  r = s
<1>1. r \in PageRequests /\ s \in PageRequests
  BY RequestKinds DEF TypeOK
<1>2. r.of = s.of
  BY DEF Awaited
<1> QED
  BY <1>1, <1>2 DEF PageRequests

LEMMA PageStep ==
    ASSUME TypeOK, Listing, NEW r \in flying, NEW ok \in BOOLEAN, PageAnswered(r, ok)
    PROVE  Listing'
<1>1. /\ r.kind = "page" /\ r.nth = list.nth /\ flying' = flying \ {r} /\ login' = login
      /\ list' = IF ok THEN Appended(list, r.of) ELSE [list EXCEPT !.loading = FALSE]
  BY DEF PageAnswered, Current, sessionVars
<1>2. /\ list \in Lists /\ r.of \in Pages /\ list.items \in Seq(Pages) /\ Awaited(r)
      /\ r.of = [lib |-> list.lib, filter |-> list.filter, page |-> Len(list.items),
                 login |-> login]
  BY <1>1, RequestKinds DEF TypeOK, Lists, PageRequests, Listing, Awaited
<1>3. /\ r.of.lib = list.lib /\ r.of.filter = list.filter /\ r.of.page = Len(list.items)
      /\ Len(list.items) \in Nat
  BY <1>2
<1>4. \A s \in flying' : s.kind = "page" => s.nth <= list.nth /\ s.nth # list.nth
  BY <1>1, <1>2, OneAwaited DEF Listing
<1>5. list'.nth = list.nth
  BY <1>1, <1>2, AppendedTyped DEF Lists
<1>6. ListingIsWhole'
  <2>1. CASE ~ok
    <3>1. /\ list'.items = list.items /\ list'.lib = list.lib /\ list'.filter = list.filter
          /\ list'.page = list.page /\ list'.more = list.more
      BY <1>1, <1>2, <2>1 DEF Lists
    <3> QED
      BY <1>1, <3>1 DEF Listing, ListingIsWhole
  <2>2. CASE ok
    <3> DEFINE total == PagesOf[list.lib][list.filter]
    <3>1. /\ total \in Nat
          /\ list'.items = IF Len(list.items) < total THEN Append(list.items, r.of) ELSE list.items
          /\ list'.page = Len(list.items) /\ list'.more = (Len(list'.items) < total)
          /\ list'.lib = list.lib /\ list'.filter = list.filter
      BY <1>1, <1>2, <1>3, <2>2, AppendedTyped
    <3>2. /\ \A k \in DOMAIN list.items :
                list.items[k] = [lib |-> list.lib, filter |-> list.filter, page |-> k - 1,
                                 login |-> login]
          /\ list.more <=> list.items # <<>> /\ Len(list.items) < total
          /\ list.items # <<>> => list.more
      BY <1>2 DEF Listing, ListingIsWhole, Awaited
    <3> HIDE DEF total
    <3>3. CASE Len(list.items) < total
      <4>1. list'.items = Append(list.items, r.of)
        BY <3>1, <3>3
      <4>2. /\ Len(list'.items) = Len(list.items) + 1 /\ list'.items # <<>>
            /\ DOMAIN list'.items = 1 .. Len(list.items) + 1
            /\ \A k \in DOMAIN list'.items :
                  list'.items[k] = IF k = Len(list.items) + 1 THEN r.of ELSE list.items[k]
        BY <1>2, <1>3, <4>1
      <4>3. ASSUME NEW k \in DOMAIN list'.items
            PROVE  list'.items[k] = [lib |-> list'.lib, filter |-> list'.filter, page |-> k - 1,
                                     login |-> login']
        <5>1. CASE k = Len(list.items) + 1
          BY <1>1, <1>2, <1>3, <3>1, <4>2, <5>1
        <5>2. CASE k # Len(list.items) + 1
          <6>1. k \in DOMAIN list.items
            BY <1>2, <1>3, <4>2, <5>2
          <6> QED
            BY <1>1, <3>1, <3>2, <4>2, <5>2, <6>1
        <5> QED
          BY <5>1, <5>2
      <4>4. list'.page = Len(list'.items) - 1
        BY <1>3, <3>1, <4>2
      <4> QED
        BY <3>1, <4>2, <4>3, <4>4 DEF ListingIsWhole, total
    <3>4. CASE ~(Len(list.items) < total)
      <4>1. list'.items = <<>> /\ list.items = <<>> /\ ~list'.more
        BY <3>1, <3>2, <3>4
      <4> QED
        BY <4>1 DEF ListingIsWhole
    <3> QED
      BY <3>3, <3>4
  <2> QED
    BY <2>1, <2>2
<1> QED
  BY <1>4, <1>5, <1>6 DEF Listing

LEMMA LoadedListing ==
    ASSUME TypeOK, Listing, NEW lib \in Libraries, NEW filter \in Filters, login' \in Logins,
           list' = Loaded(list, lib, filter),
           \A r \in flying' \ flying : r.kind = "page" => r = AskPage(list', 0)
    PROVE  Listing'
<1>1. list \in Lists
  BY DEF TypeOK, Lists
<1>2. /\ list' \in Lists /\ list'.items = <<>> /\ ~list'.more /\ list'.loading
      /\ list'.nth = list.nth + 1 /\ list'.lib = lib /\ list'.filter = filter
  BY <1>1, LoadedTyped
<1>3. ASSUME NEW r \in flying', r = AskPage(list', 0)
      PROVE  r.nth = list'.nth /\ Awaited(r)'
  <2>1. /\ r.nth = list'.nth
        /\ r.of = [lib |-> list'.lib, filter |-> list'.filter, page |-> 0, login |-> login']
    BY <1>2, <1>3 DEF AskPage
  <2> QED
    BY <1>2, <2>1 DEF Awaited
<1> QED
  BY <1>2, <1>3, FreshListing

LEMMA LoadMoreListing == TypeOK /\ Listing /\ LoadMore => Listing'
<1> SUFFICES ASSUME TypeOK, Listing, LoadMore PROVE Listing'
  OBVIOUS
<1>1. PICK new : new = AskPage(list, list.page + 1)
  OBVIOUS
<1>2. /\ list \in Lists /\ list.more /\ ~list.loading /\ login' = login /\ login \in Logins
      /\ list' = [list EXCEPT !.loading = TRUE] /\ flying' = flying \cup {new}
  BY <1>1 DEF LoadMore, CanLoadMore, Asks, sessionVars, TypeOK, Lists
<1>3. list.page + 1 \in Nat /\ list.items \in Seq(Pages) /\ list.nth \in Nat
  BY <1>2 DEF Lists
<1>4. /\ list'.items = list.items /\ list'.lib = list.lib /\ list'.filter = list.filter
      /\ list'.page = list.page /\ list'.more = list.more /\ list'.nth = list.nth /\ list'.loading
  BY <1>2 DEF Lists
<1>5. list.items # <<>> /\ list.lib \in Libraries /\ list.filter \in Filters
  BY <1>2, ListedTyped
<1>6. list.page + 1 = Len(list.items)
  BY <1>3, <1>5 DEF Listing, ListingIsWhole
<1>7. /\ new.kind = "page" /\ new.nth = list.nth
      /\ new.of = [lib |-> list.lib, filter |-> list.filter, page |-> list.page + 1,
                   login |-> login]
  BY <1>1, <1>2 DEF AskPage
<1>8. ListingIsWhole'
  BY <1>2, <1>4 DEF Listing, ListingIsWhole
<1>9. Awaited(new)'
  BY <1>2, <1>4, <1>6, <1>7 DEF Awaited
<1>10. \A r \in flying : r.kind = "page" => r.nth <= list.nth /\ r.nth # list.nth
  BY <1>2 DEF Listing, Awaited
<1> QED
  BY <1>2, <1>3, <1>4, <1>7, <1>8, <1>9, <1>10 DEF Listing

LEMMA ListStep == TypeOK /\ TypeOK' /\ Listing /\ [Next]_vars => Listing'
<1> SUFFICES ASSUME TypeOK, TypeOK', Listing, [Next]_vars PROVE Listing'
  OBVIOUS
<1> USE DEF sessionVars, shelfVars, nextUpVars, searchVars, diskVars
<1>1. login' \in Logins /\ generation' \in Nat /\ list \in Lists
  BY DEF TypeOK, Lists
<1>2. ASSUME Reset, \A r \in flying' \ flying : r.kind # "page" PROVE Listing'
  <2>1. list' = Emptied(list)
    BY <1>2 DEF Reset
  <2> QED
    BY <1>1, <1>2, <2>1, EmptiedTyped, FreshListing
<1>3. ASSUME NEW lib \in Libraries, Select(lib), flying' \subseteq flying \cup SelectRequests(lib)
      PROVE  Listing'
  <2>1. list' = Loaded(list, lib, AllItems) /\ AllItems \in Filters
    BY <1>3, LibraryAssumption DEF Select
  <2>2. Ask("home", lib).kind # "page" /\ Ask("playlists", lib).kind # "page"
    BY DEF Ask
  <2> QED
    BY <1>1, <1>3, <2>1, <2>2, LoadedListing DEF SelectRequests
<1>4. CASE Wiring
  <2>1. ASSUME NEW s \in Servers, ChooseServer(s) PROVE Listing'
    BY <2>1, SameListing DEF ChooseServer
  <2>2. CASE Authenticated
    <3>1. Ask("libraries", NoLibrary).kind # "page"
      BY DEF Ask
    <3> QED
      BY <1>2, <2>2, <3>1 DEF Authenticated
  <2>3. CASE SessionEnding
    BY <1>2, <2>3 DEF SessionEnding
  <2>4. CASE SessionRefused \/ StrayOver
    BY <2>4, SameListing DEF SessionRefused, StrayOver
  <2> QED
    BY <1>4, <2>1, <2>2, <2>3, <2>4 DEF Wiring
<1>5. CASE UserStep
  <2>1. ASSUME NEW lib \in Libraries, SelectLibrary(lib) PROVE Listing'
    BY <1>3, <2>1 DEF SelectLibrary
  <2>2. ASSUME NEW kind \in {"home", "playlists"}, Refresh(kind) PROVE Listing'
    <3>1. Ask(kind, library).kind # "page"
      BY DEF Ask
    <3> QED
      BY <2>2, <3>1, SameListing DEF Refresh, Asks
  <2>3. ASSUME NEW filter \in Filters, Browse(filter) PROVE Listing'
    <3>1. /\ library \in Libraries /\ list' = Loaded(list, library, filter)
          /\ flying' = flying \cup {AskPage(list', 0)}
      BY <2>3 DEF Browse, TypeOK
    <3> QED
      BY <1>1, <3>1, LoadedListing
  <2>4. CASE LoadMore
    BY <2>4, LoadMoreListing
  <2>5. ASSUME NEW query \in Queries, Search(query) PROVE Listing'
    <3>1. [kind |-> "search", query |-> query, login |-> login, gen |-> generation,
           nth |-> searches'].kind # "page"
      OBVIOUS
    <3> QED
      BY <2>5, <3>1, SameListing DEF Search, Asks
  <2>6. ASSUME NEW i \in Items, LoadItem(i) PROVE Listing'
    <3>1. AskItem(i).kind # "page"
      BY DEF AskItem
    <3> QED
      BY <2>6, <3>1, SameListing DEF LoadItem, Asks
  <2>7. ASSUME NEW i \in Items, NEW finished \in BOOLEAN, MarkFinished(i, finished) PROVE Listing'
    <3>1. [kind |-> "mark", item |-> i, login |-> login, gen |-> generation,
           finished |-> finished].kind # "page"
      OBVIOUS
    <3> QED
      BY <2>7, <3>1, SameListing DEF MarkFinished, Asks
  <2>8. CASE UNCHANGED <<list, login, flying>>
    BY <2>8, SameListing
  <2> QED
    BY <1>5, <2>1, <2>2, <2>3, <2>4, <2>5, <2>6, <2>7, <2>8
       DEF UserStep, ClearSearch, SetNextUpPlaylist, SetPlaylistNextUpEnabled, BookCloses, Asks
<1>6. ASSUME NEW r \in flying, Answer(r) PROVE Listing'
  <2>1. ASSUME NEW libs \in LibrariesOf[server], LibrariesOk(r, libs) PROVE Listing'
    <3>1. CASE libs # <<>> /\ library = NoLibrary
      <4>1. Preferred(libs) \in Libraries
        BY <3>1, PreferredTyped
      <4> QED
        BY <1>3, <2>1, <3>1, <4>1 DEF LibrariesOk
    <3>2. CASE libs = <<>> \/ library # NoLibrary
      BY <2>1, <3>2, SameListing DEF LibrariesOk
    <3> QED
      BY <3>1, <3>2
  <2>2. ASSUME NEW ok \in BOOLEAN, PageAnswered(r, ok) PROVE Listing'
    BY <2>2, PageStep
  <2>3. CASE MarkOk(r)
    <3>1. AskItem(r.item).kind # "page"
      BY DEF AskItem
    <3> QED
      BY <2>3, <3>1, SameListing DEF MarkOk
  <2>4. CASE UNCHANGED <<list, login>> /\ flying' = flying \ {r}
    BY <2>4, SameListing
  <2> QED
    BY <1>6, <2>1, <2>2, <2>3, <2>4
       DEF Answer, HomeOk, PlaylistsOk, SearchOk, ItemOk, ItemFails, Dropped
<1>7. CASE UNCHANGED vars
  BY <1>7, SameListing DEF vars
<1> QED
  BY <1>4, <1>5, <1>6, <1>7 DEF Next, Reply
-----------------------------------------------------------------------------
(* Sessions *)

\* A request other than a page's carries the generation of the reset() before it,
\* which tells the sign-in it was made under; none is of a session that is over.
\* What the item cache and the details screen hold is never of a later sign-in.
RequestsDated ==
    \A r \in flying : r.kind # "page" =>
        /\ r.gen <= generation
        /\ r.gen = generation => r.login = login /\ phase # "out"

ListQuiet == phase = "out" => ~list.loading

Kept ==
    /\ details # NoDetails => details.login <= login
    /\ \A k \in Servers \X Items : cache[k] \in {NoServer, k[1]}

OnScreen ==
    /\ {libraries, home.login, playlists.login, hits.login} \subseteq {0, login}
    /\ playlists.lib \in {NoLibrary, library}

Learned == \A i \in Items : progress[i].login \in {0, login} \/ progress[i].stray

LeftBehind ==
    phase = "out" => /\ <<library, libraries, home, playlists>>
                          = <<NoLibrary, 0, Nothing, Nothing>>
                     /\ <<picked, cards, hits, list.items>> = <<{}, <<>>, NoHits, <<>>>>
                     /\ \A i \in Items : progress[i] = NoRecord \/ progress[i].stray

OfThisServer == phase = "in" /\ details # NoDetails /\ details.login = login => details.of = server

Fresh == RequestsDated /\ ListQuiet /\ Kept /\ OnScreen /\ Learned /\ LeftBehind /\ OfThisServer

LEMMA GenTyped ==
    ASSUME TypeOK, NEW r \in flying, r.kind # "page"
    PROVE  r.gen \in Nat /\ r.login \in Logins
  BY RequestKinds
     DEF TypeOK, SearchRequests, ItemRequests, MarkRequests, ContentRequests

\* reset() with a new generation: nothing in flight is of it.
LEMMA ResetFresh ==
    ASSUME TypeOK, Fresh, Reset
    PROVE  /\ \A r \in flying : r.kind # "page" => r.gen <= generation' /\ r.gen # generation'
           /\ <<library', libraries', home', playlists', hits'>>
                = <<NoLibrary, 0, Nothing, Nothing, NoHits>>
           /\ list'.items = <<>> /\ ~list'.loading
<1>1. list \in Lists /\ list' = Emptied(list)
  BY DEF TypeOK, Lists, Reset
<1>2. list'.items = <<>> /\ ~list'.loading
  BY <1>1, EmptiedTyped
<1>3. generation \in Nat /\ generation' = generation + 1
  BY DEF TypeOK, Reset
<1>4. ASSUME NEW r \in flying, r.kind # "page" PROVE r.gen <= generation' /\ r.gen # generation'
  BY <1>3, <1>4, GenTyped DEF Fresh, RequestsDated
<1> QED
  BY <1>2, <1>4 DEF Reset

\* What the user asks for, while signed in: it is asked under this sign-in.
LEMMA AskedFresh ==
    ASSUME TypeOK, Fresh, Asks, UNCHANGED <<details, cache>>,
           \A r \in flying' \ flying : r.kind # "page" => r.gen = generation /\ r.login = login,
           OnScreen', Learned'
    PROVE  Fresh'
<1>1. phase = "in" /\ UNCHANGED <<phase, server, login, generation>> /\ generation \in Nat
  BY DEF Asks, sessionVars, TypeOK
<1>2. RequestsDated'
  BY <1>1 DEF Fresh, RequestsDated
<1>3. ListQuiet' /\ LeftBehind'
  BY <1>1 DEF ListQuiet, LeftBehind
<1>4. Kept' /\ OfThisServer'
  BY <1>1 DEF Fresh, Kept, OfThisServer
<1> QED
  BY <1>2, <1>3, <1>4 DEF Fresh

\* A reply that is taken is of the current session.
LEMMA AnsweredFresh ==
    ASSUME TypeOK, Fresh, NEW r \in flying, r.kind # "page", OfThisGeneration(r),
           UNCHANGED <<phase, server, login, generation>>,
           \A s \in flying' \ flying : s.kind # "page" => s.gen = generation /\ s.login = login,
           OnScreen', Learned', Kept', OfThisServer'
    PROVE  Fresh'
<1>1. phase # "out" /\ generation \in Nat
  BY DEF Fresh, RequestsDated, OfThisGeneration, TypeOK
<1>2. RequestsDated'
  BY <1>1 DEF Fresh, RequestsDated
<1>3. ListQuiet' /\ LeftBehind'
  BY <1>1 DEF ListQuiet, LeftBehind
<1> QED
  BY <1>2, <1>3 DEF Fresh

LEMMA SameScreen ==
    ASSUME Fresh, UNCHANGED <<libraries, home, playlists, hits, login, library>>
    PROVE  OnScreen'
  BY DEF Fresh, OnScreen

LEMMA SelectScreen ==
    ASSUME Fresh, NEW lib \in Libraries, Select(lib), UNCHANGED <<home, hits, login>>,
           libraries' \in {libraries, login}
    PROVE  OnScreen'
<1>1. playlists' \in {playlists, Nothing} /\ library' = lib
  BY DEF Select
<1>2. lib = library \/ playlists' = Nothing
  BY DEF Select
<1> QED
  BY <1>1, <1>2 DEF Fresh, OnScreen, Nothing

LEMMA SameKept ==
    ASSUME Fresh, UNCHANGED <<phase, server, login, details, cache>>
    PROVE  Kept' /\ OfThisServer'
  BY DEF Fresh, Kept, OfThisServer

LEMMA SameLearned == ASSUME Fresh, UNCHANGED <<progress, login>> PROVE Learned'
  BY DEF Fresh, Learned

\* What outlived its sign-in ends: the marked record it may leave is all that changes.
LEMMA StrayFresh ==
    ASSUME TypeOK, Fresh, StrayEnds, phase' = phase,
           UNCHANGED <<login, generation, shelfVars, searchVars, list, details, cache>>,
           flying' \subseteq flying, phase = "in" => server' = server
    PROVE  Fresh'
<1> USE DEF shelfVars, searchVars
<1>1. /\ \A i \in Items : progress'[i] = progress[i] \/ progress'[i].stray
      /\ UNCHANGED <<playlists, picked, enabled>> /\ UpdateNextUp
  BY StrayTyped
<1>2. Learned'
  BY <1>1 DEF Fresh, Learned
<1>3. RequestsDated' /\ ListQuiet' /\ OnScreen'
  BY <1>1 DEF Fresh, RequestsDated, ListQuiet, OnScreen
<1>4. Kept' /\ OfThisServer'
  BY DEF Fresh, Kept, OfThisServer
<1>5. ASSUME phase = "out" PROVE cards' = <<>> /\ cards = <<>>
  BY <1>1, <1>5 DEF UpdateNextUp, NextUp, Nothing, Fresh, LeftBehind
<1>6. LeftBehind'
  BY <1>1, <1>5 DEF Fresh, LeftBehind
<1> QED
  BY <1>2, <1>3, <1>4, <1>6 DEF Fresh

LEMMA SessionFresh == TypeOK /\ TypeOK' /\ Bounds /\ Fresh /\ Wiring => Fresh'
<1> SUFFICES ASSUME TypeOK, TypeOK', Bounds, Fresh, Wiring PROVE Fresh'
  OBVIOUS
<1> USE DEF sessionVars, shelfVars, nextUpVars, searchVars, diskVars
<1>1. ASSUME NEW s \in Servers, ChooseServer(s) PROVE Fresh'
  BY <1>1, StrayFresh DEF ChooseServer
<1>2. CASE Authenticated
  <2>1. /\ Reset /\ phase' = "in" /\ login' = login + 1 /\ UNCHANGED <<details, cache>>
        /\ flying' = flying \cup {Ask("libraries", NoLibrary)}
    BY <1>2 DEF Authenticated
  <2>2. login \in Nat /\ login' \in Logins /\ generation' \in Nat
    BY LibraryAssumption DEF TypeOK, Logins
  <2>3. ASSUME NEW r \in flying', r.kind # "page"
        PROVE  r.gen <= generation' /\ (r.gen = generation' => r.login = login')
    <3>1. CASE r \in flying
      BY <2>1, <2>3, <3>1, ResetFresh
    <3>2. CASE r = Ask("libraries", NoLibrary)
      BY <2>2, <3>2 DEF Ask
    <3> QED
      BY <2>1, <3>1, <3>2
  <2>4. RequestsDated'
    BY <2>1, <2>3 DEF RequestsDated
  <2>5. Learned'
    BY <1>2, <2>2, ToldTyped DEF Authenticated, Learned
  <2>6. OnScreen'
    BY <2>1, ResetFresh DEF OnScreen, Nothing, NoHits
  <2>7. ASSUME details # NoDetails PROVE details.login <= login /\ details.login \in Nat
    <3>1. details \in Details
      BY <2>7 DEF TypeOK
    <3> QED
      BY <2>7, <3>1, LibraryAssumption DEF Details, Logins, Fresh, Kept
  <2>8. Kept' /\ OfThisServer'
    BY <2>1, <2>2, <2>7 DEF Fresh, Kept, OfThisServer
  <2> QED
    BY <2>1, <2>4, <2>5, <2>6, <2>8 DEF Fresh, ListQuiet, LeftBehind
<1>3. CASE SessionEnding
  <2>1. /\ Reset /\ phase = "in" /\ phase' = "out" /\ picked' = {}
        /\ progress' = [i \in Items |-> NoRecord] /\ UpdateNextUp
        /\ UNCHANGED <<server, login, details, cache, flying>>
    BY <1>3 DEF SessionEnding
  <2>2. /\ library' = NoLibrary /\ libraries' = 0 /\ home' = Nothing /\ playlists' = Nothing
        /\ hits' = NoHits /\ list'.items = <<>> /\ ~list'.loading
    BY <2>1, ResetFresh
  <2>3. cards' = <<>>
    BY <2>1, <2>2 DEF UpdateNextUp, NextUp, Nothing
  <2>4. RequestsDated'
    BY <2>1, ResetFresh DEF RequestsDated
  <2>5. OnScreen' /\ Learned'
    BY <2>1, <2>2 DEF OnScreen, Learned, Nothing, NoHits, NoRecord
  <2>6. LeftBehind'
    BY <2>1, <2>2, <2>3 DEF LeftBehind
  <2> QED
    BY <2>1, <2>2, <2>4, <2>5, <2>6 DEF Fresh, ListQuiet, Kept, OfThisServer
<1>4. CASE SessionRefused
  <2>1. /\ phase = "in" /\ phase' = "lost"
        /\ UNCHANGED <<server, login, generation, library, libraries, home, hits, list, details,
                       cache, flying>>
    BY <1>4 DEF SessionRefused
  <2>2. /\ playlists' = playlists
        /\ \A i \in Items : \/ progress'[i] = progress[i] \/ progress'[i].stray
                           \/ progress'[i].login = login
    <3>1. CASE StrayEnds
      BY <3>1, StrayTyped
    <3>2. CASE Recorded(login, FALSE) /\ UNCHANGED <<playlists, picked, enabled>>
      <4>1. login \in Logins
        BY DEF TypeOK
      <4> QED
        BY <3>2, <4>1, RecordedTyped
    <3>3. CASE UNCHANGED <<progress, nextUpVars>>
      BY <3>3
    <3> QED
      BY <1>4, <3>1, <3>2, <3>3 DEF SessionRefused
  <2>3. Learned'
    BY <2>1, <2>2 DEF Fresh, Learned
  <2>4. RequestsDated' /\ ListQuiet' /\ OnScreen' /\ LeftBehind'
    BY <2>1, <2>2 DEF Fresh, RequestsDated, ListQuiet, OnScreen, LeftBehind
  <2>5. Kept' /\ OfThisServer'
    BY <2>1 DEF Fresh, Kept, OfThisServer
  <2> QED
    BY <2>3, <2>4, <2>5 DEF Fresh
<1>5. CASE StrayOver
  BY <1>5, StrayFresh DEF StrayOver
<1> QED
  BY <1>1, <1>2, <1>3, <1>4, <1>5 DEF Wiring

LEMMA UserFresh == TypeOK /\ TypeOK' /\ Fresh /\ UserStep => Fresh'
<1> SUFFICES ASSUME TypeOK, TypeOK', Fresh, UserStep PROVE Fresh'
  OBVIOUS
<1> USE DEF sessionVars, shelfVars, nextUpVars, searchVars, diskVars
<1>1. ASSUME Asks PROVE UNCHANGED <<login, generation>>
  BY <1>1 DEF Asks
<1>2. ASSUME Asks, NEW kind, NEW lib
      PROVE  Ask(kind, lib).gen = generation /\ Ask(kind, lib).login = login
  BY <1>1, <1>2 DEF Ask
<1>3. ASSUME NEW l, NEW page PROVE AskPage(l, page).kind = "page"
  BY DEF AskPage
<1>4. ASSUME NEW lib \in Libraries, SelectLibrary(lib) PROVE Fresh'
  <2>1. /\ Asks /\ Select(lib) /\ flying' = flying \cup SelectRequests(lib)
        /\ UNCHANGED <<libraries, home, hits, progress, details, cache>>
    BY <1>4 DEF SelectLibrary
  <2>2. OnScreen' /\ Learned'
    BY <1>1, <2>1, SelectScreen, SameLearned
  <2> QED
    BY <1>2, <1>3, <2>1, <2>2, AskedFresh DEF SelectRequests
<1>5. ASSUME NEW kind \in {"home", "playlists"}, Refresh(kind) PROVE Fresh'
  BY <1>1, <1>2, <1>5, SameScreen, SameLearned, AskedFresh DEF Refresh
<1>6. ASSUME NEW filter \in Filters, Browse(filter) PROVE Fresh'
  BY <1>1, <1>3, <1>6, SameScreen, SameLearned, AskedFresh DEF Browse
<1>7. CASE LoadMore
  BY <1>1, <1>3, <1>7, SameScreen, SameLearned, AskedFresh DEF LoadMore
<1>8. ASSUME NEW query \in Queries, Search(query) PROVE Fresh'
  BY <1>1, <1>8, SameScreen, SameLearned, AskedFresh DEF Search
<1>9. CASE ClearSearch
  <2>1. OnScreen'
    BY <1>1, <1>9 DEF ClearSearch, Fresh, OnScreen, NoHits
  <2> QED
    BY <1>1, <1>9, <2>1, SameLearned, AskedFresh DEF ClearSearch
<1>10. ASSUME NEW i \in Items, LoadItem(i) PROVE Fresh'
  BY <1>1, <1>10, SameScreen, SameLearned, AskedFresh DEF LoadItem, AskItem
<1>11. ASSUME NEW i \in Items, NEW finished \in BOOLEAN, MarkFinished(i, finished) PROVE Fresh'
  BY <1>1, <1>11, SameScreen, SameLearned, AskedFresh DEF MarkFinished
<1>12. ASSUME NEW p \in Playlists, SetNextUpPlaylist(p) PROVE Fresh'
  BY <1>1, <1>12, SameScreen, SameLearned, AskedFresh DEF SetNextUpPlaylist
<1>13. CASE SetPlaylistNextUpEnabled
  BY <1>1, <1>13, SameScreen, SameLearned, AskedFresh DEF SetPlaylistNextUpEnabled
<1>14. CASE BookCloses
  <2>1. login \in Logins /\ Recorded(login, FALSE)
    BY <1>14 DEF TypeOK, BookCloses
  <2>2. Learned'
    BY <1>1, <1>14, <2>1, RecordedTyped DEF BookCloses, Fresh, Learned
  <2> QED
    BY <1>1, <1>14, <2>2, SameScreen, AskedFresh DEF BookCloses
<1> QED
  BY <1>4, <1>5, <1>6, <1>7, <1>8, <1>9, <1>10, <1>11, <1>12, <1>13, <1>14 DEF UserStep

LEMMA AnswerFresh ==
    ASSUME TypeOK, TypeOK', Listing, Fresh, NEW r \in flying, Answer(r)
    PROVE  Fresh'
<1> USE DEF sessionVars, shelfVars, nextUpVars, searchVars, diskVars
<1>1. r.kind # "page" /\ OfThisGeneration(r) => r.login = login
  BY DEF Fresh, RequestsDated, OfThisGeneration
<1>2. ASSUME NEW l, NEW page PROVE AskPage(l, page).kind = "page"
  BY DEF AskPage
<1>3. ASSUME NEW libs \in LibrariesOf[server], LibrariesOk(r, libs) PROVE Fresh'
  <2>1. /\ r.kind # "page" /\ OfThisGeneration(r) /\ libraries' = login
        /\ UNCHANGED <<phase, server, login, generation, home, hits, details, cache, progress>>
    BY <1>1, <1>3 DEF LibrariesOk
  <2>2. CASE libs # <<>> /\ library = NoLibrary
    <3> DEFINE lib == Preferred(libs)
    <3>1. lib \in Libraries /\ Select(lib) /\ flying' = (flying \ {r}) \cup SelectRequests(lib)
      BY <1>3, <2>2, PreferredTyped DEF LibrariesOk
    <3> HIDE DEF lib
    <3>2. OnScreen'
      BY <2>1, <3>1, SelectScreen
    <3>3. \A s \in flying' \ flying : s.kind # "page" => s.gen = generation /\ s.login = login
      BY <1>2, <2>1, <3>1 DEF SelectRequests, Ask
    <3> QED
      BY <2>1, <3>2, <3>3, SameKept, SameLearned, AnsweredFresh
  <2>3. CASE libs = <<>> \/ library # NoLibrary
    <3>1. flying' = flying \ {r} /\ UNCHANGED <<library, playlists>>
      BY <1>3, <2>3 DEF LibrariesOk
    <3>2. OnScreen'
      BY <2>1, <3>1 DEF Fresh, OnScreen
    <3> QED
      BY <2>1, <3>1, <3>2, SameKept, SameLearned, AnsweredFresh
  <2> QED
    BY <2>2, <2>3
<1>4. CASE HomeOk(r)
  <2>1. OnScreen'
    BY <1>1, <1>4 DEF HomeOk, Fresh, OnScreen
  <2> QED
    BY <1>4, <2>1, SameKept, SameLearned, AnsweredFresh DEF HomeOk
<1>5. CASE PlaylistsOk(r)
  <2>1. OnScreen'
    BY <1>1, <1>5 DEF PlaylistsOk, OfThisLibrary, Fresh, OnScreen
  <2> QED
    BY <1>5, <2>1, SameKept, SameLearned, AnsweredFresh DEF PlaylistsOk, OfThisLibrary
<1>6. ASSUME NEW ok \in BOOLEAN, PageAnswered(r, ok) PROVE Fresh'
  <2>1. /\ phase # "out" /\ flying' = flying \ {r}
        /\ UNCHANGED <<phase, server, login, generation, library, libraries, home, playlists, hits,
                       progress, details, cache>>
    BY <1>6 DEF PageAnswered, Current, Listing, Awaited, Fresh, ListQuiet
  <2> QED
    BY <2>1, SameScreen, SameLearned, SameKept DEF Fresh, RequestsDated, ListQuiet, LeftBehind
<1>7. CASE SearchOk(r)
  <2>1. OnScreen'
    BY <1>1, <1>7 DEF SearchOk, LatestSearch, Fresh, OnScreen
  <2> QED
    BY <1>7, <2>1, SameKept, SameLearned, AnsweredFresh DEF SearchOk, LatestSearch
<1>8. login \in Nat /\ login <= login
  BY LibraryAssumption DEF TypeOK, Logins
<1>9. CASE ItemOk(r)
  <2>1. /\ r.item \in Items /\ r.login = login /\ server \in Servers
        /\ cache \in [Servers \X Items -> Servers \cup {NoServer}]
        /\ progress \in [Items -> Records]
    BY <1>1, <1>9, RequestKinds DEF ItemOk, TypeOK, ItemRequests
  <2>2. Learned'
    <3>1. CASE UNCHANGED progress
      BY <1>9, <3>1, SameLearned DEF ItemOk
    <3>2. CASE \E finished \in BOOLEAN :
                 progress' = [progress EXCEPT ![r.item] = [begun |-> TRUE, finished |-> finished,
                                                           login |-> r.login, stray |-> FALSE]]
      BY <1>9, <2>1, <3>2 DEF ItemOk, Fresh, Learned
    <3> QED
      BY <1>9, <3>1, <3>2 DEF ItemOk
  <2>3. /\ details' = [item |-> r.item, of |-> server, login |-> r.login]
        /\ cache' = [cache EXCEPT ![<<server, r.item>>] = server]
        /\ UNCHANGED <<phase, server, login>>
    BY <1>9 DEF ItemOk, ItemCacheKey
  <2>4. Kept' /\ OfThisServer'
    BY <1>8, <2>1, <2>3 DEF Fresh, Kept, OfThisServer
  <2> QED
    BY <1>9, <2>2, <2>4, SameScreen, AnsweredFresh DEF ItemOk
<1>10. CASE ItemFails(r)
  <2>1. /\ r.item \in Items /\ r.login = login /\ server \in Servers
        /\ UNCHANGED <<phase, server, login, cache>>
    BY <1>1, <1>10, RequestKinds DEF ItemFails, TypeOK, ItemRequests
  <2>2. cache[<<server, r.item>>] \in {NoServer, server}
    BY <2>1 DEF Fresh, Kept
  <2>3. \/ details' = details
        \/ details' = [item |-> r.item, of |-> server, login |-> r.login]
    BY <1>10, <2>2 DEF ItemFails, ItemCacheKey
  <2>4. Kept' /\ OfThisServer'
    BY <1>8, <2>1, <2>3 DEF Fresh, Kept, OfThisServer
  <2> QED
    BY <1>10, <2>4, SameScreen, SameLearned, AnsweredFresh DEF ItemFails
<1>11. CASE MarkOk(r)
  <2>1. r.item \in Items /\ progress \in [Items -> Records] /\ progress[r.item] \in Records
    BY <1>11, RequestKinds DEF MarkOk, TypeOK, MarkRequests
  <2>2. Learned'
    <3>1. [progress[r.item] EXCEPT !.finished = r.finished].login = progress[r.item].login
      BY <2>1 DEF Records
    <3> QED
      BY <1>11, <2>1, <3>1 DEF MarkOk, Fresh, Learned
  <2> QED
    BY <1>11, <2>2, SameScreen, SameKept, AnsweredFresh DEF MarkOk, AskItem
<1>12. CASE Dropped(r)
  BY <1>12 DEF Dropped, Fresh, RequestsDated, ListQuiet, Kept, OnScreen, Learned, LeftBehind,
               OfThisServer
<1> QED
  BY <1>3, <1>4, <1>5, <1>6, <1>7, <1>9, <1>10, <1>11, <1>12 DEF Answer
-----------------------------------------------------------------------------
(* Searching *)

\* Only the search asked for last has the current number, and it is of the query
\* still in the box: an emptied box has none.
Searched ==
    /\ asked = NoQuery => hits = NoHits
    /\ \A r \in flying : r.kind = "search" =>
          /\ r.nth <= searches
          /\ r.nth = searches => r.query = asked

LEMMA SearchTyped ==
    ASSUME TypeOK, NEW r \in flying, r.kind = "search"
    PROVE  r.nth \in Nat /\ r.query \in Queries
  BY RequestKinds DEF TypeOK, SearchRequests

LEMMA SearchedStep ==
    ASSUME TypeOK, Searched, [Next]_vars
    PROVE  Searched' /\ (hits' # hits => hits' = NoHits \/ hits'.query = asked')
<1> USE DEF sessionVars, shelfVars, nextUpVars, searchVars, diskVars
<1>1. searches \in Nat /\ NoQuery \notin Queries
  BY LibraryAssumption DEF TypeOK
<1> DEFINE Goal == Searched' /\ (hits' # hits => hits' = NoHits \/ hits'.query = asked')
<1>2. ASSUME UNCHANGED searchVars, \A r \in flying' \ flying : r.kind # "search" PROVE Goal
  BY <1>2 DEF Searched
<1>3. ASSUME searches' = searches + 1, hits' = NoHits,
             \A r \in flying' \ flying : r.kind # "search"
      PROVE  Goal
  <2>1. \A n \in Nat : n <= searches => n <= searches + 1 /\ n # searches + 1
    BY <1>1
  <2>2. \A r \in flying : r.kind = "search" => r.nth <= searches' /\ r.nth # searches'
    BY <1>3, <2>1, SearchTyped DEF Searched
  <2> QED
    BY <1>3, <2>2 DEF Searched
<1>4. ASSUME NEW kind, kind # "search", NEW lib PROVE Ask(kind, lib).kind # "search"
  BY <1>4 DEF Ask
<1>5. \A l, page : AskPage(l, page).kind # "search"
  BY DEF AskPage
<1>6. \A i : AskItem(i).kind # "search"
  BY DEF AskItem
<1>7. \A lib : \A r \in SelectRequests(lib) : r.kind # "search"
  BY <1>4, <1>5 DEF SelectRequests
<1>8. CASE Wiring
  BY <1>2, <1>3, <1>4, <1>8
     DEF Wiring, ChooseServer, Authenticated, SessionEnding, SessionRefused, StrayOver, Reset
<1>9. ASSUME NEW query \in Queries, Search(query) PROVE Goal
  <2>1. PICK new : new = [kind |-> "search", query |-> query, login |-> login,
                          gen |-> generation, nth |-> searches']
    OBVIOUS
  <2>2. /\ searches' = searches + 1 /\ asked' = query /\ hits' = hits
        /\ flying' = flying \cup {new}
    BY <1>9, <2>1 DEF Search
  <2>3. new.nth = searches' /\ new.query = asked'
    BY <2>1, <2>2
  <2>6. \A n \in Nat : n <= searches => n <= searches + 1 /\ n # searches + 1
    BY <1>1
  <2>4. \A r \in flying : r.kind = "search" => r.nth <= searches' /\ r.nth # searches'
    BY <2>2, <2>6, SearchTyped DEF Searched
  <2>5. searches' <= searches'
    BY <1>1, <2>2
  <2> QED
    BY <1>1, <2>2, <2>3, <2>4, <2>5 DEF Searched
<1>10. ASSUME NEW i \in Items, NEW finished \in BOOLEAN, MarkFinished(i, finished) PROVE Goal
  <2>1. [kind |-> "mark", item |-> i, login |-> login, gen |-> generation,
         finished |-> finished].kind # "search"
    OBVIOUS
  <2> QED
    BY <1>2, <1>10, <2>1 DEF MarkFinished
<1>11. ASSUME NEW kind \in {"home", "playlists"}, Refresh(kind) PROVE Goal
  BY <1>2, <1>4, <1>11 DEF Refresh
<1>12. ASSUME NEW lib \in Libraries, SelectLibrary(lib) PROVE Goal
  BY <1>2, <1>7, <1>12 DEF SelectLibrary
<1>13. CASE UserStep
  <2>1. CASE ClearSearch
    BY <1>3, <2>1 DEF ClearSearch
  <2>2. CASE \/ \E filter \in Filters : Browse(filter)
             \/ LoadMore
             \/ \E i \in Items : LoadItem(i)
    BY <1>2, <1>5, <1>6, <2>2 DEF Browse, LoadMore, LoadItem
  <2>3. CASE \/ \E p \in Playlists : SetNextUpPlaylist(p)
             \/ SetPlaylistNextUpEnabled
             \/ BookCloses
    BY <1>2, <2>3 DEF SetNextUpPlaylist, SetPlaylistNextUpEnabled, BookCloses
  <2> QED
    BY <1>9, <1>10, <1>11, <1>12, <1>13, <2>1, <2>2, <2>3 DEF UserStep
<1>14. ASSUME NEW r \in flying, Answer(r) PROVE Goal
  <2>1. CASE SearchOk(r)
    <3>1. /\ r.kind = "search" /\ r.nth = searches /\ hits' = [query |-> r.query, login |-> r.login]
          /\ flying' = flying \ {r} /\ UNCHANGED <<searches, asked>>
      BY <2>1 DEF SearchOk, LatestSearch
    <3>2. r.query = asked /\ r.query \in Queries
      BY <3>1, SearchTyped DEF Searched
    <3> QED
      BY <1>1, <3>1, <3>2 DEF Searched
  <2>2. ASSUME NEW libs, LibrariesOk(r, libs) PROVE Goal
    BY <1>2, <1>7, <2>2 DEF LibrariesOk
  <2>3. CASE MarkOk(r)
    BY <1>2, <1>6, <2>3 DEF MarkOk
  <2>4. CASE \/ HomeOk(r) \/ PlaylistsOk(r) \/ \E ok \in BOOLEAN : PageAnswered(r, ok)
             \/ ItemOk(r) \/ ItemFails(r) \/ Dropped(r)
    BY <1>2, <2>4 DEF HomeOk, PlaylistsOk, PageAnswered, ItemOk, ItemFails, Dropped
  <2> QED
    BY <1>14, <2>1, <2>2, <2>3, <2>4 DEF Answer
<1>15. CASE UNCHANGED vars
  BY <1>2, <1>15 DEF vars
<1> QED
  BY <1>8, <1>13, <1>14, <1>15 DEF Next, Reply
-----------------------------------------------------------------------------
(* The theorems *)

LibraryInv == TypeOK /\ Bounds /\ Listing /\ Fresh

LEMMA LibraryInvariant == Spec => []LibraryInv
<1>1. Init => LibraryInv
  <2> SUFFICES ASSUME Init PROVE LibraryInv
    OBVIOUS
  <2>1. MaxOps \in Nat /\ 0 \in Logins /\ 0 \in 0 .. MaxOps
    BY LibraryAssumption DEF Logins
  <2>2. /\ NoRecord \in Records /\ Nothing \in Shown /\ NoHits \in Hits
    BY <2>1 DEF NoRecord, Records, Nothing, Shown, NoHits, Hits
  <2>3. list \in Lists
    BY DEF Init, Lists
  <2>4. /\ lastLibrary \in [Servers -> Libraries \cup {NoLibrary}]
        /\ savedPicks \in [Servers -> SUBSET Playlists]
        /\ cache \in [Servers \X Items -> Servers \cup {NoServer}]
    BY DEF Init, UsedBefore
  <2>5. TypeOK
    BY <2>1, <2>2, <2>3, <2>4 DEF Init, TypeOK, Lists
  <2>6. Listing
    BY DEF Init, Listing, ListingIsWhole
  <2>7. Fresh
    BY DEF Init, Fresh, RequestsDated, ListQuiet, Kept, OnScreen, Learned, LeftBehind,
           OfThisServer, Nothing, NoHits, NoRecord
  <2> QED
    BY <2>5, <2>6, <2>7 DEF LibraryInv, Init, Bounds
<1>2. LibraryInv /\ [Next]_vars => LibraryInv'
  <2> SUFFICES ASSUME LibraryInv, [Next]_vars PROVE LibraryInv'
    OBVIOUS
  <2>1. TypeOK' /\ Bounds'
    BY TypesStep DEF LibraryInv
  <2>2. Listing'
    BY <2>1, ListStep DEF LibraryInv
  <2>3. ASSUME UNCHANGED vars PROVE Fresh'
    BY <2>3 DEF vars, sessionVars, shelfVars, nextUpVars, searchVars, diskVars, LibraryInv, Fresh,
                RequestsDated, ListQuiet, Kept, OnScreen, Learned, LeftBehind, OfThisServer
  <2>4. Fresh'
    BY <2>1, <2>3, SessionFresh, UserFresh, AnswerFresh DEF LibraryInv, Next, Reply
  <2> QED
    BY <2>1, <2>2, <2>4 DEF LibraryInv
<1> QED
  BY <1>1, <1>2, PTL DEF Spec

\* The state keeps its types: a page is asked for of a library there is, and the
\* library restored at sign-in is one the server lists.
THEOREM LibraryTypes == Spec => []TypeOK
<1>1. LibraryInv => TypeOK
  BY DEF LibraryInv
<1> QED
  BY <1>1, LibraryInvariant, PTL

\* LibraryItemsModel: for any listings and page counts and any order of replies,
\* what is on screen is the beginning of one listing, in order and without a gap.
THEOREM WholeListing == Spec => []ListingIsWhole
<1>1. LibraryInv => ListingIsWhole
  BY DEF LibraryInv, Listing
<1> QED
  BY <1>1, LibraryInvariant, PTL

\* reset(), m_serverGeneration: whatever comes late, what is on screen is of the
\* current session, and nothing is after signing out.
THEOREM ThisSessionOnly == Spec => []OnlyThisSession
<1>1. LibraryInv => OnlyThisSession
  BY DEF LibraryInv, Fresh, OnScreen, Learned, LeftBehind, OfThisServer, OnlyThisSession
<1> QED
  BY <1>1, LibraryInvariant, PTL

\* search(), clearSearch(): whatever comes late, hits that appear are of what was last
\* asked for, and none are shown once that has been cleared.
THEOREM LatestHits == Spec => SearchNeverGoesBack
<1>1. Init => Searched
  BY DEF Init, Searched
<1>2. TypeOK /\ Searched /\ [Next]_vars => Searched'
  BY SearchedStep
<1>3. TypeOK /\ Searched /\ Searched' /\ [Next]_vars
        => [/\ asked' = NoQuery => hits' = NoHits
            /\ hits' # hits => hits' = NoHits \/ hits'.query = asked']_vars
  BY SearchedStep DEF Searched
<1> QED
  BY <1>1, <1>2, <1>3, LibraryTypes, PTL DEF Spec, SearchNeverGoesBack
=============================================================================
