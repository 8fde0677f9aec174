----------------------------- MODULE CoverCache -----------------------------
(***************************************************************************)
(* The images of items and authors (storage/CoverCache.cpp): kept in files *)
(* whose name stands for the server, the kind, the id and the size, and    *)
(* fetched when a card wants one that is not there.                        *)
(*                                                                         *)
(* An image is what a card asks for by its id; servers are restored copies *)
(* of each other, so both may have an item of that id.                     *)
(***************************************************************************)
EXTENDS Naturals, FiniteSets

CONSTANTS
    Origins,        \* the servers
    Images, NoPath,
    DiskLimit,      \* how many files pruneToLimit() leaves
    MaxLooks        \* bound: cards shown, changes of server, clears, launches

Paths == Origins \X Images

ASSUME CoverAssumption == MaxLooks \in Nat

VARIABLES
    origin,     \* ApiClient::baseUrl
    epoch,      \* ApiClient::m_epoch
    shown,      \* are the cards of this server's lists (or has it changed since sign-in)?
    cards,      \* the file each card shows
    inFlight,   \* m_inFlight
    missing,    \* m_missing
    files,      \* the cache directory
    older,      \* which of two files was written first
    fetches,    \* requests in flight
    looks       \* bound

diskVars  == <<files, older>>
coverVars == <<origin, epoch, shown, cards, inFlight, missing, diskVars, fetches, looks>>

CoverTypeOK ==
    /\ origin \in Origins /\ epoch \in Nat /\ shown \in BOOLEAN
    /\ cards \in [Images -> Paths \cup {NoPath}]
    /\ inFlight \subseteq Paths /\ missing \subseteq Paths
    /\ files \subseteq Paths /\ older \subseteq files \X files
    /\ \A m, n \in files : <<m, n>> \in older <=> m # n /\ <<n, m>> \notin older
    /\ fetches \subseteq [path : Paths, epoch : Nat, nth : Nat]
    /\ looks \in 0 .. MaxLooks
-----------------------------------------------------------------------------
NoCards == [i \in Images |-> NoPath]

\* diskPath(): the key the file's name is hashed from.
Path(i) == <<origin, i>>

CoverInit ==
    /\ origin \in Origins /\ epoch = 0 /\ shown = TRUE /\ cards = NoCards
    /\ inFlight = {} /\ missing = {} /\ fetches = {} /\ looks = 0
    /\ files \in {{}} \cup {{p} : p \in Paths} /\ older = {}

Look == looks < MaxLooks /\ looks' = looks + 1

\* localUrl(), authorImage(): a card comes on screen, and the image is there.
Found(i) ==
    /\ Look /\ shown /\ Path(i) \in files
    /\ cards' = [cards EXCEPT ![i] = Path(i)]
    /\ UNCHANGED <<origin, epoch, shown, inFlight, missing, diskVars, fetches>>

Wanted(p) == p \notin inFlight \cup missing

\* ... or it is not: fetch().
Fetch(i) ==
    /\ Look /\ shown /\ Path(i) \notin files
    /\ cards' = [cards EXCEPT ![i] = NoPath]
    /\ IF Wanted(Path(i))
       THEN /\ inFlight' = inFlight \cup {Path(i)}
            /\ fetches' = fetches \cup {[path |-> Path(i), epoch |-> epoch, nth |-> looks]}
       ELSE UNCHANGED <<inFlight, fetches>>
    /\ UNCHANGED <<origin, epoch, shown, missing, diskVars>>

\* setBaseUrl() with another address; the login screen covers the cards.
ChangeOrigin(s) ==
    /\ Look /\ s # origin /\ origin' = s /\ epoch' = epoch + 1
    /\ shown' = FALSE
    /\ UNCHANGED <<cards, inFlight, missing, diskVars, fetches>>

\* authenticated(): the models are reset, and the cards go with them.
SignedIn ==
    /\ shown' = TRUE /\ cards' = NoCards
    /\ UNCHANGED <<origin, epoch, inFlight, missing, diskVars, fetches, looks>>

\* Slip: an image is announced whatever server it is from.
NeverStaleImage(f) == FALSE

IsStale(f) == f.epoch # epoch

\* The reply of fetch(): every outcome first lifts the mark of the request.
Replied(f) ==
    /\ fetches' = fetches \ {f} /\ inFlight' = inFlight \ {f.path}
    /\ UNCHANGED <<origin, epoch, shown, looks>>

\* The file is truncated in place, and coverReady() names the item alone.
Arrived(f) ==
    /\ Replied(f) /\ ~IsStale(f)
    /\ files' = files \cup {f.path}
    /\ older' = {o \in older : f.path \notin {o[1], o[2]}}
                \cup {<<m, f.path>> : m \in files \ {f.path}}
    /\ cards' = [cards EXCEPT ![f.path[2]] = f.path]
    /\ UNCHANGED missing

\* 404, or nothing in the body.
NoSuchImage(f) ==
    /\ Replied(f) /\ ~IsStale(f)
    /\ missing' = missing \cup {f.path} /\ UNCHANGED <<diskVars, cards>>

\* The client points elsewhere, the request failed, or the file cannot be opened.
GaveUp(f) == Replied(f) /\ UNCHANGED <<diskVars, cards, missing>>

\* clearCache()
Clear ==
    /\ Look /\ missing' = {} /\ files' = {} /\ older' = {}
    /\ UNCHANGED <<origin, epoch, shown, cards, inFlight, fetches>>

\* pruneToLimit(): the oldest files go until the rest fit; one that cannot be
\* removed (all of `stuck') makes the next one go instead.
Pruned(stuck) ==
    LET before(m) == {n \in files \ stuck : <<n, m>> \in older}
    IN  {m \in files : m \in stuck \/ Cardinality(files \ before(m)) <= DiskLimit}

\* The next launch (main.cpp:125).
Relaunch(stuck) ==
    /\ Look /\ files' = Pruned(stuck) /\ older' = older \cap (files' \X files')
    /\ shown' = TRUE /\ cards' = NoCards
    /\ inFlight' = {} /\ missing' = {} /\ fetches' = {}
    /\ UNCHANGED <<origin, epoch>>

CoverNext ==
    \/ \E i \in Images : Found(i) \/ Fetch(i)
    \/ \E s \in Origins : ChangeOrigin(s)
    \/ SignedIn
    \/ \E f \in fetches : Arrived(f) \/ NoSuchImage(f) \/ GaveUp(f)
    \/ Clear
    \/ \E stuck \in SUBSET files : Relaunch(stuck)

CoverSpec == CoverInit /\ [][CoverNext]_coverVars
-----------------------------------------------------------------------------
\* fetch(): an image is marked in flight exactly while one request asks for it,
\* across changes of server and clears, so no outcome leaves it unfetchable.
MarkedWhileAsked ==
    /\ inFlight = {f.path : f \in fetches}
    /\ \A f, g \in fetches : f.path = g.path => f = g

\* CoverCache.cpp:70-73: signed in, no card shows the image another server has under
\* its id.
CardsOfThisServer == shown => \A i \in Images : cards[i] \in {NoPath, Path(i)}

\* Both: a card gets an image of its own, of its own server, and can ask again.
CoversStayRight == MarkedWhileAsked /\ CardsOfThisServer
=============================================================================
