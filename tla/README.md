# ShelfRemote in TLA+

Specifications, model checking and machine-checked proofs for ShelfRemote, a
desktop client for Audiobookshelf servers written in C++/Qt with libmpv
(`src/src/`, screens in `src/qml/`). Paths below are relative to the
repository; `File.cpp:120` names a line.

ShelfRemote runs in one process. Everything but libmpv runs on one thread, in
one event loop, so a handler is never preempted, and every specification takes
one handler as one step. What is hard is what lies *between* handlers: replies
arrive late, out of order or not at all; mpv plays on in its own thread and
queues its events; timers expire meanwhile; the user does not wait. In two
places a handler spins an event loop of its own (closing a session at exit,
asking the Secret portal for the key), and other handlers run in its middle.

## 1. Inventory

### Playback

| Component | State | Operations | Interacts with |
|---|---|---|---|
| `player/PlaybackSession` | open session and its id, tracks, chapters, current track, position, generation of the play request, sleep timer, sync timers | play item/episode, applyPlayResponse, pause, seek, skip, next/previous chapter, sleep timer, sync, stopAndClose, flushAndClose; handlers of mpv's events and of the token's change | ApiClient (requests with reply callbacks), MpvController (calls, signals), ProgressSyncer, ProgressStore (through main.cpp) |
| `player/ProgressSyncer` | listened time accumulated and running | setPlaying, take, rollback, pending, reset | PlaybackSession |
| `player/MpvController` | raw mpv flags, effective `playing`, pending seek, HTTP header | load playlist, stop, seek, pause; event queue of mpv | libmpv's thread, by queued wake-ups |
| `player/MprisAdapter` | D-Bus properties | media keys to session calls | PlaybackSession |

Hard: the interval of a report is taken before its request is sent and given
back if it fails, while newer reports and even the next session go on; the end
of a file is handled after the user may have sought away from it; the bearer
header belongs to one origin only, while a book can lie on several; shutdown
waits in a nested loop.

Correct means: every listened second is in exactly one place and is never
reported under another session; a session is always the one last asked for;
nothing plays that nobody accounts for; the bearer never leaves its server;
reports end with one close; the sleep timer counts what is heard; a book is
finished only when it has been played out.

### Sign-in and network

| Component | State | Operations | Interacts with |
|---|---|---|---|
| `net/ApiClient` | base URL and its generation, bearer, requests in flight | setBaseUrl (aborts what is in flight), send, one refresh and one replay on a 401 | everything that talks to the server |
| `auth/TokenStore` | tokens, server key, account, refresh waiters | load, persist, clear, single-flight refresh, setStorage | ApiClient, SecureStore |
| `auth/AuthManager` | the sign-in state, OpenID attempt and its time limit, keyring retries | checkServer, loginLocal, beginOidc, callback, restoreSession, cancelAuth, logout, authorizeAndFinish | the two above, UriHandler, QML |
| `storage/SecureStore` | master secret and where it is kept | encrypt/decrypt records, acquire the secret (file or portal), move it | Database, Secret portal |
| `auth/Pkce`, `net/Endpoints` | none | pure functions | |
| `server/ServerManager` | list view of saved servers | save, remove | Database |

Hard: a reply is recognised as stale only when the *server* changed, not when
the attempt did; a refused refresh, a failed one, and waiters of several kinds
meet in one reply; tokens are saved before they are verified; the portal lets
the user act in the middle of a restore.

Correct means: tokens stay with the server that issued them; whoever is signed
in can be restored at the next launch; no attempt and no request hangs; leaving
the signed-in state has a reason; signing out is final.

### Library and local data

| Component | State | Operations |
|---|---|---|
| `app/Backend` | libraries, selected library, home rows, Next Up, search results | load/select library, refresh, search, load item, mark finished, reset |
| `model/LibraryItemsModel` | pages of one listing | loadLibrary, loadMore, fetchPage |
| `model/BookmarkStore` | bookmarks with optimistic changes | add, remove, rollback |
| `model/ProgressStore`, `ShelfModel`, `PlaylistModel` | rows shown | update, set |
| `storage/CoverCache` | images on disk, fetches in flight | fetch, prune |
| `storage/Database` | one SQLite file | one statement per call |
| `app/Application`, `UriHandler` | lock and socket of the running instance | forward a URI to it, or become it |
| `app/AppConfig`, `AppSettings`, `DebugLog` | single values, a log | get, set |

Hard: a reply for another library, query, page or server than the one now
chosen; two optimistic changes rolling back against each other; a mark "being
fetched" that is never cleared; two launches at the same moment.

`main.cpp` wires the parts: signing out closes playback before the credentials
go, any other way out of the signed-in state stops it, a closed session updates
the progress shown, exit closes it for good, and the start restores the last
server.

## 2. Modules

| Module | Models | Kind |
|---|---|---|
| `ProgressSyncer` | `ProgressSyncer.cpp` | operators on the accumulator record |
| `BookTimeline` | the position arithmetic of `PlaybackSession.cpp` | operators: files, origins, chapters, jumps |
| `PlaybackSession` | `PlaybackSession.cpp`, what it sees of `MpvController`, its requests, the closing handlers of `main.cpp` | state machine |
| `ListenLedger` | what the accounting promises | abstract state machine |
| `MpvController` | `MpvController.cpp` and the side of libmpv it talks to | state machine |
| `Player` | what a session counts on from the player | abstract state machine |
| `SignIn` | `AuthManager.cpp`, `TokenStore.cpp`, the sending half of `ApiClient.cpp`, the start in `main.cpp` | state machine |
| `Library` | `Backend.cpp`, `LibraryItemsModel.cpp`, `ProgressStore.cpp`, the shelves and playlists | state machine |
| `BookmarkStore` | `BookmarkStore.cpp` and the server's bookmarks | state machine |
| `CoverCache` | `CoverCache.cpp` | state machine |
| `SecureStore` | `SecureStore.cpp`, the moves of `TokenStore` and `AuthManager` | state machine |
| `SingleInstance` | the single-instance guard of `Application.cpp` | state machine |
| `MCPlaybackSession`, `MCSignIn`, `MCLibrary`, `MCMpvController`, `MCLocal` | instances for TLC | |
| `*_proofs` | theorems | proofs |

An action carries the name of the handler it models (`SeekGlobal`,
`AuthorizeOk`); `PROJECT.json` gives the lines. Constants and variables name
the member they stand for where the names differ.

Operators whose comment starts with **Slip:** are not part of the
specification. Each is a plausible mistake in the operator next to it (a
dropped guard, a timer not started), and each property is checked to fail when
one of them replaces the original: this shows what the property is worth.

### PlaybackSession

- *Time* is a set of ticks of the wall clock, each heard at most once.
  `ProgressSyncer` accumulates sets of ticks where the code accumulates
  seconds; lost and double counted time is then visible as a missing or a
  repeated element. Minutes of the sleep timer are abstracted: it is held,
  runs, or expires at some moment.
- *Requests* (`flight`) are a set of reports with their session, interval and
  fate; the server applies and answers them in any order, any answer may be
  lost or be a failure. An empty `/sync` changes nothing and is not tracked.
- *mpv* is a file, a place, whether it is audible, a queue `posted` of
  end-of-file and error events, and the place it has reported and nobody has
  handled (`told`; only the newest waits), which a seek or a load may overtake.
  It may become audible or silent, move on, end a file or fail at any moment.
  Property changes follow the posted events. A book served as one HLS stream is
  a book of one track.
- *A late stop* (`lateStop`): a `/play` reply may be handled before mpv has told
  that it stopped the file of the session before. `m_playing` is then still
  true while the accumulator, just reset, does not measure. That notice is told
  before the next file sounds; until then no tick is heard.
- *The debounce* of seeks (`seekTimer`) is off, armed, or armed again: `start()`
  on a running timer begins its interval anew, and that run of it never expires.
- *A report* has the outcome `send()` gives it: a 401 answered by a refresh and
  one replay only keeps it in flight longer.
- *The book* is a constant: durations, origins and chapters of each item.
- *Shutdown* is three steps (`Quit`, whatever happens in the nested loop,
  `QuitTimeout` or the answer), so that handlers in between are covered.

Simplifications: without `InputRaces` a `/play` reply is handled behind what mpv
posted before it was stopped, as all other input is; the server is switched only
with no open session, since the stateChanged handler of `main.cpp` stops
playback first; speed, volume and the chapter shown are left out.

`ListenLedger` has only places for ticks: measured, in a report, credited,
dropped. `SessionLedger_proofs` and the run `session_accounting` show that
`PlaybackSession` implements it: the accumulator, the running span and the
reports map to the places, and every handler is a ledger step or a stutter.

### MpvController and Player

- *mpv* runs on its own thread: a command takes effect on it at once, what
  becomes of it is told later. `events` is its queue of file events, in order;
  `told` are the changed properties it has yet to tell, each with the value
  mpv had *when it took notice* (`Notice`), which may be some time after the
  change. Events come out before notices, as libmpv does it. `woken` is the
  queued call of `handleEvents()`, which drains all of it in one step.
- *The wrapper* is its three raw flags, the effective `playing`, and
  `m_pendingSeek`, applied and cleared at the next FILE_LOADED.
- *`Patient`* says whether the session awaits what its last command does: the
  end of an opening before it loads or seeks, the notice of a pause before it
  loads or pauses again. With it the wrapper refines
  `Player`, a player of nothing but a queue, a place, and whether it is paused:
  a load starts where it was told to, in its first file and in no later one, a
  seek lands, and between commands the place moves only while sound is asked
  for. The pending seek is hidden by the mapping: the player's place is where
  the file *will* start. Without `Patient` it does not (run `mpv_reload`).
- Once a file has failed, what sounds next is not promised (`broken`).

### SignIn

- An *attempt* of the user is a flow number; a request is its kind, its flow,
  the server it went to and what it bears. The base URL of the client and the
  key of the token store name one server (`server`): the code sets both in the
  same handler.
- *Tokens* say who issued them, to whom, and which of two successive rotations
  they are. A refresh token always comes with its access token, the client's
  bearer is the access token of the store, and a successful `/authorize` names
  the owner of the token it was sent with.
- *Answers* are anything each handler tells apart: success, refusal, failure,
  a payload that names the account or not, useless payloads; in any order.
  Any of them may be a 401, which asks for a refresh if there is something to
  refresh with, and is replayed once with the new bearer; a replayed code
  exchange keeps its code. When one reply fails several waiters, the last
  decides the state and their order is left open.
- *The keyring* opens or not at each try. With `PortalPrompts` the request
  suspends the restore (`suspended`) and every other handler may run until it
  answers; one request at a time, and the key that `persist()` may need is then
  got in one step.
- *The disk* is the token blob and the row of each server and which was used
  last. `Restart` ends the process between any two handlers and keeps only the
  disk; `AuthorizeKilled` ends it inside the one handler that writes twice, the
  blob saved and the row not.
- The login form is shown only once a `/status` of this run has been answered.

`overtaken` and `signedOut` are history variables, used by properties only.
The user is overtaken once an attempt begins while the end of another, a
scheduled retry or a refresh is still awaited, or tokens are restored while a
refresh of earlier ones is.

### Library

- *What is on screen* is represented by where it comes from: the library, the
  query or the page it was fetched for, and the sign-in (`login`) it was
  fetched under. Shelves and playlists are compared by this alone.
- *The Next Up shelf* is the exception. `cards` is its rows, one by one; they
  depend on the playlists, the picks, the setting and the progress of items,
  each changed by handlers of its own, and every such action rebuilds the shelf
  or not exactly as the code does.
- *The list* is its pages, in order; `nth` is `m_requestGeneration`.
- *The wiring* of `main.cpp` is modelled: what signing in loads, what signing
  out resets, what a refused session leaves standing, and that a closed book
  sets its progress: when it is stopped, when the session is refused, and when
  a `/play` that was unanswered at the end of its sign-in (`stray`) opens a
  session behind the login screen, which the next change of state or the next
  book closes. A record of such a session is marked.
- `asked` is a history variable: what was last typed into the search box.
- *Replies* are requests in flight that are answered in any order or fail; two
  equal requests in flight are one.
- *The disk* holds the last library and the picks of each server, and the item
  cache, which remembers which server an item came from.

### The local stores

`MCLocal` runs four components that share no state. A behaviour is one of any
of them, its `scene`; the others keep their first state.

- `BookmarkStore`: the marks on screen are listed by book and second, since two
  marks of one second can only come of two calls about it. The server has
  bookmarks of its own and sees a call, or not, before its answer is lost, or
  not. `doubtful` is a history variable: the
  seconds of which two calls in flight together, or a lost answer, make the
  outcome unknowable.
- `CoverCache`: a path is a server and an image; the two servers have images of
  the same id, as restored copies have. The directory is a set of files and
  which of them is older. Pruning may meet files it cannot remove. The cards of
  one server outlive the choice of another, behind the login screen, until
  somebody is signed in (`shown`).
- `SecureStore`: a key is a model value, and a row is readable under the key it
  was written with. Asking the portal spins an event loop in which another
  operation may start, so `operations` is a stack: the top one goes on, the
  others wait below it even when their own answer is there. An operation's
  writes are the sequence of disks it goes through; it is done with all of
  them, or killed after any.
- `SingleInstance`: each launch is a process with its stage of `acquire()`;
  the lock goes with its owner, the socket file does not go with a killed one,
  and goes by name when a listener is closed. A launch that finds no listener
  gives up after three seconds, whatever the owner does; since it began to
  wait when the owner had the lock, only an owner that is `slow`, chosen when it
  takes the lock, can still be on its way to the bind. `primary` and `clean` are
  history variables: whom a launch found with the lock, and which owners took it
  when no earlier one was still going.

## 3. Runs

| Run | Question | Bounds |
|---|---|---|
| `session_accounting` | Is every listened tick in one place, do reports implement the ledger, does nothing open behind the final close? | 2 plays, 2 ticks, 2 reports in flight, server change, quit |
| `session_timeline` | Do bearer, progress and timers stay right when input falls between an mpv event and its handling, and a reply before a stop is told? | a book of 3 files of length 1 on 2 origins, an episode; 2 plays, 2 tokens |
| `session_orderly` | Does the timeline agree with mpv, do chapter keys land, and is what was heard and sought eventually reported, when input waits for what mpv has posted and reported? | a book of 3 longer files on 2 origins with chapters across files; fairness |
| `sign_in` | Do tokens stay home, is every sign-in restorable, is every request answered? | 2 servers, 3 attempts, 1 content request, 2 launches, 1 keyring retry |
| `portal_prompt` | Does every attempt end when asking for the key lets other handlers run? | 3 attempts, 2 launches |
| `library` | Does what is shown belong to what is chosen, is a list whole, does loading end? | 3 steps of the user, sign-ins included; 2 servers, 2 libraries, 2 queries, 1 playlist of 2 items, 2 pages |
| `mpv_queue` | Does the wrapper implement the player, and do its flags agree with mpv? | 4 commands, queues of 2 files and of 1, files of length 2, 1 stall, `Patient` |
| `local` | Do bookmarks settle, images stay with their server, secrets stay readable, callbacks arrive? | bookmarks: 4 changes, 2 servers; images: 5 looks, 2 images; secrets: 5 uses, 2 nested prompts, 2 accounts; 3 launches |
| `stale_eof`, `signed_out`, `mpv_reload`, `endpoint` | section 6 | the smallest that show it |

Why the bounds are enough: every hazard of the accounting needs one report of
an old session and one of the next, hence two plays and two reports; a third
tick adds no new place for a tick to be. Three files with two origins have a
file before, at and after a change of origin, chapters that start inside and at
the edge of files, and a last file that is not the second. Of sign-in attempts,
one can be stale, one superseded and one current; a second content request only
joins the waiters of the first. One keyring retry has a first and a last
attempt. Of the library's three steps one may be a sign-in, which by itself
asks for all there is to load, and two more choose something else while its
replies are under way, or search for two things, or search and clear; a second
page is the first that is a continuation. The files of `session_timeline` are
short because what it asks depends on which file plays, not on the place in it;
those of `session_orderly` have room for a boundary inside a file. Four
commands give mpv a load, what is done to it, and another load with something
left to do to that; a queue of two has a file the start offset must not reach.
Three launches are an owner, one that leaves or races, and one that forwards;
five uses of the secret are a set-up, a move, a kill and a launch, and what
finds out whether it all can still be read. The theorems below hold for every
value.

Further configurations, run by hand like
`tlc -config PlaybackSession_lostreply.cfg MCPlaybackSession`, show what
section 6 tells in prose: `PlaybackSession_lostreply.cfg`,
`PlaybackSession_failedsync.cfg`, `SignIn_staysin.cfg` and `SignIn_portal.cfg`.
Each ends in a counterexample.

### Fairness

`session_orderly`, `sign_in` and `portal_prompt` assume that `main()` runs, that
timers that are left running expire, that events mpv has posted are handled, and
that requests are answered, if only by their 30 s transfer timeout
(`ApiClient.cpp`); `library` assumes the last alone. `mpv_queue` assumes that
mpv notices its own changed properties and that a queued `handleEvents()` runs.
The event loop, and mpv's, give each of these. Nothing is assumed of the
user, of the browser, of mpv's playback, or of which answer comes; an answer at
shutdown is not assumed either, since there the code has a timeout of its own.
Fairness is weak throughout: an enabled timer or reply stays enabled until it
is handled or cancelled. The debounce of seeks is restarted by each of them, so
each run of it is fair by itself (`seekTimer = "armed"`, `"rearmed"`), and a user
who seeks for ever in silence may never let one expire: `SeekIsReported` claims
the report while the book sounds, since the interval timer sends it then, and
otherwise once the user lets the timeline be. `local` assumes none and states
no liveness.

## 4. Proofs

Eight modules of proofs are checked by TLAPS to the last leaf, for every value
of the constants that satisfies the named assumptions: the bounds are naturals,
a book has at least one track and a positive duration, a queue at least one
file, null values lie outside the sets they complement, and what a server may
answer is of the shape its replies have (`SessionAssumption`,
`ReportAssumption`, `TimelineAssumption`, `SignInAssumption`, `MpvAssumption`,
`LibraryAssumption`, `BookmarkAssumption`, `CoverAssumption`,
`InstanceAssumption`, `SecretAssumption`). Instances of these are evaluated in
every TLC run.

| Theorem | Property |
|---|---|
| `TypeCorrect` | the state keeps its types; the track index and the position stay in range |
| `NewestPlayOpens` | the open session is the one last asked for |
| `TrackAlwaysInRange` | every `m_tracks.at(m_currentTrack)` is in range |
| `NothingPlaysUntracked` | mpv plays nothing without a session |
| `BearerOnlyHome` | the bearer goes to its own server only, and is the newest |
| `QuitClosesForGood` | nothing opens behind the final close |
| `ProgressOfItsOwn` | a progress written names the item it was heard in |
| `TimelineInStep` | the track is mpv's, if input waits for posted events (`~InputRaces`) |
| `FinishedWhenPlayedOut` | only a book played out is finished, under the same condition |
| `ChapterKeys` | Next and Previous land where they say, if chapters start within their book |
| `SleepsAtTheRightEnd` | an armed chapter end is that of the chapter heard, if files reach to the end of their book and chapters do not overlap (`BooksLaidOut`), `~InputRaces` |
| `LedgerKeepsItsPromise` | the ledger itself loses and doubles nothing |
| `MeasuresWhatIsHeard` | the accumulator runs exactly while the session sounds, a late stop of the one before included |
| `SessionImplementsLedger` | refinement, for any number of reports |
| `TicksInOnePlace`, `OpenSessionTime` | inherited through the refinement |
| `TimersGoBySound` | the sleep countdown and the accumulator run only in sound |
| `CloseIsFinal` | nothing is sent to a session behind its close |
| `SecondsCreditedOnce` | no second is credited twice, if no answer is lost (`~LostReplies`) |
| `MpvTypes`, `FlagsCatchUp` | for a patient session, the wrapper's flags are mpv's once all is told |
| `ImplementsThePlayer` | for a patient session, the wrapper refines the player |
| `SignInTypes` | types; whatever can send a request has a server to send it to |
| `OneRefresh` | one refresh at a time, and nothing waits on none |
| `TokensStayHome` | saved tokens are their server's, if no handler runs while the keyring is asked |
| `RetriesStayHere` | a keyring retry is for the server chosen, under the same condition |
| `SignedInRestores` | who is signed in can be restored by the next launch, unless overtaken |
| `StaysUntilRefused` | only sign-out, a refused refresh and the end of the process lead out, unless overtaken |
| `LibraryTypes`, `WholeListing` | a list is a gapless beginning of the one listing chosen |
| `ShelfFollows` | the Next Up shelf is what its four inputs amount to |
| `ThisSessionOnly` | nothing of an earlier sign-in or server is shown, but what a `/play` it left unanswered records |
| `LatestHits` | hits that appear are of what was last asked for; none are shown in an empty search box |
| `CoversRight` | marks in flight are requests in flight; signed in, no card shows another server's image |
| `CallbacksArrive` | a launch that is over has handed its callback to the owner it found, if that listens, started undisturbed and was not slow |
| `ProviderSticks` | only a move changes the provider, unless a first set-up was overtaken |
| `SecretsOpen` | saved sign-ins open with the key the next launch takes, wherever this one is killed, unless operations crossed |
| `BookmarksInStep` | screen and server agree on a second once its change is answered, unless changes of it overlapped |
| `LocalTypes` | types of the four local stores, side by side |

*Playback.* None of these invariants is inductive. `TrackInRange`, say, needs
that the session that opens is the newest, that nothing of another book can be
loaded after it, and that a position maps into the book. The invariant of
`PlaybackSession_proofs` is `Inv == TypeOK /\ Lifecycle`, with `Lifecycle` of
four named parts: `NewestChoice` (whose reply may open a session), `TrackLoaded`
(what is loaded while one is open), `Silenced` (mpv is stopped without one) and
`Queue` (what mpv still has queued, and its origin). Every action preserves it,
one step per action. `BookTimeline_proofs` supplies the arithmetic: a clamped
position lies in some track, the run of files loaded together has one origin.
`SessionLedger_proofs` adds `Account == Measured /\ HeldNow /\ FlightAccount`,
which ties the accumulator to what sounds of the open session (`Sounding`:
audible, and not the late stop of the last one), its content to ticks of the
current session only, and the reports in flight to disjoint intervals; under it
each step maps to the ledger. `CloseIsFinal` needs that no reply can reopen a
session once closed (`ClosedForGood`); `SecondsCreditedOnce` that what is
credited is settled, given up, or held by a report in flight that the server has
applied (`CreditAccount`). `TimelineInStep` and `FinishedWhenPlayedOut` need how
the session stands to mpv while events wait (`Order`): it is behind by exactly
those posted, within one gapless run of files. `SleepsAtTheRightEnd` rests on a
lemma of the timeline, `ChapterEndStays`: up to the end of a chapter every later
position has the same end. What is left is that a report of mpv's place never
moves the position back across the start of a chapter, for which neither the
position nor a place mpv has reported must run ahead of mpv (`BehindMpv`,
`Reported`). Overlapping chapters, or files that stop short of the end, would
break either: a server adds up the files of a book itself, but takes its
chapters as they come, and the client checks neither. The book of the runs is
laid out so. Where a theorem has a condition, section 6 tells what happens
without it; chapters behind the end of their book would leave Next nowhere to
go.

*The player.* That flags agree once all is told is not inductive: it says
nothing of the moments before. `Lag` says that a flag of the wrapper is behind
mpv's only while a notice of it is yet to be told or a change yet to be noticed.
`Offset` says that a start offset waits only for the file that is being opened,
until that opening has been handled. With these each step of a
command, of mpv and of `handleEvents()` is a step of `Player` or leaves it
unchanged.

*Sign-in* rests on what a change of server does: it takes every request in
flight with it. Its invariant is `Inv == TypeOK /\ Somewhere /\ InFlight`: who
can send has a server (`Somewhere`); all that is in flight or waits is for the
server of the moment, and the waiters have exactly one refresh to wait for
(`InFlight`). `SavedTokensAreHome` needs one thing more, `AtHome`: a restore that
fails can leave the tokens of one server in the store and the client pointed at
another, so what the store holds is not always the server's; but it is while a
request is in flight whose reply would save it (`Verified`). The theorem assumes
`PortalPrompts = FALSE`; with the portal the property is false
(`SignIn_portal.cfg`, section 6). `RetriesStayHere` has the same condition for
the same reason.

`SignedInIsRestorable` speaks of the signed-in state only, and what it says is
decided long before: by whose login, refresh and restore replies were still to
come. Its invariant is `Steady`: of a user who is not overtaken, at most one
attempt is under way, as one request, one retry, one suspended restore or one
OpenID page (`Alone`, `OnePage`); the tokens held, those being verified and
those being refreshed are rotations of one sign-in (`Kindred`); and once signed
in nothing of an attempt is left (`Settled`). `StaysUntilRefused` follows from
the last: no reply, timer or answer of the portal that could lead out is still
to come. Neither needs a condition on the portal. Both properties were false as
first stated, at bounds beyond the run's, where the proof did not go through:
section 6 has the two behaviours, and `overtaken` counts them since.

*Library.* `ListingIsWhole` says what is listed; that the next reply keeps it
needs that a page still awaited is the one after the last (`Listing`).
`OnlyThisSession` needs that whatever is in flight and not stale was asked
under the present sign-in (`Fresh`), and that a saved copy of an item is of the
server it is saved for. `LatestHits` is no consequence of the guard of the
reply alone: that an answer still taken is of the query last typed, and that
none is taken once the box is empty, needs every search, clearing and reset to
count (`Searched`). `ShelfFollows` needs no strengthening: every handler
that changes an input rebuilds the shelf, and the proof goes through the
handlers to see it.

*Local.* `CoversRight`: every request in flight has a mark, of its own, and the
time it was sent tells it from all others (`FetchesOk`, `Marked`).
`CallbacksArrive`: an owner holds the lock from when it takes it until it goes
(`HoldsTheLock`); while it is about to bind or listens, no earlier one is still
going if it started so, and the path leads to it once it listens
(`Undisturbed`); a launch that is on its way found such an owner (`FoundOne`);
whoever runs has handled its own callback (`HandlesItsOwn`). What was written is
therefore with the owner found, or handled (`Delivered`), and a launch that gave
up found one that is slow, deaf or gone. `ProviderSticks`: of all open
operations only the top one is not waiting, and why it asked the portal is still
what the disk says, unless another began meanwhile (`AtHeadOnly`).
`SecretsOpen`: while operations do not overlap, the one that is open still finds
what was the case when it began (`Expects`), and every disk an operation goes
through keeps each row readable under the key a launch from that disk would take
(`OpensWith`); so a kill anywhere leaves nothing unreadable. `BookmarksInStep`:
of a second that is in no doubt at most one call is in flight, and the screen is
ahead of the server by that call or by its answer alone (`InStep`, `Ahead`), so
that the answer, either way, brings the two together.

Only model-checked: liveness and what rests on fairness, out of the prover's
reach (`HeardIsReported`, `SeekIsReported`, `QuitEnds`, `EveryCallAnswered`,
`BusyEnds`, `LoadingEnds`, `SilenceIsNoticed`). Every invariant and every action
property of the passing runs is a theorem, under the conditions the table gives.
What a recursive definition of the libraries computes for every input cannot be
proved either: `ShelfFollows` takes `SelectSeq` as it is, and says that the
shelf is built from its inputs of the moment.

## 5. Properties of the runs

Each is stated in its module in a comment that names the code it is about. The
ones that say most:

- `EachTickInOnePlace`, `CreditedOnce`, `ImplementsLedger`: `sync()` and
  `flushAndClose()` with their reply handlers.
- `ProgressAttribution`: the progress written when a session closes names its
  own item, though the identity of the next is adopted earlier
  (`PlaybackSession.cpp:155`).
- `BearerStaysHome`: `loadTrackForGlobal()` cuts the playlist where the origin
  changes; the token handler refreshes the header.
- `TimersFollowSound`, `SleepsAtThisChaptersEnd`, `ChapterKeysLand`: the sleep
  countdown and the accumulator hold in silence; the armed chapter end follows
  every jump; Next and Previous land at the chapter they are for.
- `HeardIsReported`, `SeekIsReported`, `QuitEnds`: liveness of the reports.
  Whatever was heard or jumped to reaches the server, or the session is over;
  seeks may postpone the report of a seek in silence, and only there.
- `ImplementsPlayer`, `FlagsAgree`, `SilenceIsNoticed`: what is asked of mpv
  happens, and what mpv does is known, though both cross on the way.
- `SavedTokensAreHome`, `SignedInIsRestorable`: late replies against the key
  and the account of that moment; the row and the blob agree at the next launch.
- `SignedInUntilRefused`: for a user who lets an attempt end before the next.
  The stronger claim of `main.cpp:175` fails (section 6).
- `BusyEnds`, `EveryCallAnswered`: no spinner and no request hangs, through
  refreshes, replays, retries, aborts and the OpenID time limit.
- `OnlyThisSession`, `SearchNeverGoesBack`, `ListingIsWhole`, `LoadingEnds`:
  late replies against the choice of that moment, on the screens; also against a
  search box that was emptied, and progress written after its sign-in.
- `NextUpFollows`: a shelf computed from four inputs is never stale.
- `BookmarksSettle`: the screen and the server agree once a change is answered,
  for changes that do not overlap on one second.
- `SavedSecretsOpen`, `StickyProvider`: a move of the secret cut short anywhere
  leaves saved sign-ins readable; the provider changes by a move only.
- `CoversStayRight`, `CallbackArrives`: marks, images and callbacks reach the
  one they are for, also when launches race with the owner's start.

## 6. What the code does otherwise than it says

| Run | Property | What happens |
|---|---|---|
| `stale_eof` | `FinishedMeansPlayedOut` | the end of an earlier file, handled after a seek into the last one, finishes the book (`main.cpp:188`) |
| `signed_out` | `SignedOutStaysOut` | a refresh in flight at sign-out stores fresh tokens when it is answered (`tst_authmanager.cpp:136`) |
| `mpv_reload` | `StartsWhereAsked` | a load that replaces one still opening loses its offset to the FILE_LOADED of the first and starts at 0 (`MpvController.h:24`) |
| `endpoint` | `OwnsTheEndpoint` | an owner that exits gives up the lock before its listener; one that starts in between loses its socket to it (`Application.cpp:166`) |

The models show more of the kind, for which no run is kept:

- An applied report whose answer is lost is reported again and credited twice
  (`PlaybackSession_lostreply.cfg`; `PlaybackSession.cpp:642` says never).
- A `/sync` that fails after the next session has opened is dropped
  (`PlaybackSession_failedsync.cfg`; `ProgressSyncer.cpp:58` says no time is
  lost).
- A late `/status` reply takes a signed-in user to the login screen
  (`SignIn_staysin.cfg`; `main.cpp:175`).
- The user chooses another server while the portal is asked: the restore saves
  its tokens under that server (`SignIn_portal.cfg`; `TokenStore.cpp:174`), or,
  when the portal fails and the retry fires, takes the client back to the
  server the user has left. `RetryIsForTheChosenServer` is therefore a property
  of `sign_in` and not of `portal_prompt`.
- A user signs out and in again, as another, while a refresh of the first
  sign-in's tokens is unanswered (`/logout` was answered 401). Its answer
  replaces the new tokens and saves the old user's under the new account: it is
  compared with the server key only (`TokenStore.cpp:142`; `TokenStore.h:23`
  speaks of the account this session belongs to). `SignedInIsRestorable`
  excepts it by `overtaken`; it takes four attempts and two accounts to show.
- The same answer replaces tokens that a keyring retry, or the portal, has
  restored meanwhile: a login whose `/authorize` failed leaves its tokens to be
  refreshed, the retry for another account of the server restores that one, and
  `/authorize` then saves the first account's tokens under it.
- `loginLocal()` does not stop a keyring retry that is scheduled
  (`AuthManager.cpp:160`). A refused refresh of an earlier session shows the
  login screen while the retry waits; the user signs in there, and the retry
  then takes the signed-in user back to restoring. It takes five attempts and
  two content requests to show.
- `loadItem()`'s late reply may put back progress older than what has been
  listened since (`Backend.cpp:395`).
- Home and search replies carry no library: those of a library just left are
  shown until the new ones arrive. `OnlyThisSession` asks this of playlists
  only.
- Pause pressed twice before mpv has noticed the first may leave `isPlaying()`
  false under sound until the next notice.
- Two changes of one bookmark in flight together undo each other: a remove and
  an add whose remove fails show it twice, an add and a remove that both fail
  leave one no server has. `BookmarksSettle` excludes these by `doubtful`.
- Two first set-ups that cross in the portal's loop change the provider without
  a move (`SecureStore.h:32-33`), and a key file that cannot be written leaves a
  key nothing persists. `StickyProvider` and `SavedSecretsOpen` except these.
- A callback is lost when the owner cannot listen, needs three seconds to bind,
  or leaves before reading it, and when the owner before it was still going and
  takes the callback, or the path, with it; `Application.h:22` calls it already
  forwarded. `CallbackArrives` excepts these.
- A `/play` unanswered at a sign-out opens a session behind the login screen
  (`main.cpp:181` closes only one already open); its close writes progress after
  `progress->clear()`, maybe under the next sign-in. `OnlyThisSession` excepts
  the records written so, and no others.
- A position mpv reported before a seek, handled after it, can fire the armed
  end of a chapter that was left (`PlaybackSession.cpp:332`).
  `SleepsAtThisChaptersEnd` is therefore a property of `session_orderly`.

## 7. Not modelled

- *Pure functions and presentation*: PKCE, endpoints, URL and text formatting,
  parsing of JSON and of the callback URL, QML, D-Bus properties, the saved
  servers' list, configuration, settings and log. No protocol.
- *The mpv wrapper*: audio devices, speed, volume. Nothing else depends on them.
- *Single instance*: the reassembly of a frame from several reads.
- *Secrets*: cryptography beyond "only the key that wrote it reads it"; writes
  the database refuses; writes reordered by a power failure. A process that is
  killed keeps the order of its writes.
- *Database*: opening, migration, pruning of the item cache. One statement each.
- *Bookmarks*: the list a sign-in loads is taken at the moment it is handled,
  not at the moment the server wrote it.
- *Composition*: `SignIn` and `PlaybackSession` are checked apart. What one
  expects of the other (a session is closed before the credentials go, the
  server changes with no session open) is in the actions of each. Of a `/play`
  in flight across a sign-out, what it does to the progress shown is in
  `Library`; what it plays and reports is in neither.

## 8. Plan

Done: playback with its ledger; sign-in; the mpv wrapper against the player; the
library; the local stores; proofs of all their invariants.

1. Composition of `SignIn` and `PlaybackSession` along `main.cpp`: sign-out and
   refused refreshes against a `/play` in flight.
2. Composition of `PlaybackSession` over `Player`, with the wrapper below it.
3. Proofs: of the compositions; of what the library shows after the last reply,
   as a refinement of a list that is read in one step.
