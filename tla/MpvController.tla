---------------------------- MODULE MpvController ----------------------------
(***************************************************************************)
(* The wrapper of libmpv, player/MpvController.cpp, and the part of libmpv *)
(* it talks to.  mpv runs on its own thread: commands take effect at once, *)
(* but what becomes of them is told later, by events in their order and by *)
(* notices of changed properties, each with the value it had when mpv took *)
(* notice of the change.  A wakeup callback has handleEvents() drain them  *)
(* on the application's thread.                                            *)
(***************************************************************************)
EXTENDS Naturals, Sequences

CONSTANTS
    Files,
    Queues,         \* the queues of files the session may load
    Length,         \* bound: the length of a file
    MaxCommands,    \* bound: commands of the session
    MaxStalls,      \* bound: times mpv runs out of data
    Patient         \* does the session await what its last command does to mpv?

ASSUME MpvAssumption ==
    /\ Queues \subseteq Seq(Files) \ {<<>>}
    /\ Length \in Nat /\ MaxCommands \in Nat /\ MaxStalls \in Nat /\ Patient \in BOOLEAN

Places == 0 .. Length
Flags  == {"pause", "coreIdle", "pausedForCache"}

VARIABLES
    paused, coreIdle, pausedForCache, playing,  \* m_paused, ..., m_playing
    pendingSeek,            \* m_pendingSeek
    queue, opened, at,      \* mpv: the playlist from the current file on, is that open, the place
    mpvPaused, stalled,     \* mpv: its pause flag, is it out of data?
    events,                 \* mpv: events posted
    noticed, told,          \* mpv: the flags as last noticed, and which of them are yet to be told
    woken,                  \* is a call of handleEvents() queued?
    broken,                 \* history: a file has failed since the last load or stop
    asked,                  \* history: the start the current file was loaded with, until a seek
    commands, stalls        \* bounds

ownVars     == <<paused, coreIdle, pausedForCache, playing, pendingSeek>>
mpvVars     == <<queue, opened, at, mpvPaused, stalled>>
noticeVars  == <<noticed, told>>
historyVars == <<broken, asked>>
boundVars   == <<commands, stalls>>
vars == <<ownVars, mpvVars, events, noticeVars, woken, historyVars, boundVars>>

Events == {"loaded", "eof", "error", "stopped"}

TypeOK ==
    /\ paused \in BOOLEAN /\ coreIdle \in BOOLEAN /\ pausedForCache \in BOOLEAN
    /\ playing \in BOOLEAN
    /\ pendingSeek \in Places /\ at \in Places /\ asked \in Places
    /\ queue \in Seq(Files)
    /\ opened \in BOOLEAN /\ mpvPaused \in BOOLEAN /\ stalled \in BOOLEAN
    /\ events \in Seq(Events)
    /\ noticed \in [Flags -> BOOLEAN] /\ told \subseteq Flags
    /\ woken \in BOOLEAN /\ broken \in BOOLEAN
    /\ commands \in 0 .. MaxCommands /\ stalls \in 0 .. MaxStalls
-----------------------------------------------------------------------------
(* libmpv *)

\* Sound comes out.
Audible == queue # <<>> /\ opened /\ ~mpvPaused /\ ~stalled

Flag(f) == CASE f = "pause" -> mpvPaused
             [] f = "coreIdle" -> ~Audible
             [] f = "pausedForCache" -> stalled

Init ==
    /\ paused = FALSE /\ coreIdle = TRUE /\ pausedForCache = FALSE /\ playing = FALSE
    /\ pendingSeek = 0
    /\ queue = <<>> /\ opened = FALSE /\ at = 0 /\ mpvPaused = FALSE /\ stalled = FALSE
    /\ events = <<>> /\ woken = FALSE
    /\ noticed = [f \in Flags |-> f = "coreIdle"] /\ told = {}
    /\ broken = FALSE /\ asked = 0
    /\ commands = 0 /\ stalls = 0

\* The end of an opening is posted and not yet handled.
OpeningTold == \E k \in DOMAIN events : events[k] = "loaded"

Post(e) == events' = Append(events, e) /\ woken' = TRUE

\* The next file of the queue, from its beginning.
NextFile == queue' = Tail(queue) /\ opened' = FALSE /\ at' = 0 /\ stalled' = FALSE

MpvOpens ==
    /\ queue # <<>> /\ ~opened
    /\ opened' = TRUE
    /\ Post("loaded")
    /\ UNCHANGED <<ownVars, queue, at, mpvPaused, stalled, noticeVars, historyVars, boundVars>>

\* A file cannot be opened, or its stream dies.
MpvFails ==
    /\ queue # <<>>
    /\ NextFile
    /\ Post("error")
    /\ broken' = TRUE /\ asked' = 0
    /\ UNCHANGED <<ownVars, mpvPaused, noticeVars, boundVars>>

MpvPlays ==
    /\ Audible /\ at < Length
    /\ at' = at + 1
    /\ UNCHANGED <<ownVars, queue, opened, mpvPaused, stalled, events, noticeVars, woken,
                   historyVars, boundVars>>

\* No file is so short that it ends before its opening has been handled.
MpvEnds ==
    /\ Audible /\ at = Length /\ ~OpeningTold
    /\ NextFile
    /\ Post("eof")
    /\ asked' = 0
    /\ UNCHANGED <<ownVars, mpvPaused, noticeVars, broken, boundVars>>

MpvStalls ==
    /\ queue # <<>> /\ opened
    /\ \/ ~stalled /\ stalls < MaxStalls /\ stalled' = TRUE /\ stalls' = stalls + 1
       \/ stalled /\ stalled' = FALSE /\ UNCHANGED stalls
    /\ UNCHANGED <<ownVars, queue, opened, at, mpvPaused, events, noticeVars, woken, historyVars,
                   commands>>

MpvNotices(f) ==
    /\ noticed[f] # Flag(f)
    /\ noticed' = [noticed EXCEPT ![f] = Flag(f)]
    /\ told' = told \cup {f}
    /\ woken' = TRUE
    /\ UNCHANGED <<ownVars, mpvVars, events, historyVars, boundVars>>
-----------------------------------------------------------------------------
(* handleEvents() *)

Effective == ~paused' /\ ~coreIdle' /\ ~pausedForCache'

\* updatePlaying()
UpdatePlaying == playing' = Effective

\* A seek mpv can act on; while it opens a file the command fails.
MpvSeek(to) == IF queue # <<>> /\ opened THEN at' = to ELSE UNCHANGED at

\* Slip: the offset applies to every file of the queue.
HandleLoadedAlways ==
    /\ woken /\ events # <<>> /\ Head(events) = "loaded"
    /\ events' = Tail(events)
    /\ IF pendingSeek > 0 THEN MpvSeek(pendingSeek) ELSE UNCHANGED at
    /\ UNCHANGED <<ownVars, queue, opened, mpvPaused, stalled, noticeVars, woken, historyVars,
                   boundVars>>

HandleLoaded ==
    /\ woken /\ events # <<>> /\ Head(events) = "loaded"
    /\ events' = Tail(events)
    /\ IF pendingSeek > 0 THEN MpvSeek(pendingSeek) ELSE UNCHANGED at
    /\ pendingSeek' = 0
    /\ UNCHANGED <<paused, coreIdle, pausedForCache, playing, queue, opened, mpvPaused, stalled,
                   noticeVars, woken, historyVars, boundVars>>

HandleEndFile ==
    /\ woken /\ events # <<>> /\ Head(events) # "loaded"
    /\ events' = Tail(events)
    /\ UNCHANGED <<paused, coreIdle, pausedForCache>>
    /\ UpdatePlaying
    /\ UNCHANGED <<pendingSeek, mpvVars, noticeVars, woken, historyVars, boundVars>>

\* Slip: only a changed pause flag is worth a look at the others.
HandleChangedFlag(f) ==
    /\ woken /\ events = <<>> /\ f \in told
    /\ told' = told \ {f}
    /\ paused' = IF f = "pause" THEN noticed[f] ELSE paused
    /\ coreIdle' = IF f = "coreIdle" THEN noticed[f] ELSE coreIdle
    /\ pausedForCache' = IF f = "pausedForCache" THEN noticed[f] ELSE pausedForCache
    /\ IF f = "pause" /\ paused' = paused THEN UNCHANGED playing ELSE UpdatePlaying
    /\ UNCHANGED <<pendingSeek, mpvVars, events, noticed, woken, historyVars, boundVars>>

\* Events come first; then the notices, in any order.
HandleFlag(f) ==
    /\ woken /\ events = <<>> /\ f \in told
    /\ told' = told \ {f}
    /\ paused' = IF f = "pause" THEN noticed[f] ELSE paused
    /\ coreIdle' = IF f = "coreIdle" THEN noticed[f] ELSE coreIdle
    /\ pausedForCache' = IF f = "pausedForCache" THEN noticed[f] ELSE pausedForCache
    /\ UpdatePlaying
    /\ UNCHANGED <<pendingSeek, mpvVars, events, noticed, woken, historyVars, boundVars>>

\* Slip: one event for each wakeup.
DrainedAny == TRUE

Drained == events = <<>> /\ told = {}

HandleNone ==
    /\ woken /\ Drained
    /\ woken' = FALSE
    /\ UNCHANGED <<ownVars, mpvVars, events, noticeVars, historyVars, boundVars>>
-----------------------------------------------------------------------------
(* The commands of the session *)

Opening == (queue # <<>> /\ ~opened) \/ OpeningTold

Opened == Patient => ~Opening

PauseNoticed == Patient => noticed["pause"] = mpvPaused

Commands == commands < MaxCommands /\ commands' = commands + 1 /\ UNCHANGED stalls

\* requestPaused(): the request is recorded before mpv confirms it.
Records(pause) == mpvPaused' = pause /\ paused' = pause

\* What plays is told to have ended.
Ending == IF queue # <<>> THEN Post("stopped") ELSE UNCHANGED <<events, woken>>

\* loadPlaylist(), with the pause() that follows it when playback is not to begin
LoadPlaylist(files, start, play) ==
    /\ Commands /\ Opened /\ PauseNoticed
    /\ pendingSeek' = start
    /\ queue' = files /\ opened' = FALSE /\ at' = 0 /\ stalled' = FALSE
    /\ Ending
    /\ Records(~play)
    /\ broken' = FALSE /\ asked' = start
    /\ UNCHANGED <<coreIdle, pausedForCache, playing, noticeVars>>

RequestPaused(pause) ==
    /\ Commands /\ PauseNoticed
    /\ Records(pause)
    /\ UNCHANGED <<coreIdle, pausedForCache, playing, pendingSeek, queue, opened, at, stalled,
                   events, noticeVars, woken, historyVars>>

SeekAbsolute(to) ==
    /\ Commands /\ Opened /\ queue # <<>>
    /\ MpvSeek(to)
    /\ asked' = 0
    /\ UNCHANGED <<ownVars, queue, opened, mpvPaused, stalled, events, noticeVars, woken, broken>>

Stop ==
    /\ Commands
    /\ queue' = <<>> /\ opened' = FALSE /\ at' = 0 /\ stalled' = FALSE
    /\ Ending
    /\ broken' = FALSE /\ asked' = 0
    /\ UNCHANGED <<ownVars, mpvPaused, noticeVars>>
-----------------------------------------------------------------------------

Handle == \/ HandleLoaded
          \/ HandleEndFile
          \/ \E f \in Flags : HandleFlag(f)
          \/ HandleNone

Mpv == \/ MpvOpens
       \/ MpvFails
       \/ MpvPlays
       \/ MpvEnds
       \/ MpvStalls

Notice == \E f \in Flags : MpvNotices(f)

Session == \/ \E files \in Queues, start \in Places, play \in BOOLEAN :
                 LoadPlaylist(files, start, play)
           \/ \E pause \in BOOLEAN : RequestPaused(pause)
           \/ \E to \in Places : SeekAbsolute(to)
           \/ Stop

Next == Handle \/ Mpv \/ Notice \/ Session

Spec == Init /\ [][Next]_vars

\* Fairness: mpv reports changed properties, and the event loop runs what is queued.
FairSpec == Spec /\ WF_vars(Handle) /\ WF_vars(Notice)
-----------------------------------------------------------------------------
\* What a load was told is where its sound starts: the abstract player sees the
\* start offset in effect while the file is opened and until the opening is
\* handled, and nothing at all of a queue in which a file has failed.
P == INSTANCE Player WITH
        queue <- IF broken THEN <<>> ELSE queue,
        place <- IF broken \/ queue = <<>> THEN 0
                 ELSE IF pendingSeek > 0 THEN pendingSeek ELSE at,
        paused <- mpvPaused

\* MpvController implements the player the session counts on, as long as the
\* session awaits the end of each load before it loads or seeks again.
ImplementsPlayer == P!Spec

\* Everything mpv has to tell has been told.
Quiet == events = <<>> /\ told = {} /\ \A f \in Flags : noticed[f] = Flag(f)

\* updatePlaying(), requestPaused(): once mpv has nothing more to tell, isPaused()
\* is its pause flag and isPlaying() says whether sound comes out, whatever late
\* notices crossed the requests.  (When Patient: pressed twice before mpv notices
\* the first, Pause may leave isPlaying() false under sound, since mpv then has no
\* change to tell.)
FlagsAgree == Quiet => paused = mpvPaused /\ playing = Audible

\* Liveness: when mpv falls silent, listening time stops being counted, unless the
\* sound comes back first.
SilenceIsNoticed == ~Audible ~> (Audible \/ ~playing)

\* MpvController.h:24: a load "seeks to startSeconds within that file once
\* loaded".
StartsWhereAsked ==
    queue # <<>> /\ opened /\ ~OpeningTold /\ ~broken => at >= asked
=============================================================================
