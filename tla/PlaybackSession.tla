--------------------------- MODULE PlaybackSession ---------------------------
(***************************************************************************)
(* A listening session (player/PlaybackSession.cpp) with what it drives:   *)
(* the accumulator of ProgressSyncer, the timers, mpv through              *)
(* MpvController, and the server its /play, /sync and /close requests go   *)
(* to.  All the code runs on one event loop: a step is one handler, run to *)
(* its end with everything it calls.  What interleaves is the order in     *)
(* which input, timers, posted mpv events and replies reach the loop.      *)
(*                                                                         *)
(* Play requests are numbered by m_playGeneration; the server session a    *)
(* request opens has the number of the request.  Listened time is a set of *)
(* ticks (ProgressSyncer), position is whole units of the timeline         *)
(* (BookTimeline).  A transcoded (HLS) session is a book of one track: the *)
(* code treats its end as it treats the end of a last track.               *)
(***************************************************************************)
EXTENDS ProgressSyncer, BookTimeline

CONSTANTS
    Books, Episodes,    \* the media that can be played
    Timeline,           \* the book record of each medium
    NoMedium, NoReport,
    Slots,              \* bound: requests that carry listened time, in flight
    MaxPlays,           \* bound: play requests
    MaxTicks,           \* bound: ticks of listened time
    MaxTokens,          \* bound: access tokens, numbered from 1
    MaxEpochs,          \* bound: servers the client is pointed at
    MaxPosted,          \* bound: mpv events posted and not yet handled
    FallbackSkip,       \* fallbackSkipSeconds(), in units of the timeline
    Controls,           \* the controls this instance exercises
    InputRaces,         \* may input be handled while mpv events are posted?
    LostReplies         \* may a request fail after the server has applied it?

Media    == Books \cup Episodes
Ticks    == 1 .. MaxTicks
Sessions == 0 .. MaxPlays       \* 0: none
NoSession == 0

ASSUME SessionAssumption ==
    /\ NoMedium \notin Media
    /\ MaxPlays \in Nat /\ MaxTicks \in Nat /\ MaxPosted \in Nat
    /\ MaxTokens \in Nat \ {0} /\ MaxEpochs \in Nat
    /\ FallbackSkip \in Nat \ {0}
    /\ InputRaces \in BOOLEAN /\ LostReplies \in BOOLEAN
    /\ \A m \in Media :
         /\ Timeline[m] \in BookRecords
         /\ Timeline[m].tracks # <<>>
         /\ Timeline[m].duration > 0

\* A /sync or /close on its way: the session it reports, the accounting epoch
\* it was built in, the interval it owns, and whether the server has taken it.
\* The "final" close is the one flushAndClose(true) sends at shutdown.
Reports == [kind : {"sync", "close", "final"}, of : Sessions, gen : Sessions,
            ticks : SUBSET Ticks, applied : BOOLEAN]
ASSUME ReportAssumption == NoReport \notin Reports

VARIABLES
    playGen, listenGen,         \* m_playGeneration, m_listenGeneration
    plays,                      \* /play requests in flight: <<generation, medium>>
    epoch,                      \* ApiClient::m_epoch
    active, session,            \* m_active, m_sessionId
    medium, completed,          \* m_itemId with m_episodeId, m_completed
    book,                       \* whose m_tracks, m_chapters, m_duration are loaded
    position, currentTrack,     \* m_globalPosition, m_currentTrack
    queued, usesAuth,           \* the tracks up to m_queuedThroughTrack, m_currentPlaylistUsesAuth
    listen,                     \* *m_listen
    flight,                     \* Slots -> report in flight
    syncTimer,                  \* is the interval timer running?
    seekTimer,                  \* m_seekSyncTimer: "off", "armed" or "rearmed"
    sleep, sleepEnd,            \* "off", "held", "running" (minutes) or "chapter"
    paused, audible,            \* MpvController::m_paused, m_playing
    mpvAt, mpvPos,              \* mpv: the track it plays (0: idle) and where in it
    lateStop,                   \* is the stop of an earlier session's file still to be told?
    posted,                     \* mpv end-of-file events not yet handled
    told,                       \* the place in its file mpv has reported, not yet handled
    header, token,              \* mpv's bearer header (0: none), ApiClient::m_accessToken
    credited, doubled,          \* server: ticks credited, and credited again
    serverClosed,               \* server: sessions closed
    progress,                   \* the newest record given to ProgressStore
    phase,                      \* "running", "quitting", "exited"
    heard, since,               \* history: ticks heard; heard when the session opened
    settled, dropped,           \* history: ticks the server acknowledged; given up
    playedOut,                  \* history: the sessions whose last file mpv finished
    unreported                  \* history: a seek whose position no report carried yet

requestVars  == <<playGen, listenGen, plays, epoch>>
sessionVars  == <<active, session, medium, completed, book>>
timelineVars == <<position, currentTrack, queued, usesAuth>>
sleepVars    == <<sleep, sleepEnd>>
mpvVars      == <<paused, audible, lateStop, mpvAt, mpvPos, posted, told, header,
                  playedOut>>
reportVars   == <<listen, flight, syncTimer, seekTimer, unreported>>
serverVars   == <<credited, doubled, serverClosed>>
fateVars     == <<heard, since, settled, dropped>>
vars == <<requestVars, sessionVars, timelineVars, sleepVars, mpvVars, reportVars,
          serverVars, fateVars, token, progress, phase>>

NoProgress == [medium |-> NoMedium, book |-> NoMedium, finished |-> FALSE, of |-> NoSession]
ProgressRecords == [medium : Books \cup {NoMedium}, book : Media \cup {NoMedium},
                    finished : BOOLEAN, of : Sessions]

TypeOK ==
    /\ playGen \in Sessions /\ listenGen \in Sessions
    /\ plays \subseteq (1 .. MaxPlays) \X Media
    /\ epoch \in 0 .. MaxEpochs
    /\ active \in BOOLEAN /\ session \in Sessions
    /\ medium \in Media \cup {NoMedium} /\ completed \in BOOLEAN
    /\ book \in Media \cup {NoMedium}
    /\ position \in Nat /\ currentTrack \in Nat
    /\ queued \in SUBSET Nat /\ usesAuth \in BOOLEAN
    /\ listen \in Syncers(Ticks)
    /\ flight \in [Slots -> Reports \cup {NoReport}]
    /\ syncTimer \in BOOLEAN /\ seekTimer \in {"off", "armed", "rearmed"}
    /\ sleep \in {"off", "held", "running", "chapter"} /\ sleepEnd \in Nat
    /\ paused \in BOOLEAN /\ audible \in BOOLEAN /\ lateStop \in BOOLEAN
    /\ mpvAt \in Nat /\ mpvPos \in Nat
    /\ posted \in Seq({"eof", "error"}) /\ told \in SUBSET Nat
    /\ header \in 0 .. MaxTokens /\ token \in 1 .. MaxTokens
    /\ credited \subseteq Ticks /\ doubled \subseteq Ticks
    /\ serverClosed \subseteq Sessions
    /\ progress \in ProgressRecords
    /\ phase \in {"running", "quitting", "exited"}
    /\ heard \in 0 .. MaxTicks /\ since \in 0 .. MaxTicks
    /\ settled \subseteq Ticks /\ dropped \subseteq Ticks
    /\ playedOut \subseteq Sessions /\ unreported \in BOOLEAN

Init ==
    /\ playGen = 0 /\ listenGen = 0 /\ plays = {} /\ epoch = 0
    /\ active = FALSE /\ session = NoSession
    /\ medium = NoMedium /\ completed = FALSE /\ book = NoMedium
    /\ position = 0 /\ currentTrack = 0 /\ queued = {} /\ usesAuth = FALSE
    /\ listen = Reset /\ flight = [r \in Slots |-> NoReport]
    /\ syncTimer = FALSE /\ seekTimer = "off"
    /\ sleep = "off" /\ sleepEnd = 0
    /\ paused = FALSE /\ audible = FALSE /\ lateStop = FALSE
    /\ mpvAt = 0 /\ mpvPos = 0 /\ posted = <<>> /\ told = {}
    /\ header = 0 /\ token = 1
    /\ credited = {} /\ doubled = {} /\ serverClosed = {}
    /\ progress = NoProgress /\ phase = "running"
    /\ heard = 0 /\ since = 0 /\ settled = {} /\ dropped = {}
    /\ playedOut = {} /\ unreported = FALSE
-----------------------------------------------------------------------------
\* The calls the handlers are made of.

\* The user's side of the event loop.
Input(control) ==
    /\ phase = "running"
    /\ control \in Controls
    /\ InputRaces \/ (posted = <<>> /\ told = {})

Tracks == Timeline[book].tracks

\* Slip: an index counted from zero.
OneBeforeLast == currentTrack + 1 >= Len(Tracks)

OnLastTrack == currentTrack >= Len(Tracks)

\* startSession(): a reply counts only for the newest choice of what to play.
\* Slip: the generation is not compared.
AnyReply(play) == TRUE

Newest(play) == play[1] = playGen

\* sync() and flushAndClose(): whose accumulator a failed report goes back to.
\* Slip: whoever has it now.
AnyOwner(report) == TRUE

OwnsAccumulator(report) == report.gen = listenGen

\* The listened time a request in flight owns.
InFlight(r) == IF flight[r] = NoReport THEN {} ELSE flight[r].ticks

\* A request leaves.  A /sync with nothing listened only refreshes the
\* position on the server; its reply changes nothing, so it is not followed.
Post(kind, ticks) ==
    IF kind = "sync" /\ ticks = {} THEN UNCHANGED flight
    ELSE \E r \in Slots :
           /\ flight[r] = NoReport
           /\ flight' = [flight EXCEPT ![r] =
                [kind |-> kind, of |-> session, gen |-> listenGen,
                 ticks |-> ticks, applied |-> FALSE]]

\* Slip: the timer is left as it is.
ScheduleNothing == UNCHANGED seekTimer /\ unreported' = TRUE

\* scheduleSync(): a burst of seeks becomes one report.  start() on a running
\* timer begins its interval again: that run of it never expires.  The history
\* variable notes that a position waits to be reported.
ScheduleSync ==
    /\ seekTimer' = IF seekTimer = "armed" THEN "rearmed" ELSE "armed"
    /\ unreported' = TRUE

\* sync(), called while active: it owns all that was listened so far and
\* carries the newest position, so a coalesced seek need not follow.
Sync(s) ==
    /\ seekTimer' = "off"
    /\ unreported' = FALSE
    /\ listen' = Take(s)
    /\ Post("sync", Taken(s))

\* loadTrackForGlobal(): queue the tracks of one header policy from the one
\* holding p; loading starts mpv, which is paused again unless autoplay.
Load(m, p, autoplay) ==
    LET tracks == Timeline[m].tracks
        i      == TrackIndexForGlobal(tracks, p)
    IN  /\ currentTrack' = i
        /\ queued' = SamePolicyRun(tracks, i)
        /\ usesAuth' = tracks[i].home
        /\ header' = IF tracks[i].home THEN token ELSE 0
        /\ mpvAt' = i
        /\ mpvPos' = InFile(tracks, i, p)
        /\ paused' = ~autoplay

\* Slip: mpv is not told.
LeaveMpv == UNCHANGED <<mpvAt, mpvPos>>

StopMpv == mpvAt' = 0 /\ mpvPos' = 0

\* Slip: the timeline moves to another track, mpv stays in its file.
SeekInFile(p, isPaused) ==
    /\ currentTrack' = TrackIndexForGlobal(Tracks, p)
    /\ mpvPos' = IF mpvAt = 0 THEN mpvPos ELSE InFile(Tracks, mpvAt, p)
    /\ paused' = isPaused
    /\ position' = p
    /\ ScheduleSync
    /\ UNCHANGED <<queued, usesAuth, header, mpvAt>>

\* seekGlobal() to p, already bounded, with isPaused() reading isPaused.
SeekTo(p, isPaused) ==
    /\ IF TrackIndexForGlobal(Tracks, p) = currentTrack
       THEN /\ mpvPos' = IF mpvAt = 0 THEN mpvPos
                         ELSE InFile(Tracks, mpvAt, p - Tracks[currentTrack].start
                                                      + Tracks[mpvAt].start)
            /\ paused' = isPaused
            /\ UNCHANGED <<currentTrack, queued, usesAuth, header, mpvAt>>
       ELSE Load(book, p, ~isPaused)
    /\ position' = p
    /\ ScheduleSync

\* Slip: the session stays open behind its close.
CloseStaysOpen(m, kind, finished) ==
    /\ listen' = Take(SetPlaying(listen, FALSE))
    /\ Post(kind, Taken(SetPlaying(listen, FALSE)))
    /\ UNCHANGED <<active, session, sleepVars, syncTimer, seekTimer, unreported, progress>>

\* flushAndClose() of the session of medium m: the close owns the final
\* interval; the activeChanged handler of main.cpp gives a book's progress to
\* ProgressStore.
CloseAs(m, kind, finished) ==
    LET last == SetPlaying(listen, FALSE)
    IN  /\ sleep' = "off" /\ sleepEnd' = 0
        /\ syncTimer' = FALSE /\ seekTimer' = "off"
        /\ unreported' = FALSE
        /\ listen' = Take(last)
        /\ Post(kind, Taken(last))
        /\ active' = FALSE
        /\ session' = NoSession
        /\ progress' = IF m \in Books
                       THEN [medium |-> m, book |-> book, finished |-> finished, of |-> session]
                       ELSE progress

Close(kind, finished) == CloseAs(medium, kind, finished)
-----------------------------------------------------------------------------
\* Choosing what to play.

\* Slip: the identity of the new medium is adopted before the old session closes.
PlayNamesFirst(m) ==
    /\ Input("play")
    /\ playGen < MaxPlays
    /\ IF active
       THEN CloseAs(m, "close", completed) /\ StopMpv
       ELSE UNCHANGED <<sleepVars, reportVars, active, session, progress, mpvAt, mpvPos>>
    /\ medium' = m
    /\ playGen' = playGen + 1
    /\ plays' = plays \cup {<<playGen + 1, m>>}
    /\ UNCHANGED <<listenGen, epoch, completed, book, timelineVars, paused, audible, lateStop,
                   posted, told, header, playedOut, serverVars, fateVars, token, phase>>

\* playItem() and playEpisode(): close what is open, then ask for the new one.
Play(m) ==
    /\ Input("play")
    /\ playGen < MaxPlays
    /\ IF active
       THEN Close("close", completed) /\ StopMpv
       ELSE UNCHANGED <<sleepVars, reportVars, active, session, progress, mpvAt, mpvPos>>
    /\ medium' = m
    /\ playGen' = playGen + 1
    /\ plays' = plays \cup {<<playGen + 1, m>>}
    /\ UNCHANGED <<listenGen, epoch, completed, book, timelineVars, paused, audible, lateStop,
                   posted, told, header, playedOut, serverVars, fateVars, token, phase>>

\* A reply that is stale, superseded or failed opens nothing.
PlayRefused(play) ==
    /\ play \in plays
    /\ phase # "exited"
    /\ plays' = plays \ {play}
    /\ UNCHANGED <<playGen, listenGen, epoch, sessionVars, timelineVars, sleepVars, mpvVars,
                   reportVars, serverVars, fateVars, token, progress, phase>>

\* A 2xx reply without a session id, a playable track or a duration: its parts
\* are stored before they are found wanting, but no session opens.
PlayUnusable(play) ==
    /\ play \in plays
    /\ Newest(play)
    /\ phase # "exited"
    /\ plays' = plays \ {play}
    /\ session' \in {NoSession, play[1]}
    /\ book' \in {NoMedium, play[2]}
    /\ UNCHANGED <<playGen, listenGen, epoch, active, medium, completed, timelineVars,
                   sleepVars, mpvVars, reportVars, serverVars, fateVars, token, progress, phase>>

\* applyPlayResponse(): a new session, resumed where the server left it.  That
\* mpv has stopped the file of the one before may still be untold: reset() ends
\* the measuring, m_playing stays.  Events mpv posted before the stop are
\* handled while the request is on its way, but for the instances with races.
PlayOpened(play, resume) ==
    /\ play \in plays
    /\ Newest(play)
    /\ phase # "exited"
    /\ InputRaces \/ (posted = <<>> /\ told = {})
    /\ resume \in 0 .. Timeline[play[2]].duration
    /\ plays' = plays \ {play}
    /\ session' = play[1]
    /\ book' = play[2]
    /\ position' = resume
    /\ active' = TRUE
    /\ completed' = FALSE
    /\ listen' = Reset
    /\ dropped' = dropped \cup Held(listen)
    /\ since' = heard
    /\ lateStop' = audible
    /\ listenGen' = listenGen + 1
    /\ Load(play[2], resume, TRUE)
    /\ UNCHANGED <<playGen, epoch, medium, sleepVars, audible, posted, told, playedOut,
                   flight, syncTimer, seekTimer, unreported, serverVars, heard, settled, token,
                   progress, phase>>

\* stopAndClose(): the Stop key, the sign-out handlers, the Now Playing screen.
StopAndClose ==
    /\ Input("stop")
    /\ active
    /\ Close("close", completed)
    /\ StopMpv
    /\ UNCHANGED <<requestVars, medium, completed, book, timelineVars, paused, audible, lateStop,
                   posted, told, header, playedOut, serverVars, fateVars, token, phase>>
-----------------------------------------------------------------------------
\* Transport.

\* play(), pause() and togglePlayPause(), which toggles the requested state.
RequestPaused(want) ==
    /\ Input("pause")
    /\ active
    /\ paused' = want
    /\ UNCHANGED <<requestVars, sessionVars, timelineVars, sleepVars, audible, lateStop, mpvAt,
                   mpvPos, posted, told, header, playedOut, reportVars, serverVars, fateVars,
                   token, progress, phase>>

TogglePlayPause == RequestPaused(~paused)

\* Slip: an armed end of chapter stays where it was.
SeekLeavesSleep(p) ==
    /\ Input("seek")
    /\ active
    /\ currentTrack \in DOMAIN Tracks
    /\ SeekTo(Clamp(p, Timeline[book].duration), paused)
    /\ UNCHANGED <<requestVars, sessionVars, sleepVars, audible, lateStop, posted, told,
                   playedOut, listen, flight, syncTimer, serverVars, fateVars, token, progress,
                   phase>>

\* seekGlobal(): an armed end-of-chapter sleep follows the jump.
SeekGlobal(p) ==
    /\ Input("seek")
    /\ active
    /\ currentTrack \in DOMAIN Tracks
    /\ LET target == Clamp(p, Timeline[book].duration)
       IN  /\ SeekTo(target, paused)
           /\ sleepEnd' = IF sleep = "chapter"
                          THEN ChapterEndFor(Timeline[book], target) ELSE sleepEnd
    /\ UNCHANGED <<requestVars, sessionVars, sleep, audible, lateStop, posted, told, playedOut,
                   listen, flight, syncTimer, serverVars, fateVars, token, progress, phase>>

Skip(delta) == SeekGlobal(position + delta)

\* Without chapters both fall back to a skip.
NextChapter ==
    /\ active
    /\ LET later == LaterStarts(Timeline[book], position)
       IN  IF Timeline[book].chapters = <<>> THEN Skip(FallbackSkip)
           ELSE later # {} /\ SeekGlobal(Min(later))

PreviousChapter ==
    /\ active
    /\ IF Timeline[book].chapters = <<>> THEN Skip(-FallbackSkip)
       ELSE SeekGlobal(PreviousTarget(Timeline[book], position))
-----------------------------------------------------------------------------
\* The sleep timer.  Which of 15, 30 and 60 minutes is set is not followed.

SleepFor(countdown) ==
    /\ sleep' = countdown
    /\ sleepEnd' = IF countdown = "chapter"
                   THEN ChapterEndFor(Timeline[book], position) ELSE 0
    /\ UNCHANGED <<requestVars, sessionVars, timelineVars, mpvVars, reportVars, serverVars,
                   fateVars, token, progress, phase>>

\* Slip: the countdown starts at once.
SleepFromNow(on) ==
    /\ Input("sleep")
    /\ active
    /\ SleepFor(IF on THEN "running" ELSE "off")

\* setSleepTimer(): clears the old one; counts only while audible.
SetSleepTimer(on) ==
    /\ Input("sleep")
    /\ active
    /\ SleepFor(IF ~on THEN "off" ELSE IF audible THEN "running" ELSE "held")

SetSleepAtChapterEnd ==
    /\ Input("sleep")
    /\ active
    /\ SleepFor(IF Timeline[book].chapters = <<>> THEN "off" ELSE "chapter")

\* cycleSleepTimer(): off, three countdowns, the end of the chapter, off.
CycleSleepTimer ==
    /\ Input("sleep")
    /\ active
    /\ \/ sleep # "chapter" /\ SleepFor(IF audible THEN "running" ELSE "held")
       \/ sleep \in {"held", "running"} /\ Timeline[book].chapters # <<>> /\ SleepFor("chapter")
       \/ sleep \in {"held", "running"} /\ Timeline[book].chapters = <<>> /\ SleepFor("off")
       \/ sleep = "chapter" /\ SleepFor("off")

\* The countdown runs out: disarm first, then pause.
SleepTimeout ==
    /\ sleep = "running"
    /\ sleep' = "off" /\ sleepEnd' = 0
    /\ paused' = (active \/ paused)
    /\ UNCHANGED <<requestVars, sessionVars, timelineVars, audible, lateStop, mpvAt, mpvPos,
                   posted, told, header, playedOut, reportVars, serverVars, fateVars, token,
                   progress, phase>>
-----------------------------------------------------------------------------
\* Sync timers and the clock.

SyncTimeout ==
    /\ syncTimer
    /\ active
    /\ Sync(listen)
    /\ UNCHANGED <<requestVars, sessionVars, timelineVars, sleepVars, mpvVars, syncTimer,
                   serverVars, fateVars, token, progress, phase>>

SeekSyncTimeout ==
    /\ seekTimer # "off"
    /\ active
    /\ Sync(listen)
    /\ UNCHANGED <<requestVars, sessionVars, timelineVars, sleepVars, mpvVars, syncTimer,
                   serverVars, fateVars, token, progress, phase>>

\* Time passes while the open session can be heard: not before mpv, still
\* opening its file, has told that the one before stopped.
Tick ==
    /\ phase = "running"
    /\ active /\ audible /\ ~lateStop
    /\ heard < MaxTicks
    /\ heard' = heard + 1
    /\ listen' = Elapse(listen, heard + 1)
    /\ dropped' = IF listen.playing THEN dropped ELSE dropped \cup {heard + 1}
    /\ UNCHANGED <<requestVars, sessionVars, timelineVars, sleepVars, mpvVars, flight, syncTimer,
                   seekTimer, unreported, serverVars, since, settled, token, progress, phase>>
-----------------------------------------------------------------------------
\* mpv, as the code observes it: it plays the files it was given in order and
\* posts an event at the end of each.  Property changes are only ever delivered
\* after every posted event (mpv_wait_event drains those first).

MpvAdvance ==
    /\ mpvAt # 0 /\ ~paused /\ ~lateStop
    /\ mpvPos < Tracks[mpvAt].length
    /\ mpvPos' = mpvPos + 1
    /\ UNCHANGED <<requestVars, sessionVars, timelineVars, sleepVars, paused, audible, lateStop,
                   mpvAt, posted, told, header, playedOut, reportVars, serverVars, fateVars,
                   token, progress, phase>>

\* mpv has a new place in its file to report.  Only the newest waits.
MpvTells ==
    /\ mpvAt # 0 /\ told # {mpvPos}
    /\ told' = {mpvPos}
    /\ UNCHANGED <<requestVars, sessionVars, timelineVars, sleepVars, paused, audible, lateStop,
                   mpvAt, mpvPos, posted, header, playedOut, reportVars, serverVars, fateVars,
                   token, progress, phase>>

\* A file ends or fails; mpv moves to its next entry, or idles.  It has no
\* longer a place in that file to report.
MpvEndFile(event) ==
    /\ mpvAt # 0 /\ Len(posted) < MaxPosted
    /\ event = "eof" => ~paused /\ mpvPos = Tracks[mpvAt].length
    /\ posted' = Append(posted, event)
    /\ told' = {}
    /\ mpvAt' = IF mpvAt + 1 \in queued THEN mpvAt + 1 ELSE 0
    /\ mpvPos' = 0
    /\ playedOut' = IF event = "eof" /\ mpvAt = Len(Tracks)
                    THEN playedOut \cup {session} ELSE playedOut
    /\ UNCHANGED <<requestVars, sessionVars, timelineVars, sleepVars, paused, audible, lateStop,
                   header, reportVars, serverVars, fateVars, token, progress, phase>>

\* onPlayingChanged(): mpv starts or stops producing sound.
PlayingChanged(playing) ==
    /\ phase # "exited"
    /\ posted = <<>>
    /\ playing # audible
    /\ playing => mpvAt # 0 /\ ~paused
    /\ audible' = playing /\ lateStop' = FALSE
    /\ IF ~active THEN UNCHANGED <<sleep, reportVars>>
       ELSE IF playing
       THEN /\ listen' = SetPlaying(listen, TRUE)
            /\ syncTimer' = TRUE
            /\ sleep' = IF sleep = "held" THEN "running" ELSE sleep
            /\ UNCHANGED <<flight, seekTimer, unreported>>
       ELSE /\ syncTimer' = FALSE
            /\ sleep' = IF sleep = "running" THEN "held" ELSE sleep
            /\ Sync(SetPlaying(listen, FALSE))
    /\ UNCHANGED <<requestVars, sessionVars, timelineVars, sleepEnd, paused, mpvAt, mpvPos,
                   posted, told, header, playedOut, serverVars, fateVars, token, progress, phase>>

\* onMpvPosition(): map the place mpv reported, maybe before the last seek or
\* load, onto the book.  Reaching the armed end of a chapter disarms it, pauses,
\* and steps back onto the boundary.
PositionChanged ==
    /\ phase # "exited"
    /\ posted = <<>>
    /\ told # {} /\ told' = {}
    /\ \E place \in told :
         LET global == Tracks[currentTrack].start + place
         IN  \/ /\ ~active
                /\ UNCHANGED <<timelineVars, sleepVars, paused, header, mpvAt, mpvPos, seekTimer,
                               unreported>>
             \/ /\ active
                /\ sleep = "chapter" /\ global >= sleepEnd
                /\ sleep' = "off" /\ sleepEnd' = 0
                /\ IF sleepEnd < Timeline[book].duration
                   THEN SeekTo(sleepEnd, TRUE)
                   ELSE /\ position' = global
                        /\ paused' = TRUE
                        /\ UNCHANGED <<currentTrack, queued, usesAuth, header, mpvAt, mpvPos,
                                       seekTimer, unreported>>
             \/ /\ active
                /\ sleep = "chapter" => global < sleepEnd
                /\ position' = global
                /\ UNCHANGED <<sleepVars, paused, currentTrack, queued, usesAuth, header, mpvAt,
                               mpvPos, seekTimer, unreported>>
    /\ UNCHANGED <<requestVars, sessionVars, audible, lateStop, posted, playedOut, listen,
                   flight, syncTimer, serverVars, fateVars, token, progress, phase>>

\* onEndOfFile() with another track to come: the session goes on.  Handling a
\* posted event ends with updatePlaying(), which finds out about a pause
\* requested since mpv's last report.
NextTrack ==
    /\ active /\ ~OnLastTrack
    /\ IF currentTrack + 1 \in queued
       THEN LET silenced == audible /\ paused
            IN  /\ currentTrack' = currentTrack + 1
                /\ audible' = (audible /\ ~paused)
                /\ Sync(IF silenced THEN SetPlaying(listen, FALSE) ELSE listen)
                /\ syncTimer' = (syncTimer /\ ~silenced)
                /\ sleep' = IF silenced /\ sleep = "running" THEN "held" ELSE sleep
                /\ UNCHANGED <<queued, usesAuth, header, mpvAt, mpvPos, paused>>
       ELSE /\ Load(book, Tracks[currentTrack + 1].start, TRUE)
            /\ Sync(listen)
            /\ UNCHANGED <<audible, syncTimer, sleep>>
    /\ UNCHANGED <<sleepEnd, active, session, completed, progress>>

\* onEndOfFile() on the last track: the book is finished.
FinishBook ==
    /\ active /\ OnLastTrack
    /\ completed' = TRUE
    /\ Close("close", TRUE)
    /\ StopMpv
    /\ audible' = (audible /\ ~paused)
    /\ UNCHANGED <<currentTrack, queued, usesAuth, header, paused>>

HandleEof ==
    /\ phase # "exited"
    /\ posted # <<>> /\ Head(posted) = "eof"
    /\ posted' = Tail(posted)
    /\ \/ NextTrack
       \/ FinishBook
       \/ /\ ~active
          /\ audible' = (audible /\ ~paused)
          /\ UNCHANGED <<active, session, completed, progress, currentTrack, queued, usesAuth,
                         sleepVars, reportVars, paused, mpvAt, mpvPos, header>>
    /\ lateStop' = (lateStop /\ audible')
    /\ UNCHANGED <<requestVars, medium, book, position, told, playedOut, serverVars, fateVars,
                   token, phase>>

\* mpvError: close the silent session and stop mpv before it moves on.
HandleError ==
    /\ phase # "exited"
    /\ posted # <<>> /\ Head(posted) = "error"
    /\ posted' = Tail(posted)
    /\ audible' = (audible /\ ~paused)
    /\ lateStop' = (lateStop /\ audible')
    /\ IF active
       THEN Close("close", completed) /\ StopMpv
       ELSE UNCHANGED <<active, session, progress, sleepVars, reportVars, mpvAt, mpvPos>>
    /\ UNCHANGED <<requestVars, medium, completed, book, timelineVars, paused, told, header,
                   playedOut, serverVars, fateVars, token, phase>>
-----------------------------------------------------------------------------
\* The network.

\* The server processes a request, whatever becomes of its answer.
ServerApplies(r) ==
    /\ flight[r] # NoReport /\ ~flight[r].applied
    /\ flight' = [flight EXCEPT ![r].applied = TRUE]
    /\ credited' = credited \cup flight[r].ticks
    /\ doubled' = doubled \cup (credited \cap flight[r].ticks)
    /\ serverClosed' = IF flight[r].kind = "sync" THEN serverClosed
                       ELSE serverClosed \cup {flight[r].of}
    /\ UNCHANGED <<requestVars, sessionVars, timelineVars, sleepVars, mpvVars, listen, syncTimer,
                   seekTimer, unreported, fateVars, token, progress, phase>>

\* The outcome send() gives: a 401 answered by a refresh and one replay only keeps
\* the request in flight for longer.  The nested loop of the shutdown path quits
\* on the answer to its close.
Answered(r) ==
    /\ phase # "exited"
    /\ flight[r] # NoReport
    /\ flight' = [flight EXCEPT ![r] = NoReport]
    /\ phase' = IF flight[r].kind = "final" THEN "exited" ELSE phase
    /\ UNCHANGED <<requestVars, sessionVars, timelineVars, sleepVars, mpvVars, syncTimer, seekTimer,
                   unreported, serverVars, heard, since, token, progress>>

ReportSucceeds(r) ==
    /\ Answered(r)
    /\ flight[r].applied
    /\ settled' = settled \cup flight[r].ticks
    /\ UNCHANGED <<listen, dropped>>

\* A failed report gives its interval back, unless a newer session owns the
\* accumulator or the application is shutting down.
ReportFails(r) ==
    /\ Answered(r)
    /\ flight[r].applied => LostReplies
    /\ IF OwnsAccumulator(flight[r]) /\ flight[r].kind # "final"
       THEN /\ listen' = Rollback(listen, flight[r].ticks)
            /\ UNCHANGED dropped
       ELSE /\ dropped' = dropped \cup flight[r].ticks
            /\ UNCHANGED listen
    /\ UNCHANGED settled

\* ApiClient::setBaseUrl(): every request in flight completes as stale.  The
\* server is chosen on the sign-in screen, with no session open.
SwitchServer ==
    /\ Input("server")
    /\ ~active
    /\ epoch < MaxEpochs
    /\ epoch' = epoch + 1
    /\ plays' = {}
    /\ dropped' = dropped \cup (UNION {InFlight(r) : r \in Slots})
    /\ flight' = [r \in Slots |-> NoReport]
    /\ UNCHANGED <<playGen, listenGen, sessionVars, timelineVars, sleepVars, mpvVars, listen,
                   syncTimer, seekTimer, unreported, serverVars, heard, since, settled, token,
                   progress, phase>>

\* accessTokenChanged: the queued files are fetched with the new bearer.
TokenChanged ==
    /\ phase = "running"
    /\ token < MaxTokens
    /\ token' = token + 1
    /\ header' = IF active /\ usesAuth THEN token + 1 ELSE header
    /\ UNCHANGED <<requestVars, sessionVars, timelineVars, sleepVars, paused, audible, lateStop,
                   mpvAt, mpvPos, posted, told, playedOut, reportVars, serverVars, fateVars,
                   progress, phase>>
-----------------------------------------------------------------------------
\* Shutdown: aboutToQuit runs flushAndClose(true), which leaves mpv alone and
\* spins a nested event loop until the close is answered or 3 s have passed.

Quit ==
    /\ Input("quit")
    /\ IF active
       THEN Close("final", completed) /\ phase' = "quitting"
       ELSE /\ phase' = "exited"
            /\ UNCHANGED <<active, session, progress, sleepVars, reportVars>>
    /\ UNCHANGED <<requestVars, medium, completed, book, timelineVars, mpvVars, serverVars, fateVars,
                   token>>

\* Slip: the loop waits for the answer alone.
WaitForever == FALSE

QuitTimeout ==
    /\ phase = "quitting"
    /\ phase' = "exited"
    /\ UNCHANGED <<requestVars, sessionVars, timelineVars, sleepVars, mpvVars, reportVars, serverVars,
                   fateVars, token, progress>>
-----------------------------------------------------------------------------
UserStep ==
    \/ \E m \in Media : Play(m)
    \/ StopAndClose
    \/ \E want \in BOOLEAN : RequestPaused(want)
    \/ TogglePlayPause
    \/ active /\ \E p \in 0 .. Timeline[book].duration : SeekGlobal(p)
    \/ \E delta \in {-1, 1} : Skip(delta)
    \/ NextChapter
    \/ PreviousChapter
    \/ \E on \in BOOLEAN : SetSleepTimer(on)
    \/ SetSleepAtChapterEnd
    \/ CycleSleepTimer
    \/ SwitchServer
    \/ Quit

TimerStep == SleepTimeout \/ SyncTimeout \/ SeekSyncTimeout \/ QuitTimeout

MpvStep ==
    \/ MpvAdvance
    \/ MpvTells
    \/ \E event \in {"eof", "error"} : MpvEndFile(event)
    \/ \E playing \in BOOLEAN : PlayingChanged(playing)
    \/ PositionChanged
    \/ HandleEof
    \/ HandleError

PlayReply ==
    \E play \in plays :
       \/ PlayRefused(play)
       \/ PlayUnusable(play)
       \/ \E resume \in 0 .. Timeline[play[2]].duration : PlayOpened(play, resume)

NetworkStep ==
    \/ PlayReply
    \/ \E r \in Slots : ServerApplies(r) \/ ReportSucceeds(r) \/ ReportFails(r)
    \/ TokenChanged

Next == UserStep \/ TimerStep \/ MpvStep \/ NetworkStep \/ Tick

Spec == Init /\ [][Next]_vars

\* Fairness: the event loop delivers what is posted to it, timers that are left
\* running expire, and every request of the running application is answered
\* (each carries a 30 s transfer timeout).  Each run of the debounce timer is
\* fair by itself: one that seeks keep restarting need never expire.  Nothing is
\* assumed of the user, of mpv's progress, of the answers being good, or of the
\* network at shutdown.
Fairness ==
    /\ WF_vars(SyncTimeout)
    /\ WF_vars(seekTimer = "armed" /\ SeekSyncTimeout)
    /\ WF_vars(seekTimer = "rearmed" /\ SeekSyncTimeout)
    /\ WF_vars(QuitTimeout)
    /\ WF_vars(HandleEof)
    /\ WF_vars(HandleError)
    /\ \A r \in Slots : WF_vars(phase = "running" /\ (ReportSucceeds(r) \/ ReportFails(r)))

FairSpec == Spec /\ Fairness
-----------------------------------------------------------------------------
(***************************************************************************)
(* Listened time                                                           *)
(***************************************************************************)

\* Reserve and rollback (PlaybackSession.cpp:639, ProgressSyncer.cpp:54): every
\* tick ever heard is in exactly one place - the running span, the accumulator,
\* one request in flight, acknowledged by the server, or dropped.
EachTickInOnePlace ==
    /\ 1 .. heard = Held(listen) \cup (UNION {InFlight(r) : r \in Slots}) \cup settled \cup dropped
    /\ listen.span \cap listen.pending = {}
    /\ Held(listen) \cap (settled \cup dropped) = {}
    /\ settled \cap dropped = {}
    /\ \A r \in Slots : InFlight(r) \cap (Held(listen) \cup settled \cup dropped) = {}
    /\ \A q, r \in Slots : q # r => InFlight(q) \cap InFlight(r) = {}

\* The accounting generation (PlaybackSession.h:169): while a session is open,
\* whatever its requests and those of earlier sessions come to, none of the
\* time listened in it is given up, and no time of an earlier one is taken in.
OpenSessionKeepsItsTime ==
    active => /\ \A t \in dropped : t <= since
              /\ \A t \in Held(listen) : t > since
              /\ \A r \in Slots : flight[r] # NoReport /\ flight[r].of = session
                                  => \A t \in flight[r].ticks : t > since

\* What is audible is the open session's.
Sounding == audible /\ ~lateStop

\* onPlayingChanged(): the accumulator and the interval timer run exactly while
\* the open session is audible, across pauses, track changes and new sessions,
\* also one opened before mpv has told that it stopped the last one's file.
MeasuredWhileAudible == active => listen.playing = Sounding /\ syncTimer = Sounding

\* sync(): "the same seconds are never reported to the server twice", unless a
\* request fails that the server had already applied.
CreditedOnce == doubled = {}

\* flushAndClose(): once a close has left, its session is never reported again,
\* and it is closed by one request only.
NothingAfterClose ==
    /\ active => /\ session \notin serverClosed
                 /\ \A r \in Slots : flight[r] # NoReport /\ flight[r].kind # "sync"
                                     => flight[r].of # session
    /\ \A q, r \in Slots :
         /\ flight[q] # NoReport /\ flight[q].kind # "sync"
         /\ flight[r] # NoReport /\ flight[r].kind # "sync"
         /\ flight[q].of = flight[r].of
         => q = r

\* ProgressSyncer.cpp:56: the interval of a failed /sync goes back to the
\* accumulator "so the next sync retries it. No listening time is lost."
FailedSyncIsKept ==
    [][\A r \in Slots :
         /\ flight[r] # NoReport /\ flight[r].kind = "sync"
         /\ flight'[r] = NoReport
         => flight[r].ticks \subseteq settled' \cup Held(listen')]_vars

\* The accounting implements the ledger: a refinement, step by step.
Ledger == INSTANCE ListenLedger WITH
    Requests    <- Slots,
    open        <- active,
    outstanding <- Held(listen),
    reserved    <- [r \in Slots |-> InFlight(r)]
ImplementsLedger == Ledger!Spec

(***************************************************************************)
(* The session and the book                                                *)
(***************************************************************************)

\* m_playGeneration (PlaybackSession.h:166): the open session is the one the
\* newest choice asked for, with its own book, and no reply that could replace
\* it is still to come.
OnlyTheNewestPlayOpens ==
    active => /\ session = playGen
              /\ book = medium
              /\ \A play \in plays : play[1] # playGen

\* Every m_tracks.at(m_currentTrack) is in range while a session is open
\* (PlaybackSession.cpp:321, 425), although a rejected reply clears m_tracks.
TrackInRange == active => book \in Media /\ currentTrack \in DOMAIN Tracks

\* PlaybackSession.cpp:156: no stream keeps playing once its session is closed.
NoUntrackedAudio == phase = "running" /\ ~active => mpvAt = 0

\* main.cpp:187, playItem(): progress is recorded under the medium whose
\* position it is, never under the one about to start.
ProgressAttribution == progress.book = progress.medium

\* completed() "distinguishes a natural end-of-book from a manual stop"
\* (main.cpp:188): a book is recorded as finished only if mpv played it out.
FinishedMeansPlayedOut == progress.finished => progress.of \in playedOut

\* onEndOfFile(): once mpv's events are handled, the track the timeline is
\* mapped by is the file mpv is playing.
TrackInSync == active /\ posted = <<>> /\ mpvAt # 0 => currentTrack = mpvAt

\* loadTrackForGlobal(): the bearer token is on the wire only for files of the
\* server's own origin, also after mpv advances by itself; and it is current.
BearerStaysHome ==
    /\ mpvAt # 0 /\ header # 0 => \A i \in queued : i >= mpvAt => Tracks[i].home
    /\ active /\ mpvAt # 0 /\ Tracks[mpvAt].home => header = token

\* The sleep timer belongs to an open session and counts only audible time.
SleepFollowsSound ==
    /\ sleep # "off" => active
    /\ sleep = "running" => audible
    /\ sleep = "held" => ~audible

\* Accumulator, interval timer and sleep timer all go by what is heard.
TimersFollowSound == MeasuredWhileAudible /\ SleepFollowsSound

\* "End of chapter" means the chapter being listened to (seekGlobal()).
SleepsAtThisChaptersEnd ==
    sleep = "chapter" => sleepEnd = ChapterEndFor(Timeline[book], position)

\* nextChapter(): Next never goes back, from any position; it stays put only at
\* the end of a book without chapters.
NextGoesForward ==
    [][NextChapter => \/ position' > position
                      \/ /\ Timeline[book].chapters = <<>>
                         /\ position' = Timeline[book].duration]_vars

\* previousChapter(): in a book with chapters Previous always lands on the start
\* of one (or of the book), at most JumpMargin ahead of where it was pressed.
PreviousLandsOnStart ==
    [][PreviousChapter /\ Timeline[book].chapters # <<>>
       => /\ position' \in Starts(Timeline[book]) \cup {0}
          /\ position' <= position + JumpMargin]_vars

\* The chapter keys, at every boundary, in a gap and past the last chapter.
ChapterKeysLand == NextGoesForward /\ PreviousLandsOnStart

\* Shutdown: no session is opened behind the final close.
QuitLeavesNoSession == phase # "running" => ~active

(***************************************************************************)
(* Liveness, under Fairness                                                *)
(***************************************************************************)

\* Time in the running span is taken by a report before long.
HeardIsReported == \A t \in Ticks : t \in listen.span ~> t \notin listen.span

\* scheduleSync() restarts m_seekSyncTimer at every seek, also at one to the
\* place where it is.
SeekAgain == seekTimer # "off" /\ seekTimer' # seekTimer /\ seekTimer' # "off"

\* A seek is coalesced, never forgotten.  While the book sounds the interval
\* timer reports it, however often the user seeks again; in silence it is
\* reported once the user lets the timeline be.
SeekIsReported ==
    /\ (unreported /\ syncTimer) ~> ~unreported
    /\ []<><<SeekAgain>>_vars \/ (unreported ~> ~unreported)

\* A hung network never blocks quit.
QuitEnds == phase = "quitting" ~> phase = "exited"
=============================================================================
