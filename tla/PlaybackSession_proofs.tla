------------------------ MODULE PlaybackSession_proofs ------------------------
(***************************************************************************)
(* The life of a session, for any media, timelines and bounds: the types,  *)
(* that the open session is the one last asked for, that its track is in   *)
(* range, that nothing plays or opens behind a close, and that the bearer  *)
(* token is only on the wire for files of the server itself.               *)
(*                                                                         *)
(* None of these is inductive alone.  Lifecycle adds what ties the play    *)
(* generation, the loaded book and what mpv has queued to each other: while*)
(* mpv has something to play no reply can replace the book under it, and   *)
(* all it has queued has one header policy.                                *)
(*                                                                         *)
(* Then what is written and shown: a progress names its own item, the      *)
(* chapter keys land where they say, and, when no input falls between an   *)
(* event of mpv and its handling, the track of the session is mpv's, only  *)
(* a book played out is finished, and an armed end of chapter is that of   *)
(* the chapter being heard.                                                *)
(***************************************************************************)
EXTENDS PlaybackSession, BookTimeline_proofs

\* No reply still to come can open a session.
NoneToOpen == \A play \in plays : play[1] # playGen

NewestChoice ==
    /\ listenGen <= playGen
    /\ \A play \in plays :
         /\ play[1] <= playGen
         /\ play[1] = playGen => play[2] = medium /\ listenGen < playGen
    /\ active => session = playGen /\ book = medium /\ NoneToOpen
    /\ phase = "quitting" => NoneToOpen

TrackLoaded == active => book \in Media /\ currentTrack \in 1 .. Len(Tracks)

Silenced ==
    /\ phase # "running" => ~active
    /\ phase = "running" /\ ~active => mpvAt = 0

Queue ==
    /\ mpvAt # 0 => /\ NoneToOpen
                    /\ book \in Media
                    /\ mpvAt \in queued
                    /\ queued \subseteq 1 .. Len(Tracks)
                    /\ \A k \in queued : Tracks[k].home = usesAuth
                    /\ header # 0 => usesAuth
    /\ active /\ mpvAt # 0 /\ usesAuth => header = token

Lifecycle == NewestChoice /\ TrackLoaded /\ Silenced /\ Queue

Inv == TypeOK /\ Lifecycle
-----------------------------------------------------------------------------
\* What the assumptions say of a book.
LEMMA BookFacts ==
    ASSUME NEW m \in Media
    PROVE  /\ Timeline[m] \in BookRecords
           /\ Timeline[m].tracks \in Seq(TrackRecords)
           /\ Timeline[m].tracks # <<>>
           /\ Timeline[m].duration \in Nat
           /\ Len(Timeline[m].tracks) \in Nat \ {0}
           /\ \A i \in 1 .. Len(Timeline[m].tracks) :
                /\ Timeline[m].tracks[i].start \in Nat
                /\ Timeline[m].tracks[i].length \in Nat
                /\ Timeline[m].tracks[i].home \in BOOLEAN
<1>1. Timeline[m] \in BookRecords /\ Timeline[m].tracks # <<>>
  BY SessionAssumption
<1>2. Timeline[m].tracks \in Seq(TrackRecords) /\ Timeline[m].duration \in Nat
  BY <1>1 DEF BookRecords
<1>3. Len(Timeline[m].tracks) \in Nat \ {0}
  BY <1>1, <1>2
<1>4. \A i \in 1 .. Len(Timeline[m].tracks) : Timeline[m].tracks[i] \in TrackRecords
  BY <1>2
<1>5. \A i \in 1 .. Len(Timeline[m].tracks) :
         /\ Timeline[m].tracks[i].start \in Nat
         /\ Timeline[m].tracks[i].length \in Nat
         /\ Timeline[m].tracks[i].home \in BOOLEAN
  BY <1>4 DEF TrackRecords
<1> QED
  BY <1>1, <1>2, <1>3, <1>5

\* The accumulator's methods return accumulators, and times of the clock.
LEMMA SyncerTypes ==
    ASSUME NEW T, NEW s \in Syncers(T)
    PROVE  /\ Take(s) \in Syncers(T)
           /\ Taken(s) \in SUBSET T
           /\ Held(s) \in SUBSET T
           /\ Reset \in Syncers(T)
           /\ \A b \in BOOLEAN : SetPlaying(s, b) \in Syncers(T)
           /\ \A t \in T : Elapse(s, t) \in Syncers(T)
           /\ \A U \in SUBSET T : Rollback(s, U) \in Syncers(T)
<1>1. /\ s = [playing |-> s.playing, span |-> s.span, pending |-> s.pending]
      /\ s.playing \in BOOLEAN /\ s.span \in SUBSET T /\ s.pending \in SUBSET T
  BY DEF Syncers
<1>2. FlushInto(s) \in Syncers(T)
  BY <1>1 DEF FlushInto, Syncers
<1>3. /\ FlushInto(s) = [playing |-> FlushInto(s).playing, span |-> FlushInto(s).span,
                         pending |-> FlushInto(s).pending]
      /\ FlushInto(s).playing \in BOOLEAN
      /\ FlushInto(s).span \in SUBSET T /\ FlushInto(s).pending \in SUBSET T
  BY <1>2 DEF Syncers
<1>4. Take(s) \in Syncers(T) /\ Taken(s) \in SUBSET T
  BY <1>2, <1>3 DEF Take, Taken, Syncers
<1>5. Held(s) \in SUBSET T
  BY <1>1 DEF Held
<1>6. Reset \in Syncers(T)
  BY DEF Reset, Syncers
<1>7. \A b \in BOOLEAN : SetPlaying(s, b) \in Syncers(T)
  BY <1>1, <1>2, <1>3 DEF SetPlaying, Syncers
<1>8. \A t \in T : Elapse(s, t) \in Syncers(T)
  BY <1>1 DEF Elapse, Syncers
<1>9. \A U \in SUBSET T : Rollback(s, U) \in Syncers(T)
  BY <1>1 DEF Rollback, Syncers
<1> QED
  BY <1>4, <1>5, <1>6, <1>7, <1>8, <1>9

\* A request that leaves is a report.
LEMMA PostTypes ==
    ASSUME TypeOK, NEW kind \in {"sync", "close", "final"}, NEW ticks \in SUBSET Ticks,
           Post(kind, ticks)
    PROVE  flight' \in [Slots -> Reports \cup {NoReport}]
<1>1. flight \in [Slots -> Reports \cup {NoReport}]
  BY DEF TypeOK
<1>2. CASE kind = "sync" /\ ticks = {}
  BY <1>1, <1>2 DEF Post
<1>3. CASE ~ (kind = "sync" /\ ticks = {})
  <2> DEFINE new == [kind |-> kind, of |-> session, gen |-> listenGen,
                     ticks |-> ticks, applied |-> FALSE]
  <2>1. new \in Reports
    BY DEF TypeOK, Reports
  <2>2. \E r \in Slots : flight' = [flight EXCEPT ![r] = new]
    BY <1>3 DEF Post
  <2> HIDE DEF new
  <2> QED
    BY <1>1, <2>1, <2>2
<1> QED
  BY <1>2, <1>3

\* sync() keeps the types of what it changes.
LEMMA SyncTypes ==
    ASSUME TypeOK, NEW s \in Syncers(Ticks), Sync(s)
    PROVE  /\ listen' \in Syncers(Ticks)
           /\ flight' \in [Slots -> Reports \cup {NoReport}]
           /\ seekTimer' \in {"off", "armed", "rearmed"} /\ unreported' \in BOOLEAN
<1>1. Taken(s) \in SUBSET Ticks /\ Take(s) \in Syncers(Ticks)
  BY SyncerTypes
<1>2. Post("sync", Taken(s)) /\ listen' = Take(s) /\ seekTimer' = "off" /\ unreported' = FALSE
  BY DEF Sync
<1>3. flight' \in [Slots -> Reports \cup {NoReport}]
  BY <1>1, <1>2, PostTypes
<1> QED
  BY <1>1, <1>2, <1>3

\* flushAndClose(): the types, and that the session is closed.
LEMMA CloseTypes ==
    ASSUME TypeOK, NEW m \in Media \cup {NoMedium}, NEW kind \in {"close", "final"},
           NEW finished \in BOOLEAN, CloseAs(m, kind, finished)
    PROVE  /\ active' = FALSE /\ session' = NoSession
           /\ sleep' = "off" /\ sleepEnd' = 0
           /\ syncTimer' = FALSE /\ seekTimer' = "off" /\ unreported' = FALSE
           /\ listen' \in Syncers(Ticks)
           /\ flight' \in [Slots -> Reports \cup {NoReport}]
           /\ progress' \in ProgressRecords
<1> DEFINE last == SetPlaying(listen, FALSE)
<1>1. last \in Syncers(Ticks)
  BY SyncerTypes DEF TypeOK
<1> HIDE DEF last
<1>2. Taken(last) \in SUBSET Ticks /\ Take(last) \in Syncers(Ticks)
  BY <1>1, SyncerTypes
<1>3. /\ active' = FALSE /\ session' = NoSession
      /\ sleep' = "off" /\ sleepEnd' = 0
      /\ syncTimer' = FALSE /\ seekTimer' = "off" /\ unreported' = FALSE
      /\ listen' = Take(last)
      /\ Post(kind, Taken(last))
      /\ progress' = IF m \in Books
                     THEN [medium |-> m, book |-> book, finished |-> finished, of |-> session]
                     ELSE progress
  BY DEF CloseAs, last
<1>4. flight' \in [Slots -> Reports \cup {NoReport}]
  BY <1>2, <1>3, PostTypes
<1>5. progress' \in ProgressRecords
  BY <1>3 DEF TypeOK, ProgressRecords
<1> QED
  BY <1>2, <1>3, <1>4, <1>5
\* loadTrackForGlobal(): mpv is at the track loaded, and all it has queued is of
\* the book and has the header policy the header was set for.
LEMMA LoadEffect ==
    ASSUME TypeOK, NEW m \in Media, NEW p \in Int, NEW autoplay \in BOOLEAN,
           Load(m, p, autoplay)
    PROVE  /\ currentTrack' \in 1 .. Len(Timeline[m].tracks)
           /\ mpvAt' = currentTrack' /\ mpvAt' \in queued'
           /\ queued' \subseteq 1 .. Len(Timeline[m].tracks)
           /\ \A k \in queued' : Timeline[m].tracks[k].home = usesAuth'
           /\ usesAuth' \in BOOLEAN /\ header' \in 0 .. MaxTokens
           /\ header' # 0 => usesAuth'
           /\ usesAuth' => header' = token
           /\ mpvPos' \in Nat /\ paused' \in BOOLEAN
<1> DEFINE tracks == Timeline[m].tracks
           i == TrackIndexForGlobal(tracks, p)
<1>1. /\ tracks \in Seq(TrackRecords) /\ tracks # <<>>
      /\ \A k \in 1 .. Len(tracks) : tracks[k].home \in BOOLEAN
  BY BookFacts
<1>2. /\ currentTrack' = i /\ queued' = SamePolicyRun(tracks, i)
      /\ usesAuth' = tracks[i].home
      /\ header' = IF tracks[i].home THEN token ELSE 0
      /\ mpvAt' = i /\ mpvPos' = InFile(tracks, i, p) /\ paused' = ~autoplay
  BY DEF Load
<1> HIDE DEF tracks
<1>3. i \in 1 .. Len(tracks)
  BY <1>1, TrackIndexInRange
<1> HIDE DEF i
<1>4. /\ SamePolicyRun(tracks, i) \subseteq 1 .. Len(tracks)
      /\ i \in SamePolicyRun(tracks, i)
      /\ \A k \in SamePolicyRun(tracks, i) : tracks[k].home = tracks[i].home
  BY <1>1, <1>3, SamePolicyRunUniform
<1>5. InFile(tracks, i, p) \in Nat
  BY <1>1, <1>3, InFileNat
<1>6. token \in 1 .. MaxTokens /\ MaxTokens \in Nat
  BY SessionAssumption DEF TypeOK
<1>7. usesAuth' \in BOOLEAN /\ paused' \in BOOLEAN
  BY <1>1, <1>2, <1>3
<1>8. header' \in 0 .. MaxTokens /\ (header' # 0 => usesAuth') /\ (usesAuth' => header' = token)
  BY <1>1, <1>2, <1>3, <1>6
<1>9. /\ currentTrack' \in 1 .. Len(tracks)
      /\ mpvAt' = currentTrack' /\ mpvAt' \in queued'
      /\ queued' \subseteq 1 .. Len(tracks)
      /\ \A k \in queued' : tracks[k].home = usesAuth'
      /\ mpvPos' \in Nat
  BY <1>2, <1>3, <1>4, <1>5
<1> QED
  BY <1>7, <1>8, <1>9 DEF tracks

\* seekGlobal(): within the open session the track stays in range, the queue
\* stays of one policy, and an idle mpv stays idle unless the file is reloaded.
LEMMA SeekEffect ==
    ASSUME Inv, active, NEW p \in Nat, NEW isPaused \in BOOLEAN, SeekTo(p, isPaused)
    PROVE  /\ book \in Media
           /\ currentTrack' \in 1 .. Len(Timeline[book].tracks)
           /\ queued' \in SUBSET Nat /\ usesAuth' \in BOOLEAN /\ header' \in 0 .. MaxTokens
           /\ mpvAt' \in Nat /\ mpvPos' \in Nat /\ paused' \in BOOLEAN
           /\ position' = p /\ seekTimer' \in {"armed", "rearmed"} /\ unreported' = TRUE
           /\ mpvAt' # 0 => /\ mpvAt' \in queued'
                            /\ queued' \subseteq 1 .. Len(Timeline[book].tracks)
                            /\ \A k \in queued' : Timeline[book].tracks[k].home = usesAuth'
                            /\ header' # 0 => usesAuth'
           /\ mpvAt' # 0 /\ usesAuth' => header' = token
<1>1. book \in Media /\ currentTrack \in 1 .. Len(Timeline[book].tracks)
  BY DEF Inv, Lifecycle, TrackLoaded, Tracks
<1>2. position' = p /\ seekTimer' \in {"armed", "rearmed"} /\ unreported' = TRUE
  BY DEF SeekTo, ScheduleSync
<1>3. /\ mpvAt # 0 => /\ mpvAt \in queued
                      /\ queued \subseteq 1 .. Len(Timeline[book].tracks)
                      /\ \A k \in queued : Timeline[book].tracks[k].home = usesAuth
                      /\ header # 0 => usesAuth
      /\ mpvAt # 0 /\ usesAuth => header = token
  BY DEF Inv, Lifecycle, Queue, Tracks
<1>4. /\ queued \in SUBSET Nat /\ usesAuth \in BOOLEAN /\ header \in 0 .. MaxTokens
      /\ mpvAt \in Nat /\ mpvPos \in Nat /\ TypeOK
  BY DEF Inv, TypeOK
<1>5. CASE TrackIndexForGlobal(Tracks, p) = currentTrack
  <2>1. /\ paused' = isPaused
        /\ UNCHANGED <<currentTrack, queued, usesAuth, header, mpvAt>>
        /\ mpvPos' = IF mpvAt = 0 THEN mpvPos
                     ELSE InFile(Tracks, mpvAt, p - Tracks[currentTrack].start
                                                  + Tracks[mpvAt].start)
    BY <1>5 DEF SeekTo
  <2>2. mpvPos' \in Nat
    <3>1. CASE mpvAt = 0
      BY <1>4, <2>1, <3>1
    <3>2. CASE mpvAt # 0
      <4> DEFINE q == p - Tracks[currentTrack].start + Tracks[mpvAt].start
      <4>1. mpvAt \in 1 .. Len(Tracks) /\ Tracks \in Seq(TrackRecords)
        BY <1>1, <1>3, <3>2, BookFacts DEF Tracks
      <4>2. q \in Int
        <5>1. /\ Tracks[currentTrack].start \in Nat
              /\ \A i \in 1 .. Len(Tracks) : Tracks[i].start \in Nat
          BY <1>1, BookFacts DEF Tracks
        <5>2. Tracks[mpvAt].start \in Nat
          BY <4>1, <5>1
        <5> QED
          BY <5>1, <5>2
      <4> HIDE DEF q
      <4>3. InFile(Tracks, mpvAt, q) \in Nat
        BY <4>1, <4>2, InFileNat
      <4> QED
        BY <2>1, <3>2, <4>3 DEF q
    <3> QED
      BY <3>1, <3>2
  <2> QED
    BY <1>1, <1>2, <1>3, <1>4, <2>1, <2>2
<1>6. CASE TrackIndexForGlobal(Tracks, p) # currentTrack
  <2>1. Load(book, p, ~isPaused)
    BY <1>6 DEF SeekTo
  <2>2. (~isPaused) \in BOOLEAN /\ p \in Int
    OBVIOUS
  <2>3. /\ currentTrack' \in 1 .. Len(Timeline[book].tracks)
        /\ mpvAt' = currentTrack' /\ mpvAt' \in queued'
        /\ queued' \subseteq 1 .. Len(Timeline[book].tracks)
        /\ \A k \in queued' : Timeline[book].tracks[k].home = usesAuth'
        /\ usesAuth' \in BOOLEAN /\ header' \in 0 .. MaxTokens
        /\ header' # 0 => usesAuth'
        /\ usesAuth' => header' = token
        /\ mpvPos' \in Nat /\ paused' \in BOOLEAN
    BY <1>1, <1>4, <2>1, <2>2, LoadEffect
  <2> QED
    BY <1>1, <1>2, <2>3
<1> QED
  BY <1>5, <1>6
-----------------------------------------------------------------------------
\* Nothing chosen, nothing loaded: Inv holds of the state the program starts
\* in.
LEMMA InvInit == Init => Inv
<1> SUFFICES ASSUME Init PROVE Inv
  OBVIOUS
<1>1. MaxTokens \in Nat \ {0} /\ MaxEpochs \in Nat /\ MaxPlays \in Nat /\ MaxTicks \in Nat
  BY SessionAssumption
<1>2. listen \in Syncers(Ticks)
  BY DEF Init, Reset, Syncers
<1>3. progress \in ProgressRecords
  BY <1>1 DEF Init, NoProgress, ProgressRecords, Sessions, NoSession
<1>4. flight \in [Slots -> Reports \cup {NoReport}]
  BY DEF Init
<1>5. posted \in Seq({"eof", "error"})
  BY DEF Init
<1>6. TypeOK
  <2>1. /\ playGen \in Sessions /\ listenGen \in Sessions /\ session \in Sessions
        /\ epoch \in 0 .. MaxEpochs /\ plays \subseteq (1 .. MaxPlays) \X Media
        /\ medium \in Media \cup {NoMedium} /\ book \in Media \cup {NoMedium}
        /\ position \in Nat /\ currentTrack \in Nat /\ queued \in SUBSET Nat
        /\ sleepEnd \in Nat /\ mpvAt \in Nat /\ mpvPos \in Nat
        /\ header \in 0 .. MaxTokens /\ token \in 1 .. MaxTokens
        /\ heard \in 0 .. MaxTicks /\ since \in 0 .. MaxTicks
    BY <1>1 DEF Init, Sessions, NoSession
  <2>2. /\ credited \subseteq Ticks /\ doubled \subseteq Ticks
        /\ serverClosed \subseteq Sessions
        /\ settled \subseteq Ticks /\ dropped \subseteq Ticks
        /\ playedOut \subseteq Sessions
    BY DEF Init
  <2>3. /\ active \in BOOLEAN /\ completed \in BOOLEAN /\ usesAuth \in BOOLEAN
        /\ syncTimer \in BOOLEAN /\ seekTimer \in {"off", "armed", "rearmed"}
        /\ sleep \in {"off", "held", "running", "chapter"}
        /\ paused \in BOOLEAN /\ audible \in BOOLEAN /\ unreported \in BOOLEAN
        /\ lateStop \in BOOLEAN /\ told \in SUBSET Nat
        /\ phase \in {"running", "quitting", "exited"}
    BY DEF Init
  <2> QED
    BY <1>2, <1>3, <1>4, <1>5, <2>1, <2>2, <2>3 DEF TypeOK
<1>7. Lifecycle
  BY DEF Init, Lifecycle, NewestChoice, NoneToOpen, TrackLoaded, Silenced, Queue
<1> QED
  BY <1>6, <1>7 DEF Inv

\* What Lifecycle speaks of.
lifeVars == <<playGen, listenGen, plays, active, session, medium, book, currentTrack, queued,
              usesAuth, mpvAt, header, token, phase>>

\* A step that leaves all of that alone keeps Lifecycle.
LEMMA LifecycleKept ==
    ASSUME Lifecycle, UNCHANGED lifeVars
    PROVE  Lifecycle'
BY DEF lifeVars, Lifecycle, NewestChoice, NoneToOpen, TrackLoaded, Silenced, Queue, Tracks

\* A step that changes nothing.
LEMMA StutterKeeps ==
    ASSUME Inv, UNCHANGED vars
    PROVE  Inv'
<1>1. TypeOK'
  BY DEF Inv, TypeOK, vars, requestVars, sessionVars, timelineVars, sleepVars, mpvVars,
         reportVars, serverVars, fateVars
<1>2. UNCHANGED lifeVars
  BY DEF lifeVars, vars, requestVars, sessionVars, timelineVars, mpvVars
<1> QED
  BY <1>1, <1>2, LifecycleKept DEF Inv

\* playItem(), playEpisode()
LEMMA PlayKeeps ==
    ASSUME Inv, NEW m \in Media, Play(m)
    PROVE  Inv'
<1>1. /\ phase = "running" /\ playGen < MaxPlays
      /\ medium' = m
      /\ playGen' = playGen + 1
      /\ plays' = plays \cup {<<playGen + 1, m>>}
      /\ UNCHANGED <<listenGen, epoch, completed, book, timelineVars, paused, audible, lateStop,
                     posted, told, header, playedOut, serverVars, fateVars, token, phase>>
  BY DEF Play, Input
<1>2. TypeOK /\ Lifecycle /\ MaxPlays \in Nat
  BY SessionAssumption DEF Inv
<1>3. playGen + 1 \in 1 .. MaxPlays
  BY <1>1, <1>2 DEF TypeOK, Sessions
<1>4. /\ active' = FALSE /\ session' \in Sessions /\ mpvAt' = 0 /\ mpvPos' \in Nat
      /\ sleep' \in {"off", "held", "running", "chapter"} /\ sleepEnd' \in Nat
      /\ syncTimer' \in BOOLEAN /\ unreported' \in BOOLEAN
      /\ seekTimer' \in {"off", "armed", "rearmed"}
      /\ listen' \in Syncers(Ticks)
      /\ flight' \in [Slots -> Reports \cup {NoReport}]
      /\ progress' \in ProgressRecords
  <2>1. CASE active
    <3>1. CloseAs(medium, "close", completed) /\ mpvAt' = 0 /\ mpvPos' = 0
      BY <2>1 DEF Play, Close, StopMpv
    <3>2. medium \in Media \cup {NoMedium} /\ completed \in BOOLEAN
      BY <1>2 DEF TypeOK
    <3>3. NoSession \in Sessions
      BY <1>2 DEF Sessions, NoSession
    <3>4. /\ active' = FALSE /\ session' = NoSession
          /\ sleep' = "off" /\ sleepEnd' = 0
          /\ syncTimer' = FALSE /\ seekTimer' = "off" /\ unreported' = FALSE
          /\ listen' \in Syncers(Ticks)
          /\ flight' \in [Slots -> Reports \cup {NoReport}]
          /\ progress' \in ProgressRecords
      BY <1>2, <3>1, <3>2, CloseTypes
    <3> QED
      BY <3>1, <3>3, <3>4
  <2>2. CASE ~active
    BY <1>1, <1>2, <2>2 DEF Play, TypeOK, Lifecycle, Silenced, sleepVars, reportVars
  <2> QED
    BY <2>1, <2>2
<1>5. TypeOK'
  <2>1. <<playGen + 1, m>> \in (1 .. MaxPlays) \X Media
    BY <1>3
  <2>2. plays' \subseteq (1 .. MaxPlays) \X Media
    BY <1>1, <1>2, <2>1 DEF TypeOK
  <2>3. playGen' \in Sessions
    BY <1>1, <1>2, <1>3 DEF Sessions
  <2> QED
    BY <1>1, <1>2, <1>4, <2>2, <2>3 DEF TypeOK, timelineVars, serverVars, fateVars
<1>6. NewestChoice'
  <2>1. playGen \in Nat /\ listenGen \in Nat /\ listenGen <= playGen
    BY <1>2 DEF TypeOK, Sessions, Lifecycle, NewestChoice
  <2>2. \A play \in plays : play[1] \in Nat /\ play[1] <= playGen
    BY <1>2 DEF TypeOK, Lifecycle, NewestChoice
  <2> QED
    BY <1>1, <1>4, <2>1, <2>2 DEF NewestChoice
<1> QED
  BY <1>1, <1>4, <1>5, <1>6 DEF Inv, Lifecycle, TrackLoaded, Silenced, Queue
\* A reply that opens nothing.
LEMMA PlayRefusedKeeps ==
    ASSUME Inv, NEW play \in plays, PlayRefused(play)
    PROVE  Inv'
<1>1. TypeOK'
  BY DEF Inv, TypeOK, PlayRefused, sessionVars, timelineVars, sleepVars, mpvVars, reportVars,
         serverVars, fateVars
<1>2. NewestChoice'
  BY DEF Inv, Lifecycle, NewestChoice, NoneToOpen, PlayRefused, sessionVars
<1>3. TrackLoaded' /\ Silenced' /\ Queue'
  BY DEF Inv, Lifecycle, TrackLoaded, Silenced, Queue, NoneToOpen, PlayRefused, Tracks,
         sessionVars, timelineVars, mpvVars
<1> QED
  BY <1>1, <1>2, <1>3 DEF Inv, Lifecycle

\* A reply whose parts are stored and then rejected: it answers the newest
\* choice, so nothing is open and mpv is idle.
LEMMA PlayUnusableKeeps ==
    ASSUME Inv, NEW play \in plays, PlayUnusable(play)
    PROVE  Inv'
<1>1. /\ phase # "exited" /\ play[1] = playGen
      /\ plays' = plays \ {play}
      /\ session' \in {NoSession, play[1]}
      /\ book' \in {NoMedium, play[2]}
      /\ UNCHANGED <<playGen, listenGen, epoch, active, medium, completed, timelineVars,
                     sleepVars, mpvVars, reportVars, serverVars, fateVars, token, progress, phase>>
  BY DEF PlayUnusable, Newest
<1>2. TypeOK /\ Lifecycle /\ play \in (1 .. MaxPlays) \X Media
  BY DEF Inv, TypeOK
<1>3. session' \in Sessions /\ book' \in Media \cup {NoMedium}
  BY <1>1, <1>2, SessionAssumption DEF Sessions, NoSession
<1>4. TypeOK'
  BY <1>1, <1>2, <1>3 DEF TypeOK, timelineVars, sleepVars, mpvVars, reportVars, serverVars, fateVars
<1>5. ~active /\ mpvAt = 0
  <2>1. ~active /\ phase # "quitting"
    BY <1>1, <1>2 DEF Lifecycle, NewestChoice, NoneToOpen
  <2>2. phase = "running"
    BY <1>1, <1>2, <2>1 DEF TypeOK
  <2> QED
    BY <1>2, <2>1, <2>2 DEF Lifecycle, Silenced
<1>6. NewestChoice'
  BY <1>1, <1>2, <1>5 DEF Lifecycle, NewestChoice, NoneToOpen
<1> QED
  BY <1>1, <1>4, <1>5, <1>6 DEF Inv, Lifecycle, TrackLoaded, Silenced, Queue, mpvVars

\* applyPlayResponse()
LEMMA PlayOpenedKeeps ==
    ASSUME Inv, NEW play \in plays, NEW resume \in 0 .. Timeline[play[2]].duration,
           PlayOpened(play, resume)
    PROVE  Inv'
<1>1. /\ phase # "exited" /\ play[1] = playGen
      /\ plays' = plays \ {play}
      /\ session' = play[1] /\ book' = play[2] /\ position' = resume
      /\ active' = TRUE /\ completed' = FALSE
      /\ listen' = Reset
      /\ dropped' = dropped \cup Held(listen)
      /\ since' = heard
      /\ lateStop' = audible
      /\ listenGen' = listenGen + 1
      /\ UNCHANGED <<playGen, epoch, medium, sleepVars, audible, posted, told, playedOut,
                     flight, syncTimer, seekTimer, unreported, serverVars, heard,
                     settled, token, progress, phase>>
      /\ Load(play[2], resume, TRUE)
  BY DEF PlayOpened, Newest
<1>2. TypeOK /\ Lifecycle /\ play \in (1 .. MaxPlays) \X Media /\ MaxPlays \in Nat
  BY SessionAssumption DEF Inv, TypeOK
<1>3. /\ play[1] \in 1 .. MaxPlays /\ play[2] \in Media
      /\ listenGen \in Nat /\ playGen \in Nat
      /\ Timeline[play[2]].duration \in Nat
  BY <1>2, BookFacts DEF TypeOK, Sessions
<1>4. resume \in Nat /\ resume \in Int
  BY <1>3
<1>5. /\ currentTrack' \in 1 .. Len(Timeline[play[2]].tracks)
      /\ mpvAt' = currentTrack' /\ mpvAt' \in queued'
      /\ queued' \subseteq 1 .. Len(Timeline[play[2]].tracks)
      /\ \A k \in queued' : Timeline[play[2]].tracks[k].home = usesAuth'
      /\ usesAuth' \in BOOLEAN /\ header' \in 0 .. MaxTokens
      /\ header' # 0 => usesAuth'
      /\ usesAuth' => header' = token
      /\ mpvPos' \in Nat /\ paused' \in BOOLEAN
  BY <1>1, <1>2, <1>3, <1>4, LoadEffect
<1>6. /\ \A q \in plays : q[1] <= playGen /\ (q[1] = playGen => q[2] = medium)
      /\ listenGen < playGen /\ play[2] = medium
      /\ phase = "running"
      /\ \A q \in plays : q \in (1 .. MaxPlays) \X Media
  BY <1>1, <1>2 DEF Lifecycle, NewestChoice, NoneToOpen, TypeOK
<1>7. NoneToOpen'
  <2>1. SUFFICES ASSUME NEW q \in plays, q # play PROVE q[1] # playGen
    BY <1>1 DEF NoneToOpen
  <2>2. q = <<q[1], q[2]>> /\ play = <<play[1], play[2]>>
    BY <1>6
  <2> QED
    BY <1>1, <1>6, <2>1, <2>2
<1>8. TypeOK'
  <2>1. /\ listenGen' \in Sessions /\ session' \in Sessions
        /\ book' \in Media \cup {NoMedium}
        /\ queued' \in SUBSET Nat /\ currentTrack' \in Nat /\ mpvAt' \in Nat
        /\ since' \in 0 .. MaxTicks
    BY <1>1, <1>2, <1>3, <1>5, <1>6, BookFacts DEF Sessions, TypeOK
  <2>2. listen' \in Syncers(Ticks) /\ dropped' \subseteq Ticks
    BY <1>1, <1>2, SyncerTypes DEF TypeOK
  <2>3. plays' \subseteq (1 .. MaxPlays) \X Media
    BY <1>1, <1>6
  <2> QED
    BY <1>1, <1>2, <1>4, <1>5, <2>1, <2>2, <2>3 DEF TypeOK, sleepVars, serverVars
<1>9. NewestChoice'
  BY <1>1, <1>3, <1>6, <1>7 DEF NewestChoice, NoneToOpen
<1>10. TrackLoaded' /\ Silenced' /\ Queue'
  BY <1>1, <1>3, <1>5, <1>6, <1>7 DEF TrackLoaded, Silenced, Queue, Tracks
<1> QED
  BY <1>8, <1>9, <1>10 DEF Inv, Lifecycle

\* A session closed with mpv stopped satisfies Lifecycle again.
LEMMA ClosedLifecycle ==
    ASSUME Lifecycle, active' = FALSE, mpvAt' = 0,
           UNCHANGED <<playGen, listenGen, plays, medium, book, currentTrack, queued, usesAuth,
                       phase>>
    PROVE  Lifecycle'
BY DEF Lifecycle, NewestChoice, NoneToOpen, TrackLoaded, Silenced, Queue

\* stopAndClose()
LEMMA StopAndCloseKeeps ==
    ASSUME Inv, StopAndClose
    PROVE  Inv'
<1>1. /\ CloseAs(medium, "close", completed) /\ mpvAt' = 0 /\ mpvPos' = 0
      /\ UNCHANGED <<requestVars, medium, completed, book, timelineVars, paused, audible,
                     lateStop, posted, told, header, playedOut, serverVars, fateVars, token,
                     phase>>
  BY DEF StopAndClose, Close, StopMpv
<1>2. /\ TypeOK /\ Lifecycle /\ medium \in Media \cup {NoMedium} /\ completed \in BOOLEAN
      /\ NoSession \in Sessions
  BY SessionAssumption DEF Inv, TypeOK, Sessions, NoSession
<1>3. /\ active' = FALSE /\ session' = NoSession
      /\ sleep' = "off" /\ sleepEnd' = 0
      /\ syncTimer' = FALSE /\ seekTimer' = "off" /\ unreported' = FALSE
      /\ listen' \in Syncers(Ticks)
      /\ flight' \in [Slots -> Reports \cup {NoReport}]
      /\ progress' \in ProgressRecords
  BY <1>1, <1>2, CloseTypes
<1>4. TypeOK'
  BY <1>1, <1>2, <1>3 DEF TypeOK, requestVars, timelineVars, serverVars, fateVars
<1>5. Lifecycle'
  BY <1>1, <1>2, <1>3, ClosedLifecycle DEF requestVars, timelineVars
<1> QED
  BY <1>4, <1>5 DEF Inv

\* play(), pause(): only what mpv is asked for changes.
LEMMA RequestPausedKeeps ==
    ASSUME Inv, NEW want \in BOOLEAN, RequestPaused(want)
    PROVE  Inv'
<1>1. TypeOK'
  BY DEF Inv, TypeOK, RequestPaused, requestVars, sessionVars, timelineVars, sleepVars,
         reportVars, serverVars, fateVars
<1>2. UNCHANGED lifeVars
  BY DEF RequestPaused, lifeVars, requestVars, sessionVars, timelineVars
<1> QED
  BY <1>1, <1>2, LifecycleKept DEF Inv
-----------------------------------------------------------------------------
\* A step that moves within the open session: what it may do to the track and
\* the queue, and what it must leave alone.
LEMMA SeekLifecycle ==
    ASSUME Inv, active, NEW p \in Nat, NEW isPaused \in BOOLEAN, SeekTo(p, isPaused),
           UNCHANGED <<playGen, listenGen, plays, active, session, medium, book, token, phase>>
    PROVE  Lifecycle'
<1>1. /\ book \in Media
      /\ currentTrack' \in 1 .. Len(Timeline[book].tracks)
      /\ mpvAt' # 0 => /\ mpvAt' \in queued'
                       /\ queued' \subseteq 1 .. Len(Timeline[book].tracks)
                       /\ \A k \in queued' : Timeline[book].tracks[k].home = usesAuth'
                       /\ header' # 0 => usesAuth'
      /\ mpvAt' # 0 /\ usesAuth' => header' = token
  BY SeekEffect
<1>2. NewestChoice' /\ NoneToOpen'
  BY DEF Inv, Lifecycle, NewestChoice, NoneToOpen
<1>3. TrackLoaded' /\ Silenced' /\ Queue'
  BY <1>1, <1>2 DEF Inv, Lifecycle, TrackLoaded, Silenced, Queue, Tracks
<1> QED
  BY <1>2, <1>3 DEF Lifecycle

\* seekGlobal(), and with it Skip, Next and Previous.
LEMMA SeekGlobalKeeps ==
    ASSUME Inv, NEW p \in Int, SeekGlobal(p)
    PROVE  Inv'
<1> DEFINE target == Clamp(p, Timeline[book].duration)
<1>1. /\ active
      /\ SeekTo(target, paused)
      /\ sleepEnd' = IF sleep = "chapter" THEN ChapterEndFor(Timeline[book], target) ELSE sleepEnd
      /\ UNCHANGED <<requestVars, sessionVars, sleep, audible, lateStop, posted, told, playedOut,
                     listen, flight, syncTimer, serverVars, fateVars, token, progress, phase>>
  BY DEF SeekGlobal
<1>2. TypeOK /\ book \in Media /\ paused \in BOOLEAN
  BY <1>1 DEF Inv, TypeOK, Lifecycle, TrackLoaded
<1>3. target \in Nat
  <2>1. Timeline[book].duration \in Nat
    BY <1>2, BookFacts
  <2>2. target \in 0 .. Timeline[book].duration
    BY <2>1, ClampInBook
  <2> HIDE DEF target
  <2> QED
    BY <2>1, <2>2
<1> HIDE DEF target
<1>4. sleepEnd' \in Nat
  BY <1>1, <1>2, <1>3, BookFacts, ChapterEndForward DEF TypeOK
<1>5. /\ currentTrack' \in 1 .. Len(Timeline[book].tracks)
      /\ queued' \in SUBSET Nat /\ usesAuth' \in BOOLEAN /\ header' \in 0 .. MaxTokens
      /\ mpvAt' \in Nat /\ mpvPos' \in Nat /\ paused' \in BOOLEAN
      /\ position' = target /\ seekTimer' \in {"armed", "rearmed"} /\ unreported' = TRUE
  BY <1>1, <1>2, <1>3, SeekEffect
<1>6. TypeOK'
  <2>1. currentTrack' \in Nat /\ position' \in Nat
    BY <1>2, <1>3, <1>5, BookFacts
  <2>2. seekTimer' \in {"off", "armed", "rearmed"} /\ unreported' \in BOOLEAN
    BY <1>5
  <2>3. UNCHANGED <<playGen, listenGen, plays, epoch, active, session, medium, completed, book,
                    sleep, audible, lateStop, posted, told, playedOut, listen, flight, syncTimer,
                    credited, doubled, serverClosed, heard, since, settled, dropped, token,
                    progress, phase>>
    BY <1>1 DEF requestVars, sessionVars, serverVars, fateVars
  <2> QED
    BY <1>2, <1>4, <1>5, <2>1, <2>2, <2>3 DEF TypeOK
<1>7. Lifecycle'
  BY <1>1, <1>2, <1>3, SeekLifecycle DEF requestVars, sessionVars
<1> QED
  BY <1>6, <1>7 DEF Inv

\* Skipping is seeking from where one is.
LEMMA SkipKeeps ==
    ASSUME Inv, NEW delta \in Int, Skip(delta)
    PROVE  Inv'
<1>1. position + delta \in Int
  BY DEF Inv, TypeOK
<1> QED
  BY <1>1, SeekGlobalKeeps DEF Skip

\* nextChapter(), previousChapter(): their targets are positions.
LEMMA ChapterKeysKeep ==
    ASSUME Inv, NextChapter \/ PreviousChapter
    PROVE  Inv'
<1>1. active /\ book \in Media /\ position \in Nat
  BY DEF NextChapter, PreviousChapter, Inv, TypeOK, Lifecycle, TrackLoaded
<1>2. Timeline[book] \in BookRecords /\ FallbackSkip \in Int /\ (-FallbackSkip) \in Int
  BY <1>1, BookFacts, SessionAssumption
<1>3. ASSUME LaterStarts(Timeline[book], position) # {}
      PROVE  Min(LaterStarts(Timeline[book], position)) \in Int
  BY <1>1, <1>2, <1>3, NextStartAhead, StartsNat
<1>4. PreviousTarget(Timeline[book], position) \in Int
  BY <1>1, <1>2, PreviousStartBehind
<1>5. CASE NextChapter
  BY <1>2, <1>3, <1>5, SkipKeeps, SeekGlobalKeeps DEF NextChapter
<1>6. CASE PreviousChapter
  BY <1>2, <1>4, <1>6, SkipKeeps, SeekGlobalKeeps DEF PreviousChapter
<1> QED
  BY <1>5, <1>6

\* setSleepTimer(), setSleepAtChapterEnd(), cycleSleepTimer()
LEMMA SleepForKeeps ==
    ASSUME Inv, active, NEW countdown \in {"off", "held", "running", "chapter"},
           SleepFor(countdown)
    PROVE  Inv'
<1>1. TypeOK /\ book \in Media /\ position \in Nat
  BY DEF Inv, TypeOK, Lifecycle, TrackLoaded
<1>2. sleepEnd' \in Nat /\ sleep' \in {"off", "held", "running", "chapter"}
  BY <1>1, BookFacts, ChapterEndForward DEF SleepFor
<1>3. TypeOK'
  BY <1>1, <1>2 DEF TypeOK, SleepFor, requestVars, sessionVars, timelineVars, mpvVars, reportVars,
     serverVars, fateVars
<1>4. UNCHANGED lifeVars
  BY DEF SleepFor, lifeVars, requestVars, sessionVars, timelineVars, mpvVars
<1> QED
  BY <1>3, <1>4, LifecycleKept DEF Inv

\* Each of the three methods sets some countdown.
LEMMA SleepKeysKeep ==
    ASSUME Inv,
           (\E on \in BOOLEAN : SetSleepTimer(on)) \/ SetSleepAtChapterEnd \/ CycleSleepTimer
    PROVE  Inv'
<1>1. active /\ \E countdown \in {"off", "held", "running", "chapter"} : SleepFor(countdown)
  BY DEF SetSleepTimer, SetSleepAtChapterEnd, CycleSleepTimer
<1> QED
  BY <1>1, SleepForKeeps

\* The countdown runs out.
LEMMA SleepTimeoutKeeps ==
    ASSUME Inv, SleepTimeout
    PROVE  Inv'
<1>1. paused' \in BOOLEAN
  BY DEF Inv, TypeOK, SleepTimeout
<1>2. TypeOK'
  BY <1>1 DEF Inv, TypeOK, SleepTimeout, requestVars, sessionVars, timelineVars, reportVars,
     serverVars, fateVars
<1>3. UNCHANGED lifeVars
  BY DEF SleepTimeout, lifeVars, requestVars, sessionVars, timelineVars
<1> QED
  BY <1>2, <1>3, LifecycleKept DEF Inv

\* The interval timer and the coalesced seek report: sync().
LEMMA SyncTimersKeep ==
    ASSUME Inv, SyncTimeout \/ SeekSyncTimeout
    PROVE  Inv'
<1>1. /\ Sync(listen)
      /\ UNCHANGED <<requestVars, sessionVars, timelineVars, sleepVars, mpvVars, syncTimer,
                     serverVars, fateVars, token, progress, phase>>
  BY DEF SyncTimeout, SeekSyncTimeout
<1>2. TypeOK /\ listen \in Syncers(Ticks)
  BY DEF Inv, TypeOK
<1>3. /\ listen' \in Syncers(Ticks)
      /\ flight' \in [Slots -> Reports \cup {NoReport}]
      /\ seekTimer' \in {"off", "armed", "rearmed"} /\ unreported' \in BOOLEAN
  BY <1>1, <1>2, SyncTypes
<1>4. TypeOK'
  BY <1>1, <1>2, <1>3 DEF TypeOK, requestVars, sessionVars, timelineVars, sleepVars, mpvVars,
     serverVars, fateVars
<1>5. UNCHANGED lifeVars
  BY <1>1 DEF lifeVars, requestVars, sessionVars, timelineVars, mpvVars
<1> QED
  BY <1>4, <1>5, LifecycleKept DEF Inv

\* Time passes.
LEMMA TickKeeps ==
    ASSUME Inv, Tick
    PROVE  Inv'
<1>1. TypeOK /\ MaxTicks \in Nat /\ heard \in 0 .. MaxTicks /\ heard < MaxTicks
  BY SessionAssumption DEF Inv, TypeOK, Tick
<1>2. heard + 1 \in Ticks /\ heard' \in 0 .. MaxTicks
  BY <1>1 DEF Ticks, Tick
<1>3. listen' \in Syncers(Ticks) /\ dropped' \subseteq Ticks
  BY <1>1, <1>2, SyncerTypes DEF TypeOK, Tick
<1>4. TypeOK'
  BY <1>1, <1>2, <1>3 DEF TypeOK, Tick, requestVars, sessionVars, timelineVars, sleepVars, mpvVars,
     serverVars
<1>5. UNCHANGED lifeVars
  BY DEF Tick, lifeVars, requestVars, sessionVars, timelineVars, mpvVars
<1> QED
  BY <1>4, <1>5, LifecycleKept DEF Inv
-----------------------------------------------------------------------------
\* mpv plays on.
LEMMA MpvAdvanceKeeps ==
    ASSUME Inv, MpvAdvance
    PROVE  Inv'
<1>1. mpvPos' \in Nat
  BY DEF Inv, TypeOK, MpvAdvance
<1>2. TypeOK'
  BY <1>1 DEF Inv, TypeOK, MpvAdvance, requestVars, sessionVars, timelineVars, sleepVars,
     reportVars, serverVars, fateVars
<1>3. UNCHANGED lifeVars
  BY DEF MpvAdvance, lifeVars, requestVars, sessionVars, timelineVars
<1> QED
  BY <1>2, <1>3, LifecycleKept DEF Inv

\* mpv reports where it is.
LEMMA MpvTellsKeeps ==
    ASSUME Inv, MpvTells
    PROVE  Inv'
<1>1. told' \in SUBSET Nat
  BY DEF Inv, TypeOK, MpvTells
<1>2. TypeOK'
  BY <1>1 DEF Inv, TypeOK, MpvTells, requestVars, sessionVars, timelineVars, sleepVars,
     reportVars, serverVars, fateVars
<1>3. UNCHANGED lifeVars
  BY DEF MpvTells, lifeVars, requestVars, sessionVars, timelineVars
<1> QED
  BY <1>2, <1>3, LifecycleKept DEF Inv

\* mpv moves on within what it was given to play.
LEMMA MpvEndFileKeeps ==
    ASSUME Inv, NEW event \in {"eof", "error"}, MpvEndFile(event)
    PROVE  Inv'
<1>1. /\ mpvAt # 0
      /\ posted' = Append(posted, event)
      /\ mpvAt' = IF mpvAt + 1 \in queued THEN mpvAt + 1 ELSE 0
      /\ mpvPos' = 0 /\ told' = {}
      /\ playedOut' \in {playedOut, playedOut \cup {session}}
      /\ UNCHANGED <<requestVars, sessionVars, timelineVars, sleepVars, paused, audible,
                     lateStop, header, reportVars, serverVars, fateVars, token, progress, phase>>
  BY DEF MpvEndFile
<1>2. TypeOK /\ Lifecycle /\ mpvAt \in Nat /\ session \in Sessions
  BY DEF Inv, TypeOK
<1>3. posted' \in Seq({"eof", "error"})
  BY <1>1, <1>2 DEF TypeOK
<1>4. TypeOK'
  BY <1>1, <1>2, <1>3 DEF TypeOK, requestVars, sessionVars, timelineVars, sleepVars, reportVars,
     serverVars, fateVars
<1>5. Lifecycle'
  BY <1>1, <1>2 DEF Lifecycle, NewestChoice, NoneToOpen, TrackLoaded, Silenced, Queue, Tracks,
     requestVars, sessionVars, timelineVars
<1> QED
  BY <1>4, <1>5 DEF Inv

\* onPlayingChanged()
LEMMA PlayingChangedKeeps ==
    ASSUME Inv, NEW playing \in BOOLEAN, PlayingChanged(playing)
    PROVE  Inv'
<1>1. /\ audible' = playing /\ lateStop' = FALSE
      /\ UNCHANGED <<requestVars, sessionVars, timelineVars, sleepEnd, paused, mpvAt, mpvPos,
                     posted, told, header, playedOut, serverVars, fateVars, token, progress,
                     phase>>
  BY DEF PlayingChanged
<1>2. TypeOK /\ listen \in Syncers(Ticks)
  BY DEF Inv, TypeOK
<1>3. /\ listen' \in Syncers(Ticks)
      /\ flight' \in [Slots -> Reports \cup {NoReport}]
      /\ seekTimer' \in {"off", "armed", "rearmed"}
      /\ unreported' \in BOOLEAN /\ syncTimer' \in BOOLEAN
      /\ sleep' \in {"off", "held", "running", "chapter"}
  <2>1. CASE ~active
    BY <1>2, <2>1 DEF PlayingChanged, TypeOK, reportVars
  <2>2. CASE active /\ playing
    <3>1. /\ listen' = SetPlaying(listen, TRUE) /\ syncTimer' = TRUE
          /\ sleep' = IF sleep = "held" THEN "running" ELSE sleep
          /\ UNCHANGED <<flight, seekTimer, unreported>>
      BY <2>2 DEF PlayingChanged
    <3>2. listen' \in Syncers(Ticks)
      BY <1>2, <3>1, SyncerTypes
    <3>3. sleep' \in {"off", "held", "running", "chapter"}
      BY <1>2, <3>1 DEF TypeOK
    <3>4. /\ flight' \in [Slots -> Reports \cup {NoReport}]
          /\ seekTimer' \in {"off", "armed", "rearmed"} /\ unreported' \in BOOLEAN
      BY <1>2, <3>1 DEF TypeOK
    <3> QED
      BY <3>1, <3>2, <3>3, <3>4
  <2>3. CASE active /\ ~playing
    <3>1. SetPlaying(listen, FALSE) \in Syncers(Ticks)
      BY <1>2, SyncerTypes
    <3>2. /\ Sync(SetPlaying(listen, FALSE)) /\ syncTimer' = FALSE
          /\ sleep' = IF sleep = "running" THEN "held" ELSE sleep
      BY <2>3 DEF PlayingChanged
    <3>3. /\ listen' \in Syncers(Ticks)
          /\ flight' \in [Slots -> Reports \cup {NoReport}]
          /\ seekTimer' \in {"off", "armed", "rearmed"} /\ unreported' \in BOOLEAN
      BY <1>2, <3>1, <3>2, SyncTypes
    <3>4. sleep' \in {"off", "held", "running", "chapter"}
      BY <1>2, <3>2 DEF TypeOK
    <3> QED
      BY <3>2, <3>3, <3>4
  <2> QED
    BY <2>1, <2>2, <2>3
<1>4. TypeOK'
  BY <1>1, <1>2, <1>3 DEF TypeOK, requestVars, sessionVars, timelineVars, serverVars, fateVars
<1>5. UNCHANGED lifeVars
  BY <1>1 DEF lifeVars, requestVars, sessionVars, timelineVars
<1> QED
  BY <1>4, <1>5, LifecycleKept DEF Inv

\* onMpvPosition() of an open session, for the place mpv reported.
LEMMA PositionTaken ==
    ASSUME Inv, active, PositionChanged
    PROVE  Inv'
<1>1. PICK place \in told :
        LET global == Tracks[currentTrack].start + place
        IN  \/ /\ sleep = "chapter" /\ global >= sleepEnd
               /\ sleep' = "off" /\ sleepEnd' = 0
               /\ IF sleepEnd < Timeline[book].duration
                  THEN SeekTo(sleepEnd, TRUE)
                  ELSE /\ position' = global
                       /\ paused' = TRUE
                       /\ UNCHANGED <<currentTrack, queued, usesAuth, header, mpvAt, mpvPos,
                                      seekTimer, unreported>>
            \/ /\ sleep = "chapter" => global < sleepEnd
               /\ position' = global
               /\ UNCHANGED <<sleepVars, paused, currentTrack, queued, usesAuth, header, mpvAt,
                              mpvPos, seekTimer, unreported>>
  BY DEF PositionChanged
<1>2. /\ told' = {}
      /\ UNCHANGED <<requestVars, sessionVars, audible, lateStop, posted, playedOut, listen,
                     flight, syncTimer, serverVars, fateVars, token, progress, phase>>
  BY DEF PositionChanged
<1>3. /\ TypeOK /\ Lifecycle /\ book \in Media
      /\ currentTrack \in 1 .. Len(Timeline[book].tracks) /\ sleepEnd \in Nat
  BY DEF Inv, TypeOK, Lifecycle, TrackLoaded, Tracks
<1>4. Tracks[currentTrack].start + place \in Nat
  <2>1. Tracks[currentTrack].start \in Nat
    BY <1>3, BookFacts DEF Tracks
  <2>2. place \in Nat
    BY <1>1, <1>3 DEF TypeOK
  <2> QED
    BY <2>1, <2>2
<1>5. \/ SeekTo(sleepEnd, TRUE) /\ sleep' = "off" /\ sleepEnd' = 0
      \/ /\ position' = Tracks[currentTrack].start + place /\ paused' \in {paused, TRUE}
         /\ sleep' \in {sleep, "off"} /\ sleepEnd' \in {sleepEnd, 0}
         /\ UNCHANGED <<currentTrack, queued, usesAuth, header, mpvAt, mpvPos, seekTimer,
                        unreported>>
  BY <1>1 DEF sleepVars
<1>6. CASE SeekTo(sleepEnd, TRUE) /\ sleep' = "off" /\ sleepEnd' = 0
  <2>1. SeekTo(sleepEnd, TRUE) /\ sleep' = "off" /\ sleepEnd' = 0
    BY <1>6
  <2>2. /\ currentTrack' \in 1 .. Len(Timeline[book].tracks)
        /\ queued' \in SUBSET Nat /\ usesAuth' \in BOOLEAN /\ header' \in 0 .. MaxTokens
        /\ mpvAt' \in Nat /\ mpvPos' \in Nat /\ paused' \in BOOLEAN
        /\ position' = sleepEnd /\ seekTimer' \in {"armed", "rearmed"} /\ unreported' = TRUE
    BY <1>2, <1>3, <2>1, SeekEffect
  <2>3. TypeOK'
    <3>1. currentTrack' \in Nat /\ position' \in Nat
      BY <1>3, <2>2, BookFacts
    <3>2. /\ seekTimer' \in {"off", "armed", "rearmed"}
          /\ unreported' \in BOOLEAN
          /\ told' \in SUBSET Nat
      BY <1>2, <2>2
    <3>3. UNCHANGED <<playGen, listenGen, plays, epoch, active, session, medium, completed, book,
                      audible, lateStop, posted, playedOut, listen, flight, syncTimer,
                      credited, doubled, serverClosed, heard, since, settled, dropped, token,
                      progress, phase>>
      BY <1>2 DEF requestVars, sessionVars, serverVars, fateVars
    <3> QED
      BY <1>3, <2>1, <2>2, <3>1, <3>2, <3>3 DEF TypeOK
  <2>4. Lifecycle'
    BY <1>2, <1>3, <2>1, SeekLifecycle DEF requestVars, sessionVars
  <2> QED
    BY <2>3, <2>4 DEF Inv
<1>7. CASE /\ position' = Tracks[currentTrack].start + place /\ paused' \in {paused, TRUE}
           /\ sleep' \in {sleep, "off"} /\ sleepEnd' \in {sleepEnd, 0}
           /\ UNCHANGED <<currentTrack, queued, usesAuth, header, mpvAt, mpvPos, seekTimer,
                          unreported>>
  <2>1. /\ position' = Tracks[currentTrack].start + place /\ paused' \in {paused, TRUE}
        /\ sleep' \in {sleep, "off"} /\ sleepEnd' \in {sleepEnd, 0}
        /\ UNCHANGED <<currentTrack, queued, usesAuth, header, mpvAt, mpvPos, seekTimer,
                       unreported>>
    BY <1>7
  <2>2. position' \in Nat /\ sleepEnd' \in Nat
    BY <1>3, <1>4, <2>1
  <2>3. paused' \in BOOLEAN /\ sleep' \in {"off", "held", "running", "chapter"}
    BY <1>3, <2>1 DEF TypeOK
  <2>4. TypeOK'
    BY <1>2, <1>3, <2>1, <2>2, <2>3 DEF TypeOK, requestVars, sessionVars, serverVars, fateVars
  <2>5. UNCHANGED lifeVars
    BY <1>2, <2>1 DEF lifeVars, requestVars, sessionVars
  <2> QED
    BY <1>3, <2>4, <2>5, LifecycleKept DEF Inv
<1> QED
  BY <1>5, <1>6, <1>7

\* onMpvPosition()
LEMMA PositionChangedKeeps ==
    ASSUME Inv, PositionChanged
    PROVE  Inv'
<1>1. /\ told' = {}
      /\ UNCHANGED <<requestVars, sessionVars, audible, lateStop, posted, playedOut, listen,
                     flight, syncTimer, serverVars, fateVars, token, progress, phase>>
  BY DEF PositionChanged
<1>2. CASE ~active
  <2>1. UNCHANGED <<timelineVars, sleepVars, paused, header, mpvAt, mpvPos, seekTimer, unreported>>
    BY <1>2 DEF PositionChanged
  <2>2. TypeOK'
    BY <1>1, <2>1 DEF Inv, TypeOK, requestVars, sessionVars, timelineVars, sleepVars, serverVars,
       fateVars
  <2>3. UNCHANGED lifeVars
    BY <1>1, <2>1 DEF lifeVars, requestVars, sessionVars, timelineVars
  <2> QED
    BY <2>2, <2>3, LifecycleKept DEF Inv
<1>3. CASE active
  BY <1>1, <1>3, PositionTaken DEF PositionChanged
<1> QED
  BY <1>2, <1>3

\* onEndOfFile() with another track to come, already queued or loaded anew.
LEMMA NextTrackKeeps ==
    ASSUME Inv, NextTrack, posted' \in Seq({"eof", "error"}), lateStop' \in BOOLEAN,
           UNCHANGED <<requestVars, medium, book, position, told, playedOut, serverVars, fateVars,
                       token, phase>>
    PROVE  Inv'
<1>1. /\ active /\ currentTrack < Len(Tracks)
      /\ UNCHANGED <<sleepEnd, active, session, completed, progress>>
  <2>1. active /\ ~OnLastTrack /\ UNCHANGED <<sleepEnd, active, session, completed, progress>>
    BY DEF NextTrack
  <2>2. currentTrack \in 1 .. Len(Tracks) /\ Len(Tracks) \in Nat
    BY <2>1, BookFacts DEF Inv, Lifecycle, TrackLoaded, Tracks
  <2> QED
    BY <2>1, <2>2 DEF OnLastTrack
<1>2. /\ TypeOK /\ Lifecycle /\ book \in Media
      /\ currentTrack \in 1 .. Len(Tracks) /\ Len(Tracks) \in Nat
      /\ listen \in Syncers(Ticks) /\ sleep \in {"off", "held", "running", "chapter"}
  BY <1>1, BookFacts DEF Inv, TypeOK, Lifecycle, TrackLoaded, Tracks
<1>3. currentTrack + 1 \in 1 .. Len(Timeline[book].tracks)
  BY <1>1, <1>2 DEF Tracks
<1>4. CASE currentTrack + 1 \in queued
  <2> DEFINE silenced == audible /\ paused
             s == IF silenced THEN SetPlaying(listen, FALSE) ELSE listen
  <2>1. /\ currentTrack' = currentTrack + 1
        /\ audible' = (audible /\ ~paused)
        /\ Sync(s)
        /\ syncTimer' = (syncTimer /\ ~silenced)
        /\ sleep' = IF silenced /\ sleep = "running" THEN "held" ELSE sleep
        /\ UNCHANGED <<queued, usesAuth, header, mpvAt, mpvPos, paused>>
    BY <1>4 DEF NextTrack
  <2>2. s \in Syncers(Ticks)
    BY <1>2, SyncerTypes
  <2>3. audible' \in BOOLEAN /\ syncTimer' \in BOOLEAN
    BY <2>1
  <2> HIDE DEF s, silenced
  <2>4. /\ listen' \in Syncers(Ticks)
        /\ flight' \in [Slots -> Reports \cup {NoReport}]
        /\ seekTimer' \in {"off", "armed", "rearmed"} /\ unreported' \in BOOLEAN
    BY <1>2, <2>1, <2>2, SyncTypes
  <2>5. sleep' \in {"off", "held", "running", "chapter"}
    BY <1>2, <2>1
  <2>6. currentTrack' \in Nat
    BY <1>3, <2>1, BookFacts
  <2>7. TypeOK'
    BY <1>1, <1>2, <2>1, <2>3, <2>4, <2>5, <2>6 DEF TypeOK, requestVars, serverVars, fateVars
  <2>8. Lifecycle'
    BY <1>1, <1>2, <1>3, <2>1 DEF Lifecycle, NewestChoice, NoneToOpen, TrackLoaded, Silenced,
       Queue, Tracks, requestVars
  <2> QED
    BY <2>7, <2>8 DEF Inv
<1>5. CASE currentTrack + 1 \notin queued
  <2>1. /\ Load(book, Tracks[currentTrack + 1].start, TRUE)
        /\ Sync(listen)
        /\ UNCHANGED <<audible, syncTimer, sleep>>
    BY <1>5 DEF NextTrack
  <2>2. Tracks[currentTrack + 1].start \in Int
    BY <1>2, <1>3, BookFacts DEF Tracks
  <2>3. /\ currentTrack' \in 1 .. Len(Timeline[book].tracks)
        /\ mpvAt' = currentTrack' /\ mpvAt' \in queued'
        /\ queued' \subseteq 1 .. Len(Timeline[book].tracks)
        /\ \A k \in queued' : Timeline[book].tracks[k].home = usesAuth'
        /\ usesAuth' \in BOOLEAN /\ header' \in 0 .. MaxTokens
        /\ header' # 0 => usesAuth'
        /\ usesAuth' => header' = token
        /\ mpvPos' \in Nat /\ paused' \in BOOLEAN
    BY <1>2, <2>1, <2>2, LoadEffect
  <2>4. /\ listen' \in Syncers(Ticks)
        /\ flight' \in [Slots -> Reports \cup {NoReport}]
        /\ seekTimer' \in {"off", "armed", "rearmed"} /\ unreported' \in BOOLEAN
    BY <1>2, <2>1, SyncTypes
  <2>5. currentTrack' \in Nat /\ mpvAt' \in Nat /\ queued' \in SUBSET Nat
    BY <1>2, <2>3, BookFacts
  <2>6. TypeOK'
    BY <1>1, <1>2, <2>1, <2>3, <2>4, <2>5 DEF TypeOK, requestVars, serverVars, fateVars
  <2>7. NewestChoice' /\ NoneToOpen'
    BY <1>1, <1>2 DEF Lifecycle, NewestChoice, NoneToOpen, requestVars
  <2>8. TrackLoaded' /\ Silenced' /\ Queue'
    BY <1>1, <1>2, <2>3, <2>7 DEF Lifecycle, TrackLoaded, Silenced, Queue, Tracks
  <2> QED
    BY <2>6, <2>7, <2>8 DEF Inv, Lifecycle
<1> QED
  BY <1>4, <1>5

\* onEndOfFile() on the last track, and mpvError: the session closes and mpv
\* stops.
LEMMA ClosedAtEndKeeps ==
    ASSUME Inv, NEW finished \in BOOLEAN,
           Close("close", finished), StopMpv,
           completed' \in BOOLEAN, audible' \in BOOLEAN, lateStop' \in BOOLEAN,
           posted' \in Seq({"eof", "error"}),
           UNCHANGED <<requestVars, medium, book, timelineVars, paused, told, header, playedOut,
                       serverVars, fateVars, token, phase>>
    PROVE  Inv'
<1>1. /\ CloseAs(medium, "close", finished) /\ mpvAt' = 0 /\ mpvPos' = 0
      /\ TypeOK /\ Lifecycle /\ medium \in Media \cup {NoMedium} /\ NoSession \in Sessions
  BY SessionAssumption DEF Close, StopMpv, Inv, TypeOK, Sessions, NoSession
<1>2. /\ active' = FALSE /\ session' = NoSession
      /\ sleep' = "off" /\ sleepEnd' = 0
      /\ syncTimer' = FALSE /\ seekTimer' = "off" /\ unreported' = FALSE
      /\ listen' \in Syncers(Ticks)
      /\ flight' \in [Slots -> Reports \cup {NoReport}]
      /\ progress' \in ProgressRecords
  BY <1>1, CloseTypes
<1>3. TypeOK'
  BY <1>1, <1>2 DEF TypeOK, requestVars, timelineVars, serverVars, fateVars
<1>4. Lifecycle'
  BY <1>1, <1>2, ClosedLifecycle DEF requestVars, timelineVars
<1> QED
  BY <1>3, <1>4 DEF Inv

\* An event that finds no session open.
LEMMA UnattendedKeeps ==
    ASSUME Inv, audible' \in BOOLEAN, lateStop' \in BOOLEAN,
           posted' \in Seq({"eof", "error"}),
           UNCHANGED <<requestVars, sessionVars, timelineVars, sleepVars, reportVars, paused,
                       mpvAt, mpvPos, told, header, playedOut, serverVars, fateVars, token, progress,
                       phase>>
    PROVE  Inv'
<1>1. TypeOK'
  BY DEF Inv, TypeOK, requestVars, sessionVars, timelineVars, sleepVars, reportVars, serverVars,
     fateVars
<1>2. UNCHANGED lifeVars
  BY DEF lifeVars, requestVars, sessionVars, timelineVars
<1> QED
  BY <1>1, <1>2, LifecycleKept DEF Inv

\* onEndOfFile(): one case per branch.
LEMMA HandleEofKeeps ==
    ASSUME Inv, HandleEof
    PROVE  Inv'
<1>1. /\ posted \in Seq({"eof", "error"}) /\ posted # <<>> /\ posted' = Tail(posted)
      /\ lateStop \in BOOLEAN /\ lateStop' = (lateStop /\ audible')
      /\ UNCHANGED <<requestVars, medium, book, position, told, playedOut, serverVars, fateVars,
                     token, phase>>
  BY DEF Inv, TypeOK, HandleEof
<1>2. posted' \in Seq({"eof", "error"}) /\ lateStop' \in BOOLEAN
  <2>1. posted' \in Seq({"eof", "error"})
    BY <1>1
  <2>2. lateStop' \in BOOLEAN
    BY <1>1
  <2> QED
    BY <2>1, <2>2
<1>3. CASE NextTrack
  BY <1>1, <1>2, <1>3, NextTrackKeeps
<1>4. CASE FinishBook
  <2>1. /\ Close("close", TRUE) /\ StopMpv /\ completed' = TRUE
        /\ audible' = (audible /\ ~paused)
        /\ UNCHANGED <<currentTrack, queued, usesAuth, header, paused>>
    BY <1>4 DEF FinishBook
  <2>2. completed' \in BOOLEAN /\ audible' \in BOOLEAN
    BY <2>1
  <2>3. UNCHANGED <<requestVars, medium, book, timelineVars, paused, told, header, playedOut,
                    serverVars, fateVars, token, phase>>
    BY <1>1, <2>1 DEF timelineVars
  <2> QED
    BY <1>2, <2>1, <2>2, <2>3, ClosedAtEndKeeps
<1>5. CASE /\ audible' = (audible /\ ~paused)
           /\ UNCHANGED <<active, session, completed, progress, currentTrack, queued, usesAuth,
                          sleepVars, reportVars, paused, mpvAt, mpvPos, header>>
  <2>1. audible' \in BOOLEAN
    BY <1>5
  <2>2. UNCHANGED <<requestVars, sessionVars, timelineVars, sleepVars, reportVars, paused,
                    mpvAt, mpvPos, told, header, playedOut, serverVars, fateVars, token,
                    progress, phase>>
    BY <1>1, <1>5 DEF sessionVars, timelineVars
  <2> QED
    BY <1>2, <2>1, <2>2, UnattendedKeeps
<1> QED
  BY <1>3, <1>4, <1>5 DEF HandleEof

\* mpvError closes the session, or finds none open.
LEMMA HandleErrorKeeps ==
    ASSUME Inv, HandleError
    PROVE  Inv'
<1>1. /\ posted \in Seq({"eof", "error"}) /\ posted # <<>> /\ posted' = Tail(posted)
      /\ audible' = (audible /\ ~paused)
      /\ completed \in BOOLEAN
      /\ lateStop \in BOOLEAN /\ lateStop' = (lateStop /\ audible')
      /\ UNCHANGED <<requestVars, medium, completed, book, timelineVars, paused, told, header,
                     playedOut, serverVars, fateVars, token, phase>>
  BY DEF Inv, TypeOK, HandleError
<1>2. posted' \in Seq({"eof", "error"}) /\ audible' \in BOOLEAN /\ lateStop' \in BOOLEAN
  <2>1. posted' \in Seq({"eof", "error"})
    BY <1>1
  <2>2. audible' \in BOOLEAN
    BY <1>1
  <2>3. lateStop' \in BOOLEAN
    BY <1>1
  <2> QED
    BY <2>1, <2>2, <2>3
<1>3. CASE active
  <2>1. Close("close", completed) /\ StopMpv
    BY <1>3 DEF HandleError
  <2>2. completed' \in BOOLEAN
    BY <1>1
  <2> QED
    BY <1>1, <1>2, <2>1, <2>2, ClosedAtEndKeeps
<1>4. CASE ~active
  <2>1. UNCHANGED <<requestVars, sessionVars, timelineVars, sleepVars, reportVars, paused,
                    mpvAt, mpvPos, told, header, playedOut, serverVars, fateVars, token,
                    progress, phase>>
    BY <1>1, <1>4 DEF HandleError, sessionVars
  <2> QED
    BY <1>2, <2>1, UnattendedKeeps
<1> QED
  BY <1>3, <1>4
-----------------------------------------------------------------------------
\* flushAndClose(true): a final close is only in flight once the application
\* is shutting down, so its answer ends nothing else.
FinalAtQuit ==
    \A r \in Slots : flight[r] # NoReport /\ flight[r].kind = "final" => phase # "running"

\* Sending anything but the final close.
LEMMA PostNotFinal ==
    ASSUME TypeOK, FinalAtQuit, NEW kind \in {"sync", "close"}, NEW ticks, Post(kind, ticks),
           UNCHANGED phase
    PROVE  FinalAtQuit'
<1>1. CASE UNCHANGED flight
  BY <1>1 DEF FinalAtQuit
<1>2. CASE ~ UNCHANGED flight
  <2> DEFINE new == [kind |-> kind, of |-> session, gen |-> listenGen,
                     ticks |-> ticks, applied |-> FALSE]
  <2>1. PICK r \in Slots : flight' = [flight EXCEPT ![r] = new]
    BY <1>2 DEF Post
  <2>2. new.kind = kind /\ kind # "final"
    OBVIOUS
  <2> HIDE DEF new
  <2>3. ASSUME NEW q \in Slots, flight'[q] # NoReport, flight'[q].kind = "final"
        PROVE  flight'[q] = flight[q]
    BY <2>1, <2>2, <2>3 DEF TypeOK
  <2> QED
    BY <2>3 DEF FinalAtQuit
<1> QED
  BY <1>1, <1>2

\* No answer and no step of the server makes a close final.
LEMMA ServerAppliesNotFinal ==
    ASSUME TypeOK, FinalAtQuit, NEW r \in Slots, ServerApplies(r)
    PROVE  FinalAtQuit'
<1>1. /\ flight' = [flight EXCEPT ![r] = [flight[r] EXCEPT !.applied = TRUE]]
      /\ flight[r] # NoReport /\ UNCHANGED phase
  BY DEF ServerApplies
<1>2. flight[r] \in Reports
  BY <1>1 DEF TypeOK
<1>3. [flight[r] EXCEPT !.applied = TRUE].kind = flight[r].kind
  BY <1>2 DEF Reports
<1> QED
  BY <1>1, <1>3 DEF FinalAtQuit, TypeOK

\* An answer to anything but the final close leaves the application running.
LEMMA AnsweredNotFinal ==
    ASSUME TypeOK, FinalAtQuit, NEW r \in Slots, Answered(r)
    PROVE  FinalAtQuit'
BY DEF Answered, FinalAtQuit, TypeOK

\* One case per action that sends or answers a request or changes the phase.
LEMMA FinalAtQuitStep ==
    ASSUME TypeOK, FinalAtQuit, [Next]_vars
    PROVE  FinalAtQuit'
<1>1. CASE UNCHANGED <<flight, phase>>
  BY <1>1 DEF FinalAtQuit
<1>2. ASSUME NEW m \in Media, Play(m) PROVE FinalAtQuit'
  <2>1. CASE active
    BY <1>2, <2>1, PostNotFinal DEF Play, Close, CloseAs
  <2>2. CASE ~active
    BY <1>1, <1>2, <2>2 DEF Play, reportVars
  <2> QED
    BY <2>1, <2>2
<1>3. CASE StopAndClose
  BY <1>3, PostNotFinal DEF StopAndClose, Close, CloseAs
<1>4. ASSUME NEW p, SeekGlobal(p) PROVE FinalAtQuit'
  BY <1>1, <1>4 DEF SeekGlobal
<1>5. CASE SwitchServer
  BY <1>5 DEF SwitchServer, FinalAtQuit
<1>6. CASE Quit
  <2>1. phase' # "running"
    BY <1>6 DEF Quit
  <2> QED
    BY <2>1 DEF FinalAtQuit
<1>7. CASE SyncTimeout \/ SeekSyncTimeout
  BY <1>7, PostNotFinal DEF SyncTimeout, SeekSyncTimeout, Sync
<1>8. CASE QuitTimeout
  BY <1>8 DEF QuitTimeout, FinalAtQuit
<1>9. ASSUME NEW playing \in BOOLEAN, PlayingChanged(playing) PROVE FinalAtQuit'
  <2>1. UNCHANGED phase
    BY <1>9 DEF PlayingChanged
  <2>2. UNCHANGED flight \/ Sync(SetPlaying(listen, FALSE))
    BY <1>9 DEF PlayingChanged, reportVars
  <2> QED
    BY <1>1, <2>1, <2>2, PostNotFinal DEF Sync
<1>10. CASE HandleEof
  <2>1. UNCHANGED phase
    BY <1>10 DEF HandleEof
  <2>2. CASE NextTrack
    BY <2>1, <2>2, PostNotFinal DEF NextTrack, Sync
  <2>3. CASE FinishBook
    BY <2>1, <2>3, PostNotFinal DEF FinishBook, Close, CloseAs
  <2>4. CASE UNCHANGED reportVars
    BY <1>1, <2>1, <2>4 DEF reportVars
  <2> QED
    BY <1>10, <2>2, <2>3, <2>4 DEF HandleEof
<1>11. CASE HandleError
  <2>1. UNCHANGED phase
    BY <1>11 DEF HandleError
  <2>2. CASE active
    BY <1>11, <2>1, <2>2, PostNotFinal DEF HandleError, Close, CloseAs
  <2>3. CASE ~active
    BY <1>1, <1>11, <2>1, <2>3 DEF HandleError, reportVars
  <2> QED
    BY <2>2, <2>3
<1>12. ASSUME NEW r \in Slots, ServerApplies(r) \/ ReportSucceeds(r) \/ ReportFails(r)
       PROVE  FinalAtQuit'
  BY <1>12, ServerAppliesNotFinal, AnsweredNotFinal DEF ReportSucceeds, ReportFails
<1>13. ASSUME SleepTimeout \/ MpvAdvance \/ MpvTells \/ PositionChanged \/ TokenChanged \/ Tick
              \/ (\E event \in {"eof", "error"} : MpvEndFile(event))
              \/ (\E want \in BOOLEAN : RequestPaused(want)) \/ TogglePlayPause
              \/ (\E on \in BOOLEAN : SetSleepTimer(on)) \/ SetSleepAtChapterEnd
              \/ CycleSleepTimer
       PROVE  FinalAtQuit'
  <2>1. UNCHANGED <<flight, phase>>
    BY <1>13 DEF SleepTimeout, MpvAdvance, MpvTells, PositionChanged, TokenChanged, Tick, MpvEndFile,
       RequestPaused, TogglePlayPause, SetSleepTimer, SetSleepAtChapterEnd, CycleSleepTimer,
       SleepFor, reportVars
  <2> QED
    BY <1>1, <2>1
<1>14. CASE PlayReply
  <2>1. UNCHANGED <<flight, phase>>
    BY <1>14 DEF PlayReply, PlayRefused, PlayUnusable, PlayOpened, reportVars
  <2> QED
    BY <1>1, <2>1
<1>15. CASE NextChapter \/ PreviousChapter \/ (\E delta \in {-1, 1} : Skip(delta))
  BY <1>4, <1>15 DEF NextChapter, PreviousChapter, Skip
<1>16. CASE UNCHANGED vars
  BY <1>1, <1>16 DEF vars, reportVars
<1> QED
  BY <1>2, <1>3, <1>4, <1>5, <1>6, <1>7, <1>8, <1>9, <1>10, <1>11, <1>12, <1>13, <1>14, <1>15,
     <1>16 DEF Next, UserStep, TimerStep, MpvStep, NetworkStep
-----------------------------------------------------------------------------
\* The server processes a request: the report stays a report.
LEMMA ServerAppliesKeeps ==
    ASSUME Inv, NEW r \in Slots, ServerApplies(r)
    PROVE  Inv'
<1>1. /\ flight[r] # NoReport
      /\ flight' = [flight EXCEPT ![r] = [flight[r] EXCEPT !.applied = TRUE]]
      /\ credited' = credited \cup flight[r].ticks
      /\ doubled' = doubled \cup (credited \cap flight[r].ticks)
      /\ serverClosed' \in {serverClosed, serverClosed \cup {flight[r].of}}
      /\ UNCHANGED <<requestVars, sessionVars, timelineVars, sleepVars, mpvVars, listen, syncTimer,
                     seekTimer, unreported, fateVars, token, progress, phase>>
  BY DEF ServerApplies
<1>2. TypeOK /\ flight[r] \in Reports
  BY <1>1 DEF Inv, TypeOK
<1>3. flight[r].ticks \subseteq Ticks /\ flight[r].of \in Sessions
  BY <1>2 DEF Reports
<1>4. [flight[r] EXCEPT !.applied = TRUE] \in Reports
  BY <1>2 DEF Reports
<1>5. flight' \in [Slots -> Reports \cup {NoReport}]
  BY <1>1, <1>2, <1>4 DEF TypeOK
<1>6. credited' \subseteq Ticks /\ doubled' \subseteq Ticks /\ serverClosed' \subseteq Sessions
  BY <1>1, <1>2, <1>3 DEF TypeOK
<1>7. TypeOK'
  BY <1>1, <1>2, <1>5, <1>6 DEF TypeOK, requestVars, sessionVars, timelineVars, sleepVars, mpvVars,
     fateVars
<1>8. UNCHANGED lifeVars
  BY <1>1 DEF lifeVars, requestVars, sessionVars, timelineVars, mpvVars
<1> QED
  BY <1>7, <1>8, LifecycleKept DEF Inv

\* An answer frees its slot; the answer to the final close ends the program.
LEMMA AnswersKeep ==
    ASSUME Inv, FinalAtQuit, NEW r \in Slots, ReportSucceeds(r) \/ ReportFails(r)
    PROVE  Inv'
<1>1. /\ flight[r] # NoReport
      /\ flight' = [flight EXCEPT ![r] = NoReport]
      /\ phase' = IF flight[r].kind = "final" THEN "exited" ELSE phase
      /\ UNCHANGED <<requestVars, sessionVars, timelineVars, sleepVars, mpvVars, syncTimer,
                     seekTimer, unreported, serverVars, heard, since, token, progress>>
  BY DEF ReportSucceeds, ReportFails, Answered
<1>2. TypeOK /\ flight[r] \in Reports /\ listen \in Syncers(Ticks)
  BY <1>1 DEF Inv, TypeOK
<1>3. flight[r].ticks \in SUBSET Ticks
  BY <1>2 DEF Reports
<1>4. flight' \in [Slots -> Reports \cup {NoReport}]
  BY <1>1, <1>2 DEF TypeOK
<1>5. /\ listen' \in {listen, Rollback(listen, flight[r].ticks)}
      /\ settled' \in {settled, settled \cup flight[r].ticks}
      /\ dropped' \in {dropped, dropped \cup flight[r].ticks}
  BY DEF ReportSucceeds, ReportFails
<1>6. listen' \in Syncers(Ticks) /\ settled' \subseteq Ticks /\ dropped' \subseteq Ticks
  <2>1. Rollback(listen, flight[r].ticks) \in Syncers(Ticks)
    BY <1>2, <1>3, SyncerTypes
  <2>2. settled \subseteq Ticks /\ dropped \subseteq Ticks
    BY <1>2 DEF TypeOK
  <2>3. settled' \subseteq Ticks /\ dropped' \subseteq Ticks
    BY <1>3, <1>5, <2>2
  <2> QED
    BY <1>2, <1>5, <2>1, <2>3
<1>7. phase' \in {"running", "quitting", "exited"}
  BY <1>1, <1>2 DEF TypeOK
<1>8. TypeOK'
  BY <1>1, <1>2, <1>4, <1>6, <1>7 DEF TypeOK, requestVars, sessionVars, timelineVars, sleepVars,
     mpvVars, serverVars
<1>9. phase' = phase \/ (phase # "running" /\ phase' = "exited")
  BY <1>1 DEF FinalAtQuit
<1>10. Lifecycle'
  BY <1>1, <1>9 DEF Inv, Lifecycle, NewestChoice, NoneToOpen, TrackLoaded, Silenced, Queue, Tracks,
     requestVars, sessionVars, timelineVars, mpvVars
<1> QED
  BY <1>8, <1>10 DEF Inv

\* setBaseUrl(): nothing is left in flight.
LEMMA SwitchServerKeeps ==
    ASSUME Inv, SwitchServer
    PROVE  Inv'
<1>1. /\ ~active /\ epoch < MaxEpochs /\ epoch' = epoch + 1 /\ plays' = {}
      /\ dropped' = dropped \cup (UNION {InFlight(r) : r \in Slots})
      /\ flight' = [r \in Slots |-> NoReport]
      /\ UNCHANGED <<playGen, listenGen, sessionVars, timelineVars, sleepVars, mpvVars, listen,
                     syncTimer, seekTimer, unreported, serverVars, heard, since, settled, token,
                     progress, phase>>
  BY DEF SwitchServer
<1>2. TypeOK /\ MaxEpochs \in Nat
  BY SessionAssumption DEF Inv, TypeOK
<1>3. \A r \in Slots : InFlight(r) \subseteq Ticks
  <2>1. SUFFICES ASSUME NEW r \in Slots, flight[r] # NoReport PROVE flight[r].ticks \subseteq Ticks
    BY DEF InFlight
  <2>2. flight[r] \in Reports
    BY <1>2, <2>1 DEF TypeOK
  <2> QED
    BY <2>2 DEF Reports
<1>4. dropped' \subseteq Ticks
  BY <1>1, <1>2, <1>3 DEF TypeOK
<1>5. epoch' \in 0 .. MaxEpochs /\ flight' \in [Slots -> Reports \cup {NoReport}]
  BY <1>1, <1>2 DEF TypeOK
<1>6. TypeOK'
  BY <1>1, <1>2, <1>4, <1>5 DEF TypeOK, sessionVars, timelineVars, sleepVars, mpvVars, serverVars
<1>7. Lifecycle'
  BY <1>1 DEF Inv, Lifecycle, NewestChoice, NoneToOpen, TrackLoaded, Silenced, Queue, Tracks,
     sessionVars, timelineVars, mpvVars
<1> QED
  BY <1>6, <1>7 DEF Inv

\* accessTokenChanged
LEMMA TokenChangedKeeps ==
    ASSUME Inv, TokenChanged
    PROVE  Inv'
<1>1. /\ token < MaxTokens /\ token' = token + 1
      /\ header' = IF active /\ usesAuth THEN token + 1 ELSE header
      /\ UNCHANGED <<requestVars, sessionVars, timelineVars, sleepVars, paused, audible,
                     lateStop, mpvAt, mpvPos, posted, told, playedOut, reportVars, serverVars,
                     fateVars, progress, phase>>
  BY DEF TokenChanged
<1>2. TypeOK /\ MaxTokens \in Nat
  BY SessionAssumption DEF Inv
<1>3. token' \in 1 .. MaxTokens /\ header' \in 0 .. MaxTokens
  BY <1>1, <1>2 DEF TypeOK
<1>4. TypeOK'
  BY <1>1, <1>2, <1>3 DEF TypeOK, requestVars, sessionVars, timelineVars, sleepVars, reportVars,
     serverVars, fateVars
<1>5. Lifecycle'
  BY <1>1 DEF Inv, Lifecycle, NewestChoice, NoneToOpen, TrackLoaded, Silenced, Queue, Tracks,
     requestVars, sessionVars, timelineVars
<1> QED
  BY <1>4, <1>5 DEF Inv

\* aboutToQuit
LEMMA QuitKeeps ==
    ASSUME Inv, Quit
    PROVE  Inv'
<1>1. UNCHANGED <<requestVars, medium, completed, book, timelineVars, mpvVars, serverVars,
                  fateVars, token>>
  BY DEF Quit
<1>2. /\ TypeOK /\ Lifecycle /\ medium \in Media \cup {NoMedium} /\ completed \in BOOLEAN
      /\ NoSession \in Sessions
  BY SessionAssumption DEF Inv, TypeOK, Sessions, NoSession
<1>3. CASE active
  <2>1. CloseAs(medium, "final", completed) /\ phase' = "quitting"
    BY <1>3 DEF Quit, Close
  <2>2. /\ active' = FALSE /\ session' = NoSession
        /\ sleep' = "off" /\ sleepEnd' = 0
        /\ syncTimer' = FALSE /\ seekTimer' = "off" /\ unreported' = FALSE
        /\ listen' \in Syncers(Ticks)
        /\ flight' \in [Slots -> Reports \cup {NoReport}]
        /\ progress' \in ProgressRecords
    BY <1>2, <2>1, CloseTypes
  <2>3. TypeOK'
    BY <1>1, <1>2, <2>1, <2>2 DEF TypeOK, requestVars, timelineVars, mpvVars, serverVars, fateVars
  <2>4. Lifecycle'
    BY <1>1, <1>2, <1>3, <2>1, <2>2 DEF Lifecycle, NewestChoice, NoneToOpen, TrackLoaded, Silenced,
       Queue, Tracks, requestVars, timelineVars, mpvVars
  <2> QED
    BY <2>3, <2>4 DEF Inv
<1>4. CASE ~active
  <2>1. /\ phase' = "exited"
        /\ UNCHANGED <<active, session, progress, sleepVars, reportVars>>
    BY <1>4 DEF Quit
  <2>2. TypeOK'
    BY <1>1, <1>2, <2>1 DEF TypeOK, requestVars, timelineVars, sleepVars, mpvVars, reportVars,
       serverVars, fateVars
  <2>3. Lifecycle'
    BY <1>1, <1>2, <1>4, <2>1 DEF Lifecycle, NewestChoice, NoneToOpen, TrackLoaded, Silenced,
       Queue, Tracks, requestVars, timelineVars, mpvVars
  <2> QED
    BY <2>2, <2>3 DEF Inv
<1> QED
  BY <1>3, <1>4

\* The nested loop gives up waiting.
LEMMA QuitTimeoutKeeps ==
    ASSUME Inv, QuitTimeout
    PROVE  Inv'
<1>1. TypeOK'
  BY DEF Inv, TypeOK, QuitTimeout, requestVars, sessionVars, timelineVars, sleepVars, mpvVars,
     reportVars, serverVars, fateVars
<1>2. Lifecycle'
  BY DEF Inv, QuitTimeout, Lifecycle, NewestChoice, NoneToOpen, TrackLoaded, Silenced, Queue,
     Tracks, requestVars, sessionVars, timelineVars, mpvVars
<1> QED
  BY <1>1, <1>2 DEF Inv
-----------------------------------------------------------------------------
\* The strengthened invariant is inductive: one case per action.
LEMMA InvStep ==
    ASSUME Inv, FinalAtQuit, [Next]_vars
    PROVE  Inv'
<1>1. CASE UserStep
  <2>1. ASSUME NEW m \in Media, Play(m) PROVE Inv'
    BY <2>1, PlayKeeps
  <2>2. ASSUME NEW want \in BOOLEAN, RequestPaused(want) PROVE Inv'
    BY <2>2, RequestPausedKeeps
  <2>3. CASE TogglePlayPause
    <3>1. (~paused) \in BOOLEAN
      OBVIOUS
    <3> QED
      BY <2>3, <3>1, RequestPausedKeeps DEF TogglePlayPause
  <2>4. ASSUME active, NEW p \in 0 .. Timeline[book].duration, SeekGlobal(p) PROVE Inv'
    <3>1. Timeline[book].duration \in Nat
      BY <2>4, BookFacts DEF Inv, Lifecycle, TrackLoaded
    <3>2. p \in Int
      BY <3>1
    <3> QED
      BY <2>4, <3>2, SeekGlobalKeeps
  <2>5. ASSUME NEW delta \in {-1, 1}, Skip(delta) PROVE Inv'
    <3>1. delta \in Int
      OBVIOUS
    <3> QED
      BY <2>5, <3>1, SkipKeeps
  <2> QED
    BY <1>1, <2>1, <2>2, <2>3, <2>4, <2>5, StopAndCloseKeeps, ChapterKeysKeep, SleepKeysKeep,
       SwitchServerKeeps, QuitKeeps DEF UserStep
<1>2. CASE TimerStep
  BY <1>2, SleepTimeoutKeeps, SyncTimersKeep, QuitTimeoutKeeps DEF TimerStep
<1>3. CASE MpvStep
  BY <1>3, MpvAdvanceKeeps, MpvTellsKeeps, MpvEndFileKeeps, PlayingChangedKeeps, PositionChangedKeeps,
     HandleEofKeeps, HandleErrorKeeps DEF MpvStep
<1>4. CASE NetworkStep
  BY <1>4, PlayRefusedKeeps, PlayUnusableKeeps, PlayOpenedKeeps, ServerAppliesKeeps, AnswersKeep,
     TokenChangedKeeps DEF NetworkStep, PlayReply
<1>5. CASE Tick
  BY <1>5, TickKeeps
<1>6. CASE UNCHANGED vars
  BY <1>6, StutterKeeps
<1> QED
  BY <1>1, <1>2, <1>3, <1>4, <1>5, <1>6 DEF Next

\* The strengthened invariant, for every instance of the constants.
LEMMA SessionInvariant == Spec => [](Inv /\ FinalAtQuit)
<1>1. Init => Inv /\ FinalAtQuit
  BY InvInit DEF Init, FinalAtQuit
<1>2. Inv /\ FinalAtQuit /\ [Next]_vars => (Inv /\ FinalAtQuit)'
  BY InvStep, FinalAtQuitStep DEF Inv
<1> QED
  BY <1>1, <1>2, PTL DEF Spec

\* The state of the session has the types TypeOK gives it; that the track and
\* the accounting generation stay in range needs the rest of the invariant.
THEOREM TypeCorrect == Spec => []TypeOK
BY SessionInvariant, PTL DEF Inv

\* The open session is the one last asked for, with its own book, and no reply
\* still in flight can replace it.
THEOREM NewestPlayOpens == Spec => []OnlyTheNewestPlayOpens
<1>1. Inv => OnlyTheNewestPlayOpens
  BY DEF Inv, Lifecycle, NewestChoice, NoneToOpen, OnlyTheNewestPlayOpens
<1> QED
  BY <1>1, SessionInvariant, PTL

\* While a session is open its track is one of its book's.
THEOREM TrackAlwaysInRange == Spec => []TrackInRange
<1>1. Inv => TrackInRange
  <2>1. SUFFICES ASSUME Inv, active PROVE book \in Media /\ currentTrack \in DOMAIN Tracks
    BY DEF TrackInRange
  <2>2. book \in Media /\ currentTrack \in 1 .. Len(Tracks)
    BY <2>1 DEF Inv, Lifecycle, TrackLoaded
  <2>3. Tracks \in Seq(TrackRecords)
    BY <2>2, BookFacts DEF Tracks
  <2>4. DOMAIN Tracks = 1 .. Len(Tracks)
    BY <2>3
  <2> QED
    BY <2>2, <2>4
<1> QED
  BY <1>1, SessionInvariant, PTL

\* mpv plays nothing that no session accounts for, except while the application
\* is shutting down.
THEOREM NothingPlaysUntracked == Spec => []NoUntrackedAudio
<1>1. Inv => NoUntrackedAudio
  BY DEF Inv, Lifecycle, Silenced, NoUntrackedAudio
<1> QED
  BY <1>1, SessionInvariant, PTL

\* The bearer token is sent for files of the server's own origin only, and while
\* a session is open it is the newest one.
THEOREM BearerOnlyHome == Spec => []BearerStaysHome
<1>1. Inv => BearerStaysHome
  BY DEF Inv, Lifecycle, TrackLoaded, Queue, BearerStaysHome, Tracks
<1> QED
  BY <1>1, SessionInvariant, PTL

\* No session is opened behind the final close of a shutdown.
THEOREM QuitClosesForGood == Spec => []QuitLeavesNoSession
<1>1. Inv => QuitLeavesNoSession
  BY DEF Inv, Lifecycle, Silenced, QuitLeavesNoSession
<1> QED
  BY <1>1, SessionInvariant, PTL
-----------------------------------------------------------------------------
\* The progress of an item is recorded when its session closes and at no other
\* time, as finished only behind the end of the last file.
ProgressStep ==
    \/ UNCHANGED progress
    \/ active /\ \E kind \in {"close", "final"} : CloseAs(medium, kind, completed)
    \/ HandleEof /\ FinishBook

\* ProgressStep holds of every step: one case per action.
LEMMA ProgressSteps == ASSUME [Next]_vars PROVE ProgressStep
<1>1. CASE UserStep
  <2>1. ASSUME NEW p, SeekGlobal(p) PROVE UNCHANGED progress
    BY <2>1 DEF SeekGlobal
  <2>2. ASSUME NEW m \in Media, Play(m) PROVE ProgressStep
    BY <2>2 DEF Play, Close, ProgressStep
  <2>3. ASSUME StopAndClose \/ Quit PROVE ProgressStep
    BY <2>3 DEF StopAndClose, Quit, Close, ProgressStep
  <2>4. ASSUME \/ \E want \in BOOLEAN : RequestPaused(want)
               \/ TogglePlayPause
               \/ \E on \in BOOLEAN : SetSleepTimer(on)
               \/ SetSleepAtChapterEnd \/ CycleSleepTimer \/ SwitchServer
        PROVE  UNCHANGED progress
    BY <2>4 DEF RequestPaused, TogglePlayPause, SetSleepTimer, SetSleepAtChapterEnd,
       CycleSleepTimer, SleepFor, SwitchServer
  <2>5. ASSUME NextChapter \/ PreviousChapter \/ \E delta \in {-1, 1} : Skip(delta)
        PROVE  UNCHANGED progress
    BY <2>1, <2>5 DEF NextChapter, PreviousChapter, Skip
  <2> QED
    BY <1>1, <2>1, <2>2, <2>3, <2>4, <2>5 DEF UserStep, ProgressStep
<1>2. CASE TimerStep
  BY <1>2 DEF TimerStep, SleepTimeout, QuitTimeout, SyncTimeout, SeekSyncTimeout, ProgressStep
<1>3. CASE MpvStep
  <2>1. ASSUME \/ MpvAdvance \/ MpvTells \/ PositionChanged \/ \E event \in {"eof", "error"} : MpvEndFile(event)
               \/ \E playing \in BOOLEAN : PlayingChanged(playing)
        PROVE  UNCHANGED progress
    BY <2>1 DEF MpvAdvance, MpvTells, PositionChanged, MpvEndFile, PlayingChanged
  <2>2. CASE HandleEof
    BY <2>2 DEF HandleEof, NextTrack, ProgressStep
  <2>3. CASE HandleError
    BY <2>3 DEF HandleError, Close, ProgressStep
  <2> QED
    BY <1>3, <2>1, <2>2, <2>3 DEF MpvStep, ProgressStep
<1>4. CASE NetworkStep
  BY <1>4 DEF NetworkStep, PlayReply, PlayRefused, PlayUnusable, PlayOpened, ServerApplies,
     ReportSucceeds, ReportFails, Answered, TokenChanged, ProgressStep
<1>5. CASE Tick \/ UNCHANGED vars
  BY <1>5 DEF Tick, vars, ProgressStep
<1> QED
  BY <1>1, <1>2, <1>3, <1>4, <1>5 DEF Next

\* Progress is recorded under the medium whose book is loaded, also when the next
\* medium has been chosen: the identity changes with the close or after it.
THEOREM ProgressOfItsOwn == Spec => []ProgressAttribution
<1>1. Init => ProgressAttribution
  BY DEF Init, NoProgress, ProgressAttribution
<1>2. Inv /\ ProgressAttribution /\ [Next]_vars => ProgressAttribution'
  <2> SUFFICES ASSUME Inv, ProgressAttribution, [Next]_vars PROVE ProgressAttribution'
    OBVIOUS
  <2>1. ASSUME NEW kind, NEW finished, active, CloseAs(medium, kind, finished)
        PROVE  ProgressAttribution'
    <3>1. book = medium
      BY <2>1 DEF Inv, Lifecycle, NewestChoice
    <3>2. \/ UNCHANGED progress
          \/ progress' = [medium |-> medium, book |-> book, finished |-> finished, of |-> session]
      BY <2>1 DEF CloseAs
    <3> QED
      BY <3>1, <3>2 DEF ProgressAttribution
  <2>2. ProgressStep
    BY ProgressSteps
  <2> QED
    BY <2>1, <2>2 DEF ProgressStep, FinishBook, Close, ProgressAttribution
<1> QED
  BY <1>1, <1>2, SessionInvariant, PTL DEF Spec
-----------------------------------------------------------------------------
(* The order of mpv's events *)

\* When no input falls between an event and its handling, the timeline is behind
\* mpv by exactly the events posted, within one run of files.
Contiguous(run) == \A i, k \in run : \A j \in i .. k : j \in run

InStep ==
    /\ ~completed
    /\ currentTrack \in queued
    /\ mpvAt # 0 => mpvAt = currentTrack + Len(posted)
    /\ mpvAt = 0 => /\ posted # <<>>
                    /\ currentTrack + Len(posted) \notin queued
                    /\ currentTrack + Len(posted) - 1 \in queued
    /\ \A k \in DOMAIN posted :
          posted[k] = "eof" /\ currentTrack + k = Len(Tracks) + 1 => session \in playedOut

Order == Contiguous(queued) /\ (active => InStep) /\ FinishedMeansPlayedOut

\* Whatever is queued at a load is queued without a gap.
LEMMA RunContiguous ==
    ASSUME NEW tracks, NEW i \in Nat
    PROVE  Contiguous(SamePolicyRun(tracks, i))
<1> SUFFICES ASSUME NEW a \in SamePolicyRun(tracks, i), NEW b \in SamePolicyRun(tracks, i),
                    NEW c \in a .. b
             PROVE  c \in SamePolicyRun(tracks, i)
  BY DEF Contiguous
<1>1. /\ a \in i .. Len(tracks) /\ b \in i .. Len(tracks) /\ c \in i .. b
      /\ \A j \in i .. b : tracks[j].home = tracks[i].home
  BY DEF SamePolicyRun
<1>2. c \in i .. Len(tracks)
  BY <1>1
<1>3. \A j \in i .. c : j \in i .. b
  BY <1>1
<1> QED
  BY <1>1, <1>2, <1>3 DEF SamePolicyRun

\* A file is loaded with nothing posted: mpv is at it.
LEMMA LoadInStep ==
    ASSUME TypeOK, NEW m \in Media, NEW p \in Int, NEW autoplay \in BOOLEAN,
           Load(m, p, autoplay), posted' = <<>>, completed' = FALSE
    PROVE  Contiguous(queued') /\ InStep'
<1>1. /\ currentTrack' \in 1 .. Len(Timeline[m].tracks)
      /\ mpvAt' = currentTrack' /\ mpvAt' \in queued'
  BY LoadEffect
<1>2. Len(Timeline[m].tracks) \in Nat
  BY BookFacts
<1>3. currentTrack' \in Nat \ {0}
  BY <1>1, <1>2
<1>4. queued' = SamePolicyRun(Timeline[m].tracks, currentTrack')
  BY DEF Load
<1>5. Contiguous(queued')
  BY <1>3, <1>4, RunContiguous
<1>6. Len(posted') = 0 /\ DOMAIN posted' = {}
  OBVIOUS
<1> QED
  BY <1>1, <1>3, <1>5, <1>6 DEF InStep

\* Most steps leave the order alone.
LEMMA OrderKept ==
    ASSUME Order, UNCHANGED <<queued, completed, currentTrack, mpvAt, posted, playedOut,
                              progress>>,
           active' => active /\ UNCHANGED <<book, session>>
    PROVE  Order'
BY DEF Order, InStep, FinishedMeansPlayedOut, Tracks

\* A session that is closed before it is played out is not recorded as finished.
LEMMA ClosedInOrder ==
    ASSUME Order, active, NEW kind, CloseAs(medium, kind, completed), UNCHANGED <<queued, playedOut>>
    PROVE  Order'
<1>1. ~completed /\ active' = FALSE
  BY DEF Order, InStep, CloseAs
<1>2. \/ UNCHANGED progress
      \/ progress' = [medium |-> medium, book |-> book, finished |-> completed, of |-> session]
  BY DEF CloseAs
<1>3. FinishedMeansPlayedOut'
  BY <1>1, <1>2 DEF Order, FinishedMeansPlayedOut
<1> QED
  BY <1>1, <1>3 DEF Order, Contiguous

\* A seek handled with nothing posted: within the file, or a load.
LEMMA SeekInOrder ==
    ASSUME Inv, Order, active, active' = active, NEW p \in Nat, NEW isPaused \in BOOLEAN,
           SeekTo(p, isPaused), posted = <<>>,
           UNCHANGED <<posted, completed, book, session, playedOut, progress>>
    PROVE  Order'
<1>1. book \in Media /\ TypeOK
  BY DEF Inv, Lifecycle, TrackLoaded
<1>2. CASE UNCHANGED <<currentTrack, queued, mpvAt>>
  BY <1>2, OrderKept
<1>3. CASE Load(book, p, ~isPaused)
  <2>1. (~isPaused) \in BOOLEAN /\ p \in Int /\ posted' = <<>> /\ completed' = FALSE
    BY DEF Order, InStep, Inv, TypeOK
  <2>2. Contiguous(queued') /\ InStep'
    BY <1>1, <1>3, <2>1, LoadInStep
  <2> QED
    BY <2>2 DEF Order, FinishedMeansPlayedOut
<1> QED
  BY <1>2, <1>3 DEF SeekTo

\* mpv ends a file: one more event is posted, and mpv is one file further.
LEMMA EndFileInOrder ==
    ASSUME Inv, Order, NEW event \in {"eof", "error"}, MpvEndFile(event)
    PROVE  Order'
<1>1. /\ mpvAt # 0 /\ posted' = Append(posted, event)
      /\ mpvAt' = IF mpvAt + 1 \in queued THEN mpvAt + 1 ELSE 0
      /\ playedOut' = IF event = "eof" /\ mpvAt = Len(Tracks) THEN playedOut \cup {session} ELSE playedOut
      /\ UNCHANGED <<queued, completed, currentTrack, progress, active, book, session>>
  BY DEF MpvEndFile, sessionVars, timelineVars
<1>2. /\ posted \in Seq({"eof", "error"}) /\ Len(posted) \in Nat
      /\ mpvAt \in Nat /\ currentTrack \in Nat /\ queued \subseteq Nat
  BY DEF Inv, TypeOK
<1>3. Contiguous(queued)' /\ FinishedMeansPlayedOut'
  BY <1>1 DEF Order, Contiguous, FinishedMeansPlayedOut
<1>4. ASSUME active PROVE InStep'
  <2>1. mpvAt = currentTrack + Len(posted) /\ InStep
    BY <1>1, <1>4 DEF Order, InStep
  <2>2. mpvAt \in queued /\ posted' # <<>> /\ Len(posted') = Len(posted) + 1
    BY <1>1, <1>2 DEF Inv, Lifecycle, Queue
  <2>3. mpvAt' # 0 => mpvAt' = currentTrack' + Len(posted')
    BY <1>1, <1>2, <2>1, <2>2
  <2>4. mpvAt' = 0 => /\ currentTrack' + Len(posted') \notin queued'
                      /\ currentTrack' + Len(posted') - 1 \in queued'
    BY <1>1, <1>2, <2>1, <2>2
  <2>5. ASSUME NEW k \in DOMAIN posted', posted'[k] = "eof", currentTrack + k = Len(Tracks) + 1
        PROVE  session \in playedOut'
    <3>1. CASE k \in DOMAIN posted
      <4>1. posted'[k] = posted[k]
        BY <1>1, <1>2, <3>1
      <4>2. session \in playedOut
        BY <2>1, <2>5, <3>1, <4>1 DEF InStep
      <4> QED
        BY <1>1, <4>2
    <3>2. CASE k \notin DOMAIN posted
      <4>1. k = Len(posted) + 1 /\ posted'[k] = event
        BY <1>1, <1>2, <3>2
      <4>2. currentTrack + k = mpvAt + 1
        BY <1>2, <2>1, <4>1
      <4>3. Len(Tracks) = mpvAt
        <5>1. Len(Tracks) \in Nat
          BY <1>4, BookFacts DEF Inv, Lifecycle, TrackLoaded, Tracks
        <5> QED
          BY <1>2, <2>5, <4>2, <5>1
      <4> QED
        BY <1>1, <2>5, <4>1, <4>3
    <3> QED
      BY <3>1, <3>2
  <2>6. ~completed' /\ currentTrack' \in queued' /\ Tracks' = Tracks
    BY <1>1, <2>1 DEF InStep, Tracks
  <2> QED
    BY <1>1, <2>2, <2>3, <2>4, <2>5, <2>6 DEF InStep
<1> QED
  BY <1>1, <1>3, <1>4 DEF Order

\* For a fresh name: rewriting posted itself would reach into posted'.
LEMMA NothingPosted == ASSUME NEW q, q = <<>> PROVE Len(q) = 0
  OBVIOUS

\* onEndOfFile() of a file that is not the last.
LEMMA NextTrackInOrder ==
    ASSUME Inv, Order, posted # <<>>, posted' = Tail(posted), NextTrack,
           UNCHANGED <<book, playedOut>>
    PROVE  Order'
<1>1. /\ active /\ InStep /\ book \in Media /\ TypeOK
      /\ UNCHANGED <<active, session, completed, progress>>
  BY DEF NextTrack, Order, Inv, Lifecycle, TrackLoaded
<1>2. /\ posted \in Seq({"eof", "error"}) /\ Len(posted) \in Nat \ {0}
      /\ mpvAt \in Nat /\ currentTrack \in Nat /\ queued \subseteq Nat
  BY DEF Inv, TypeOK
<1>3. /\ posted' \in Seq({"eof", "error"}) /\ Len(posted') = Len(posted) - 1
      /\ \A k \in DOMAIN posted' : k + 1 \in DOMAIN posted /\ posted'[k] = posted[k + 1] /\ k \in Nat
  BY <1>2
<1>4. Contiguous(queued) /\ FinishedMeansPlayedOut /\ FinishedMeansPlayedOut'
  BY <1>1 DEF Order, FinishedMeansPlayedOut
<1>5. CASE currentTrack + 1 \in queued
  <2>1. currentTrack' = currentTrack + 1 /\ UNCHANGED <<queued, mpvAt>>
    BY <1>5 DEF NextTrack
  <2>2. currentTrack' + Len(posted') = currentTrack + Len(posted)
    BY <1>2, <1>3, <2>1
  <2>3. mpvAt = 0 => posted' # <<>>
    <3>1. SUFFICES ASSUME mpvAt = 0, posted' = <<>> PROVE FALSE
      OBVIOUS
    <3>2. Len(posted') = 0
      BY <3>1, NothingPosted
    <3>3. Len(posted) = 1
      BY <1>2, <1>3, <3>2
    <3> QED
      BY <1>1, <1>5, <3>1, <3>3 DEF InStep
  <2>4. ASSUME NEW k \in DOMAIN posted', posted'[k] = "eof", currentTrack' + k = Len(Tracks) + 1
        PROVE  session \in playedOut
    <3>1. k + 1 \in DOMAIN posted /\ posted[k + 1] = "eof" /\ currentTrack + (k + 1) = Len(Tracks) + 1
      BY <1>2, <1>3, <2>1, <2>4
    <3> QED
      BY <1>1, <3>1 DEF InStep
  <2>5. Tracks' = Tracks
    BY DEF Tracks
  <2>6. mpvAt' # 0 => mpvAt' = currentTrack' + Len(posted')
    BY <1>1, <2>1, <2>2 DEF InStep
  <2>7. mpvAt' = 0 => /\ posted' # <<>>
                      /\ currentTrack' + Len(posted') \notin queued'
                      /\ currentTrack' + Len(posted') - 1 \in queued'
    <3>1. mpvAt = 0 => /\ currentTrack + Len(posted) \notin queued
                       /\ currentTrack + Len(posted) - 1 \in queued
      BY <1>1 DEF InStep
    <3>2. mpvAt' = mpvAt /\ queued' = queued
      BY <2>1
    <3>3. /\ mpvAt' = 0 => currentTrack' + Len(posted') \notin queued'
          /\ mpvAt' = 0 => currentTrack' + Len(posted') - 1 \in queued'
      <4>1. currentTrack' + Len(posted') - 1 = currentTrack + Len(posted) - 1
        BY <1>2, <1>3, <2>1
      <4> QED
        BY <2>2, <3>1, <3>2, <4>1, Zenon
    <3> QED
      BY <2>3, <3>2, <3>3
  <2>8. ~completed' /\ currentTrack' \in queued'
    BY <1>1, <1>5, <2>1 DEF InStep
  <2>9. InStep'
    BY <1>1, <2>4, <2>5, <2>6, <2>7, <2>8 DEF InStep
  <2> QED
    BY <1>4, <2>1, <2>9 DEF Order, Contiguous
<1>6. CASE currentTrack + 1 \notin queued
  <2>1. Load(book, Tracks[currentTrack + 1].start, TRUE) /\ TRUE \in BOOLEAN
    BY <1>6 DEF NextTrack
  <2>2. Tracks[currentTrack + 1].start \in Int
    <3>1. Len(Tracks) \in Nat /\ ~ (currentTrack >= Len(Tracks))
      BY <1>1, BookFacts DEF NextTrack, OnLastTrack, Tracks
    <3>2. currentTrack + 1 \in 1 .. Len(Tracks)
      BY <1>2, <3>1
    <3> QED
      BY <1>1, <3>2, BookFacts DEF Tracks
  <2>3. posted' = <<>>
    <3>1. SUFFICES ASSUME posted' # <<>> PROVE FALSE
      OBVIOUS
    <3>2. Len(posted') # 0
      BY <1>3, <3>1
    <3>3. Len(posted) >= 2
      BY <1>2, <1>3, <3>2
    <3>4. \E k \in queued : k >= currentTrack + 1
      <4>1. CASE mpvAt # 0
        <5>1. mpvAt \in queued /\ mpvAt = currentTrack + Len(posted)
          BY <1>1, <4>1 DEF InStep, Inv, Lifecycle, Queue
        <5> QED
          BY <1>2, <5>1
      <4>2. CASE mpvAt = 0
        <5>1. currentTrack + Len(posted) - 1 \in queued
          BY <1>1, <4>2 DEF InStep
        <5> QED
          BY <1>2, <3>3, <5>1
      <4> QED
        BY <4>1, <4>2
    <3>5. PICK k \in queued : k >= currentTrack + 1
      BY <3>4
    <3>6. currentTrack + 1 \in currentTrack .. k
      BY <1>2, <3>5
    <3> QED
      BY <1>1, <1>4, <1>6, <3>5, <3>6 DEF Contiguous, InStep
  <2>4. completed' = FALSE
    BY <1>1 DEF InStep, TypeOK
  <2>5. Contiguous(queued') /\ InStep'
    BY <1>1, <2>1, <2>2, <2>3, <2>4, LoadInStep
  <2> QED
    BY <1>4, <2>5 DEF Order
<1> QED
  BY <1>5, <1>6

\* onEndOfFile(): the last file has been played out when its end comes up.
LEMMA HandleEofInOrder ==
    ASSUME Inv, Order, HandleEof
    PROVE  Order'
<1>1. /\ posted # <<>> /\ Head(posted) = "eof" /\ posted' = Tail(posted)
      /\ UNCHANGED <<book, playedOut>>
  BY DEF HandleEof
<1>2. CASE NextTrack
  BY <1>1, <1>2, NextTrackInOrder
<1>3. CASE FinishBook
  <2>1. active /\ InStep /\ OnLastTrack /\ CloseAs(medium, "close", TRUE) /\ UNCHANGED queued
    BY <1>3 DEF FinishBook, Close, Order
  <2>2. session \in playedOut
    <3>1. posted \in Seq({"eof", "error"}) /\ currentTrack \in Nat
      BY DEF Inv, TypeOK
    <3>2. 1 \in DOMAIN posted /\ posted[1] = "eof"
      BY <1>1, <3>1
    <3>3. book \in Media /\ currentTrack \in 1 .. Len(Tracks)
      BY <2>1 DEF Inv, Lifecycle, TrackLoaded
    <3>4. Len(Tracks) \in Nat
      BY <3>3, BookFacts DEF Tracks
    <3>5. currentTrack + 1 = Len(Tracks) + 1
      BY <2>1, <3>3, <3>4 DEF OnLastTrack
    <3> QED
      BY <2>1, <3>2, <3>5 DEF InStep
  <2>3. \/ UNCHANGED progress
        \/ progress' = [medium |-> medium, book |-> book, finished |-> TRUE, of |-> session]
    BY <2>1 DEF CloseAs
  <2>4. FinishedMeansPlayedOut'
    BY <1>1, <2>2, <2>3 DEF Order, FinishedMeansPlayedOut
  <2>5. active' = FALSE
    BY <2>1 DEF CloseAs
  <2> QED
    BY <2>1, <2>4, <2>5 DEF Order, Contiguous
<1>4. CASE ~active
  <2>1. UNCHANGED <<active, queued, progress>>
    BY <1>4 DEF HandleEof, NextTrack, FinishBook
  <2> QED
    BY <1>1, <1>4, <2>1 DEF Order, Contiguous, FinishedMeansPlayedOut
<1> QED
  BY <1>2, <1>3, <1>4 DEF HandleEof

\* A new session starts in step.
LEMMA PlayOpenedInOrder ==
    ASSUME ~InputRaces, Inv, Order,
           NEW play \in plays, NEW resume \in 0 .. Timeline[play[2]].duration,
           PlayOpened(play, resume)
    PROVE  Order'
<1>1. TypeOK /\ play[2] \in Media
  BY DEF Inv, TypeOK
<1>2. resume \in Int /\ TRUE \in BOOLEAN
  BY <1>1, BookFacts
<1>3. /\ Load(play[2], resume, TRUE) /\ posted' = <<>> /\ completed' = FALSE
      /\ UNCHANGED <<playedOut, progress>>
  BY DEF PlayOpened
<1>4. Contiguous(queued') /\ InStep'
  BY <1>1, <1>2, <1>3, LoadInStep
<1> QED
  BY <1>3, <1>4 DEF Order, FinishedMeansPlayedOut

\* onMpvPosition(): a jump back onto the end of a chapter is a seek.
LEMMA PositionInOrder ==
    ASSUME Inv, Order, PositionChanged
    PROVE  Order'
<1>1. /\ posted = <<>>
      /\ UNCHANGED <<active, posted, completed, book, session, playedOut, progress>>
  BY DEF PositionChanged, sessionVars
<1>2. CASE UNCHANGED <<currentTrack, queued, mpvAt>>
  BY <1>1, <1>2, OrderKept
<1>3. CASE active /\ SeekTo(sleepEnd, TRUE)
  <2>1. sleepEnd \in Nat /\ TRUE \in BOOLEAN
    BY DEF Inv, TypeOK
  <2> QED
    BY <1>1, <1>3, <2>1, SeekInOrder
<1> QED
  BY <1>2, <1>3 DEF PositionChanged, timelineVars

\* One case per action, for a session that takes no input before mpv's events.
LEMMA OrderStep ==
    ASSUME ~InputRaces, Inv, Order, [Next]_vars
    PROVE  Order'
<1>1. CASE UserStep
  <2>1. ASSUME NEW p \in Int, SeekGlobal(p) PROVE Order'
    <3>1. /\ active /\ posted = <<>> /\ paused \in BOOLEAN
          /\ SeekTo(Clamp(p, Timeline[book].duration), paused)
          /\ UNCHANGED <<active, posted, completed, book, session, playedOut, progress>>
      BY <2>1 DEF SeekGlobal, Input, Inv, TypeOK, sessionVars
    <3>2. Timeline[book].duration \in Nat
      BY <3>1, BookFacts DEF Inv, Lifecycle, TrackLoaded
    <3> DEFINE target == Clamp(p, Timeline[book].duration)
    <3>3. target \in 0 .. Timeline[book].duration
      BY <3>2, ClampInBook
    <3> HIDE DEF target
    <3>4. target \in Nat
      BY <3>2, <3>3
    <3>5. SeekTo(target, paused)
      BY <3>1 DEF target
    <3> QED
      BY <3>1, <3>4, <3>5, SeekInOrder
  <2>2. ASSUME NEW m \in Media, Play(m) PROVE Order'
    <3>1. UNCHANGED <<queued, completed, currentTrack, posted, playedOut, book>>
      BY <2>2 DEF Play, timelineVars
    <3>2. CASE active
      BY <2>2, <3>1, <3>2, ClosedInOrder DEF Play, Close
    <3>3. CASE ~active
      BY <2>2, <3>1, <3>3, OrderKept DEF Play
    <3> QED
      BY <3>2, <3>3
  <2>3. ASSUME StopAndClose \/ Quit PROVE Order'
    <3>1. UNCHANGED <<queued, completed, currentTrack, posted, playedOut, book>>
      BY <2>3 DEF StopAndClose, Quit, timelineVars, mpvVars
    <3>2. CASE active
      BY <2>3, <3>1, <3>2, ClosedInOrder DEF StopAndClose, Quit, Close
    <3>3. CASE ~active
      BY <2>3, <3>1, <3>3, OrderKept DEF StopAndClose, Quit, mpvVars
    <3> QED
      BY <3>2, <3>3
  <2>4. ASSUME \/ \E want \in BOOLEAN : RequestPaused(want)
               \/ TogglePlayPause
               \/ \E on \in BOOLEAN : SetSleepTimer(on)
               \/ SetSleepAtChapterEnd \/ CycleSleepTimer \/ SwitchServer
        PROVE  Order'
    <3>1. UNCHANGED <<queued, completed, currentTrack, mpvAt, posted, playedOut, progress,
                      active, book, session>>
      BY <2>4 DEF RequestPaused, TogglePlayPause, SetSleepTimer, SetSleepAtChapterEnd,
         CycleSleepTimer, SleepFor, SwitchServer, timelineVars, mpvVars, sessionVars
    <3> QED
      BY <3>1, OrderKept
  <2>5. ASSUME NEW delta \in Int, Skip(delta) PROVE Order'
    <3>1. position + delta \in Int
      BY DEF Inv, TypeOK
    <3> QED
      BY <2>1, <2>5, <3>1 DEF Skip
  <2>6. ASSUME NextChapter \/ PreviousChapter PROVE Order'
    <3>1. /\ book \in Media /\ position \in Nat
          /\ Timeline[book] \in BookRecords /\ FallbackSkip \in Int /\ (-FallbackSkip) \in Int
      BY <2>6, BookFacts, SessionAssumption
         DEF NextChapter, PreviousChapter, Inv, TypeOK, Lifecycle, TrackLoaded
    <3>2. /\ LaterStarts(Timeline[book], position) # {} =>
               Min(LaterStarts(Timeline[book], position)) \in Int
          /\ PreviousTarget(Timeline[book], position) \in Int
      BY <3>1, NextStartAhead, StartsNat, PreviousStartBehind
    <3> QED
      BY <2>1, <2>5, <2>6, <3>1, <3>2 DEF NextChapter, PreviousChapter
  <2>7. ASSUME active, NEW p \in 0 .. Timeline[book].duration, SeekGlobal(p) PROVE Order'
    <3>1. p \in Int
      BY <2>7, BookFacts DEF Inv, Lifecycle, TrackLoaded
    <3> QED
      BY <2>1, <2>7, <3>1
  <2>8. \A delta \in {-1, 1} : delta \in Int
    OBVIOUS
  <2> QED
    BY <1>1, <2>2, <2>3, <2>4, <2>5, <2>6, <2>7, <2>8 DEF UserStep
<1>2. CASE TimerStep
  <2>1. UNCHANGED <<queued, completed, currentTrack, mpvAt, posted, playedOut, progress,
                    active, book, session>>
    BY <1>2 DEF TimerStep, SleepTimeout, QuitTimeout, SyncTimeout, SeekSyncTimeout,
       timelineVars, mpvVars, sessionVars
  <2> QED
    BY <2>1, OrderKept
<1>3. CASE MpvStep
  <2>1. ASSUME MpvAdvance \/ MpvTells \/ \E playing \in BOOLEAN : PlayingChanged(playing)
        PROVE  Order'
    <3>1. UNCHANGED <<queued, completed, currentTrack, mpvAt, posted, playedOut, progress,
                      active, book, session>>
      BY <2>1 DEF MpvAdvance, MpvTells, PlayingChanged, timelineVars, sessionVars
    <3> QED
      BY <3>1, OrderKept
  <2>2. CASE HandleError
    <3>1. UNCHANGED <<queued, completed, currentTrack, playedOut, book>>
      BY <2>2 DEF HandleError, timelineVars
    <3>2. CASE active
      BY <2>2, <3>1, <3>2, ClosedInOrder DEF HandleError, Close
    <3>3. CASE ~active
      BY <2>2, <3>1, <3>3 DEF HandleError, Order, Contiguous, FinishedMeansPlayedOut
    <3> QED
      BY <3>2, <3>3
  <2> QED
    BY <1>3, <2>1, <2>2, EndFileInOrder, HandleEofInOrder, PositionInOrder DEF MpvStep
<1>4. CASE NetworkStep
  <2>1. ASSUME NEW play \in plays, PlayRefused(play) \/ PlayUnusable(play) PROVE Order'
    <3>1. /\ UNCHANGED <<queued, completed, currentTrack, mpvAt, posted, playedOut,
                         progress, active>>
          /\ active => UNCHANGED <<book, session>>
      BY <2>1 DEF PlayRefused, PlayUnusable, Newest, Inv, Lifecycle, NewestChoice, NoneToOpen,
         timelineVars, mpvVars, sessionVars
    <3> QED
      BY <3>1, OrderKept
  <2>2. ASSUME TokenChanged \/ \E r \in Slots : ServerApplies(r) \/ ReportSucceeds(r) \/ ReportFails(r)
        PROVE  Order'
    <3>1. UNCHANGED <<queued, completed, currentTrack, mpvAt, posted, playedOut, progress,
                      active, book, session>>
      BY <2>2 DEF TokenChanged, ServerApplies, ReportSucceeds, ReportFails, Answered,
         timelineVars, mpvVars, sessionVars
    <3> QED
      BY <3>1, OrderKept
  <2> QED
    BY <1>4, <2>1, <2>2, PlayOpenedInOrder DEF NetworkStep, PlayReply
<1>5. CASE Tick \/ UNCHANGED vars
  <2>1. UNCHANGED <<queued, completed, currentTrack, mpvAt, posted, playedOut, progress,
                    active, book, session>>
    BY <1>5 DEF Tick, vars, timelineVars, mpvVars, sessionVars
  <2> QED
    BY <2>1, OrderKept
<1> QED
  BY <1>1, <1>2, <1>3, <1>4, <1>5 DEF Next

\* Order is inductive, given Inv.
LEMMA OrderInvariant ==
    ASSUME ~InputRaces
    PROVE  Spec => []Order
<1>1. Init => Order
  BY DEF Init, NoProgress, Order, Contiguous, FinishedMeansPlayedOut
<1>2. Inv /\ Order /\ [Next]_vars => Order'
  BY OrderStep
<1> QED
  BY <1>1, <1>2, SessionInvariant, PTL DEF Spec

\* Once mpv's events are handled the track the timeline is mapped by is the file
\* mpv plays, for any book, when no input is handled before an event posted earlier.
THEOREM TimelineInStep ==
    ASSUME ~InputRaces
    PROVE  Spec => []TrackInSync
<1>1. Inv /\ Order => TrackInSync
  <2> SUFFICES ASSUME Inv, Order, active, posted = <<>>, mpvAt # 0 PROVE currentTrack = mpvAt
    BY DEF TrackInSync
  <2>1. mpvAt = currentTrack + Len(posted) /\ currentTrack \in Nat
    BY DEF Order, InStep, Inv, TypeOK
  <2>2. Len(posted) = 0
    BY NothingPosted
  <2> QED
    BY <2>1, <2>2
<1> QED
  BY <1>1, OrderInvariant, SessionInvariant, PTL

\* A book is recorded as finished only if mpv has played it out, on the same terms.
THEOREM FinishedWhenPlayedOut ==
    ASSUME ~InputRaces
    PROVE  Spec => []FinishedMeansPlayedOut
<1>1. Order => FinishedMeansPlayedOut
  BY DEF Order
<1> QED
  BY <1>1, OrderInvariant, PTL
-----------------------------------------------------------------------------
(* The chapter keys *)

\* What the server describes: no chapter starts behind the end of its book.
ChaptersWithin == \A m \in Media : \A s \in Starts(Timeline[m]) : s <= Timeline[m].duration

\* A seek that is allowed goes where it is told, within the book.
LEMMA SeekLands ==
    ASSUME Inv, NEW p \in Int, SeekGlobal(p)
    PROVE  /\ active /\ book \in Media /\ position \in Nat
           /\ Timeline[book] \in BookRecords /\ Timeline[book].duration \in Nat
           /\ position' = Clamp(p, Timeline[book].duration)
           /\ UNCHANGED book
<1>1. active /\ position' = Clamp(p, Timeline[book].duration) /\ UNCHANGED book
  BY DEF SeekGlobal, SeekTo, sessionVars
<1>2. book \in Media /\ position \in Nat
  BY <1>1 DEF Inv, TypeOK, Lifecycle, TrackLoaded
<1> QED
  BY <1>1, <1>2, BookFacts

\* nextChapter(): the target is ahead, and within the book.
LEMMA NextLands ==
    ASSUME ChaptersWithin, Inv, NextChapter
    PROVE  \/ position' > position
           \/ Timeline[book].chapters = <<>> /\ position' = Timeline[book].duration
<1>1. active /\ book \in Media /\ position \in Nat /\ Timeline[book] \in BookRecords
  BY BookFacts DEF NextChapter, Inv, TypeOK, Lifecycle, TrackLoaded
<1>2. CASE Timeline[book].chapters = <<>>
  <2>1. FallbackSkip \in Nat \ {0} /\ position + FallbackSkip \in Int
    BY <1>1, SessionAssumption
  <2>2. SeekGlobal(position + FallbackSkip)
    BY <1>2 DEF NextChapter, Skip
  <2>3. /\ position' = Clamp(position + FallbackSkip, Timeline[book].duration)
        /\ Timeline[book].duration \in Nat
    BY <2>1, <2>2, SeekLands
  <2> QED
    BY <1>1, <1>2, <2>1, <2>3 DEF Clamp
<1>3. CASE Timeline[book].chapters # <<>>
  <2> DEFINE target == Min(LaterStarts(Timeline[book], position))
  <2>1. LaterStarts(Timeline[book], position) # {} /\ SeekGlobal(target)
    BY <1>3 DEF NextChapter
  <2>2. target \in Starts(Timeline[book]) /\ target > position
    BY <1>1, <2>1, NextStartAhead
  <2>3. target \in Nat /\ target <= Timeline[book].duration
    BY <1>1, <2>2, StartsNat DEF ChaptersWithin
  <2> HIDE DEF target
  <2>4. position' = Clamp(target, Timeline[book].duration) /\ Timeline[book].duration \in Nat
    BY <2>1, <2>3, SeekLands
  <2> QED
    BY <1>1, <2>2, <2>3, <2>4 DEF Clamp
<1> QED
  BY <1>2, <1>3

\* previousChapter(): the target is a start, and within the book.
LEMMA PreviousLands ==
    ASSUME ChaptersWithin, Inv, PreviousChapter, Timeline[book].chapters # <<>>
    PROVE  /\ position' \in Starts(Timeline[book]) \cup {0}
           /\ position' <= position + JumpMargin
<1>1. active /\ book \in Media /\ position \in Nat /\ Timeline[book] \in BookRecords
  BY BookFacts DEF PreviousChapter, Inv, TypeOK, Lifecycle, TrackLoaded
<1> DEFINE target == PreviousTarget(Timeline[book], position)
<1>2. SeekGlobal(target)
  BY DEF PreviousChapter
<1>3. /\ target \in Starts(Timeline[book]) \cup {0}
      /\ target \in Nat /\ target <= position + JumpMargin
  BY <1>1, PreviousStartBehind
<1> HIDE DEF target
<1>4. position' = Clamp(target, Timeline[book].duration) /\ Timeline[book].duration \in Nat
  BY <1>2, <1>3, SeekLands
<1>5. target <= Timeline[book].duration
  BY <1>1, <1>3, <1>4 DEF ChaptersWithin
<1>6. position' = target
  BY <1>3, <1>4, <1>5 DEF Clamp
<1> QED
  BY <1>3, <1>6

\* Next never goes back and Previous lands on a start, at every boundary, in a
\* gap and past the last chapter, for any book whose chapters start within it.
THEOREM ChapterKeys ==
    ASSUME ChaptersWithin
    PROVE  Spec => ChapterKeysLand
<1>1. Inv /\ [Next]_vars => [NextChapter => \/ position' > position
                                           \/ /\ Timeline[book].chapters = <<>>
                                              /\ position' = Timeline[book].duration]_vars
  BY NextLands
<1>2. Inv /\ [Next]_vars
      => [PreviousChapter /\ Timeline[book].chapters # <<>>
          => /\ position' \in Starts(Timeline[book]) \cup {0}
             /\ position' <= position + JumpMargin]_vars
  BY PreviousLands
<1> QED
  BY <1>1, <1>2, SessionInvariant, PTL DEF Spec, ChapterKeysLand, NextGoesForward,
     PreviousLandsOnStart
-----------------------------------------------------------------------------
(* The end of a chapter *)

BooksLaidOut == \A m \in Media : LaidOut(Timeline[m])

\* The position never runs ahead of the file mpv plays; while the end of a file
\* waits to be handled, it has not passed that end.
BehindMpv ==
    active => /\ mpvAt # 0 => mpvPos <= Tracks[mpvAt].length
              /\ position <= Tracks[currentTrack].start + Tracks[currentTrack].length
              /\ posted = <<>> => position <= Tracks[currentTrack].start + mpvPos

\* A place mpv has reported and the session not yet taken is one mpv has passed in
\* the file it plays, and the position does not run ahead of it either.
Reported ==
    active => \A place \in told :
                /\ mpvAt # 0 /\ place <= mpvPos
                /\ posted = <<>> => position <= Tracks[currentTrack].start + place

ChapterHeld == sleep = "chapter" => active /\ sleepEnd = ChapterEndFor(Timeline[book], position)

Placed == BehindMpv /\ Reported /\ ChapterHeld

\* What is known of the open session while no event of mpv waits.
LEMMA AtMpvsFile ==
    ASSUME Inv, Order, active, posted = <<>>
    PROVE  /\ mpvAt = currentTrack /\ currentTrack \in 1 .. Len(Tracks) /\ book \in Media
           /\ Tracks \in Seq(TrackRecords) /\ Tracks # <<>>
           /\ position \in Nat /\ mpvPos \in Nat
           /\ Tracks[currentTrack].start \in Nat /\ Tracks[currentTrack].length \in Nat
<1>1. book \in Media /\ currentTrack \in 1 .. Len(Tracks) /\ position \in Nat /\ mpvPos \in Nat
  BY DEF Inv, TypeOK, Lifecycle, TrackLoaded
<1>2. Len(posted) = 0
  BY NothingPosted
<1>3. mpvAt = currentTrack
  <2>1. currentTrack \in Nat
    BY DEF Inv, TypeOK
  <2> QED
    BY <1>2, <2>1 DEF Order, InStep
<1> QED
  BY <1>1, <1>3, BookFacts DEF Tracks

\* A load puts the position no further than mpv.
LEMMA LoadBehind ==
    ASSUME BooksLaidOut, NEW m \in Media, book' = m, NEW p \in Nat, position' \in Nat, position' <= p,
           p <= Timeline[m].tracks[Len(Timeline[m].tracks)].start
                + Timeline[m].tracks[Len(Timeline[m].tracks)].length,
           NEW autoplay, Load(m, p, autoplay)
    PROVE  BehindMpv'
<1> DEFINE tracks == Timeline[m].tracks
           i == TrackIndexForGlobal(tracks, p)
<1>1. tracks \in Seq(TrackRecords) /\ tracks # <<>>
      /\ \A k \in 1 .. Len(tracks) : tracks[k].start \in Nat /\ tracks[k].length \in Nat
  BY BookFacts
<1>2. currentTrack' = i /\ mpvAt' = i /\ mpvPos' = InFile(tracks, i, p) /\ Tracks' = tracks
  BY DEF Load, Tracks
<1>3. /\ i \in 1 .. Len(tracks) /\ InFile(tracks, i, p) \in Nat
      /\ InFile(tracks, i, p) <= tracks[i].length
      /\ p <= tracks[i].start + InFile(tracks, i, p)
  <2> HIDE DEF tracks
  <2>1. p <= tracks[Len(tracks)].start + tracks[Len(tracks)].length
    BY DEF tracks
  <2> QED
    BY <1>1, <2>1, FileReaches
<1> HIDE DEF tracks, i
<1>4. tracks[i].start \in Nat /\ tracks[i].length \in Nat
  BY <1>1, <1>3
<1>5. /\ mpvPos' <= Tracks'[mpvAt'].length
      /\ position' <= Tracks'[currentTrack'].start + Tracks'[currentTrack'].length
      /\ position' <= Tracks'[currentTrack'].start + mpvPos'
  BY <1>2, <1>3, <1>4
<1> QED
  BY <1>5 DEF BehindMpv

\* seekGlobal(), with no event waiting.
LEMMA SeekBehind ==
    ASSUME BooksLaidOut, Inv, Order, active, posted = <<>>, book' = book,
           NEW p \in 0 .. Timeline[book].duration, NEW isPaused, SeekTo(p, isPaused)
    PROVE  BehindMpv' /\ position' = p
<1>1. position' = p
  BY DEF SeekTo
<1>2. /\ book \in Media /\ Timeline[book].duration \in Nat
      /\ Tracks[Len(Tracks)].start \in Nat /\ Tracks[Len(Tracks)].length \in Nat
      /\ Timeline[book].duration <= Tracks[Len(Tracks)].start + Tracks[Len(Tracks)].length
  <2>1. book \in Media
    BY AtMpvsFile
  <2>2. Len(Tracks) \in 1 .. Len(Tracks)
    BY <2>1, BookFacts DEF Tracks
  <2> QED
    BY <2>1, <2>2, BookFacts DEF BooksLaidOut, LaidOut, Tracks
<1>3. p \in Nat /\ p <= Tracks[Len(Tracks)].start + Tracks[Len(Tracks)].length
  BY <1>2
<1>4. CASE TrackIndexForGlobal(Tracks, p) # currentTrack
  <2>1. Load(book, p, ~isPaused) /\ position' <= p
    BY <1>1, <1>3, <1>4 DEF SeekTo
  <2> QED
    BY <1>1, <1>2, <1>3, <2>1, LoadBehind DEF Tracks
<1>5. CASE TrackIndexForGlobal(Tracks, p) = currentTrack
  <2>1. /\ mpvAt # 0 /\ mpvAt = currentTrack /\ Tracks' = Tracks
        /\ Tracks[currentTrack].start \in Nat /\ Tracks[currentTrack].length \in Nat
    BY <1>2, AtMpvsFile DEF Tracks
  <2>2. /\ UNCHANGED <<currentTrack, mpvAt>>
        /\ mpvPos' = InFile(Tracks, currentTrack, p - Tracks[currentTrack].start + Tracks[currentTrack].start)
    BY <1>5, <2>1 DEF SeekTo
  <2>3. p - Tracks[currentTrack].start + Tracks[currentTrack].start = p
    BY <1>3, <2>1
  <2>4. /\ mpvPos' \in Nat /\ mpvPos' <= Tracks[currentTrack].length
        /\ p <= Tracks[currentTrack].start + mpvPos'
    BY <1>3, <1>5, <2>2, <2>3, AtMpvsFile, FileReaches
  <2>5. /\ mpvPos' <= Tracks'[mpvAt'].length
        /\ position' <= Tracks'[currentTrack'].start + Tracks'[currentTrack'].length
        /\ position' <= Tracks'[currentTrack'].start + mpvPos'
    BY <1>1, <1>3, <2>1, <2>2, <2>4
  <2> QED
    BY <1>1, <2>5 DEF BehindMpv
<1> QED
  BY <1>4, <1>5

\* Steps that move neither the position nor mpv.
LEMMA PlacedKept ==
    ASSUME Placed, UNCHANGED <<active, book, position, currentTrack, mpvAt, mpvPos, posted,
                               told>>,
           sleep' # "chapter" \/ UNCHANGED <<sleep, sleepEnd>>
    PROVE  Placed'
BY DEF Placed, BehindMpv, Reported, ChapterHeld, Tracks

LEMMA ClosedPlaced == ASSUME ~active', sleep' # "chapter" PROVE Placed'
BY DEF Placed, BehindMpv, Reported, ChapterHeld

\* A session that is closed, or that was not open.
LEMMA ClosedOrNone ==
    ASSUME Placed, \/ ~active /\ active' = active /\ sleep' = sleep
                   \/ \E m, kind, finished : CloseAs(m, kind, finished)
    PROVE  Placed'
<1>1. CASE ~active /\ active' = active /\ sleep' = sleep
  BY <1>1, ClosedPlaced DEF Placed, ChapterHeld
<1>2. ASSUME NEW m, NEW kind, NEW finished, CloseAs(m, kind, finished) PROVE Placed'
  <2>1. active' = FALSE /\ sleep' = "off"
    BY <1>2 DEF CloseAs
  <2> QED
    BY <2>1, ClosedPlaced
<1> QED
  BY <1>1, <1>2

LEMMA SeekGlobalPlaced ==
    ASSUME BooksLaidOut, ~InputRaces, Inv, Order, NEW p \in Int, SeekGlobal(p)
    PROVE  Placed'
<1> DEFINE target == Clamp(p, Timeline[book].duration)
<1>1. /\ active /\ posted = <<>> /\ told' = {} /\ SeekTo(target, paused)
      /\ UNCHANGED <<active, book, sleep>>
      /\ sleepEnd' = IF sleep = "chapter" THEN ChapterEndFor(Timeline[book], target) ELSE sleepEnd
  BY DEF SeekGlobal, Input, sessionVars
<1>2. target \in 0 .. Timeline[book].duration
  <2>1. Timeline[book].duration \in Nat
    BY <1>1, AtMpvsFile, BookFacts
  <2> QED
    BY <2>1, ClampInBook
<1> HIDE DEF target
<1>3. BehindMpv' /\ position' = target
  BY <1>1, <1>2, SeekBehind
<1> QED
  BY <1>1, <1>3 DEF Placed, Reported, ChapterHeld

\* onMpvPosition(): mpv has moved on, and the position follows it.
LEMMA PositionPlaced ==
    ASSUME BooksLaidOut, Inv, Order, Placed, active, PositionChanged
    PROVE  Placed'
<1>1. /\ posted = <<>> /\ told' = {} /\ UNCHANGED <<active, book, posted>>
  BY DEF PositionChanged, sessionVars
<1>2. PICK place \in told :
        \/ /\ sleep = "chapter" /\ Tracks[currentTrack].start + place >= sleepEnd
           /\ sleep' = "off"
           /\ IF sleepEnd < Timeline[book].duration
              THEN SeekTo(sleepEnd, TRUE)
              ELSE /\ position' = Tracks[currentTrack].start + place
                   /\ UNCHANGED <<currentTrack, mpvAt, mpvPos>>
        \/ /\ sleep = "chapter" => Tracks[currentTrack].start + place < sleepEnd
           /\ position' = Tracks[currentTrack].start + place
           /\ UNCHANGED <<currentTrack, mpvAt, mpvPos, sleep, sleepEnd>>
  BY DEF PositionChanged, sleepVars
<1>3. PICK global : global = Tracks[currentTrack].start + place
  OBVIOUS
<1>4. /\ mpvAt # 0 /\ place \in Nat
      /\ position <= Tracks[currentTrack].start + place /\ place <= mpvPos
      /\ mpvPos <= Tracks[mpvAt].length
      /\ position <= Tracks[currentTrack].start + mpvPos
  BY <1>1 DEF Placed, BehindMpv, Reported, Inv, TypeOK
<1>5. /\ mpvAt = currentTrack /\ currentTrack # 0 /\ book \in Media /\ Timeline[book] \in BookRecords
      /\ position \in Nat /\ mpvPos \in Nat
      /\ Tracks[currentTrack].start \in Nat /\ Tracks[currentTrack].length \in Nat
      /\ Timeline[book].duration \in Nat
  BY <1>1, <1>4, AtMpvsFile, BookFacts
<1>6. /\ global \in Nat /\ position <= global
      /\ global <= Tracks[currentTrack].start + Tracks[currentTrack].length
  BY <1>3, <1>4, <1>5
<1>7. Reported'
  BY <1>1 DEF Reported
<1>8. CASE sleep' = "off" /\ SeekTo(sleepEnd, TRUE) /\ sleepEnd < Timeline[book].duration
  <2>1. sleepEnd \in 0 .. Timeline[book].duration
    BY <1>5, <1>8 DEF Inv, TypeOK
  <2>2. BehindMpv'
    BY <1>1, <1>8, <2>1, SeekBehind
  <2> QED
    BY <1>7, <1>8, <2>2 DEF Placed, ChapterHeld
<1>9. CASE /\ position' = global /\ UNCHANGED <<currentTrack, mpvAt, mpvPos>>
           /\ \/ sleep' = "off"
              \/ UNCHANGED <<sleep, sleepEnd>> /\ (sleep = "chapter" => global < sleepEnd)
  <2>1. BehindMpv'
    <3>1. /\ UNCHANGED <<active, posted, currentTrack, mpvAt, mpvPos>> /\ position' = global
          /\ Tracks' = Tracks
      BY <1>1, <1>9 DEF Tracks
    <3>2. global <= Tracks[currentTrack].start + mpvPos
      BY <1>3, <1>4, <1>5
    <3> QED
      BY <1>4, <1>6, <3>1, <3>2 DEF BehindMpv
  <2>2. ASSUME sleep' = "chapter" PROVE sleepEnd' = ChapterEndFor(Timeline[book], global)
    <3>1. sleep = "chapter" /\ global < sleepEnd /\ sleepEnd' = sleepEnd
      BY <1>9, <2>2
    <3>2. sleepEnd = ChapterEndFor(Timeline[book], position) /\ LaidOut(Timeline[book])
      BY <1>5, <3>1 DEF Placed, ChapterHeld, BooksLaidOut
    <3> QED
      BY <1>5, <1>6, <3>1, <3>2, ChapterEndStays
  <2>3. ChapterHeld'
    BY <1>1, <1>9, <2>2 DEF ChapterHeld
  <2> QED
    BY <1>7, <2>1, <2>3 DEF Placed
<1> QED
  BY <1>2, <1>3, <1>8, <1>9

\* MpvController's time-pos notice: the place mpv is at.
LEMMA TellsPlaced == ASSUME Inv, Placed, MpvTells PROVE Placed'
<1>1. /\ mpvAt # 0 /\ told' = {mpvPos} /\ mpvPos \in Nat
      /\ UNCHANGED <<active, book, position, currentTrack, mpvAt, mpvPos, posted, sleep, sleepEnd>>
  BY DEF MpvTells, Inv, TypeOK, sessionVars, timelineVars, sleepVars
<1>2. BehindMpv' /\ ChapterHeld' /\ Tracks' = Tracks
  BY <1>1 DEF Placed, BehindMpv, ChapterHeld, Tracks
<1>3. Reported'
  BY <1>1, <1>2 DEF Placed, BehindMpv, Reported
<1> QED
  BY <1>2, <1>3 DEF Placed

LEMMA AdvancePlaced == ASSUME Inv, Placed, MpvAdvance PROVE Placed'
<1>1. /\ mpvAt # 0 /\ mpvPos < Tracks[mpvAt].length /\ mpvPos' = mpvPos + 1
      /\ UNCHANGED <<active, book, position, currentTrack, mpvAt, posted, told, sleep, sleepEnd>>
  BY DEF MpvAdvance, sessionVars, timelineVars, sleepVars
<1>2. ASSUME active PROVE BehindMpv'
  <2>1. /\ book \in Media /\ mpvAt \in 1 .. Len(Tracks) /\ currentTrack \in 1 .. Len(Tracks)
        /\ mpvPos \in Nat /\ position \in Nat
    BY <1>1, <1>2 DEF Inv, TypeOK, Lifecycle, Queue, TrackLoaded
  <2>2. /\ Tracks[mpvAt].length \in Nat /\ Tracks[currentTrack].start \in Nat /\ Tracks' = Tracks
    BY <1>1, <2>1, BookFacts DEF Tracks
  <2> QED
    BY <1>1, <1>2, <2>1, <2>2 DEF Placed, BehindMpv
<1>3. ~active => BehindMpv'
  BY <1>1 DEF BehindMpv
<1>4. Reported'
  <2>1. mpvPos \in Nat /\ \A place \in told : place \in Nat
    BY DEF Inv, TypeOK
  <2> QED
    BY <1>1, <2>1 DEF Placed, Reported, Tracks
<1> QED
  BY <1>1, <1>2, <1>3, <1>4 DEF Placed, ChapterHeld

LEMMA EndFilePlaced ==
    ASSUME Inv, Placed, NEW event \in {"eof", "error"}, MpvEndFile(event)
    PROVE  Placed'
<1>1. /\ posted' = Append(posted, event) /\ mpvPos' = 0 /\ told' = {}
      /\ mpvAt' # 0 => mpvAt' \in queued /\ mpvAt # 0
      /\ UNCHANGED <<active, book, position, currentTrack, queued, sleep, sleepEnd>>
  BY DEF MpvEndFile, sessionVars, timelineVars, sleepVars
<1>2. posted' # <<>>
  <2>1. posted \in Seq({"eof", "error"})
    BY DEF Inv, TypeOK
  <2> QED
    BY <1>1, <2>1
<1>3. ASSUME active PROVE BehindMpv'
  <2>1. book \in Media /\ Tracks' = Tracks
    BY <1>1, <1>3 DEF Inv, Lifecycle, TrackLoaded, Tracks
  <2>2. mpvAt' # 0 => mpvAt' \in 1 .. Len(Tracks)
    BY <1>1 DEF Inv, Lifecycle, Queue
  <2>3. mpvAt' # 0 => Tracks[mpvAt'].length \in Nat
    BY <2>1, <2>2, BookFacts DEF Tracks
  <2>4. mpvAt' # 0 => mpvPos' <= Tracks'[mpvAt'].length
    BY <1>1, <2>1, <2>3
  <2> QED
    BY <1>1, <1>2, <1>3, <2>1, <2>4 DEF Placed, BehindMpv
<1>4. ~active => BehindMpv'
  BY <1>1 DEF BehindMpv
<1>5. Reported'
  BY <1>1 DEF Reported
<1> QED
  BY <1>1, <1>3, <1>4, <1>5 DEF Placed, ChapterHeld

\* onEndOfFile(): the next file begins no sooner than the one that ended ends.
LEMMA NextTrackPlaced ==
    ASSUME BooksLaidOut, Inv, Order, Placed, posted # <<>>, posted' = Tail(posted),
           NextTrack, UNCHANGED <<book, position, told>>
    PROVE  Placed'
<1> DEFINE next == currentTrack + 1
           last == Len(Tracks)
<1>1. /\ active /\ active' = active /\ sleepEnd' = sleepEnd
      /\ sleep' # "chapter" \/ sleep' = sleep
  BY DEF NextTrack
<1>2. /\ book \in Media /\ currentTrack \in 1 .. last /\ last \in Nat /\ next \in 1 .. last
      /\ position \in Nat /\ mpvPos \in Nat
  <2>1. book \in Media /\ currentTrack \in 1 .. last /\ position \in Nat /\ mpvPos \in Nat
    BY <1>1 DEF Inv, TypeOK, Lifecycle, TrackLoaded
  <2>2. last \in Nat
    BY <2>1, BookFacts DEF Tracks
  <2> QED
    BY <2>1, <2>2 DEF NextTrack, OnLastTrack
<1>3. /\ DOMAIN Tracks = 1 .. last /\ last \in 1 .. last
      /\ \A i \in 1 .. last : Tracks[i].start \in Nat /\ Tracks[i].length \in Nat
      /\ \A i, k \in 1 .. last : i < k => Tracks[i].start + Tracks[i].length <= Tracks[k].start
  <2>1. Tracks \in Seq(TrackRecords) /\ DOMAIN Tracks = 1 .. last
    BY <1>2, BookFacts DEF Tracks
  <2>2. \A i \in 1 .. last : Tracks[i].start \in Nat /\ Tracks[i].length \in Nat
    BY <1>2, BookFacts DEF Tracks
  <2>3. \A i, k \in DOMAIN Tracks :
           i < k => Tracks[i].start + Tracks[i].length <= Tracks[k].start
    BY <1>2 DEF BooksLaidOut, LaidOut, Tracks
  <2> HIDE DEF last
  <2>4. last \in 1 .. last
    BY <1>2
  <2> QED
    BY <2>1, <2>2, <2>3, <2>4
<1>4. /\ position <= Tracks[next].start
      /\ Tracks[next].start <= Tracks[last].start + Tracks[last].length
  <2>1. position <= Tracks[currentTrack].start + Tracks[currentTrack].length
    BY <1>1 DEF Placed, BehindMpv
  <2>2. Tracks[currentTrack].start + Tracks[currentTrack].length <= Tracks[next].start
    BY <1>2, <1>3
  <2>3. position <= Tracks[next].start
    <3>1. Tracks[currentTrack].start \in Nat /\ Tracks[currentTrack].length \in Nat /\ Tracks[next].start \in Nat
      BY <1>2, <1>3
    <3> QED
      BY <1>2, <2>1, <2>2, <3>1
  <2>4. next = last \/ Tracks[next].start + Tracks[next].length <= Tracks[last].start
    <3> HIDE DEF next, last
    <3>1. next = last \/ next < last
      BY <1>2
    <3> QED
      BY <1>2, <1>3, <3>1
  <2>5. /\ Tracks[next].start \in Nat /\ Tracks[next].length \in Nat
        /\ Tracks[last].start \in Nat /\ Tracks[last].length \in Nat
    BY <1>2, <1>3
  <2> QED
    BY <2>3, <2>4, <2>5
<1>5. BehindMpv'
  <2>1. CASE next \in queued
    <3>1. currentTrack' = next /\ UNCHANGED <<mpvAt, mpvPos>> /\ Tracks' = Tracks
      BY <2>1 DEF NextTrack, Tracks
    <3>2. Tracks[next].start \in Nat /\ Tracks[next].length \in Nat
      BY <1>2, <1>3
    <3>3. mpvAt # 0 => mpvPos <= Tracks[mpvAt].length
      BY <1>1 DEF Placed, BehindMpv
    <3> HIDE DEF next
    <3>4. /\ position' <= Tracks'[currentTrack'].start + Tracks'[currentTrack'].length
          /\ position' <= Tracks'[currentTrack'].start + mpvPos'
          /\ mpvAt' # 0 => mpvPos' <= Tracks'[mpvAt'].length
      BY <1>2, <1>4, <3>1, <3>2, <3>3
    <3> QED
      BY <3>4 DEF BehindMpv
  <2>2. CASE next \notin queued
    <3>1. Load(book, Tracks[next].start, TRUE)
      BY <2>2 DEF NextTrack
    <3>2. Tracks[next].start \in Nat
      BY <1>2, <1>3
    <3> HIDE DEF next
    <3>3. position' \in Nat /\ position' <= Tracks[next].start
      BY <1>2, <1>4
    <3> QED
      BY <1>2, <1>4, <3>1, <3>2, <3>3, LoadBehind DEF Tracks
  <2> QED
    BY <2>1, <2>2
<1>6. Reported'
  <2>1. CASE next \in queued
    <3>1. currentTrack' = next /\ UNCHANGED <<mpvAt, mpvPos>> /\ Tracks' = Tracks
      BY <2>1 DEF NextTrack, Tracks
    <3>2. \A place \in told : place \in Nat
      BY DEF Inv, TypeOK
    <3>3. Tracks[next].start \in Nat
      BY <1>2, <1>3
    <3> HIDE DEF next
    <3>4. \A place \in told : position <= Tracks[next].start + place
      BY <1>2, <1>4, <3>2, <3>3
    <3> QED
      BY <1>1, <3>1, <3>4 DEF Placed, Reported
  <2>2. CASE next \notin queued
    <3>1. mpvAt = 0
      <4>1. SUFFICES ASSUME mpvAt # 0 PROVE FALSE
        OBVIOUS
      <4>2. /\ mpvAt = currentTrack + Len(posted) /\ mpvAt \in queued /\ currentTrack \in queued
            /\ Contiguous(queued)
        BY <1>1, <4>1 DEF Order, InStep, Inv, Lifecycle, Queue
      <4>3. Len(posted) \in Nat \ {0}
        BY DEF Inv, TypeOK
      <4>4. next \in currentTrack .. mpvAt
        BY <1>2, <4>2, <4>3
      <4> QED
        BY <2>2, <4>2, <4>4 DEF Contiguous
    <3> QED
      BY <1>1, <3>1 DEF Placed, Reported
  <2> QED
    BY <2>1, <2>2
<1> QED
  BY <1>1, <1>5, <1>6 DEF Placed, ChapterHeld

LEMMA PlayOpenedPlaced ==
    ASSUME BooksLaidOut, ~InputRaces, Inv, Placed, NEW play \in plays,
           NEW resume \in 0 .. Timeline[play[2]].duration, PlayOpened(play, resume)
    PROVE  Placed'
<1> DEFINE m == play[2]
           tracks == Timeline[m].tracks
<1>1. m \in Media /\ ~active
  <2>1. ~active
    BY DEF PlayOpened, Newest, Inv, Lifecycle, NewestChoice, NoneToOpen
  <2> QED
    BY <2>1 DEF Inv, TypeOK
<1>2. /\ Load(m, resume, TRUE) /\ book' = m /\ position' = resume /\ told' = {}
      /\ UNCHANGED <<sleep, sleepEnd>>
  BY DEF PlayOpened, sleepVars
<1>3. resume \in Nat /\ resume <= tracks[Len(tracks)].start + tracks[Len(tracks)].length
  <2>1. Timeline[m].duration \in Nat /\ Len(tracks) \in 1 .. Len(tracks)
    BY <1>1, BookFacts
  <2>2. tracks[Len(tracks)].start \in Nat /\ tracks[Len(tracks)].length \in Nat
    BY <1>1, <2>1, BookFacts
  <2> QED
    BY <1>1, <2>1, <2>2 DEF BooksLaidOut, LaidOut
<1>4. BehindMpv'
  <2> HIDE DEF m
  <2>1. position' \in Nat /\ position' <= resume
    BY <1>2, <1>3
  <2> QED
    BY <1>1, <1>2, <1>3, <2>1, LoadBehind
<1> QED
  BY <1>1, <1>2, <1>4 DEF Placed, Reported, ChapterHeld

\* One case per action.
LEMMA PlacedStep ==
    ASSUME BooksLaidOut, ~InputRaces, Inv, Order, Placed, [Next]_vars
    PROVE  Placed'
<1>1. CASE UserStep
  <2>1. ASSUME NEW m \in Media, Play(m) PROVE Placed'
    BY <2>1, ClosedOrNone DEF Play, Close, sleepVars
  <2>2. ASSUME StopAndClose \/ Quit PROVE Placed'
    BY <2>2, ClosedOrNone DEF StopAndClose, Quit, Close, sleepVars
  <2>3. ASSUME \/ \E want \in BOOLEAN : RequestPaused(want)
               \/ TogglePlayPause \/ SwitchServer
        PROVE  Placed'
    <3>1. UNCHANGED <<active, book, position, currentTrack, mpvAt, mpvPos, posted, told, sleep,
                      sleepEnd>>
      BY <2>3 DEF RequestPaused, TogglePlayPause, SwitchServer, timelineVars, mpvVars,
         sessionVars, sleepVars
    <3> QED
      BY <3>1, PlacedKept
  <2>4. ASSUME NEW countdown, active, SleepFor(countdown) PROVE Placed'
    <3>1. /\ UNCHANGED <<active, book, position, currentTrack, mpvAt, mpvPos, posted, told>>
          /\ sleep' = countdown
          /\ countdown = "chapter" => sleepEnd' = ChapterEndFor(Timeline[book], position)
      BY <2>4 DEF SleepFor, timelineVars, mpvVars, sessionVars
    <3> QED
      BY <2>4, <3>1 DEF Placed, BehindMpv, Reported, ChapterHeld, Tracks
  <2>5. ASSUME (\E on \in BOOLEAN : SetSleepTimer(on)) \/ SetSleepAtChapterEnd \/ CycleSleepTimer
        PROVE  Placed'
    BY <2>4, <2>5 DEF SetSleepTimer, SetSleepAtChapterEnd, CycleSleepTimer
  <2>6. ASSUME NEW delta \in Int, Skip(delta) PROVE Placed'
    <3>1. position + delta \in Int
      BY DEF Inv, TypeOK
    <3> QED
      BY <2>6, <3>1, SeekGlobalPlaced DEF Skip
  <2>7. ASSUME NextChapter \/ PreviousChapter PROVE Placed'
    <3>1. /\ book \in Media /\ position \in Nat
          /\ Timeline[book] \in BookRecords /\ FallbackSkip \in Int /\ (-FallbackSkip) \in Int
      BY <2>7, BookFacts, SessionAssumption
         DEF NextChapter, PreviousChapter, Inv, TypeOK, Lifecycle, TrackLoaded
    <3>2. /\ LaterStarts(Timeline[book], position) # {} =>
               Min(LaterStarts(Timeline[book], position)) \in Int
          /\ PreviousTarget(Timeline[book], position) \in Int
      BY <3>1, NextStartAhead, StartsNat, PreviousStartBehind
    <3> QED
      BY <2>6, <2>7, <3>1, <3>2, SeekGlobalPlaced DEF NextChapter, PreviousChapter
  <2>8. ASSUME active, NEW p \in 0 .. Timeline[book].duration, SeekGlobal(p) PROVE Placed'
    <3>1. p \in Int
      BY <2>8, BookFacts DEF Inv, Lifecycle, TrackLoaded
    <3> QED
      BY <2>8, <3>1, SeekGlobalPlaced
  <2>9. \A delta \in {-1, 1} : delta \in Int
    OBVIOUS
  <2> QED
    BY <1>1, <2>1, <2>2, <2>3, <2>5, <2>6, <2>7, <2>8, <2>9 DEF UserStep
<1>2. CASE TimerStep
  <2>1. /\ UNCHANGED <<active, book, position, currentTrack, mpvAt, mpvPos, posted, told>>
        /\ sleep' # "chapter" \/ UNCHANGED <<sleep, sleepEnd>>
    BY <1>2 DEF TimerStep, SleepTimeout, QuitTimeout, SyncTimeout, SeekSyncTimeout,
       timelineVars, mpvVars, sessionVars, sleepVars
  <2> QED
    BY <2>1, PlacedKept
<1>3. CASE MpvStep
  <2>1. ASSUME NEW playing \in BOOLEAN, PlayingChanged(playing) PROVE Placed'
    <3>1. /\ UNCHANGED <<active, book, position, currentTrack, mpvAt, mpvPos, posted, told>>
          /\ sleep' # "chapter" \/ UNCHANGED <<sleep, sleepEnd>>
      BY <2>1 DEF PlayingChanged, timelineVars, sessionVars
    <3> QED
      BY <3>1, PlacedKept
  <2>2. CASE HandleError
    BY <2>2, ClosedOrNone DEF HandleError, Close, sleepVars
  <2>3. CASE HandleEof
    <3>1. posted # <<>> /\ posted' = Tail(posted) /\ UNCHANGED <<book, position, told>>
      BY <2>3 DEF HandleEof
    <3>2. CASE NextTrack
      BY <3>1, <3>2, NextTrackPlaced
    <3>3. CASE FinishBook
      BY <3>3, ClosedOrNone DEF FinishBook, Close
    <3>4. CASE ~active /\ UNCHANGED <<active, sleep>>
      BY <3>4, ClosedOrNone
    <3> QED
      BY <2>3, <3>2, <3>3, <3>4 DEF HandleEof, sleepVars
  <2>4. CASE PositionChanged /\ ~active
    BY <2>4, ClosedOrNone DEF PositionChanged, sessionVars, sleepVars
  <2> QED
    BY <1>3, <2>1, <2>2, <2>3, <2>4, AdvancePlaced, TellsPlaced, EndFilePlaced, PositionPlaced
       DEF MpvStep
<1>4. CASE NetworkStep
  <2>1. ASSUME NEW play \in plays, PlayRefused(play) PROVE Placed'
    <3>1. UNCHANGED <<active, book, position, currentTrack, mpvAt, mpvPos, posted, told, sleep,
                      sleepEnd>>
      BY <2>1 DEF PlayRefused, timelineVars, mpvVars, sessionVars, sleepVars
    <3> QED
      BY <3>1, PlacedKept
  <2>2. ASSUME NEW play \in plays, PlayUnusable(play) PROVE Placed'
    BY <2>2, ClosedOrNone
       DEF PlayUnusable, Newest, Inv, Lifecycle, NewestChoice, NoneToOpen, sleepVars
  <2>3. ASSUME TokenChanged \/ \E r \in Slots : ServerApplies(r) \/ ReportSucceeds(r) \/ ReportFails(r)
        PROVE  Placed'
    <3>1. UNCHANGED <<active, book, position, currentTrack, mpvAt, mpvPos, posted, told, sleep,
                      sleepEnd>>
      BY <2>3 DEF TokenChanged, ServerApplies, ReportSucceeds, ReportFails, Answered,
         timelineVars, mpvVars, sessionVars, sleepVars
    <3> QED
      BY <3>1, PlacedKept
  <2> QED
    BY <1>4, <2>1, <2>2, <2>3, PlayOpenedPlaced DEF NetworkStep, PlayReply
<1>5. CASE Tick \/ UNCHANGED vars
  <2>1. UNCHANGED <<active, book, position, currentTrack, mpvAt, mpvPos, posted, told, sleep,
                    sleepEnd>>
    BY <1>5 DEF Tick, vars, timelineVars, mpvVars, sessionVars, sleepVars
  <2> QED
    BY <2>1, PlacedKept
<1> QED
  BY <1>1, <1>2, <1>3, <1>4, <1>5 DEF Next

\* An armed end of chapter is that of the chapter being heard, through every jump, file
\* and report of mpv's place, for any book whose files and chapters do not overlap and
\* whose files reach to its end, when no input is handled before an event posted earlier.
THEOREM SleepsAtTheRightEnd ==
    ASSUME BooksLaidOut, ~InputRaces
    PROVE  Spec => []SleepsAtThisChaptersEnd
<1>1. Init => Placed
  BY DEF Init, Placed, BehindMpv, Reported, ChapterHeld
<1>2. Inv /\ Order /\ Placed /\ [Next]_vars => Placed'
  BY PlacedStep
<1>3. Placed => SleepsAtThisChaptersEnd
  BY DEF Placed, ChapterHeld, SleepsAtThisChaptersEnd
<1> QED
  BY <1>1, <1>2, <1>3, OrderInvariant, SessionInvariant, PTL DEF Spec
=============================================================================
