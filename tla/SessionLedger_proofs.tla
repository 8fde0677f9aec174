------------------------- MODULE SessionLedger_proofs -------------------------
(***************************************************************************)
(* The accounting of listened time implements the ledger, for any number   *)
(* of requests in flight and any bounds: every step of the session is a    *)
(* step of ListenLedger or leaves it alone.  What the ledger promises then *)
(* holds of the session: no tick is lost, counted twice, or charged to a   *)
(* session it was not heard in.                                            *)
(*                                                                         *)
(* From the same invariant: the countdown and the accumulator are silent   *)
(* together, nothing reaches a session behind its close, and, if no answer *)
(* is lost, no second is credited twice.                                   *)
(*                                                                         *)
(* The mapping needs an invariant of its own, Account: the accumulator and *)
(* the timers run exactly while the open session is audible, and the       *)
(* accounting generation of a request in flight tells whether the time it  *)
(* owns was heard in the open session.                                     *)
(***************************************************************************)
EXTENDS PlaybackSession_proofs

L == INSTANCE ListenLedger_proofs WITH
    Requests    <- Slots,
    open        <- active,
    outstanding <- Held(listen),
    reserved    <- [r \in Slots |-> InFlight(r)]

\* The code's own state of the accumulator: measured time is only there while
\* the timer runs (ProgressSyncer).
SpanWhilePlaying(s) == s.playing \/ s.span = {}

Measured ==
    /\ SpanWhilePlaying(listen)
    /\ active => listen.playing = Sounding /\ syncTimer = Sounding
    /\ ~active => ~listen.playing /\ ~syncTimer

HeldNow ==
    /\ since \in 0 .. heard
    /\ Held(listen) \subseteq 1 .. heard
    /\ active => \A t \in Held(listen) : t > since

\* The accounting generation and the session of a request in flight.
ReportAccount(report) ==
    /\ report.ticks \subseteq 1 .. heard
    /\ report.gen <= listenGen
    /\ active /\ report.gen = listenGen => \A t \in report.ticks : t > since
    /\ active /\ report.gen # listenGen => \A t \in report.ticks : t <= since
    /\ report.of <= playGen
    /\ report.of = playGen => NoneToOpen
    /\ active /\ report.of = session => report.gen = listenGen

FlightAccount == \A r \in Slots : flight[r] # NoReport => ReportAccount(flight[r])

Account == Measured /\ HeldNow /\ FlightAccount

LedgerStep == [Ledger!Next]_(Ledger!ledger)
-----------------------------------------------------------------------------
\* A tick heard while the accumulator runs is held.
LEMMA TickHeld ==
    ASSUME NEW T, NEW s \in Syncers(T), s.playing, NEW t
    PROVE  Held(Elapse(s, t)) = Held(s) \cup {t} /\ Elapse(s, t).playing = s.playing
<1>1. s = [playing |-> s.playing, span |-> s.span, pending |-> s.pending]
  BY DEF Syncers
<1>2. Elapse(s, t) = [playing |-> s.playing, span |-> s.span \cup {t}, pending |-> s.pending]
  BY <1>1 DEF Elapse
<1> QED
  BY <1>2 DEF Held

\* ProgressSyncer: what its methods do to the time it holds.
LEMMA SyncerHolds ==
    ASSUME NEW T, NEW s \in Syncers(T), SpanWhilePlaying(s)
    PROVE  /\ Taken(s) = Held(s) /\ Held(Take(s)) = {}
           /\ Take(s).playing = s.playing /\ SpanWhilePlaying(Take(s))
           /\ \A b \in BOOLEAN : /\ Held(SetPlaying(s, b)) = Held(s)
                                 /\ SetPlaying(s, b).playing = b
                                 /\ SpanWhilePlaying(SetPlaying(s, b))
           /\ \A U : /\ Held(Rollback(s, U)) = Held(s) \cup U
                     /\ Rollback(s, U).playing = s.playing
                     /\ SpanWhilePlaying(Rollback(s, U))
<1>1. /\ s = [playing |-> s.playing, span |-> s.span, pending |-> s.pending]
      /\ s.playing \in BOOLEAN
      /\ s.playing \/ s.span = {}
  BY DEF Syncers, SpanWhilePlaying
<1> DEFINE f == FlushInto(s)
<1>2. /\ f = [playing |-> s.playing, span |-> {}, pending |-> s.pending \cup s.span]
  BY <1>1 DEF FlushInto
<1>3. /\ f.playing = s.playing /\ f.span = {} /\ f.pending = s.pending \cup s.span
  BY <1>2
<1>4. Take(s) = [playing |-> s.playing, span |-> {}, pending |-> {}]
  BY <1>2 DEF Take
<1>5. /\ Taken(s) = Held(s) /\ Held(Take(s)) = {}
      /\ Take(s).playing = s.playing /\ SpanWhilePlaying(Take(s))
  BY <1>3, <1>4 DEF Taken, Held, SpanWhilePlaying
<1>6. ASSUME NEW b \in BOOLEAN
      PROVE  /\ Held(SetPlaying(s, b)) = Held(s)
             /\ SetPlaying(s, b).playing = b
             /\ SpanWhilePlaying(SetPlaying(s, b))
  <2>1. CASE b = s.playing
    BY <1>1, <2>1 DEF SetPlaying, SpanWhilePlaying
  <2>2. CASE b # s.playing /\ b
    BY <1>1, <2>2 DEF SetPlaying, Held, SpanWhilePlaying
  <2>3. CASE b # s.playing /\ ~b
    <3>1. b = FALSE /\ s.playing = TRUE
      BY <1>1, <2>3
    <3>2. SetPlaying(s, b) = [f EXCEPT !.playing = FALSE, !.span = {}]
      BY <2>3, <3>1 DEF SetPlaying
    <3> HIDE DEF f
    <3>3. SetPlaying(s, b) = [playing |-> FALSE, span |-> {}, pending |-> s.pending \cup s.span]
      BY <1>2, <3>2
    <3>4. /\ SetPlaying(s, b).playing = FALSE
          /\ SetPlaying(s, b).span = {}
          /\ SetPlaying(s, b).pending = s.pending \cup s.span
      BY <3>3
    <3> QED
      BY <3>1, <3>4 DEF Held, SpanWhilePlaying
  <2> QED
    BY <2>1, <2>2, <2>3
<1>7. ASSUME NEW U
      PROVE  /\ Held(Rollback(s, U)) = Held(s) \cup U
             /\ Rollback(s, U).playing = s.playing
             /\ SpanWhilePlaying(Rollback(s, U))
  BY <1>1 DEF Rollback, Held, SpanWhilePlaying
<1> QED
  BY <1>5, <1>6, <1>7
-----------------------------------------------------------------------------
\* What no accounting is about: the ledger does not notice.
LEMMA Unnoticed ==
    ASSUME UNCHANGED <<active, since, heard, listen, flight, settled, dropped>>
    PROVE  LedgerStep
BY DEF LedgerStep, Ledger!ledger, InFlight

\* The generation moves only when what was open is closed.
GenStep ==
    \/ playGen' = playGen /\ plays' \subseteq plays
    \/ playGen' = playGen + 1 /\ ~active'

\* A step that does not touch the accounting keeps Account, whatever reply is
\* refused and whatever is chosen next.
LEMMA AccountKept ==
    ASSUME TypeOK, Account,
           UNCHANGED <<active, since, heard, listen, flight, listenGen, syncTimer>>,
           active => UNCHANGED <<audible, lateStop, session>>,
           GenStep
    PROVE  Account'
<1>1. Measured' /\ HeldNow'
  BY DEF Account, Measured, Sounding, HeldNow
<1>2. \A r \in Slots : flight[r] # NoReport => flight[r].of \in Nat
  <2>1. \A r \in Slots : flight[r] # NoReport => flight[r] \in Reports
    BY DEF TypeOK
  <2> QED
    BY <2>1 DEF Reports, Sessions
<1>3. playGen \in Nat
  BY DEF TypeOK, Sessions
<1>4. SUFFICES ASSUME NEW r \in Slots, flight[r] # NoReport PROVE ReportAccount(flight[r])'
  BY <1>1 DEF Account, FlightAccount
<1>5. ReportAccount(flight[r])
  BY <1>4 DEF Account, FlightAccount
<1>6. CASE playGen' = playGen /\ plays' \subseteq plays
  BY <1>5, <1>6 DEF ReportAccount, NoneToOpen
<1>7. CASE playGen' = playGen + 1 /\ ~active'
  BY <1>2, <1>3, <1>4, <1>5, <1>7 DEF ReportAccount
<1> QED
  BY <1>6, <1>7 DEF GenStep

\* A request leaves with all that is held: Reserve, or nothing when a /sync has
\* nothing to own.
LEMMA PostAccounts ==
    ASSUME Inv, Account, active,
           NEW kind \in {"sync", "close", "final"}, Post(kind, Held(listen)), Held(listen') = {},
           UNCHANGED <<since, heard, settled, dropped, listenGen>>, GenStep,
           active' \in BOOLEAN, active' => UNCHANGED session,
           kind = "sync" => active'
    PROVE  HeldNow' /\ FlightAccount' /\ LedgerStep
<1> DEFINE new == [kind |-> kind, of |-> session, gen |-> listenGen,
                   ticks |-> Held(listen), applied |-> FALSE]
<1>1. HeldNow'
  BY DEF Account, HeldNow
<1>2. /\ session = playGen /\ NoneToOpen
      /\ listenGen \in Nat /\ playGen \in Nat
      /\ flight \in [Slots -> Reports \cup {NoReport}]
  BY DEF Inv, Lifecycle, NewestChoice, NoneToOpen, TypeOK, Sessions
<1>5. playGen' = playGen => NoneToOpen'
  BY <1>2 DEF NoneToOpen, GenStep
<1>6. \A r \in Slots : flight[r] # NoReport => flight[r].of \in Nat
  <2>1. \A r \in Slots : flight[r] # NoReport => flight[r] \in Reports
    BY <1>2
  <2> QED
    BY <2>1 DEF Reports, Sessions
<1>3. CASE kind = "sync" /\ Held(listen) = {}
  <2>1. UNCHANGED flight /\ active'
    BY <1>3 DEF Post
  <2>2. FlightAccount'
    BY <1>2, <1>5, <2>1 DEF Account, FlightAccount, ReportAccount, GenStep
  <2>3. UNCHANGED <<active, since, heard, Held(listen), [r \in Slots |-> InFlight(r)], settled, dropped>>
    BY <1>3, <2>1 DEF InFlight
  <2>4. LedgerStep
    BY <2>3 DEF LedgerStep, Ledger!ledger
  <2> QED
    BY <1>1, <2>2, <2>4
<1>4. CASE ~ (kind = "sync" /\ Held(listen) = {})
  <2>1. PICK r \in Slots : flight[r] = NoReport /\ flight' = [flight EXCEPT ![r] = new]
    BY <1>4 DEF Post
  <2>2. new.ticks = Held(listen) /\ new.gen = listenGen /\ new.of = session
    OBVIOUS
  <2>3. new # NoReport
    <3>1. new \in Reports
      <4>1. Held(listen) \in SUBSET Ticks
        BY SyncerTypes DEF Inv, TypeOK
      <4> QED
        BY <4>1 DEF Inv, TypeOK, Reports
    <3> QED
      BY <3>1, ReportAssumption
  <2> HIDE DEF new
  <2>4. flight'[r] = new /\ \A q \in Slots : q # r => flight'[q] = flight[q]
    BY <1>2, <2>1
  <2>5. FlightAccount'
    <3>1. SUFFICES ASSUME NEW q \in Slots, flight'[q] # NoReport
                   PROVE  ReportAccount(flight[q])'
      BY DEF FlightAccount
    <3>2. CASE q = r
      BY <1>2, <1>5, <2>2, <2>4, <3>2 DEF ReportAccount, Account, HeldNow, GenStep
    <3>3. CASE q # r
      BY <1>2, <1>5, <1>6, <2>4, <3>1, <3>3 DEF ReportAccount, Account, FlightAccount, GenStep
    <3> QED
      BY <3>2, <3>3
  <2>6. /\ InFlight(r) = {} /\ InFlight(r)' = Held(listen)
        /\ \A q \in Slots : q # r => InFlight(q)' = InFlight(q)
    BY <2>1, <2>2, <2>3, <2>4 DEF InFlight
  <2>7. /\ [q \in Slots |-> InFlight(q)][r] = {}
        /\ [q \in Slots |-> InFlight(q)'] = [[q \in Slots |-> InFlight(q)] EXCEPT ![r] = Held(listen)]
    BY <2>6
  <2>8. Ledger!Reserve(r)
    BY <2>7 DEF Ledger!Reserve
  <2> QED
    BY <1>1, <2>5, <2>8 DEF LedgerStep, Ledger!Next
<1> QED
  BY <1>3, <1>4
\* sync() of an accumulator that holds what listen holds, and runs as it should.
LEMMA SyncAccounts ==
    ASSUME Inv, Account, active, NEW s \in Syncers(Ticks), SpanWhilePlaying(s),
           Held(s) = Held(listen), Sync(s),
           s.playing = Sounding', syncTimer' = Sounding',
           UNCHANGED <<since, heard, settled, dropped, listenGen, playGen, plays, active, session>>
    PROVE  Account' /\ LedgerStep
<1>1. /\ Taken(s) = Held(listen) /\ Held(Take(s)) = {}
      /\ Take(s).playing = s.playing /\ SpanWhilePlaying(Take(s))
  BY SyncerHolds
<1>2. listen' = Take(s) /\ Post("sync", Held(listen))
  BY <1>1 DEF Sync
<1>3. Measured'
  BY <1>1, <1>2 DEF Measured
<1>4. active' \in BOOLEAN /\ active' /\ Held(listen') = {}
  <2>1. active' \in BOOLEAN
    BY DEF Inv, TypeOK
  <2> QED
    BY <1>1, <1>2, <2>1
<1>5. HeldNow' /\ FlightAccount' /\ LedgerStep
  BY <1>2, <1>4, PostAccounts DEF GenStep
<1> QED
  BY <1>3, <1>5 DEF Account

\* flushAndClose()
LEMMA CloseAccounts ==
    ASSUME Inv, Account, active, NEW m, NEW finished, NEW kind \in {"close", "final"},
           CloseAs(m, kind, finished),
           UNCHANGED <<since, heard, settled, dropped, listenGen>>, GenStep
    PROVE  Account' /\ LedgerStep
<1> DEFINE last == SetPlaying(listen, FALSE)
<1>1. listen \in Syncers(Ticks) /\ SpanWhilePlaying(listen) /\ FALSE \in BOOLEAN
  BY DEF Inv, TypeOK, Account, Measured
<1>2. Held(last) = Held(listen) /\ last.playing = FALSE /\ SpanWhilePlaying(last)
  BY <1>1, SyncerHolds
<1>3. last \in Syncers(Ticks)
  BY <1>1, SyncerTypes
<1>4. /\ listen' = Take(last) /\ Post(kind, Taken(last))
      /\ active' = FALSE /\ syncTimer' = FALSE
  BY DEF CloseAs
<1> HIDE DEF last
<1>5. /\ Taken(last) = Held(listen) /\ Held(listen') = {}
      /\ listen'.playing = FALSE /\ SpanWhilePlaying(listen')
  BY <1>2, <1>3, <1>4, SyncerHolds
<1>6. Measured'
  BY <1>4, <1>5 DEF Measured, SpanWhilePlaying
<1>7. active' \in BOOLEAN /\ ~active'
  BY <1>4
<1>8. HeldNow' /\ FlightAccount' /\ LedgerStep
  BY <1>4, <1>5, <1>7, PostAccounts
<1> QED
  BY <1>6, <1>8 DEF Account
-----------------------------------------------------------------------------
\* playItem(), playEpisode()
LEMMA PlayAccounts ==
    ASSUME Inv, Account, NEW m \in Media, Play(m)
    PROVE  Account' /\ LedgerStep
<1>1. /\ playGen' = playGen + 1
      /\ UNCHANGED <<listenGen, heard, since, settled, dropped>>
  BY DEF Play, fateVars
<1>2. CASE active
  <2>1. CloseAs(medium, "close", completed)
    BY <1>2 DEF Play, Close
  <2>2. GenStep
    BY <1>1, <2>1 DEF GenStep, CloseAs
  <2> QED
    BY <1>1, <1>2, <2>1, <2>2, CloseAccounts
<1>3. CASE ~active
  <2>1. UNCHANGED <<active, session, listen, flight, syncTimer>>
    BY <1>3 DEF Play, reportVars
  <2>2. GenStep
    BY <1>1, <1>3, <2>1 DEF GenStep
  <2> QED
    BY <1>1, <1>3, <2>1, <2>2, AccountKept, Unnoticed DEF Inv
<1> QED
  BY <1>2, <1>3

\* stopAndClose(), aboutToQuit, mpvError: a close, when a session is open.
LEMMA ClosesAccount ==
    ASSUME Inv, Account, StopAndClose \/ Quit \/ HandleError
    PROVE  Account' /\ LedgerStep
<1>1. /\ UNCHANGED <<playGen, plays, listenGen, heard, since, settled, dropped>>
      /\ GenStep
  BY DEF StopAndClose, Quit, HandleError, requestVars, fateVars, GenStep
<1>2. CASE active
  <2>1. \E kind \in {"close", "final"} : CloseAs(medium, kind, completed)
    BY <1>2 DEF StopAndClose, Quit, HandleError, Close
  <2> QED
    BY <1>1, <1>2, <2>1, CloseAccounts
<1>3. CASE ~active
  <2>1. UNCHANGED <<active, session, listen, flight, syncTimer>>
    BY <1>3 DEF StopAndClose, Quit, HandleError, reportVars
  <2> QED
    BY <1>1, <1>3, <2>1, AccountKept, Unnoticed DEF Inv
<1> QED
  BY <1>2, <1>3

\* applyPlayResponse(): a new epoch of the accounting.
LEMMA PlayOpenedAccounts ==
    ASSUME Inv, Account, NEW play \in plays, NEW resume \in 0 .. Timeline[play[2]].duration,
           PlayOpened(play, resume)
    PROVE  Account' /\ LedgerStep
<1>1. /\ play[1] = playGen /\ lateStop' = audible
      /\ plays' = plays \ {play}
      /\ session' = play[1] /\ active' = TRUE
      /\ listen' = Reset
      /\ dropped' = dropped \cup Held(listen)
      /\ since' = heard
      /\ listenGen' = listenGen + 1
      /\ UNCHANGED <<playGen, audible, flight, syncTimer, heard, settled>>
  BY DEF PlayOpened, Newest
<1>2. ~active /\ ~NoneToOpen
  BY <1>1 DEF Inv, Lifecycle, NewestChoice, NoneToOpen
<1>3. Held(listen') = {} /\ listen'.playing = FALSE /\ listen'.span = {}
  BY <1>1 DEF Reset, Held
<1>4. heard \in Nat /\ listenGen \in Nat /\ flight \in [Slots -> Reports \cup {NoReport}]
  BY SessionAssumption DEF Inv, TypeOK, Sessions
<1>5. Measured'
  <2>1. ~Sounding' /\ Sounding' \in BOOLEAN
    BY <1>1 DEF Sounding
  <2>2. syncTimer' = FALSE
    <3>1. syncTimer \in BOOLEAN /\ ~syncTimer
      BY <1>2 DEF Inv, TypeOK, Account, Measured
    <3> QED
      BY <1>1, <3>1
  <2> QED
    BY <1>1, <1>3, <2>1, <2>2 DEF Measured, SpanWhilePlaying
<1>6. HeldNow'
  BY <1>1, <1>3, <1>4 DEF HeldNow
<1>7. FlightAccount'
  <2>1. SUFFICES ASSUME NEW r \in Slots, flight[r] # NoReport
                 PROVE  ReportAccount(flight[r])'
    BY <1>1 DEF FlightAccount
  <2>2. ReportAccount(flight[r])
    BY <2>1 DEF Account, FlightAccount
  <2>3. flight[r].gen \in Nat /\ flight[r].of # playGen
    <3>1. flight[r] \in Reports
      BY <1>4, <2>1
    <3> QED
      BY <1>2, <2>2, <3>1 DEF Reports, Sessions, ReportAccount
  <2>4. \A t \in flight[r].ticks : t <= heard
    BY <1>4, <2>2 DEF ReportAccount
  <2> QED
    BY <1>1, <1>4, <2>2, <2>3, <2>4 DEF ReportAccount
<1>8. [r \in Slots |-> InFlight(r)]' = [r \in Slots |-> InFlight(r)]
  BY <1>1 DEF InFlight
<1>9. Ledger!Open
  BY <1>1, <1>2, <1>3, <1>8 DEF Ledger!Open
<1> QED
  BY <1>5, <1>6, <1>7, <1>9 DEF Account, LedgerStep, Ledger!Next

\* The two sync timers.
LEMMA SyncTimersAccount ==
    ASSUME Inv, Account, SyncTimeout \/ SeekSyncTimeout
    PROVE  Account' /\ LedgerStep
<1>1. /\ active /\ Sync(listen)
      /\ UNCHANGED <<since, heard, settled, dropped, listenGen, playGen, plays, active, session,
                     audible, lateStop, syncTimer>>
  BY DEF SyncTimeout, SeekSyncTimeout, requestVars, sessionVars, mpvVars, fateVars
<1>2. listen \in Syncers(Ticks) /\ SpanWhilePlaying(listen)
  BY DEF Inv, TypeOK, Account, Measured
<1>3. listen.playing = Sounding' /\ syncTimer' = Sounding'
  BY <1>1 DEF Account, Measured, Sounding
<1> QED
  BY <1>1, <1>2, <1>3, SyncAccounts

\* onPlayingChanged(): the accumulator starts and stops with the sound.
LEMMA PlayingChangedAccounts ==
    ASSUME Inv, Account, NEW playing \in BOOLEAN, PlayingChanged(playing)
    PROVE  Account' /\ LedgerStep
<1>1. /\ audible' = playing /\ lateStop' = FALSE
      /\ Sounding' = playing
      /\ UNCHANGED <<since, heard, settled, dropped, listenGen, playGen, plays, active, session>>
  BY DEF PlayingChanged, Sounding, requestVars, sessionVars, fateVars
<1>2. /\ listen \in Syncers(Ticks) /\ SpanWhilePlaying(listen)
      /\ TRUE \in BOOLEAN /\ FALSE \in BOOLEAN
  BY DEF Inv, TypeOK, Account, Measured
<1>3. CASE ~active
  <2>1. UNCHANGED <<listen, flight, syncTimer>>
    BY <1>3 DEF PlayingChanged, reportVars
  <2>2. GenStep
    BY <1>1 DEF GenStep
  <2> QED
    BY <1>1, <1>3, <2>1, <2>2, AccountKept, Unnoticed DEF Inv
<1>4. CASE active /\ ~playing
  <2> DEFINE s == SetPlaying(listen, FALSE)
  <2>1. Sync(s) /\ syncTimer' = FALSE
    BY <1>4 DEF PlayingChanged
  <2>2. s \in Syncers(Ticks) /\ SpanWhilePlaying(s) /\ Held(s) = Held(listen) /\ s.playing = FALSE
    BY <1>2, SyncerTypes, SyncerHolds
  <2> HIDE DEF s
  <2>3. s.playing = Sounding' /\ syncTimer' = Sounding'
    BY <1>1, <1>4, <2>1, <2>2
  <2> QED
    BY <1>1, <1>4, <2>1, <2>2, <2>3, SyncAccounts
<1>5. CASE active /\ playing
  <2>1. listen' = SetPlaying(listen, TRUE) /\ syncTimer' = TRUE /\ UNCHANGED flight
    BY <1>5 DEF PlayingChanged
  <2>2. Held(listen') = Held(listen) /\ listen'.playing = TRUE /\ SpanWhilePlaying(listen')
    BY <1>2, <2>1, SyncerHolds
  <2>3. Measured'
    BY <1>1, <1>5, <2>1, <2>2 DEF Measured, SpanWhilePlaying
  <2>4. HeldNow' /\ FlightAccount'
    BY <1>1, <2>1, <2>2 DEF Account, HeldNow, FlightAccount, ReportAccount, NoneToOpen
  <2>5. UNCHANGED <<active, since, heard, Held(listen), [r \in Slots |-> InFlight(r)], settled, dropped>>
    BY <1>1, <2>1, <2>2 DEF InFlight
  <2>6. LedgerStep
    BY <2>5 DEF LedgerStep, Ledger!ledger
  <2> QED
    BY <2>3, <2>4, <2>6 DEF Account
<1> QED
  BY <1>3, <1>4, <1>5
\* onEndOfFile(): the accumulator goes on, or stops with the sound.
LEMMA NextTrackAccounts ==
    ASSUME Inv, Account, NextTrack, lateStop' = (lateStop /\ audible'),
           UNCHANGED <<requestVars, medium, book, position, playedOut, serverVars, fateVars, token,
                       phase>>
    PROVE  Account' /\ LedgerStep
<1>1. /\ active
      /\ UNCHANGED <<since, heard, settled, dropped, listenGen, playGen, plays, active, session>>
  BY DEF NextTrack, requestVars, fateVars
<1>2. /\ listen \in Syncers(Ticks) /\ SpanWhilePlaying(listen) /\ FALSE \in BOOLEAN
      /\ listen.playing = Sounding /\ syncTimer = Sounding
      /\ audible \in BOOLEAN /\ paused \in BOOLEAN /\ lateStop \in BOOLEAN
  BY <1>1 DEF Inv, TypeOK, Account, Measured
<1>3. CASE currentTrack + 1 \in queued /\ audible /\ paused
  <2> DEFINE s == SetPlaying(listen, FALSE)
  <2>1. Sync(s) /\ audible' = FALSE /\ syncTimer' = FALSE
    BY <1>3 DEF NextTrack
  <2>2. s \in Syncers(Ticks) /\ SpanWhilePlaying(s) /\ Held(s) = Held(listen) /\ s.playing = FALSE
    BY <1>2, SyncerTypes, SyncerHolds
  <2> HIDE DEF s
  <2>3. s.playing = Sounding' /\ syncTimer' = Sounding'
    BY <2>1, <2>2 DEF Sounding
  <2> QED
    BY <1>1, <2>1, <2>2, <2>3, SyncAccounts
<1>4. CASE ~ (currentTrack + 1 \in queued /\ audible /\ paused)
  <2>1. Sync(listen) /\ audible' = audible /\ syncTimer' = syncTimer
    <3>1. CASE currentTrack + 1 \in queued
      <4>1. /\ Sync(listen) /\ audible' = (audible /\ ~paused)
            /\ syncTimer' = (syncTimer /\ ~ (audible /\ paused))
        BY <1>4, <3>1 DEF NextTrack
      <4>2. syncTimer \in BOOLEAN
        BY DEF Inv, TypeOK
      <4>3. audible' = audible
        BY <1>2, <1>4, <3>1, <4>1
      <4>4. syncTimer' = syncTimer
        BY <1>4, <3>1, <4>1, <4>2
      <4> QED
        BY <4>1, <4>3, <4>4
    <3>2. CASE currentTrack + 1 \notin queued
      BY <3>2 DEF NextTrack
    <3> QED
      BY <3>1, <3>2
  <2>2. Sounding' = Sounding
    BY <1>2, <2>1 DEF Sounding
  <2>3. listen.playing = Sounding' /\ syncTimer' = Sounding'
    BY <1>2, <2>1, <2>2
  <2> QED
    BY <1>1, <1>2, <2>1, <2>3, SyncAccounts
<1> QED
  BY <1>3, <1>4

\* onEndOfFile(): one case per branch.
LEMMA HandleEofAccounts ==
    ASSUME Inv, Account, HandleEof
    PROVE  Account' /\ LedgerStep
<1>1. /\ UNCHANGED <<requestVars, medium, book, position, playedOut, serverVars, fateVars, token,
                     phase>>
      /\ UNCHANGED <<playGen, plays, listenGen, heard, since, settled, dropped>>
      /\ lateStop' = (lateStop /\ audible')
      /\ GenStep
  BY DEF HandleEof, requestVars, fateVars, GenStep
<1>2. CASE NextTrack
  BY <1>1, <1>2, NextTrackAccounts
<1>3. CASE FinishBook
  BY <1>1, <1>3, CloseAccounts DEF FinishBook, Close
<1>4. CASE ~active /\ UNCHANGED <<active, session, reportVars>>
  <2>1. UNCHANGED <<listen, flight, syncTimer>>
    BY <1>4 DEF reportVars
  <2> QED
    BY <1>1, <1>4, <2>1, AccountKept, Unnoticed DEF Inv
<1> QED
  BY <1>2, <1>3, <1>4 DEF HandleEof

\* The clock: a tick of the open session is heard.
LEMMA TickAccounts ==
    ASSUME Inv, Account, Tick
    PROVE  Account' /\ LedgerStep
<1>1. /\ active /\ audible /\ ~lateStop /\ heard < MaxTicks
      /\ heard' = heard + 1
      /\ listen' = Elapse(listen, heard + 1)
      /\ dropped' = IF listen.playing THEN dropped ELSE dropped \cup {heard + 1}
      /\ UNCHANGED <<playGen, plays, listenGen, active, session, audible, lateStop, flight,
                     syncTimer, since, settled>>
  BY DEF Tick, requestVars, sessionVars, mpvVars
<1>2. /\ listen \in Syncers(Ticks) /\ SpanWhilePlaying(listen) /\ heard \in Nat
      /\ listen.playing = Sounding
  <2>1. heard \in Nat
    BY SessionAssumption DEF Inv, TypeOK
  <2>2. listen \in Syncers(Ticks) /\ SpanWhilePlaying(listen) /\ listen.playing = Sounding
    BY <1>1 DEF Inv, TypeOK, Account, Measured
  <2> QED
    BY <2>1, <2>2
<1>3. listen.playing
  BY <1>1, <1>2 DEF Sounding
<1>4. Held(listen') = Held(listen) \cup {heard + 1} /\ listen'.playing = listen.playing
  BY <1>1, <1>2, <1>3, TickHeld
<1>5. Measured'
  BY <1>1, <1>2, <1>3, <1>4 DEF Account, Measured, Sounding, SpanWhilePlaying
<1>6. HeldNow'
  BY <1>1, <1>2, <1>4 DEF Account, HeldNow
<1>7. FlightAccount'
  BY <1>1, <1>2 DEF Account, FlightAccount, ReportAccount, NoneToOpen
<1>8. [r \in Slots |-> InFlight(r)]' = [r \in Slots |-> InFlight(r)] /\ dropped' = dropped
  BY <1>1, <1>3 DEF InFlight
<1>9. Ledger!Hear
  BY <1>1, <1>4, <1>8 DEF Ledger!Hear
<1> QED
  BY <1>5, <1>6, <1>7, <1>9 DEF Account, LedgerStep, Ledger!Next

\* The server's own step: whose time it is does not change.
LEMMA ServerAppliesAccounts ==
    ASSUME Inv, Account, NEW r \in Slots, ServerApplies(r)
    PROVE  Account' /\ LedgerStep
<1>1. /\ flight[r] # NoReport
      /\ flight' = [flight EXCEPT ![r] = [flight[r] EXCEPT !.applied = TRUE]]
      /\ UNCHANGED <<playGen, plays, listenGen, active, session, audible, lateStop, listen,
                     syncTimer, heard, since, settled, dropped>>
  BY DEF ServerApplies, requestVars, sessionVars, mpvVars, fateVars
<1>2. flight \in [Slots -> Reports \cup {NoReport}] /\ flight[r] \in Reports
  BY <1>1 DEF Inv, TypeOK
<1> DEFINE new == [flight[r] EXCEPT !.applied = TRUE]
<1>3. /\ new.ticks = flight[r].ticks /\ new.gen = flight[r].gen /\ new.of = flight[r].of
      /\ new \in Reports
  BY <1>2 DEF Reports
<1>4. new # NoReport
  BY <1>3, ReportAssumption
<1>5. flight' = [flight EXCEPT ![r] = new]
  BY <1>1
<1> HIDE DEF new
<1>6. flight'[r] = new /\ \A q \in Slots : q # r => flight'[q] = flight[q]
  BY <1>2, <1>5
<1>7. Measured' /\ HeldNow'
  BY <1>1 DEF Account, Measured, Sounding, HeldNow
<1>8. FlightAccount'
  <2>1. SUFFICES ASSUME NEW q \in Slots, flight'[q] # NoReport
                 PROVE  ReportAccount(flight[q])'
    BY DEF FlightAccount
  <2>2. /\ flight[q] # NoReport
        /\ flight'[q].ticks = flight[q].ticks /\ flight'[q].gen = flight[q].gen
        /\ flight'[q].of = flight[q].of
    BY <1>1, <1>3, <1>6, <2>1
  <2> QED
    BY <1>1, <2>2 DEF Account, FlightAccount, ReportAccount, NoneToOpen
<1>9. \A q \in Slots : InFlight(q)' = InFlight(q)
  <2>1. InFlight(r)' = InFlight(r)
    BY <1>1, <1>3, <1>4, <1>6 DEF InFlight
  <2>2. \A q \in Slots : q # r => InFlight(q)' = InFlight(q)
    BY <1>6 DEF InFlight
  <2> QED
    BY <2>1, <2>2
<1>10. UNCHANGED [q \in Slots |-> InFlight(q)]
  BY <1>9
<1> QED
  BY <1>1, <1>7, <1>8, <1>10 DEF Account, LedgerStep, Ledger!ledger
\* An answer: the interval is settled, given back, or given up.
LEMMA AnswersAccount ==
    ASSUME Inv, FinalAtQuit, Account, NEW r \in Slots, ReportSucceeds(r) \/ ReportFails(r)
    PROVE  Account' /\ LedgerStep
<1>1. /\ flight[r] # NoReport
      /\ flight' = [flight EXCEPT ![r] = NoReport]
      /\ UNCHANGED <<playGen, plays, listenGen, active, session, audible, lateStop, syncTimer,
                     heard, since>>
  BY DEF ReportSucceeds, ReportFails, Answered, requestVars, sessionVars, mpvVars
<1>2. /\ flight \in [Slots -> Reports \cup {NoReport}]
      /\ listen \in Syncers(Ticks) /\ SpanWhilePlaying(listen)
      /\ ReportAccount(flight[r])
  BY <1>1 DEF Inv, TypeOK, Account, Measured, FlightAccount
<1>3. InFlight(r) = flight[r].ticks
  BY <1>1 DEF InFlight
<1>4. flight'[r] = NoReport /\ \A q \in Slots : q # r => flight'[q] = flight[q]
  BY <1>1, <1>2
<1>5. FlightAccount'
  BY <1>1, <1>4 DEF Account, FlightAccount, ReportAccount, NoneToOpen
<1>6. InFlight(r)' = {} /\ \A q \in Slots : q # r => InFlight(q)' = InFlight(q)
  <2>1. InFlight(r)' = {}
    BY <1>4 DEF InFlight
  <2>2. \A q \in Slots : q # r => InFlight(q)' = InFlight(q)
    BY <1>4 DEF InFlight
  <2> QED
    BY <2>1, <2>2
<1>7. [q \in Slots |-> InFlight(q)'] = [[q \in Slots |-> InFlight(q)] EXCEPT ![r] = {}]
  BY <1>6
<1>8. [q \in Slots |-> InFlight(q)][r] = flight[r].ticks
  BY <1>3
<1>9. CASE ReportSucceeds(r)
  <2>1. settled' = settled \cup flight[r].ticks /\ UNCHANGED <<listen, dropped>>
    BY <1>9 DEF ReportSucceeds
  <2>2. Measured' /\ HeldNow'
    BY <1>1, <2>1 DEF Account, Measured, Sounding, HeldNow
  <2>3. Ledger!Settle(r)
    BY <1>1, <1>7, <1>8, <2>1 DEF Ledger!Settle
  <2> QED
    BY <1>5, <2>2, <2>3 DEF Account, LedgerStep, Ledger!Next
<1>10. CASE ReportFails(r) /\ OwnsAccumulator(flight[r]) /\ flight[r].kind # "final"
  <2>1. /\ listen' = Rollback(listen, flight[r].ticks)
        /\ UNCHANGED <<settled, dropped>>
        /\ flight[r].gen = listenGen
    BY <1>10 DEF ReportFails, OwnsAccumulator
  <2>2. /\ Held(listen') = Held(listen) \cup flight[r].ticks
        /\ listen'.playing = listen.playing /\ SpanWhilePlaying(listen')
    BY <1>2, <2>1, SyncerHolds
  <2>3. Measured'
    BY <1>1, <2>2 DEF Account, Measured, Sounding, SpanWhilePlaying
  <2>4. HeldNow'
    BY <1>1, <1>2, <2>1, <2>2 DEF Account, HeldNow, ReportAccount
  <2>5. active => \A t \in flight[r].ticks : t > since
    BY <1>2, <2>1 DEF ReportAccount
  <2>6. Ledger!Return(r)
    BY <1>1, <1>7, <1>8, <2>1, <2>2, <2>5 DEF Ledger!Return
  <2> QED
    BY <1>5, <2>3, <2>4, <2>6 DEF Account, LedgerStep, Ledger!Next
<1>11. CASE ReportFails(r) /\ ~ (OwnsAccumulator(flight[r]) /\ flight[r].kind # "final")
  <2>1. dropped' = dropped \cup flight[r].ticks /\ UNCHANGED <<settled, listen>>
    BY <1>11 DEF ReportFails
  <2>2. Measured' /\ HeldNow'
    BY <1>1, <2>1 DEF Account, Measured, Sounding, HeldNow
  <2>3. active => \A t \in flight[r].ticks : t <= since
    <3>1. flight[r].kind = "final" => ~active
      BY <1>1 DEF Inv, Lifecycle, Silenced, FinalAtQuit
    <3> QED
      BY <1>2, <1>11, <3>1 DEF OwnsAccumulator, ReportAccount
  <2>4. Ledger!GiveUp(r)
    BY <1>1, <1>7, <1>8, <2>1, <2>3 DEF Ledger!GiveUp
  <2> QED
    BY <1>5, <2>2, <2>4 DEF Account, LedgerStep, Ledger!Next
<1> QED
  BY <1>9, <1>10, <1>11

\* setBaseUrl(): every request in flight is abandoned.
LEMMA SwitchServerAccounts ==
    ASSUME Inv, Account, SwitchServer
    PROVE  Account' /\ LedgerStep
<1>1. /\ ~active /\ plays' = {}
      /\ dropped' = dropped \cup (UNION {InFlight(r) : r \in Slots})
      /\ flight' = [r \in Slots |-> NoReport]
      /\ UNCHANGED <<playGen, listenGen, active, session, audible, lateStop, listen, syncTimer,
                     heard, since, settled>>
  BY DEF SwitchServer, sessionVars, mpvVars
<1>2. Measured' /\ HeldNow' /\ FlightAccount'
  BY <1>1 DEF Account, Measured, Sounding, HeldNow, FlightAccount
<1>3. \A r \in Slots : InFlight(r)' = {}
  BY <1>1 DEF InFlight
<1>4. [r \in Slots |-> InFlight(r)'] = [r \in Slots |-> {}]
  BY <1>3
<1>5. {[r \in Slots |-> InFlight(r)][q] : q \in Slots} = {InFlight(r) : r \in Slots}
  OBVIOUS
<1>6. Ledger!AbortAll
  BY <1>1, <1>4, <1>5 DEF Ledger!AbortAll
<1> QED
  BY <1>2, <1>6 DEF Account, LedgerStep, Ledger!Next

\* Everything else is none of the accounting's business.
LEMMA OthersAccount ==
    ASSUME Inv, Account,
           UNCHANGED <<active, since, heard, listen, flight, settled, dropped, listenGen, playGen,
                       syncTimer>>,
           active => UNCHANGED <<audible, lateStop, session>>,
           plays' \subseteq plays
    PROVE  Account' /\ LedgerStep
<1>1. GenStep
  BY DEF GenStep
<1> QED
  BY <1>1, AccountKept, Unnoticed DEF Inv

\* Moving within the book is no matter of the accounting.
LEMMA SeeksAccount ==
    ASSUME Inv, Account,
           \/ \E p \in Int : SeekGlobal(p)
           \/ \E delta \in Int : Skip(delta)
           \/ NextChapter \/ PreviousChapter
    PROVE  Account' /\ LedgerStep
<1>1. \E p : SeekGlobal(p)
  BY DEF Skip, NextChapter, PreviousChapter
<1>2. /\ UNCHANGED <<active, since, heard, listen, flight, settled, dropped, listenGen, playGen,
                     syncTimer>>
      /\ UNCHANGED <<audible, lateStop, session, plays>>
  BY <1>1 DEF SeekGlobal, requestVars, sessionVars, fateVars
<1> QED
  BY <1>2, OthersAccount

\* Nor are pausing, the sleep timer, mpv playing on and a new token.
LEMMA QuietStepsAccount ==
    ASSUME Inv, Account,
           \/ \E want \in BOOLEAN : RequestPaused(want)
           \/ TogglePlayPause
           \/ \E on \in BOOLEAN : SetSleepTimer(on)
           \/ SetSleepAtChapterEnd \/ CycleSleepTimer \/ SleepTimeout
           \/ QuitTimeout \/ MpvAdvance \/ MpvTells
           \/ \E event \in {"eof", "error"} : MpvEndFile(event)
           \/ TokenChanged
           \/ UNCHANGED vars
    PROVE  Account' /\ LedgerStep
<1>1. /\ UNCHANGED <<active, since, heard, listen, flight, settled, dropped, listenGen, playGen,
                     syncTimer>>
      /\ UNCHANGED <<audible, lateStop, session, plays>>
  BY DEF RequestPaused, TogglePlayPause, SetSleepTimer, SetSleepAtChapterEnd, CycleSleepTimer,
     SleepFor, SleepTimeout, QuitTimeout, MpvAdvance, MpvTells, MpvEndFile, TokenChanged, vars,
     requestVars, sessionVars, mpvVars, reportVars, fateVars
<1> QED
  BY <1>1, OthersAccount

\* onMpvPosition(): as for a seek.
LEMMA PositionChangedAccounts ==
    ASSUME Inv, Account, PositionChanged
    PROVE  Account' /\ LedgerStep
<1>1. /\ UNCHANGED <<active, since, heard, listen, flight, settled, dropped, listenGen, playGen,
                     syncTimer>>
      /\ UNCHANGED <<audible, lateStop, session, plays>>
  BY DEF PositionChanged, requestVars, sessionVars, fateVars
<1> QED
  BY <1>1, OthersAccount

\* startSession(): a reply opens a session or opens nothing.
LEMMA PlayReplyAccounts ==
    ASSUME Inv, Account, PlayReply
    PROVE  Account' /\ LedgerStep
<1>1. PICK play \in plays :
         \/ PlayRefused(play) \/ PlayUnusable(play)
         \/ \E resume \in 0 .. Timeline[play[2]].duration : PlayOpened(play, resume)
  BY DEF PlayReply
<1>2. CASE PlayRefused(play)
  BY <1>2, OthersAccount DEF PlayRefused, sessionVars, mpvVars, reportVars, fateVars
<1>3. CASE PlayUnusable(play)
  <2>1. play[1] = playGen
    BY <1>3 DEF PlayUnusable, Newest
  <2>2. ~active
    BY <2>1 DEF Inv, Lifecycle, NewestChoice, NoneToOpen
  <2> QED
    BY <1>3, <2>2, OthersAccount DEF PlayUnusable, mpvVars, reportVars, fateVars
<1> QED
  BY <1>1, <1>2, <1>3, PlayOpenedAccounts
-----------------------------------------------------------------------------
\* Account is inductive, and every step is a ledger step: one case per action.
LEMMA AccountStep ==
    ASSUME Inv, FinalAtQuit, Account, [Next]_vars
    PROVE  Account' /\ LedgerStep
<1>1. CASE UserStep
  <2>1. ASSUME active, NEW p \in 0 .. Timeline[book].duration, SeekGlobal(p)
        PROVE  Account' /\ LedgerStep
    <3>1. p \in Int
      BY <2>1, BookFacts DEF Inv, Lifecycle, TrackLoaded
    <3> QED
      BY <2>1, <3>1, SeeksAccount
  <2>2. \A delta \in {-1, 1} : delta \in Int
    OBVIOUS
  <2> QED
    BY <1>1, <2>1, <2>2, PlayAccounts, ClosesAccount, QuietStepsAccount, SeeksAccount,
       SwitchServerAccounts DEF UserStep
<1>2. CASE TimerStep
  BY <1>2, QuietStepsAccount, SyncTimersAccount DEF TimerStep
<1>3. CASE MpvStep
  BY <1>3, QuietStepsAccount, PlayingChangedAccounts, PositionChangedAccounts, HandleEofAccounts,
     ClosesAccount DEF MpvStep
<1>4. CASE NetworkStep
  BY <1>4, PlayReplyAccounts, ServerAppliesAccounts, AnswersAccount, QuietStepsAccount
     DEF NetworkStep
<1>5. CASE Tick
  BY <1>5, TickAccounts
<1>6. CASE UNCHANGED vars
  BY <1>6, QuietStepsAccount
<1> QED
  BY <1>1, <1>2, <1>3, <1>4, <1>5, <1>6 DEF Next

\* Nothing heard, nothing in flight.
LEMMA AccountInit == Init => Account /\ Ledger!Init
<1> SUFFICES ASSUME Init PROVE Account /\ Ledger!Init
  OBVIOUS
<1>1. Held(listen) = {} /\ listen.playing = FALSE /\ listen.span = {}
  BY DEF Init, Reset, Held
<1>2. \A r \in Slots : flight[r] = NoReport
  BY DEF Init
<1>3. Account
  BY <1>1, <1>2 DEF Init, Account, Measured, Sounding, SpanWhilePlaying, HeldNow, FlightAccount
<1>4. [r \in Slots |-> InFlight(r)] = [r \in Slots |-> {}]
  BY <1>2 DEF InFlight
<1> QED
  BY <1>1, <1>3, <1>4 DEF Init, Ledger!Init

\* The invariant the refinement rests on.
LEMMA AccountInvariant == Spec => [](Inv /\ FinalAtQuit /\ Account)
<1>1. Init => Inv /\ FinalAtQuit /\ Account
  BY InvInit, AccountInit DEF Init, FinalAtQuit
<1>2. Inv /\ FinalAtQuit /\ Account /\ [Next]_vars => (Inv /\ FinalAtQuit /\ Account)'
  BY InvStep, FinalAtQuitStep, AccountStep DEF Inv
<1> QED
  BY <1>1, <1>2, PTL DEF Spec

\* The accumulator and the interval timer run exactly while the open session is
\* audible, also when the sound of an earlier one is not yet known to be over.
THEOREM MeasuresWhatIsHeard == Spec => []MeasuredWhileAudible
<1>1. Account => MeasuredWhileAudible
  BY DEF Account, Measured, Sounding, MeasuredWhileAudible
<1> QED
  BY <1>1, AccountInvariant, PTL

\* The accounting of the session implements the ledger.
THEOREM SessionImplementsLedger == Spec => ImplementsLedger
<1>1. Init => Ledger!Init
  BY AccountInit
<1>2. Inv /\ FinalAtQuit /\ Account /\ [Next]_vars => [Ledger!Next]_(Ledger!ledger)
  BY AccountStep DEF LedgerStep
<1> QED
  BY <1>1, <1>2, AccountInvariant, PTL DEF Spec, ImplementsLedger, Ledger!Spec
-----------------------------------------------------------------------------
\* The ledger's promise, of the session.
LEMMA PromiseInherited == Spec => [](Ledger!OnePlace /\ Ledger!KeepsItsTime)
<1>1. Ledger!Spec => L!Spec
  <2>1. Ledger!Init => L!Init
    BY DEF Ledger!Init, L!Init
  <2>2. [Ledger!Next]_(Ledger!ledger) => [L!Next]_(L!ledger)
    BY DEF Ledger!Next, L!Next, Ledger!ledger, L!ledger, Ledger!Open, L!Open, Ledger!Hear, L!Hear,
       Ledger!AbortAll, L!AbortAll, Ledger!Reserve, L!Reserve, Ledger!Settle, L!Settle,
       Ledger!Return, L!Return, Ledger!GiveUp, L!GiveUp
  <2> QED
    BY <2>1, <2>2, PTL DEF Ledger!Spec, L!Spec
<1>2. L!Spec => [](L!OnePlace /\ L!KeepsItsTime)
  BY L!LedgerKeepsItsPromise
<1>3. L!OnePlace /\ L!KeepsItsTime => Ledger!OnePlace /\ Ledger!KeepsItsTime
  BY DEF L!OnePlace, Ledger!OnePlace, L!KeepsItsTime, Ledger!KeepsItsTime
<1> QED
  BY <1>1, <1>2, <1>3, SessionImplementsLedger, PTL DEF ImplementsLedger
\* No tick is both in the running span and in the accumulator: folding empties
\* the span, and what a failed request gives back was in neither.
SpanApart == listen.span \cap listen.pending = {}

\* Every way a step changes the accumulator.
ListenStep ==
    \/ UNCHANGED listen
    \/ listen'.span = {}
    \/ listen' = Elapse(listen, heard + 1)
    \/ \E r \in Slots : flight[r] # NoReport /\ listen' = Rollback(listen, flight[r].ticks)

\* takeListenedSeconds() leaves no span behind, also right after stopping.
LEMMA SpanFolded ==
    ASSUME NEW T, NEW s \in Syncers(T), SpanWhilePlaying(s)
    PROVE  Take(s).span = {} /\ Take(SetPlaying(s, FALSE)).span = {}
<1>1. ASSUME NEW u \in Syncers(T), SpanWhilePlaying(u) PROVE Take(u).span = {}
  <2>1. /\ u = [playing |-> u.playing, span |-> u.span, pending |-> u.pending]
        /\ u.playing \/ u.span = {}
    BY <1>1 DEF Syncers, SpanWhilePlaying
  <2>2. FlushInto(u) = [playing |-> u.playing, span |-> {}, pending |-> u.pending \cup u.span]
    BY <2>1 DEF FlushInto
  <2>3. Take(u) = [playing |-> u.playing, span |-> {}, pending |-> {}]
    BY <2>2 DEF Take
  <2> QED
    BY <2>3
<1>2. SetPlaying(s, FALSE) \in Syncers(T) /\ SpanWhilePlaying(SetPlaying(s, FALSE))
  <2>1. FALSE \in BOOLEAN
    OBVIOUS
  <2> QED
    BY <2>1, SyncerTypes, SyncerHolds
<1> QED
  BY <1>1, <1>2

\* ListenStep holds of every step: one case per action.
LEMMA ListenSteps ==
    ASSUME Inv, Account, [Next]_vars
    PROVE  ListenStep
<1>1. listen \in Syncers(Ticks) /\ SpanWhilePlaying(listen)
  BY DEF Inv, TypeOK, Account, Measured
<1>2. ASSUME Sync(listen) \/ Sync(SetPlaying(listen, FALSE)) PROVE ListenStep
  BY <1>1, <1>2, SpanFolded DEF Sync, ListenStep
<1>3. ASSUME NEW m, NEW kind, NEW finished, CloseAs(m, kind, finished) PROVE ListenStep
  BY <1>1, <1>3, SpanFolded DEF CloseAs, ListenStep
<1>4. CASE UNCHANGED listen
  BY <1>4 DEF ListenStep
<1>5. CASE UserStep
  <2>1. \/ UNCHANGED listen
        \/ \E m, kind, finished : CloseAs(m, kind, finished)
    <3>1. ASSUME NEW p, SeekGlobal(p) PROVE UNCHANGED listen
      BY <3>1 DEF SeekGlobal
    <3>2. ASSUME NEW m \in Media, Play(m)
          PROVE  UNCHANGED listen \/ CloseAs(medium, "close", completed)
      BY <3>2 DEF Play, Close, reportVars
    <3>3. ASSUME StopAndClose \/ Quit
          PROVE  UNCHANGED listen \/ \E m, kind, finished : CloseAs(m, kind, finished)
      BY <3>3 DEF StopAndClose, Quit, Close, reportVars
    <3>4. ASSUME \/ \E want \in BOOLEAN : RequestPaused(want)
                 \/ TogglePlayPause
                 \/ \E on \in BOOLEAN : SetSleepTimer(on)
                 \/ SetSleepAtChapterEnd \/ CycleSleepTimer \/ SwitchServer
          PROVE  UNCHANGED listen
      BY <3>4 DEF RequestPaused, TogglePlayPause, SetSleepTimer, SetSleepAtChapterEnd,
         CycleSleepTimer, SleepFor, SwitchServer, reportVars
    <3>5. ASSUME NextChapter \/ PreviousChapter \/ \E delta \in {-1, 1} : Skip(delta)
          PROVE  UNCHANGED listen
      BY <3>1, <3>5 DEF NextChapter, PreviousChapter, Skip
    <3> QED
      BY <1>5, <3>1, <3>2, <3>3, <3>4, <3>5 DEF UserStep
  <2> QED
    BY <1>3, <1>4, <2>1
<1>6. CASE TimerStep
  BY <1>2, <1>4, <1>6 DEF TimerStep, SleepTimeout, QuitTimeout, SyncTimeout, SeekSyncTimeout,
     reportVars
<1>7. CASE MpvStep
  <2>1. ASSUME MpvAdvance \/ MpvTells \/ PositionChanged \/ \E event \in {"eof", "error"} : MpvEndFile(event)
        PROVE  UNCHANGED listen
    BY <2>1 DEF MpvAdvance, MpvTells, PositionChanged, MpvEndFile, reportVars
  <2>2. ASSUME NEW playing \in BOOLEAN, PlayingChanged(playing) PROVE ListenStep
    <3>1. CASE ~active
      BY <1>4, <2>2, <3>1 DEF PlayingChanged, reportVars
    <3>2. CASE active /\ playing
      <4>1. listen' = SetPlaying(listen, TRUE)
        BY <2>2, <3>2 DEF PlayingChanged
      <4>2. listen' = listen \/ listen' = [listen EXCEPT !.playing = TRUE, !.span = {}]
        BY <4>1 DEF SetPlaying
      <4>3. CASE listen' = [listen EXCEPT !.playing = TRUE, !.span = {}]
        BY <1>1, <4>3 DEF ListenStep, Syncers
      <4> QED
        BY <1>4, <4>2, <4>3
    <3>3. CASE active /\ ~playing
      BY <1>2, <2>2, <3>3 DEF PlayingChanged
    <3> QED
      BY <3>1, <3>2, <3>3
  <2>3. CASE HandleEof
    <3>1. NextTrack => Sync(listen) \/ Sync(SetPlaying(listen, FALSE))
      BY DEF NextTrack
    <3>2. FinishBook => CloseAs(medium, "close", TRUE)
      BY DEF FinishBook, Close
    <3> QED
      BY <1>2, <1>3, <1>4, <2>3, <3>1, <3>2 DEF HandleEof, reportVars
  <2>4. CASE HandleError
    BY <1>3, <1>4, <2>4 DEF HandleError, Close, reportVars
  <2> QED
    BY <1>4, <1>7, <2>1, <2>2, <2>3, <2>4 DEF MpvStep
<1>8. CASE NetworkStep
  <2>1. PlayReply => UNCHANGED listen \/ listen' = Reset
    BY DEF PlayReply, PlayRefused, PlayUnusable, PlayOpened, reportVars
  <2>2. \A r \in Slots : ServerApplies(r) \/ ReportSucceeds(r) => UNCHANGED listen
    BY DEF ServerApplies, ReportSucceeds
  <2>3. ASSUME NEW r \in Slots, ReportFails(r) PROVE ListenStep
    BY <1>4, <2>3 DEF ReportFails, Answered, ListenStep
  <2>4. TokenChanged => UNCHANGED listen
    BY DEF TokenChanged, reportVars
  <2>5. listen' = Reset => ListenStep
    BY DEF Reset, ListenStep
  <2> QED
    BY <1>4, <1>8, <2>1, <2>2, <2>3, <2>4, <2>5 DEF NetworkStep
<1>9. CASE Tick
  BY <1>9 DEF Tick, ListenStep
<1>10. CASE UNCHANGED vars
  BY <1>4, <1>10 DEF vars, reportVars
<1> QED
  BY <1>5, <1>6, <1>7, <1>8, <1>9, <1>10 DEF Next

\* SpanApart is inductive, given that the ledger keeps each tick in one place.
LEMMA SpanApartStep ==
    ASSUME Inv, Account, Ledger!OnePlace, SpanApart, [Next]_vars
    PROVE  SpanApart'
<1>1. ListenStep
  BY ListenSteps
<1>2. /\ listen = [playing |-> listen.playing, span |-> listen.span, pending |-> listen.pending]
      /\ listen.span \subseteq 1 .. heard /\ listen.pending \subseteq 1 .. heard
      /\ heard \in Nat
  BY SessionAssumption DEF Inv, TypeOK, Syncers, Account, HeldNow, Held
<1>3. CASE UNCHANGED listen
  BY <1>3 DEF SpanApart
<1>4. CASE listen'.span = {}
  BY <1>4 DEF SpanApart
<1>5. CASE listen' = Elapse(listen, heard + 1)
  <2>1. listen'.pending = listen.pending /\ listen'.span \subseteq listen.span \cup {heard + 1}
    BY <1>2, <1>5 DEF Elapse
  <2> QED
    BY <1>2, <2>1 DEF SpanApart
<1>6. ASSUME NEW r \in Slots, flight[r] # NoReport, listen' = Rollback(listen, flight[r].ticks)
      PROVE  SpanApart'
  <2>1. /\ listen'.span = listen.span
        /\ listen'.pending = listen.pending \cup flight[r].ticks
    BY <1>2, <1>6 DEF Rollback
  <2>2. [q \in Slots |-> InFlight(q)][r] = flight[r].ticks
    BY <1>6 DEF InFlight
  <2>3. flight[r].ticks \cap Held(listen) = {}
    BY <2>2 DEF Ledger!OnePlace
  <2> QED
    BY <2>1, <2>3 DEF SpanApart, Held
<1> QED
  BY <1>1, <1>3, <1>4, <1>5, <1>6 DEF ListenStep

\* Every tick ever heard is in exactly one place: the running span, the
\* accumulator, one request in flight, with the server, or dropped.
THEOREM TicksInOnePlace == Spec => []EachTickInOnePlace
<1>1. Init => SpanApart
  BY DEF Init, Reset, SpanApart
<1>2. Inv /\ Account /\ Ledger!OnePlace /\ SpanApart /\ [Next]_vars => SpanApart'
  BY SpanApartStep
<1>3. Spec => []SpanApart
  BY <1>1, <1>2, AccountInvariant, PromiseInherited, PTL DEF Spec
<1>4. Ledger!OnePlace /\ SpanApart => EachTickInOnePlace
  <2> SUFFICES ASSUME Ledger!OnePlace, SpanApart PROVE EachTickInOnePlace
    OBVIOUS
  <2> DEFINE reserved == [r \in Slots |-> InFlight(r)]
  <2>1. /\ 1 .. heard = Held(listen) \cup (UNION {reserved[r] : r \in Slots}) \cup settled \cup dropped
        /\ Held(listen) \cap (settled \cup dropped) = {}
        /\ settled \cap dropped = {}
        /\ \A r \in Slots : reserved[r] \cap (Held(listen) \cup settled \cup dropped) = {}
        /\ \A q, r \in Slots : q # r => reserved[q] \cap reserved[r] = {}
    BY DEF Ledger!OnePlace
  <2>2. \A r \in Slots : reserved[r] = InFlight(r)
    OBVIOUS
  <2> HIDE DEF reserved
  <2>3. {reserved[r] : r \in Slots} = {InFlight(r) : r \in Slots}
    BY <2>2
  <2>4. 1 .. heard = Held(listen) \cup (UNION {InFlight(r) : r \in Slots}) \cup settled \cup dropped
    BY <2>1, <2>3
  <2> QED
    BY <2>1, <2>2, <2>4 DEF EachTickInOnePlace, SpanApart
<1> QED
  BY <1>3, <1>4, PromiseInherited, PTL

\* None of the time heard in the open session is given up, and none of an
\* earlier session's is taken in.
THEOREM OpenSessionTime == Spec => []OpenSessionKeepsItsTime
<1>1. Account /\ Ledger!KeepsItsTime => OpenSessionKeepsItsTime
  BY DEF Account, FlightAccount, ReportAccount, Ledger!KeepsItsTime, OpenSessionKeepsItsTime
<1> QED
  BY <1>1, AccountInvariant, PromiseInherited, PTL
-----------------------------------------------------------------------------
\* What changes neither the sleep timer nor what it goes by, or disarms it.
LEMMA SleepKept ==
    ASSUME Inv, SleepFollowsSound,
           sleep' = "off" \/ UNCHANGED <<sleep, active, audible, lateStop>>
    PROVE  SleepFollowsSound'
BY DEF SleepFollowsSound

\* setSleepTimer(), setSleepAtChapterEnd(), cycleSleepTimer(): a countdown is
\* armed running or held as the session is audible or not.
LEMMA SleepArmed ==
    ASSUME Inv, SetSleepAtChapterEnd \/ CycleSleepTimer \/ \E on \in BOOLEAN : SetSleepTimer(on)
    PROVE  SleepFollowsSound'
<1>1. /\ active /\ UNCHANGED <<active, audible, lateStop>>
      /\ \/ sleep' = "off" \/ sleep' = "chapter"
         \/ audible /\ sleep' = "running"
         \/ ~audible /\ sleep' = "held"
  BY DEF SetSleepTimer, SetSleepAtChapterEnd, CycleSleepTimer, SleepFor, sessionVars, mpvVars
<1> QED
  BY <1>1 DEF SleepFollowsSound

\* onPlayingChanged(): the countdown is held and resumed with the sound.
LEMMA SleepHeldAndResumed ==
    ASSUME Inv, SleepFollowsSound, NEW playing \in BOOLEAN, PlayingChanged(playing)
    PROVE  SleepFollowsSound'
<1>1. audible' = playing /\ UNCHANGED active
  BY DEF PlayingChanged, sessionVars
<1>2. CASE ~active
  BY <1>1, <1>2 DEF PlayingChanged, SleepFollowsSound
<1>3. CASE active /\ playing
  <2>1. active' /\ audible' /\ sleep' = IF sleep = "held" THEN "running" ELSE sleep
    BY <1>1, <1>3 DEF PlayingChanged
  <2> QED
    BY <2>1 DEF SleepFollowsSound
<1>4. CASE active /\ ~playing
  <2>1. active' /\ ~audible' /\ sleep' = IF sleep = "running" THEN "held" ELSE sleep
    BY <1>1, <1>4 DEF PlayingChanged
  <2> QED
    BY <2>1 DEF SleepFollowsSound
<1> QED
  BY <1>2, <1>3, <1>4

\* onEndOfFile(): the next track may begin paused.
LEMMA SleepAtNextTrack ==
    ASSUME Inv, SleepFollowsSound, NextTrack
    PROVE  SleepFollowsSound'
<1>1. active /\ UNCHANGED active
  BY DEF NextTrack
<1>2. audible \in BOOLEAN /\ paused \in BOOLEAN
  BY DEF Inv, TypeOK
<1>3. CASE currentTrack + 1 \in queued
  <2>1. /\ audible' = (audible /\ ~paused)
        /\ sleep' = IF audible /\ paused /\ sleep = "running" THEN "held" ELSE sleep
    BY <1>3 DEF NextTrack
  <2>2. CASE audible /\ paused
    BY <1>1, <2>1, <2>2 DEF SleepFollowsSound
  <2>3. CASE ~ (audible /\ paused)
    BY <1>1, <2>1, <2>3 DEF SleepFollowsSound
  <2> QED
    BY <2>2, <2>3
<1>4. CASE currentTrack + 1 \notin queued
  BY <1>1, <1>4 DEF NextTrack, SleepFollowsSound
<1> QED
  BY <1>3, <1>4

\* One case per action.
LEMMA SleepStep ==
    ASSUME Inv, SleepFollowsSound, [Next]_vars
    PROVE  SleepFollowsSound'
<1>1. CASE UserStep
  <2>1. ASSUME NEW p, SeekGlobal(p) PROVE UNCHANGED <<sleep, active, audible, lateStop>>
    BY <2>1 DEF SeekGlobal, sessionVars
  <2>2. ASSUME NEW m \in Media, Play(m)
        PROVE  sleep' = "off" \/ UNCHANGED <<sleep, active, audible, lateStop>>
    BY <2>2 DEF Play, Close, CloseAs, sleepVars
  <2>3. ASSUME StopAndClose \/ Quit
        PROVE  sleep' = "off" \/ UNCHANGED <<sleep, active, audible, lateStop>>
    BY <2>3 DEF StopAndClose, Quit, Close, CloseAs, sleepVars, mpvVars
  <2>4. ASSUME (\E want \in BOOLEAN : RequestPaused(want)) \/ TogglePlayPause \/ SwitchServer
        PROVE  UNCHANGED <<sleep, active, audible, lateStop>>
    BY <2>4 DEF RequestPaused, TogglePlayPause, SwitchServer, sessionVars, sleepVars, mpvVars
  <2>5. ASSUME NextChapter \/ PreviousChapter \/ \E delta \in {-1, 1} : Skip(delta)
        PROVE  UNCHANGED <<sleep, active, audible, lateStop>>
    BY <2>1, <2>5 DEF NextChapter, PreviousChapter, Skip
  <2> QED
    BY <1>1, <2>1, <2>2, <2>3, <2>4, <2>5, SleepKept, SleepArmed DEF UserStep
<1>2. CASE TimerStep
  BY <1>2, SleepKept DEF TimerStep, SleepTimeout, QuitTimeout, SyncTimeout, SeekSyncTimeout,
     sessionVars, sleepVars, mpvVars
<1>3. CASE MpvStep
  <2>1. ASSUME MpvAdvance \/ MpvTells \/ PositionChanged \/ \E event \in {"eof", "error"} : MpvEndFile(event)
        PROVE  sleep' = "off" \/ UNCHANGED <<sleep, active, audible, lateStop>>
    BY <2>1 DEF MpvAdvance, MpvTells, PositionChanged, MpvEndFile, sessionVars, sleepVars
  <2>2. CASE HandleEof
    <3>1. FinishBook => sleep' = "off"
      BY DEF FinishBook, Close, CloseAs
    <3>2. CASE ~active /\ UNCHANGED <<active, sleepVars>>
      BY <3>2 DEF SleepFollowsSound, sleepVars
    <3> QED
      BY <2>2, <3>1, <3>2, SleepKept, SleepAtNextTrack DEF HandleEof
  <2>3. CASE HandleError
    <3>1. CASE active
      BY <2>3, <3>1, SleepKept DEF HandleError, Close, CloseAs
    <3>2. CASE ~active
      BY <2>3, <3>2 DEF HandleError, SleepFollowsSound, sleepVars
    <3> QED
      BY <3>1, <3>2
  <2> QED
    BY <1>3, <2>1, <2>2, <2>3, SleepKept, SleepHeldAndResumed DEF MpvStep
<1>4. CASE NetworkStep
  <2>1. ASSUME NEW play \in plays, NEW resume, PlayOpened(play, resume)
        PROVE  SleepFollowsSound'
    <3>1. ~active
      BY <2>1 DEF PlayOpened, Newest, Inv, Lifecycle, NewestChoice, NoneToOpen
    <3> QED
      BY <2>1, <3>1 DEF PlayOpened, SleepFollowsSound, sleepVars
  <2>2. ASSUME NEW play \in plays, PlayRefused(play) \/ PlayUnusable(play)
        PROVE  UNCHANGED <<sleep, active, audible, lateStop>>
    BY <2>2 DEF PlayRefused, PlayUnusable, sessionVars, sleepVars, mpvVars
  <2>3. ASSUME TokenChanged \/ \E r \in Slots : ServerApplies(r) \/ ReportSucceeds(r) \/ ReportFails(r)
        PROVE  UNCHANGED <<sleep, active, audible, lateStop>>
    BY <2>3 DEF TokenChanged, ServerApplies, ReportSucceeds, ReportFails, Answered,
       sessionVars, sleepVars, mpvVars
  <2> QED
    BY <1>4, <2>1, <2>2, <2>3, SleepKept DEF NetworkStep, PlayReply
<1>5. CASE Tick \/ UNCHANGED vars
  BY <1>5, SleepKept DEF Tick, vars, sessionVars, sleepVars, mpvVars
<1> QED
  BY <1>1, <1>2, <1>3, <1>4, <1>5 DEF Next

\* The accumulator, the interval timer and the sleep timer go by what is heard:
\* none of them runs while the open session is silent or after it is closed.
THEOREM TimersGoBySound == Spec => []TimersFollowSound
<1>1. Init => SleepFollowsSound
  BY DEF Init, SleepFollowsSound
<1>2. Inv /\ SleepFollowsSound /\ [Next]_vars => SleepFollowsSound'
  BY SleepStep
<1>3. Spec => []SleepFollowsSound
  BY <1>1, <1>2, AccountInvariant, PTL DEF Spec
<1>4. MeasuredWhileAudible /\ SleepFollowsSound => TimersFollowSound
  BY DEF TimersFollowSound
<1> QED
  BY <1>3, <1>4, MeasuresWhatIsHeard, PTL
-----------------------------------------------------------------------------
\* How a step touches the requests in flight: one leaves for the open session,
\* a close as the session ends; one is applied or answered; all are abandoned.
Sends == active /\ \E kind \in {"sync", "close", "final"} : \E ticks :
                     Post(kind, ticks) /\ (kind # "sync" => ~active')

ReportStep ==
    \/ /\ UNCHANGED flight \/ Sends
       /\ UNCHANGED serverVars
       /\ settled \subseteq settled' /\ dropped \subseteq dropped'
    \/ \E r \in Slots : ServerApplies(r) \/ ReportSucceeds(r) \/ ReportFails(r)
    \/ SwitchServer

\* How a step touches which session is open and which may still be opened.
OpenStep ==
    /\ \/ ~active'
       \/ active /\ UNCHANGED session
       \/ \E play \in plays : \E resume : PlayOpened(play, resume)
    /\ \/ playGen' = playGen /\ plays' \subseteq plays
       \/ playGen' = playGen + 1 /\ ~active'

\* ReportStep holds of every step: one case per action.
LEMMA ReportSteps == ASSUME Inv, [Next]_vars PROVE ReportStep
<1> DEFINE kept == settled \subseteq settled' /\ dropped \subseteq dropped'
<1>1. ASSUME NEW s, active, Sync(s) PROVE UNCHANGED flight \/ Sends
  BY <1>1 DEF Sync, Sends
<1>2. ASSUME active, NEW m, NEW kind \in {"close", "final"}, NEW finished, CloseAs(m, kind, finished)
      PROVE  Sends
  BY <1>2 DEF CloseAs, Sends
<1>3. CASE UserStep
  <2>1. ASSUME NEW p, SeekGlobal(p) PROVE UNCHANGED <<flight, serverVars>> /\ kept
    BY <2>1 DEF SeekGlobal, fateVars
  <2>2. ASSUME NEW m \in Media, Play(m)
        PROVE  (UNCHANGED flight \/ Sends) /\ UNCHANGED serverVars /\ kept
    BY <1>2, <2>2 DEF Play, Close, fateVars, reportVars
  <2>3. ASSUME StopAndClose \/ Quit
        PROVE  (UNCHANGED flight \/ Sends) /\ UNCHANGED serverVars /\ kept
    BY <1>2, <2>3 DEF StopAndClose, Quit, Close, fateVars, reportVars
  <2>4. ASSUME \/ \E want \in BOOLEAN : RequestPaused(want)
               \/ TogglePlayPause
               \/ \E on \in BOOLEAN : SetSleepTimer(on)
               \/ SetSleepAtChapterEnd \/ CycleSleepTimer
        PROVE  UNCHANGED <<flight, serverVars>> /\ kept
    BY <2>4 DEF RequestPaused, TogglePlayPause, SetSleepTimer, SetSleepAtChapterEnd,
       CycleSleepTimer, SleepFor, reportVars, fateVars
  <2>5. ASSUME NextChapter \/ PreviousChapter \/ \E delta \in {-1, 1} : Skip(delta)
        PROVE  UNCHANGED <<flight, serverVars>> /\ kept
    BY <2>1, <2>5 DEF NextChapter, PreviousChapter, Skip
  <2> QED
    BY <1>3, <2>1, <2>2, <2>3, <2>4, <2>5 DEF UserStep, ReportStep
<1>4. CASE TimerStep
  BY <1>1, <1>4 DEF TimerStep, SleepTimeout, QuitTimeout, SyncTimeout, SeekSyncTimeout, ReportStep,
     reportVars, fateVars
<1>5. CASE MpvStep
  <2>1. ASSUME MpvAdvance \/ MpvTells \/ PositionChanged \/ \E event \in {"eof", "error"} : MpvEndFile(event)
        PROVE  UNCHANGED <<flight, serverVars>> /\ kept
    BY <2>1 DEF MpvAdvance, MpvTells, PositionChanged, MpvEndFile, reportVars, fateVars
  <2>2. ASSUME NEW playing \in BOOLEAN, PlayingChanged(playing)
        PROVE  (UNCHANGED flight \/ Sends) /\ UNCHANGED serverVars /\ kept
    BY <1>1, <2>2 DEF PlayingChanged, reportVars, fateVars
  <2>3. CASE HandleEof
    <3>1. NextTrack => active /\ \E s : Sync(s)
      BY DEF NextTrack
    <3>2. FinishBook => active /\ CloseAs(medium, "close", TRUE)
      BY DEF FinishBook, Close
    <3> QED
      BY <1>1, <1>2, <2>3, <3>1, <3>2 DEF HandleEof, ReportStep, reportVars, fateVars
  <2>4. CASE HandleError
    BY <1>2, <2>4 DEF HandleError, Close, ReportStep, reportVars, fateVars
  <2> QED
    BY <1>5, <2>1, <2>2, <2>3, <2>4 DEF MpvStep, ReportStep
<1>6. CASE NetworkStep
  <2>1. ASSUME NEW play \in plays, NEW resume, PlayOpened(play, resume)
        PROVE  UNCHANGED <<flight, serverVars>> /\ kept
    BY <2>1 DEF PlayOpened
  <2>2. ASSUME NEW play \in plays, PlayRefused(play) \/ PlayUnusable(play)
        PROVE  UNCHANGED <<flight, serverVars>> /\ kept
    BY <2>2 DEF PlayRefused, PlayUnusable, reportVars, fateVars
  <2>3. TokenChanged => UNCHANGED <<flight, serverVars>> /\ kept
    BY DEF TokenChanged, reportVars, fateVars
  <2> QED
    BY <1>6, <2>1, <2>2, <2>3 DEF NetworkStep, PlayReply, ReportStep
<1>7. CASE Tick \/ UNCHANGED vars
  BY <1>7 DEF Tick, vars, ReportStep, reportVars, fateVars
<1> QED
  BY <1>3, <1>4, <1>5, <1>6, <1>7 DEF Next

\* OpenStep holds of every step: one case per action.
LEMMA OpenSteps == ASSUME Inv, [Next]_vars PROVE OpenStep
<1> DEFINE same == UNCHANGED <<active, session, playGen>> /\ plays' \subseteq plays
<1>1. same => OpenStep
  BY DEF OpenStep
<1>2. CASE UserStep
  <2>1. ASSUME NEW p, SeekGlobal(p) PROVE same
    BY <2>1 DEF SeekGlobal, requestVars, sessionVars
  <2>2. ASSUME NEW m \in Media, Play(m) PROVE OpenStep
    <3>1. ~active'
      BY <2>2 DEF Play, Close, CloseAs
    <3> QED
      BY <2>2, <3>1 DEF Play, OpenStep
  <2>3. ASSUME StopAndClose \/ Quit PROVE OpenStep
    <3>1. ~active' /\ UNCHANGED <<playGen, plays>>
      BY <2>3 DEF StopAndClose, Quit, Close, CloseAs, requestVars
    <3> QED
      BY <3>1 DEF OpenStep
  <2>4. ASSUME \/ \E want \in BOOLEAN : RequestPaused(want)
               \/ TogglePlayPause
               \/ \E on \in BOOLEAN : SetSleepTimer(on)
               \/ SetSleepAtChapterEnd \/ CycleSleepTimer \/ SwitchServer
        PROVE  same
    BY <2>4 DEF RequestPaused, TogglePlayPause, SetSleepTimer, SetSleepAtChapterEnd,
       CycleSleepTimer, SleepFor, SwitchServer, requestVars, sessionVars
  <2>5. ASSUME NextChapter \/ PreviousChapter \/ \E delta \in {-1, 1} : Skip(delta)
        PROVE  same
    BY <2>1, <2>5 DEF NextChapter, PreviousChapter, Skip
  <2> QED
    BY <1>1, <1>2, <2>1, <2>2, <2>3, <2>4, <2>5 DEF UserStep
<1>3. CASE TimerStep
  BY <1>1, <1>3 DEF TimerStep, SleepTimeout, QuitTimeout, SyncTimeout, SeekSyncTimeout,
     requestVars, sessionVars
<1>4. CASE MpvStep
  <2>1. ASSUME \/ MpvAdvance \/ MpvTells \/ PositionChanged \/ \E event \in {"eof", "error"} : MpvEndFile(event)
               \/ \E playing \in BOOLEAN : PlayingChanged(playing)
        PROVE  same
    BY <2>1 DEF MpvAdvance, MpvTells, PositionChanged, MpvEndFile, PlayingChanged, requestVars, sessionVars
  <2>2. CASE HandleEof \/ HandleError
    <3>1. /\ ~active' \/ UNCHANGED <<active, session>>
          /\ UNCHANGED <<playGen, plays>>
      BY <2>2 DEF HandleEof, HandleError, NextTrack, FinishBook, Close, CloseAs, requestVars
    <3> QED
      BY <3>1 DEF OpenStep
  <2> QED
    BY <1>1, <1>4, <2>1, <2>2 DEF MpvStep
<1>5. CASE NetworkStep
  <2>1. ASSUME NEW play \in plays, NEW resume, PlayOpened(play, resume) PROVE OpenStep
    <3>1. playGen' = playGen /\ plays' \subseteq plays
      BY <2>1 DEF PlayOpened
    <3> QED
      BY <2>1, <3>1 DEF OpenStep
  <2>2. ASSUME NEW play \in plays, PlayRefused(play) PROVE same
    BY <2>2 DEF PlayRefused, sessionVars
  <2>3. ASSUME NEW play \in plays, PlayUnusable(play) PROVE OpenStep
    <3>1. ~active
      BY <2>3 DEF PlayUnusable, Newest, Inv, Lifecycle, NewestChoice, NoneToOpen
    <3> QED
      BY <2>3, <3>1 DEF PlayUnusable, OpenStep
  <2>4. ASSUME TokenChanged \/ \E r \in Slots : ServerApplies(r) \/ ReportSucceeds(r) \/ ReportFails(r)
        PROVE  same
    BY <2>4 DEF TokenChanged, ServerApplies, ReportSucceeds, ReportFails, Answered,
       requestVars, sessionVars
  <2> QED
    BY <1>1, <1>5, <2>1, <2>2, <2>3, <2>4 DEF NetworkStep, PlayReply
<1>6. CASE Tick \/ UNCHANGED vars
  BY <1>1, <1>6 DEF Tick, vars, requestVars, sessionVars
<1> QED
  BY <1>2, <1>3, <1>4, <1>5, <1>6 DEF Next
-----------------------------------------------------------------------------
\* A close of session s is in flight in r.
CloseOf(r, s) == flight[r] # NoReport /\ flight[r].kind # "sync" /\ flight[r].of = s

\* The server has credited what r carries, and the answer is still to come.
Applied(r) == flight[r] # NoReport /\ flight[r].applied

\* What Post() puts into a free slot.
LEMMA PostedReport ==
    ASSUME TypeOK, NEW kind, NEW ticks, Post(kind, ticks)
    PROVE  \/ UNCHANGED flight
           \/ \E r \in Slots :
                /\ flight[r] = NoReport
                /\ flight'[r].kind = kind /\ flight'[r].of = session /\ ~flight'[r].applied
                /\ \A q \in Slots : q # r => flight'[q] = flight[q]
<1> DEFINE new == [kind |-> kind, of |-> session, gen |-> listenGen,
                   ticks |-> ticks, applied |-> FALSE]
<1>1. CASE ~ UNCHANGED flight
  <2>1. PICK r \in Slots : flight[r] = NoReport /\ flight' = [flight EXCEPT ![r] = new]
    BY <1>1 DEF Post
  <2>2. new.kind = kind /\ new.of = session /\ ~new.applied
    OBVIOUS
  <2> HIDE DEF new
  <2>3. flight'[r] = new /\ \A q \in Slots : q # r => flight'[q] = flight[q]
    BY <2>1 DEF TypeOK
  <2> QED
    BY <2>1, <2>2, <2>3
<1> QED
  BY <1>1

\* Applying a request marks it, and nothing else.
LEMMA AppliedReport ==
    ASSUME TypeOK, NEW r \in Slots, ServerApplies(r)
    PROVE  /\ flight[r] # NoReport /\ ~flight[r].applied /\ flight'[r] # NoReport
           /\ flight'[r].kind = flight[r].kind /\ flight'[r].of = flight[r].of
           /\ flight'[r].ticks = flight[r].ticks /\ flight'[r].applied
           /\ \A q \in Slots : q # r => flight'[q] = flight[q]
<1>1. /\ flight[r] # NoReport /\ ~flight[r].applied
      /\ flight' = [flight EXCEPT ![r] = [flight[r] EXCEPT !.applied = TRUE]]
  BY DEF ServerApplies
<1>2. flight \in [Slots -> Reports \cup {NoReport}] /\ flight[r] \in Reports
  BY <1>1 DEF TypeOK
<1> DEFINE new == [flight[r] EXCEPT !.applied = TRUE]
<1>3. /\ new.kind = flight[r].kind /\ new.of = flight[r].of /\ new.ticks = flight[r].ticks
      /\ new.applied /\ new \in Reports
  BY <1>2 DEF Reports
<1>4. new # NoReport
  BY <1>3, ReportAssumption
<1>5. flight' = [flight EXCEPT ![r] = new]
  BY <1>1
<1> HIDE DEF new
<1>6. flight'[r] = new /\ \A q \in Slots : q # r => flight'[q] = flight[q]
  BY <1>2, <1>5
<1> QED
  BY <1>1, <1>3, <1>4, <1>6

\* An answer frees its slot, and no other.
LEMMA AnsweredReport ==
    ASSUME TypeOK, NEW r \in Slots, Answered(r)
    PROVE  /\ flight[r] # NoReport /\ flight'[r] = NoReport
           /\ \A q \in Slots : q # r => flight'[q] = flight[q]
BY DEF Answered, TypeOK
-----------------------------------------------------------------------------
\* A session that no reply can open any more.
Past(s) == s <= playGen /\ (s = playGen => NoneToOpen)

\* The closes in flight: none appears but that of the session a step closes.
CloseStep ==
    \/ \A q \in Slots : \A s : CloseOf(q, s)' => CloseOf(q, s)
    \/ /\ active /\ ~active'
       /\ \E r \in Slots : \A q \in Slots : \A s :
             CloseOf(q, s)' => CloseOf(q, s) \/ (q = r /\ s = session)

\* CloseStep holds of every step, and the server closes what it is asked to.
LEMMA CloseSteps ==
    ASSUME Inv, [Next]_vars
    PROVE  /\ CloseStep
           /\ \A s \in serverClosed' : s \in serverClosed \/ \E r \in Slots : CloseOf(r, s)
<1>1. ReportStep /\ TypeOK
  BY ReportSteps DEF Inv
<1>2. CASE UNCHANGED <<flight, serverVars>>
  BY <1>2 DEF CloseStep, CloseOf, serverVars
<1>3. CASE Sends /\ UNCHANGED serverVars
  <2>1. PICK kind \in {"sync", "close", "final"} :
           \E ticks : Post(kind, ticks) /\ (kind # "sync" => ~active')
    BY <1>3 DEF Sends
  <2>2. PICK ticks : Post(kind, ticks) /\ (kind # "sync" => ~active')
    BY <2>1
  <2>3. CASE UNCHANGED flight
    BY <1>3, <2>3 DEF CloseStep, CloseOf, serverVars
  <2>4. ASSUME NEW r \in Slots, flight'[r].kind = kind, flight'[r].of = session,
               \A q \in Slots : q # r => flight'[q] = flight[q]
        PROVE  CloseStep
    <3>1. active
      BY <1>3 DEF Sends
    <3> QED
      BY <2>2, <2>4, <3>1 DEF CloseStep, CloseOf
  <2>5. CloseStep
    BY <1>1, <2>2, <2>3, <2>4, PostedReport
  <2> QED
    BY <1>3, <2>5 DEF serverVars
<1>4. ASSUME NEW r \in Slots, ServerApplies(r)
      PROVE  /\ CloseStep
             /\ \A s \in serverClosed' : s \in serverClosed \/ CloseOf(r, s)
  BY <1>1, <1>4, AppliedReport DEF ServerApplies, CloseStep, CloseOf
<1>5. ASSUME NEW r \in Slots, ReportSucceeds(r) \/ ReportFails(r)
      PROVE  CloseStep /\ UNCHANGED serverClosed
  <2>1. Answered(r)
    BY <1>5 DEF ReportSucceeds, ReportFails
  <2> QED
    BY <1>1, <2>1, AnsweredReport DEF CloseStep, CloseOf, Answered, serverVars
<1>6. CASE SwitchServer
  BY <1>6 DEF SwitchServer, CloseStep, CloseOf, serverVars
<1> QED
  BY <1>1, <1>2, <1>3, <1>4, <1>5, <1>6 DEF ReportStep

\* The invariant: with what NothingAfterClose says, a closed session is past.
ClosedForGood == NothingAfterClose /\ \A s \in serverClosed : Past(s)

\* NothingAfterClose, of CloseOf.
LEMMA ClosedOnce ==
    NothingAfterClose <=>
       /\ active => session \notin serverClosed /\ \A r \in Slots : ~CloseOf(r, session)
       /\ \A q, r \in Slots : \A s : CloseOf(q, s) /\ CloseOf(r, s) => q = r
BY DEF NothingAfterClose, CloseOf

\* A session that is past stays past, and is not the one that opens.
LEMMA PastStays ==
    ASSUME Inv, [Next]_vars, NEW s \in Nat, Past(s)
    PROVE  Past(s)' /\ \A play \in plays : \A resume : PlayOpened(play, resume) => session' # s
<1>1. playGen \in Nat
  BY DEF Inv, TypeOK, Sessions
<1>2. OpenStep
  BY OpenSteps
<1>3. Past(s)'
  <2>1. CASE playGen' = playGen /\ plays' \subseteq plays
    BY <2>1 DEF Past, NoneToOpen
  <2>2. CASE playGen' = playGen + 1
    BY <1>1, <2>2 DEF Past
  <2> QED
    BY <1>2, <2>1, <2>2 DEF OpenStep
<1>4. ASSUME NEW play \in plays, NEW resume, PlayOpened(play, resume) PROVE session' # s
  BY <1>4 DEF PlayOpened, Newest, Past, NoneToOpen
<1> QED
  BY <1>3, <1>4

\* ClosedForGood is inductive, given Account.
LEMMA ClosedForGoodStep ==
    ASSUME Inv, Account, ClosedForGood, [Next]_vars
    PROVE  ClosedForGood'
<1>1. CloseStep /\ \A s \in serverClosed' : s \in serverClosed \/ \E r \in Slots : CloseOf(r, s)
  BY CloseSteps
<1>2. \A r \in Slots : \A s : CloseOf(r, s) => s \in Nat /\ Past(s)
  <2>1. ASSUME NEW r \in Slots, flight[r] # NoReport PROVE flight[r].of \in Nat /\ Past(flight[r].of)
    <3>1. flight[r] \in Reports /\ ReportAccount(flight[r])
      BY <2>1 DEF Inv, TypeOK, Account, FlightAccount
    <3> QED
      BY <3>1 DEF Reports, Sessions, ReportAccount, Past
  <2> QED
    BY <2>1 DEF CloseOf
<1>3. \A s \in serverClosed : s \in Nat /\ Past(s)
  BY DEF ClosedForGood, Inv, TypeOK, Sessions
<1>4. \A s \in serverClosed' : Past(s)'
  BY <1>1, <1>2, <1>3, PastStays
<1>5. /\ active => session \notin serverClosed /\ \A r \in Slots : ~CloseOf(r, session)
      /\ \A q, r \in Slots : \A s : CloseOf(q, s) /\ CloseOf(r, s) => q = r
  BY ClosedOnce DEF ClosedForGood
<1>6. \A q, r \in Slots : \A s : CloseOf(q, s)' /\ CloseOf(r, s)' => q = r
  BY <1>1, <1>5 DEF CloseStep
<1>7. ASSUME active'
      PROVE  session' \notin serverClosed' /\ \A r \in Slots : ~(CloseOf(r, session)')
  <2>1. \A q \in Slots : \A s : CloseOf(q, s)' => CloseOf(q, s)
    BY <1>1, <1>7 DEF CloseStep
  <2>2. \A r \in Slots : CloseOf(r, session)' => CloseOf(r, session')
    BY <2>1 DEF CloseOf
  <2>3. CASE active /\ UNCHANGED session
    BY <1>1, <1>5, <2>2, <2>3
  <2>4. CASE \E play \in plays : \E resume : PlayOpened(play, resume)
    BY <1>1, <1>2, <1>3, <2>2, <2>4, PastStays
  <2> QED
    BY <1>7, <2>3, <2>4, OpenSteps DEF OpenStep
<1>8. NothingAfterClose'
  BY <1>6, <1>7 DEF NothingAfterClose, CloseOf
<1> QED
  BY <1>4, <1>8 DEF ClosedForGood

\* Once a close has left, its session is never reported again, and it is closed
\* by one request only: the generation that opened it is past.
THEOREM CloseIsFinal == Spec => []NothingAfterClose
<1>1. Init => ClosedForGood
  BY DEF Init, ClosedForGood, NothingAfterClose
<1>2. Inv /\ Account /\ ClosedForGood /\ [Next]_vars => ClosedForGood'
  BY ClosedForGoodStep
<1>3. ClosedForGood => NothingAfterClose
  BY DEF ClosedForGood
<1> QED
  BY <1>1, <1>2, <1>3, AccountInvariant, PTL DEF Spec
-----------------------------------------------------------------------------
\* What the server has credited is settled, given up, or applied and not yet
\* answered.
CreditAccount ==
    \A t \in credited : t \in settled \/ t \in dropped
                        \/ \E r \in Slots : Applied(r) /\ t \in flight[r].ticks

Credit == CreditAccount /\ CreditedOnce

\* Credit is inductive when a request fails only if the server has not seen it.
LEMMA CreditStep ==
    ASSUME ~LostReplies, Inv, EachTickInOnePlace, Credit, [Next]_vars
    PROVE  Credit'
<1>1. ReportStep /\ TypeOK
  BY ReportSteps DEF Inv
<1>2. CASE /\ UNCHANGED flight \/ Sends
           /\ UNCHANGED serverVars
           /\ settled \subseteq settled' /\ dropped \subseteq dropped'
  <2>1. \A r \in Slots : flight[r] # NoReport => flight'[r] = flight[r]
    BY <1>1, <1>2, PostedReport DEF Sends
  <2> QED
    BY <1>2, <2>1 DEF Credit, CreditAccount, CreditedOnce, Applied, serverVars
<1>3. ASSUME NEW r \in Slots, ServerApplies(r) PROVE Credit'
  <2>1. /\ flight[r] # NoReport /\ ~flight[r].applied /\ flight'[r] # NoReport
        /\ flight'[r].ticks = flight[r].ticks /\ flight'[r].applied
        /\ \A q \in Slots : q # r => flight'[q] = flight[q]
    BY <1>1, <1>3, AppliedReport
  <2>2. /\ credited' = credited \cup flight[r].ticks
        /\ doubled' = doubled \cup (credited \cap flight[r].ticks)
        /\ UNCHANGED <<settled, dropped>>
    BY <1>3 DEF ServerApplies, fateVars
  <2>3. CreditAccount'
    BY <2>1, <2>2 DEF Credit, CreditAccount, Applied
  <2>4. credited \cap flight[r].ticks = {}
    <3> SUFFICES ASSUME NEW t \in credited, t \in flight[r].ticks PROVE FALSE
      OBVIOUS
    <3>1. t \notin settled \cup dropped
      BY <2>1 DEF EachTickInOnePlace, InFlight
    <3>2. PICK q \in Slots : Applied(q) /\ t \in flight[q].ticks
      BY <3>1 DEF Credit, CreditAccount
    <3>3. q # r
      BY <2>1, <3>2 DEF Applied
    <3> QED
      BY <2>1, <3>2, <3>3 DEF EachTickInOnePlace, InFlight, Applied
  <2> QED
    BY <2>2, <2>3, <2>4 DEF Credit, CreditedOnce
<1>4. ASSUME NEW r \in Slots, ReportSucceeds(r) \/ ReportFails(r) PROVE Credit'
  <2>1. Answered(r) /\ UNCHANGED serverVars
    BY <1>4 DEF ReportSucceeds, ReportFails, Answered
  <2>2. \A q \in Slots : q # r => flight'[q] = flight[q]
    BY <1>1, <2>1, AnsweredReport
  <2>3. CASE ReportSucceeds(r)
    <3>1. settled' = settled \cup flight[r].ticks /\ UNCHANGED dropped
      BY <2>3 DEF ReportSucceeds
    <3> QED
      BY <2>1, <2>2, <3>1 DEF Credit, CreditAccount, CreditedOnce, Applied, serverVars
  <2>4. CASE ReportFails(r)
    <3>1. ~Applied(r) /\ UNCHANGED settled /\ dropped \subseteq dropped'
      BY <2>4 DEF ReportFails, Applied
    <3> QED
      BY <2>1, <2>2, <3>1 DEF Credit, CreditAccount, CreditedOnce, Applied, serverVars
  <2> QED
    BY <1>4, <2>3, <2>4
<1>5. CASE SwitchServer
  <2>1. /\ dropped' = dropped \cup (UNION {InFlight(r) : r \in Slots})
        /\ UNCHANGED <<settled, credited, doubled>>
    BY <1>5 DEF SwitchServer, serverVars
  <2>2. \A r \in Slots : Applied(r) => flight[r].ticks = InFlight(r)
    BY DEF Applied, InFlight
  <2> QED
    BY <2>1, <2>2 DEF Credit, CreditAccount, CreditedOnce
<1> QED
  BY <1>1, <1>2, <1>3, <1>4, <1>5 DEF ReportStep

\* The same seconds are never reported twice, whatever fails, unless a request
\* fails that the server had already applied.
THEOREM SecondsCreditedOnce ==
    ASSUME ~LostReplies
    PROVE  Spec => []CreditedOnce
<1>1. Init => Credit
  BY DEF Init, Credit, CreditAccount, CreditedOnce
<1>2. Inv /\ EachTickInOnePlace /\ Credit /\ [Next]_vars => Credit'
  BY CreditStep
<1>3. Credit => CreditedOnce
  BY DEF Credit
<1> QED
  BY <1>1, <1>2, <1>3, AccountInvariant, TicksInOnePlace, PTL DEF Spec
=============================================================================
