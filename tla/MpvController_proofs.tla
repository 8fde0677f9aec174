------------------------ MODULE MpvController_proofs ------------------------
(***************************************************************************)
(* The wrapper of mpv implements the player a session counts on, and its   *)
(* flags agree with mpv once all is told, for any queues of files and any  *)
(* number of commands, as long as the session is patient.                  *)
(***************************************************************************)
EXTENDS MpvController, TLAPS

\* The playing state lags behind mpv only by what is yet to be noticed or told.
Lag ==
    /\ \A f \in {"coreIdle", "pausedForCache"} : f \notin told =>
          noticed[f] = (IF f = "coreIdle" THEN coreIdle ELSE pausedForCache)
    /\ noticed["pause"] = mpvPaused /\ "pause" \notin told => paused = mpvPaused
    /\ noticed["pause"] = mpvPaused /\ told = {} =>
          playing = (~paused /\ ~coreIdle /\ ~pausedForCache)

\* In a queue of which no file has failed, a start offset waits only for the
\* file that is being opened.
Offset ==
    queue # <<>> /\ ~broken => /\ pendingSeek > 0 => ~opened \/ OpeningTold
                               /\ OpeningTold => opened

Inv == TypeOK /\ Lag /\ Offset
-----------------------------------------------------------------------------
\* Nothing is loaded and nothing told.
LEMMA InitInv == Init => Inv
<1> SUFFICES ASSUME Init PROVE Inv
  OBVIOUS
<1>1. noticed \in [Flags -> BOOLEAN] /\ told \subseteq Flags
  BY DEF Init
<1>2. 0 \in Places /\ commands \in 0 .. MaxCommands /\ stalls \in 0 .. MaxStalls
  BY MpvAssumption DEF Init, Places
<1>3. queue \in Seq(Files) /\ events \in Seq(Events)
  BY DEF Init
<1>4. TypeOK
  BY <1>1, <1>2, <1>3 DEF Init, TypeOK
<1>5. Lag
  BY DEF Init, Lag, Flags
<1> QED
  BY <1>4, <1>5 DEF Inv, Offset, Init

\* Posting an event keeps the events a sequence.
LEMMA PostTyped ==
    ASSUME TypeOK, NEW e \in Events, Post(e)
    PROVE  /\ events' \in Seq(Events) /\ woken' = TRUE
           /\ OpeningTold' <=> OpeningTold \/ e = "loaded"
<1>1. events \in Seq(Events) /\ events' = Append(events, e)
  BY DEF TypeOK, Post
<1>2. events' \in Seq(Events)
  BY <1>1
<1>3. /\ Len(events') = Len(events) + 1 /\ events'[Len(events) + 1] = e
      /\ \A k \in 1 .. Len(events) : events'[k] = events[k]
      /\ DOMAIN events = 1 .. Len(events) /\ DOMAIN events' = 1 .. Len(events) + 1
      /\ Len(events) \in Nat
  BY <1>1
<1>4. OpeningTold' <=> OpeningTold \/ e = "loaded"
  BY <1>3 DEF OpeningTold
<1> QED
  BY <1>2, <1>4 DEF Post

\* Handling the first event leaves the others.
LEMMA TailTyped ==
    ASSUME TypeOK, events # <<>>, events' = Tail(events)
    PROVE  /\ events' \in Seq(Events)
           /\ OpeningTold' => OpeningTold
           /\ Head(events) = "loaded" => OpeningTold
           /\ Head(events) # "loaded" => (OpeningTold => OpeningTold')
<1>1. events \in Seq(Events)
  BY DEF TypeOK
<1>2. /\ Len(events) \in Nat /\ Len(events) > 0 /\ Len(events') = Len(events) - 1
      /\ \A k \in 1 .. Len(events) - 1 : events'[k] = events[k + 1]
      /\ Head(events) = events[1]
      /\ DOMAIN events = 1 .. Len(events) /\ DOMAIN events' = 1 .. Len(events) - 1
      /\ events' \in Seq(Events)
  BY <1>1
<1>3. OpeningTold' => OpeningTold
  BY <1>2 DEF OpeningTold
<1>4. Head(events) = "loaded" => OpeningTold
  BY <1>2 DEF OpeningTold
<1>5. Head(events) # "loaded" => (OpeningTold => OpeningTold')
  <2> SUFFICES ASSUME Head(events) # "loaded", OpeningTold PROVE OpeningTold'
    OBVIOUS
  <2>1. PICK k \in 1 .. Len(events) : events[k] = "loaded"
    BY <1>2 DEF OpeningTold
  <2>2. k - 1 \in 1 .. Len(events) - 1 /\ events'[k - 1] = events[(k - 1) + 1]
    BY <2>1, <1>2
  <2>3. (k - 1) + 1 = k
    BY <2>1, <1>2
  <2> QED
    BY <2>1, <2>2, <2>3, <1>2 DEF OpeningTold
<1> QED
  BY <1>2, <1>3, <1>4, <1>5

\* Events are what Post posts.
LEMMA EventTyped ==
    ASSUME TypeOK, events # <<>>
    PROVE  Head(events) \in Events
BY DEF TypeOK
-----------------------------------------------------------------------------
\* The state of the wrapper and of mpv keeps its types.
LEMMA TypesStep == TypeOK /\ [Next]_vars => TypeOK'
<1> SUFFICES ASSUME TypeOK, [Next]_vars PROVE TypeOK'
  OBVIOUS
<1> USE DEF ownVars, mpvVars, noticeVars, historyVars, boundVars
<1>0. 0 \in Places /\ Places \subseteq Nat /\ Length \in Places
  BY MpvAssumption DEF Places
<1>1. CASE MpvOpens
  <2>1. events' \in Seq(Events) /\ woken' = TRUE
    BY <1>1, PostTyped DEF MpvOpens, Events
  <2> QED
    BY <1>1, <2>1 DEF MpvOpens, TypeOK
<1>2. CASE MpvFails
  <2>1. events' \in Seq(Events) /\ woken' = TRUE
    BY <1>2, PostTyped DEF MpvFails, Events
  <2>2. queue' \in Seq(Files)
    BY <1>2 DEF MpvFails, NextFile, TypeOK
  <2> QED
    BY <1>0, <1>2, <2>1, <2>2 DEF MpvFails, NextFile, TypeOK
<1>3. CASE MpvPlays
  <2>1. at' \in Places
    BY <1>3, MpvAssumption DEF MpvPlays, TypeOK, Places
  <2> QED
    BY <1>3, <2>1 DEF MpvPlays, TypeOK
<1>4. CASE MpvEnds
  <2>1. events' \in Seq(Events) /\ woken' = TRUE
    BY <1>4, PostTyped DEF MpvEnds, Events
  <2>2. queue' \in Seq(Files)
    BY <1>4 DEF MpvEnds, NextFile, Audible, TypeOK
  <2> QED
    BY <1>0, <1>4, <2>1, <2>2 DEF MpvEnds, NextFile, TypeOK
<1>5. CASE MpvStalls
  <2>1. stalls' \in 0 .. MaxStalls
    BY <1>5, MpvAssumption DEF MpvStalls, TypeOK
  <2> QED
    BY <1>5, <2>1 DEF MpvStalls, TypeOK
<1>6. ASSUME NEW f \in Flags, MpvNotices(f) PROVE TypeOK'
  <2>1. Flag(f) \in BOOLEAN
    BY DEF Flag, Flags, Audible, TypeOK
  <2>2. noticed' \in [Flags -> BOOLEAN] /\ told' \subseteq Flags
    BY <1>6, <2>1 DEF MpvNotices, TypeOK
  <2> QED
    BY <1>6, <2>2 DEF MpvNotices, TypeOK
<1>7. CASE HandleLoaded
  <2>1. events' \in Seq(Events)
    BY <1>7, TailTyped DEF HandleLoaded
  <2>2. at' \in Places
    BY <1>7 DEF HandleLoaded, MpvSeek, TypeOK
  <2> QED
    BY <1>0, <1>7, <2>1, <2>2 DEF HandleLoaded, TypeOK
<1>8. CASE HandleEndFile
  <2>1. events' \in Seq(Events)
    BY <1>8, TailTyped DEF HandleEndFile
  <2>2. playing' \in BOOLEAN
    BY <1>8 DEF HandleEndFile, UpdatePlaying, Effective
  <2> QED
    BY <1>8, <2>1, <2>2 DEF HandleEndFile, TypeOK
<1>9. ASSUME NEW f \in Flags, HandleFlag(f) PROVE TypeOK'
  <2>1. playing' \in BOOLEAN
    BY <1>9 DEF HandleFlag, UpdatePlaying, Effective
  <2>2. noticed[f] \in BOOLEAN
    BY DEF TypeOK
  <2>3. told' \subseteq Flags
    BY <1>9 DEF HandleFlag, TypeOK
  <2> QED
    BY <1>9, <2>1, <2>2, <2>3 DEF HandleFlag, TypeOK
<1>10. CASE HandleNone
  BY <1>10 DEF HandleNone, TypeOK
<1>11. ASSUME NEW files \in Queues, NEW start \in Places, NEW play \in BOOLEAN,
              LoadPlaylist(files, start, play)
       PROVE  TypeOK'
  <2>1. events' \in Seq(Events) /\ woken' \in BOOLEAN
    BY <1>11, PostTyped DEF LoadPlaylist, Ending, TypeOK, Events
  <2>2. queue' \in Seq(Files)
    BY <1>11, MpvAssumption DEF LoadPlaylist
  <2>3. commands' \in 0 .. MaxCommands /\ stalls' \in 0 .. MaxStalls
    BY <1>11, MpvAssumption DEF LoadPlaylist, Commands, TypeOK
  <2>4. paused' \in BOOLEAN /\ mpvPaused' \in BOOLEAN
    BY <1>11 DEF LoadPlaylist, Records
  <2> QED
    BY <1>0, <1>11, <2>1, <2>2, <2>3, <2>4 DEF LoadPlaylist, TypeOK
<1>12. ASSUME NEW pause \in BOOLEAN, RequestPaused(pause) PROVE TypeOK'
  <2>1. commands' \in 0 .. MaxCommands /\ stalls' \in 0 .. MaxStalls
    BY <1>12, MpvAssumption DEF RequestPaused, Commands, TypeOK
  <2>2. paused' \in BOOLEAN /\ mpvPaused' \in BOOLEAN
    BY <1>12 DEF RequestPaused, Records
  <2> QED
    BY <1>12, <2>1, <2>2 DEF RequestPaused, TypeOK
<1>13. ASSUME NEW to \in Places, SeekAbsolute(to) PROVE TypeOK'
  <2>1. commands' \in 0 .. MaxCommands /\ stalls' \in 0 .. MaxStalls
    BY <1>13, MpvAssumption DEF SeekAbsolute, Commands, TypeOK
  <2> QED
    BY <1>0, <1>13, <2>1 DEF SeekAbsolute, MpvSeek, TypeOK
<1>14. CASE Stop
  <2>1. events' \in Seq(Events) /\ woken' \in BOOLEAN
    BY <1>14, PostTyped DEF Stop, Ending, TypeOK, Events
  <2>2. commands' \in 0 .. MaxCommands /\ stalls' \in 0 .. MaxStalls
    BY <1>14, MpvAssumption DEF Stop, Commands, TypeOK
  <2>3. queue' \in Seq(Files)
    BY <1>14 DEF Stop
  <2> QED
    BY <1>0, <1>14, <2>1, <2>2, <2>3 DEF Stop, TypeOK
<1>15. CASE UNCHANGED vars
  BY <1>15 DEF vars, TypeOK
<1> QED
  BY <1>1, <1>2, <1>3, <1>4, <1>5, <1>6, <1>7, <1>8, <1>9, <1>10, <1>11, <1>12, <1>13, <1>14,
     <1>15 DEF Next, Handle, Mpv, Notice, Session
-----------------------------------------------------------------------------
\* Whatever is noticed, told and asked for, the playing state catches up.
LEMMA LagStep == TypeOK /\ Patient /\ Lag /\ [Next]_vars => Lag'
<1> SUFFICES ASSUME TypeOK, Patient, Lag, [Next]_vars PROVE Lag'
  OBVIOUS
<1> USE DEF ownVars, mpvVars, noticeVars, historyVars, boundVars
<1>1. CASE UNCHANGED <<paused, coreIdle, pausedForCache, playing, mpvPaused, noticed, told>>
  BY <1>1 DEF Lag
<1>2. ASSUME NEW f \in Flags, MpvNotices(f) PROVE Lag'
  <2>1. /\ noticed' = [noticed EXCEPT ![f] = Flag(f)] /\ told' = told \cup {f}
        /\ UNCHANGED <<paused, coreIdle, pausedForCache, playing, mpvPaused>>
    BY <1>2 DEF MpvNotices
  <2>2. \A g \in Flags : g \notin told' => noticed'[g] = noticed[g] /\ g \notin told
    BY <2>1 DEF TypeOK
  <2>3. f \in told'
    BY <2>1
  <2> QED
    BY <2>1, <2>2, <2>3 DEF Lag, Flags
<1>3. CASE HandleEndFile
  <2>1. /\ playing' = (~paused /\ ~coreIdle /\ ~pausedForCache)
        /\ UNCHANGED <<paused, coreIdle, pausedForCache, mpvPaused, noticed, told>>
    BY <1>3 DEF HandleEndFile, UpdatePlaying, Effective
  <2> QED
    BY <2>1 DEF Lag
<1>4. ASSUME NEW f \in Flags, HandleFlag(f) PROVE Lag'
  <2>1. /\ told' = told \ {f} /\ UNCHANGED <<noticed, mpvPaused>>
        /\ paused' = (IF f = "pause" THEN noticed[f] ELSE paused)
        /\ coreIdle' = (IF f = "coreIdle" THEN noticed[f] ELSE coreIdle)
        /\ pausedForCache' = (IF f = "pausedForCache" THEN noticed[f] ELSE pausedForCache)
        /\ playing' = (~paused' /\ ~coreIdle' /\ ~pausedForCache')
    BY <1>4 DEF HandleFlag, UpdatePlaying, Effective
  <2> QED
    BY <2>1 DEF Lag, Flags
<1>5. ASSUME NEW pause \in BOOLEAN, Records(pause), PauseNoticed,
             UNCHANGED <<coreIdle, pausedForCache, playing, noticed, told>>
      PROVE  Lag'
  <2>1. noticed["pause"] = mpvPaused /\ paused' = pause /\ mpvPaused' = pause
    BY <1>5 DEF Records, PauseNoticed
  <2> QED
    BY <1>5, <2>1 DEF Lag
<1>6. ASSUME NEW files \in Queues, NEW start \in Places, NEW play \in BOOLEAN,
             LoadPlaylist(files, start, play)
      PROVE  Lag'
  BY <1>5, <1>6 DEF LoadPlaylist
<1>7. ASSUME NEW pause \in BOOLEAN, RequestPaused(pause) PROVE Lag'
  BY <1>5, <1>7 DEF RequestPaused
<1>8. CASE MpvOpens \/ MpvFails \/ MpvPlays \/ MpvEnds \/ MpvStalls
  BY <1>1, <1>8 DEF MpvOpens, MpvFails, MpvPlays, MpvEnds, MpvStalls
<1>9. CASE HandleLoaded \/ HandleNone \/ Stop
  BY <1>1, <1>9 DEF HandleLoaded, HandleNone, Stop
<1>10. ASSUME NEW to \in Places, SeekAbsolute(to) PROVE Lag'
  BY <1>1, <1>10 DEF SeekAbsolute
<1>11. CASE UNCHANGED vars
  BY <1>1, <1>11 DEF vars
<1> QED
  BY <1>2, <1>3, <1>4, <1>6, <1>7, <1>8, <1>9, <1>10, <1>11
     DEF Next, Handle, Mpv, Notice, Session

\* The start offset goes to the file it was meant for, or to none.
LEMMA OffsetStep == TypeOK /\ Patient /\ Offset /\ [Next]_vars => Offset'
<1> SUFFICES ASSUME TypeOK, Patient, Offset, [Next]_vars PROVE Offset'
  OBVIOUS
<1> USE DEF ownVars, mpvVars, noticeVars, historyVars, boundVars
<1>1. CASE UNCHANGED <<queue, broken, opened, pendingSeek, events>>
  BY <1>1 DEF Offset, OpeningTold
<1>2. CASE MpvOpens
  <2>1. OpeningTold'
    BY <1>2, PostTyped DEF MpvOpens, Events
  <2> QED
    BY <1>2, <2>1 DEF MpvOpens, Offset
<1>3. CASE MpvFails
  BY <1>3 DEF MpvFails, Offset
<1>4. CASE MpvEnds
  <2>1. ~OpeningTold'
    BY <1>4, PostTyped DEF MpvEnds, Events
  <2> QED
    BY <1>4, <2>1 DEF MpvEnds, NextFile, Offset
<1>5. CASE HandleLoaded
  <2>1. OpeningTold' => OpeningTold
    BY <1>5, TailTyped DEF HandleLoaded
  <2> QED
    BY <1>5, <2>1 DEF HandleLoaded, Offset
<1>6. CASE HandleEndFile
  <2>1. OpeningTold' <=> OpeningTold
    BY <1>6, TailTyped DEF HandleEndFile
  <2> QED
    BY <1>6, <2>1 DEF HandleEndFile, Offset
<1>7. ASSUME NEW files \in Queues, NEW start \in Places, NEW play \in BOOLEAN,
             LoadPlaylist(files, start, play)
      PROVE  Offset'
  <2>1. ~OpeningTold
    BY <1>7 DEF LoadPlaylist, Opened, Opening
  <2>2. CASE queue # <<>>
    <3>1. ~OpeningTold'
      BY <1>7, <2>1, <2>2, PostTyped DEF LoadPlaylist, Ending, Events
    <3> QED
      BY <1>7, <3>1 DEF LoadPlaylist, Offset
  <2>3. CASE queue = <<>>
    <3>1. ~OpeningTold'
      BY <1>7, <2>1, <2>3 DEF LoadPlaylist, Ending, OpeningTold
    <3> QED
      BY <1>7, <3>1 DEF LoadPlaylist, Offset
  <2> QED
    BY <2>2, <2>3
<1>8. CASE Stop
  BY <1>8 DEF Stop, Offset
<1>9. CASE MpvPlays \/ MpvStalls \/ HandleNone
  BY <1>1, <1>9 DEF MpvPlays, MpvStalls, HandleNone
<1>10. ASSUME NEW f \in Flags, MpvNotices(f) \/ HandleFlag(f) PROVE Offset'
  BY <1>1, <1>10 DEF MpvNotices, HandleFlag
<1>11. ASSUME NEW pause \in BOOLEAN, RequestPaused(pause) PROVE Offset'
  BY <1>1, <1>11 DEF RequestPaused
<1>12. ASSUME NEW to \in Places, SeekAbsolute(to) PROVE Offset'
  BY <1>1, <1>12 DEF SeekAbsolute
<1>13. CASE UNCHANGED vars
  BY <1>1, <1>13 DEF vars
<1> QED
  BY <1>2, <1>3, <1>4, <1>5, <1>6, <1>7, <1>8, <1>9, <1>10, <1>11, <1>12, <1>13
     DEF Next, Handle, Mpv, Notice, Session
-----------------------------------------------------------------------------
\* The state of the wrapper, of mpv and of what travels between them is typed.
THEOREM MpvTypes == Spec => []TypeOK
<1>1. Init => TypeOK
  BY InitInv DEF Inv
<1>2. TypeOK /\ [Next]_vars => TypeOK'
  BY TypesStep
<1> QED
  BY <1>1, <1>2, PTL DEF Spec

\* The invariant of a patient session.
LEMMA PatientInv == Patient /\ Spec => []Inv
<1>1. Patient /\ Inv /\ [Next]_vars => Inv'
  BY TypesStep, LagStep, OffsetStep DEF Inv
<1>2. ASSUME Patient PROVE Spec => []Inv
  <2>1. Inv /\ [Next]_vars => Inv'
    BY <1>1, <1>2
  <2> QED
    BY <2>1, InitInv, PTL DEF Spec
<1> QED
  BY <1>2

\* updatePlaying(), requestPaused(): once mpv has nothing more to tell, the wrapper
\* says paused and playing exactly when mpv is, for any interleaving of requests,
\* stalls and notices of a patient session.
THEOREM FlagsCatchUp == Patient /\ Spec => []FlagsAgree
<1>1. Inv => FlagsAgree
  <2> SUFFICES ASSUME Inv, Quiet PROVE paused = mpvPaused /\ playing = Audible
    BY DEF FlagsAgree
  <2>1. /\ told = {} /\ noticed["pause"] = mpvPaused /\ noticed["coreIdle"] = ~Audible
        /\ noticed["pausedForCache"] = stalled
    BY DEF Quiet, Flags, Flag
  <2>2. paused = mpvPaused /\ coreIdle = ~Audible /\ pausedForCache = stalled
    BY <2>1 DEF Inv, Lag
  <2>3. playing = (~paused /\ ~coreIdle /\ ~pausedForCache)
    BY <2>1 DEF Inv, Lag
  <2>4. Audible \in BOOLEAN
    BY DEF Audible
  <2> QED
    BY <2>2, <2>3, <2>4 DEF Audible, Inv, TypeOK
<1> QED
  BY <1>1, PatientInv, PTL
-----------------------------------------------------------------------------
(* The refinement *)

\* What the abstract player sees.
Seen  == IF broken THEN <<>> ELSE queue
Place == IF broken \/ queue = <<>> THEN 0 ELSE IF pendingSeek > 0 THEN pendingSeek ELSE at

\* Each step of the wrapper and of mpv is a step of the player, or none.
LEMMA StepImplements == Patient /\ Inv /\ Inv' /\ [Next]_vars => [P!Next]_P!vars
<1> SUFFICES ASSUME Patient, Inv, Inv', [Next]_vars PROVE [P!Next]_P!vars
  OBVIOUS
<1> USE DEF ownVars, mpvVars, noticeVars, historyVars, boundVars
<1>0. /\ TypeOK /\ TypeOK' /\ Offset /\ Places \subseteq Nat
      /\ at \in Nat /\ pendingSeek \in Nat /\ Length \in Nat
  BY MpvAssumption DEF Inv, TypeOK, Places
<1>1. ASSUME UNCHANGED <<Seen, Place, mpvPaused, broken, commands>> PROVE [P!Next]_P!vars
  BY <1>1 DEF P!vars, Seen, Place
<1>2. CASE UNCHANGED <<queue, broken, pendingSeek, at, mpvPaused, commands>>
  BY <1>1, <1>2 DEF Seen, Place
<1>3. CASE MpvFails
  <2>1. Seen' = <<>> /\ Place' = 0 /\ broken' = TRUE /\ UNCHANGED <<mpvPaused, commands>>
    BY <1>3 DEF MpvFails, Seen, Place
  <2> QED
    BY <2>1 DEF P!Next, P!Breaks, Seen, Place
<1>4. CASE MpvPlays
  <2>1. CASE broken \/ pendingSeek > 0
    <3>1. UNCHANGED <<Seen, Place, mpvPaused, broken, commands>>
      BY <1>4, <2>1 DEF MpvPlays, Seen, Place
    <3> QED
      BY <1>1, <3>1
  <2>2. CASE ~broken /\ ~(pendingSeek > 0)
    <3>1. /\ Seen # <<>> /\ ~mpvPaused /\ Place = at /\ at < Length /\ Place' = at + 1
          /\ UNCHANGED <<Seen, mpvPaused, broken, commands>>
      BY <1>4, <2>2 DEF MpvPlays, Audible, Seen, Place
    <3> QED
      BY <3>1 DEF P!Next, P!Plays, Seen, Place
  <2> QED
    BY <2>1, <2>2
<1>5. CASE MpvEnds
  <2>1. CASE broken
    <3>1. UNCHANGED <<Seen, Place, mpvPaused, broken, commands>>
      BY <1>5, <2>1 DEF MpvEnds, Seen, Place
    <3> QED
      BY <1>1, <3>1
  <2>2. CASE ~broken
    <3>1. /\ queue # <<>> /\ ~mpvPaused /\ opened /\ ~OpeningTold /\ at = Length
          /\ queue' = Tail(queue) /\ at' = 0
          /\ UNCHANGED <<pendingSeek, mpvPaused, broken, commands>>
      BY <1>5 DEF MpvEnds, NextFile, Audible
    <3>2. ~(pendingSeek > 0)
      BY <1>0, <2>2, <3>1 DEF Offset
    <3>3. Seen # <<>> /\ Place = Length /\ Place' = 0 /\ Seen' = Tail(Seen)
      BY <2>2, <3>1, <3>2 DEF Seen, Place
    <3> QED
      BY <3>1, <3>3 DEF P!Next, P!Plays, Seen, Place
  <2> QED
    BY <2>1, <2>2
<1>6. CASE HandleLoaded
  <2>1. OpeningTold
    BY <1>0, <1>6, TailTyped DEF HandleLoaded
  <2>2. /\ pendingSeek' = 0 /\ UNCHANGED <<queue, opened, mpvPaused, broken, commands>>
        /\ IF pendingSeek > 0 THEN MpvSeek(pendingSeek) ELSE UNCHANGED at
    BY <1>6 DEF HandleLoaded
  <2>3. ~broken /\ queue # <<>> => opened
    BY <1>0, <2>1 DEF Offset
  <2>4. CASE broken \/ queue = <<>>
    <3>1. UNCHANGED <<Seen, Place>>
      BY <2>2, <2>4 DEF Seen, Place
    <3> QED
      BY <1>1, <2>2, <3>1
  <2>5. CASE ~broken /\ queue # <<>> /\ pendingSeek > 0
    <3>1. at' = pendingSeek
      BY <2>2, <2>3, <2>5 DEF MpvSeek
    <3>2. ~(pendingSeek' > 0)
      BY <2>2
    <3>3. UNCHANGED <<Seen, Place>>
      BY <2>2, <2>5, <3>1, <3>2 DEF Seen, Place
    <3> QED
      BY <1>1, <2>2, <3>3
  <2>6. CASE ~broken /\ queue # <<>> /\ ~(pendingSeek > 0)
    <3>1. at' = at /\ ~(pendingSeek' > 0)
      BY <2>2, <2>6
    <3>2. UNCHANGED <<Seen, Place>>
      BY <2>2, <2>6, <3>1 DEF Seen, Place
    <3> QED
      BY <1>1, <2>2, <3>2
  <2> QED
    BY <2>4, <2>5, <2>6
<1>7. ASSUME NEW files \in Queues, NEW start \in Places, NEW play \in BOOLEAN,
             LoadPlaylist(files, start, play)
      PROVE  [P!Next]_P!vars
  <2>1. /\ queue' = files /\ at' = 0 /\ pendingSeek' = start /\ broken' = FALSE
        /\ mpvPaused' = ~play /\ commands' = commands + 1
    BY <1>7 DEF LoadPlaylist, Records, Commands
  <2>2. start \in Nat /\ files # <<>>
    BY <1>0, MpvAssumption
  <2>3. Seen' = files /\ Place' = start
    BY <2>1, <2>2 DEF Seen, Place
  <2>4. start \in P!Places
    BY DEF P!Places, Places
  <2> QED
    BY <2>1, <2>3, <2>4 DEF P!Next, P!Command, P!Load, Seen, Place
<1>8. ASSUME NEW pause \in BOOLEAN, RequestPaused(pause) PROVE [P!Next]_P!vars
  <2>1. mpvPaused' = pause /\ commands' = commands + 1 /\ UNCHANGED <<Seen, Place, broken>>
    BY <1>8 DEF RequestPaused, Records, Commands, Seen, Place
  <2> QED
    BY <2>1 DEF P!Next, P!Command, P!RequestPaused, Seen, Place
<1>9. ASSUME NEW to \in Places, SeekAbsolute(to) PROVE [P!Next]_P!vars
  <2>1. /\ queue # <<>> /\ opened /\ ~OpeningTold /\ at' = to /\ commands' = commands + 1
        /\ UNCHANGED <<queue, pendingSeek, mpvPaused, broken>>
    BY <1>9 DEF SeekAbsolute, Opened, Opening, MpvSeek, Commands
  <2>2. UNCHANGED Seen /\ Place' = IF Seen = <<>> THEN Place ELSE to
    BY <1>0, <2>1 DEF Seen, Place, Offset
  <2>3. to \in P!Places
    BY DEF P!Places, Places
  <2> QED
    BY <2>1, <2>2, <2>3 DEF P!Next, P!Command, P!Seek, Seen, Place
<1>10. CASE Stop
  <2>1. /\ Seen' = <<>> /\ Place' = 0 /\ broken' = FALSE /\ commands' = commands + 1
        /\ UNCHANGED mpvPaused
    BY <1>10 DEF Stop, Commands, Seen, Place
  <2> QED
    BY <2>1 DEF P!Next, P!Command, P!Stop, Seen, Place
<1>11. CASE MpvOpens \/ MpvStalls \/ HandleEndFile \/ HandleNone
  BY <1>2, <1>11 DEF MpvOpens, MpvStalls, HandleEndFile, HandleNone
<1>12. ASSUME NEW f \in Flags, MpvNotices(f) \/ HandleFlag(f) PROVE [P!Next]_P!vars
  BY <1>2, <1>12 DEF MpvNotices, HandleFlag
<1>13. CASE UNCHANGED vars
  BY <1>2, <1>13 DEF vars
<1> QED
  BY <1>3, <1>4, <1>5, <1>6, <1>7, <1>8, <1>9, <1>10, <1>11, <1>12, <1>13
     DEF Next, Handle, Mpv, Notice, Session

\* loadPlaylist(), seekAbsolute(), handleEvents(): for a session that awaits the
\* opening of what it has loaded, the wrapper is the player: sound starts at the
\* place asked for, seeks land, and nothing moves but what plays.
THEOREM ImplementsThePlayer == Patient /\ Spec => ImplementsPlayer
<1>1. Init => P!Init
  BY DEF Init, P!Init
<1>2. ASSUME Patient PROVE Spec => ImplementsPlayer
  <2>1. Inv /\ Inv' /\ [Next]_vars => [P!Next]_P!vars
    BY <1>2, StepImplements
  <2>2. Spec => []Inv
    BY <1>2, PatientInv
  <2> QED
    BY <1>1, <2>1, <2>2, PTL DEF Spec, ImplementsPlayer, P!Spec
<1> QED
  BY <1>2
=============================================================================
