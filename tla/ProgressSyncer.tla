--------------------------- MODULE ProgressSyncer ---------------------------
(***************************************************************************)
(* The accumulator of listening time (player/ProgressSyncer.cpp).          *)
(*                                                                         *)
(* The code adds up wall-clock seconds.  Here a second of listening is a   *)
(* tick with an identity of its own and an amount of time is a set of      *)
(* ticks, so that "the same seconds" is a question of membership.  The     *)
(* object is a record                                                      *)
(*     playing   m_playing (m_timer is valid exactly while it is TRUE)     *)
(*     span      the time m_timer has measured since it was (re)started    *)
(*     pending   m_accumulated                                             *)
(* and every method is a function of that record, because one handler of   *)
(* PlaybackSession calls several of them.                                  *)
(***************************************************************************)

Syncers(Ticks) == [playing : BOOLEAN, span : SUBSET Ticks, pending : SUBSET Ticks]

\* reset(): forget everything, stopped.
Reset == [playing |-> FALSE, span |-> {}, pending |-> {}]

\* The wall clock moves on: m_timer measures it only while it is running.
Elapse(s, tick) ==
    IF s.playing THEN [s EXCEPT !.span = @ \cup {tick}] ELSE s

\* flushInto(): fold the running span into the accumulator, restart the timer.
FlushInto(s) ==
    IF s.playing
    THEN [s EXCEPT !.pending = @ \cup s.span, !.span = {}]
    ELSE s

\* setPlaying(): idempotent; stopping captures the span that just ended.
SetPlaying(s, playing) ==
    IF playing = s.playing THEN s
    ELSE IF playing
         THEN [s EXCEPT !.playing = TRUE, !.span = {}]
         ELSE [FlushInto(s) EXCEPT !.playing = FALSE, !.span = {}]

\* Slip: the accumulator is read and not emptied.
PeekOnly(s) == FlushInto(s)

\* Slip: the running span is not restarted.
TakeKeepsSpan(s) == [s EXCEPT !.pending = {}]

\* takeListenedSeconds(): what it returns, and what it leaves behind.
Taken(s) == FlushInto(s).pending
Take(s)  == [FlushInto(s) EXCEPT !.pending = {}]

\* rollback(): a failed request gives its interval back.
Rollback(s, ticks) == [s EXCEPT !.pending = @ \cup ticks]

\* pendingListenedSeconds(): everything the object still holds.
Held(s) == s.span \cup s.pending
=============================================================================
