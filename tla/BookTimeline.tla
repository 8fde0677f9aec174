---------------------------- MODULE BookTimeline ----------------------------
(***************************************************************************)
(* The arithmetic of a book's timeline (player/PlaybackSession.cpp): which *)
(* file a global position falls in, which files may share one mpv          *)
(* playlist, and where the chapters begin and end.                         *)
(*                                                                         *)
(* A book is a record: "tracks" in the order of their start offsets (the   *)
(* code sorts them), each with its start, its length and whether its URL   *)
(* is on the configured server's own origin; "chapters" in the order the   *)
(* server listed them; and the total duration.  Positions are whole units  *)
(* of time.  JumpMargin and RestartAfter are the code's 0.5 s and 3 s in   *)
(* those units.  Indices count from 1; the code's index -1 is 0 here.      *)
(***************************************************************************)
EXTENDS Integers, Sequences, FiniteSetsExt

CONSTANTS JumpMargin, RestartAfter

ASSUME TimelineAssumption == JumpMargin \in Nat /\ RestartAfter \in Nat

TrackRecords   == [start : Nat, length : Nat, home : BOOLEAN]
ChapterRecords == [start : Nat, end : Nat]
BookRecords    == [tracks : Seq(TrackRecords), chapters : Seq(ChapterRecords), duration : Nat]

\* trackIndexForGlobal(): the first track holding p, else the last one.
TrackIndexForGlobal(tracks, p) ==
    LET holding == {i \in DOMAIN tracks :
                      /\ tracks[i].start <= p
                      /\ p < tracks[i].start + tracks[i].length}
    IN  IF holding = {} THEN Len(tracks) ELSE Min(holding)

\* Slip: every track that follows, whatever its origin.
WholeBook(tracks, i) == i .. Len(tracks)

\* The loop of loadTrackForGlobal(): track i and every consecutive track with
\* the same header policy.  m_queuedThroughTrack is the largest of them.
SamePolicyRun(tracks, i) ==
    {k \in i .. Len(tracks) : \A j \in i .. k : tracks[j].home = tracks[i].home}

\* Where in file i the global position p lies; mpv keeps it within the file.
InFile(tracks, i, p) ==
    LET offset == p - tracks[i].start
    IN  IF offset < 0 THEN 0
        ELSE IF offset > tracks[i].length THEN tracks[i].length ELSE offset

\* Slip: bounded from above only.
ClampAbove(p, duration) == IF p > duration THEN duration ELSE p

\* qBound(0, p, m_duration)
Clamp(p, duration) == IF p < 0 THEN 0 ELSE IF p > duration THEN duration ELSE p

Starts(book) == {book.chapters[c].start : c \in DOMAIN book.chapters}

\* chapterEndFor(): the end of the chapter holding p, else the next chapter's
\* start, else the end of the book.
ChapterEndFor(book, p) ==
    LET holding == {c \in DOMAIN book.chapters :
                      /\ book.chapters[c].start <= p
                      /\ p < book.chapters[c].end}
    IN  IF holding # {}
        THEN book.chapters[Min(holding)].end
        ELSE Min({book.duration} \cup {s \in Starts(book) : s > p})

\* Slip: the chapter being heard counts as one to come.
StartsFromHere(book, p) == {s \in Starts(book) : s >= p + JumpMargin}

\* nextChapter(): the starts a press of Next may jump to; it takes the first.
LaterStarts(book, p) == {s \in Starts(book) : s > p + JumpMargin}

\* previousChapter(): restart the chapter being heard when more than
\* RestartAfter into it, or when there is none before it.
PreviousTarget(book, p) ==
    LET current == Max({0} \cup {s \in Starts(book) : s <= p + JumpMargin})
        earlier == {s \in Starts(book) : s < current}
    IN  IF p - current > RestartAfter \/ earlier = {} THEN current ELSE Max(earlier)
=============================================================================
