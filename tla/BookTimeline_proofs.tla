------------------------- MODULE BookTimeline_proofs -------------------------
(***************************************************************************)
(* What the arithmetic of the timeline returns, for every book: the index  *)
(* of a file is in range, a position in a file is a natural number, the    *)
(* targets of Next and Previous lie where they should, and up to the end   *)
(* of a chapter that end stays the same.                                   *)
(***************************************************************************)
EXTENDS BookTimeline, WellFoundedInduction, TLAPS

\* A non-empty set of natural numbers has a least element, and Min is it.
LEMMA MinIsLeast ==
    ASSUME NEW S \in SUBSET Nat, S # {}
    PROVE  Min(S) \in S /\ \A x \in S : Min(S) <= x
<1>1. \E x \in S : \A y \in S : ~ (<<y, x>> \in OpToRel(<, Nat))
  BY WFMin, NatLessThanWellFounded
<1>2. PICK x \in S : \A y \in S : ~ (<<y, x>> \in OpToRel(<, Nat))
  BY <1>1
<1>3. \A y \in S : x <= y
  <2>1. SUFFICES ASSUME NEW y \in S, ~ (x <= y) PROVE FALSE
    OBVIOUS
  <2>2. y < x
    BY <2>1
  <2>3. <<y, x>> \in OpToRel(<, Nat)
    BY <2>2 DEF OpToRel
  <2> QED
    BY <1>2, <2>3
<1> QED
  BY <1>3 DEF Min

\* A bounded non-empty set of natural numbers has a greatest element, and Max
\* is it.
LEMMA MaxIsGreatest ==
    ASSUME NEW b \in Nat, NEW S \in SUBSET (0 .. b), S # {}
    PROVE  Max(S) \in S /\ \A x \in S : x <= Max(S)
<1> DEFINE T == {b - x : x \in S}
<1>1. T \in SUBSET Nat /\ T # {}
  <2>1. \A x \in S : x \in 0 .. b
    OBVIOUS
  <2>2. \A x \in S : b - x \in Nat
    BY <2>1
  <2>3. PICK x \in S : TRUE
    OBVIOUS
  <2>4. b - x \in T
    BY <2>3
  <2> QED
    BY <2>2, <2>4
<1>2. PICK m \in S : Min(T) = b - m
  BY <1>1, MinIsLeast
<1>3. \A x \in S : m >= x
  <2>1. TAKE x \in S
  <2>2. b - x \in T
    OBVIOUS
  <2>3. b - m <= b - x
    BY <1>1, <1>2, <2>2, MinIsLeast
  <2> QED
    BY <2>3
<1> HIDE DEF T
<1>4. Max(S) \in S /\ \A x \in S : Max(S) >= x
  BY <1>3 DEF Max
<1> QED
  BY <1>4

\* trackIndexForGlobal(): with a track loaded the index it returns is in range.
LEMMA TrackIndexInRange ==
    ASSUME NEW tracks \in Seq(TrackRecords), tracks # <<>>, NEW p \in Int
    PROVE  TrackIndexForGlobal(tracks, p) \in 1 .. Len(tracks)
<1> DEFINE holding == {i \in DOMAIN tracks :
                         /\ tracks[i].start <= p
                         /\ p < tracks[i].start + tracks[i].length}
<1>1. Len(tracks) \in Nat \ {0} /\ DOMAIN tracks = 1 .. Len(tracks)
  OBVIOUS
<1>2. CASE holding = {}
  BY <1>1, <1>2 DEF TrackIndexForGlobal
<1>3. CASE holding # {}
  <2>1. holding \in SUBSET Nat /\ holding \subseteq 1 .. Len(tracks)
    BY <1>1
  <2>2. Min(holding) \in holding
    BY <1>3, <2>1, MinIsLeast
  <2> QED
    BY <1>3, <2>1, <2>2 DEF TrackIndexForGlobal
<1> QED
  BY <1>2, <1>3

\* Where mpv is sent within a file is never before its beginning.
LEMMA InFileNat ==
    ASSUME NEW tracks \in Seq(TrackRecords), NEW i \in 1 .. Len(tracks), NEW p \in Int
    PROVE  InFile(tracks, i, p) \in Nat
<1>1. tracks[i] \in TrackRecords
  OBVIOUS
<1>2. tracks[i].start \in Nat /\ tracks[i].length \in Nat
  BY <1>1 DEF TrackRecords
<1> QED
  BY <1>2 DEF InFile

\* qBound(): the result is a position of the book.
LEMMA ClampInBook ==
    ASSUME NEW p \in Int, NEW duration \in Nat
    PROVE  Clamp(p, duration) \in 0 .. duration
BY DEF Clamp

\* The loop of loadTrackForGlobal(): what is queued begins with the track it
\* was started at, and all of it has that track's header policy.
LEMMA SamePolicyRunUniform ==
    ASSUME NEW tracks \in Seq(TrackRecords), NEW i \in 1 .. Len(tracks)
    PROVE  /\ SamePolicyRun(tracks, i) \subseteq 1 .. Len(tracks)
           /\ i \in SamePolicyRun(tracks, i)
           /\ \A k \in SamePolicyRun(tracks, i) : tracks[k].home = tracks[i].home
BY DEF SamePolicyRun

\* Chapter starts are positions.
LEMMA StartsNat ==
    ASSUME NEW book \in BookRecords
    PROVE  Starts(book) \in SUBSET Nat
<1>1. book.chapters \in Seq(ChapterRecords)
  BY DEF BookRecords
<1>2. \A c \in DOMAIN book.chapters : book.chapters[c] \in ChapterRecords
  BY <1>1
<1>3. \A c \in DOMAIN book.chapters : book.chapters[c].start \in Nat
  BY <1>2 DEF ChapterRecords
<1> QED
  BY <1>3 DEF Starts

\* chapterEndFor(): the end it arms is a position, and when the position asked
\* for is not beyond the book it is not before it.
LEMMA ChapterEndForward ==
    ASSUME NEW book \in BookRecords, NEW p \in Nat
    PROVE  /\ ChapterEndFor(book, p) \in Nat
           /\ p <= book.duration => p <= ChapterEndFor(book, p)
<1> DEFINE holding == {c \in DOMAIN book.chapters :
                         /\ book.chapters[c].start <= p
                         /\ p < book.chapters[c].end}
           next == {book.duration} \cup {s \in Starts(book) : s > p}
<1>1. /\ book.chapters \in Seq(ChapterRecords)
      /\ book.duration \in Nat
      /\ DOMAIN book.chapters = 1 .. Len(book.chapters)
      /\ \A c \in DOMAIN book.chapters : book.chapters[c].end \in Nat
  <2>1. book.chapters \in Seq(ChapterRecords) /\ book.duration \in Nat
    BY DEF BookRecords
  <2>2. DOMAIN book.chapters = 1 .. Len(book.chapters)
    BY <2>1
  <2>3. \A c \in DOMAIN book.chapters : book.chapters[c] \in ChapterRecords
    BY <2>1
  <2>4. \A c \in DOMAIN book.chapters : book.chapters[c].end \in Nat
    BY <2>3 DEF ChapterRecords
  <2> QED
    BY <2>1, <2>2, <2>4
<1>2. CASE holding # {}
  <2>1. holding \in SUBSET Nat
    BY <1>1
  <2>2. Min(holding) \in holding
    BY <1>2, <2>1, MinIsLeast
  <2>3. ChapterEndFor(book, p) = book.chapters[Min(holding)].end
    BY <1>2 DEF ChapterEndFor
  <2>4. p < book.chapters[Min(holding)].end /\ Min(holding) \in DOMAIN book.chapters
    BY <2>2
  <2>5. ChapterEndFor(book, p) \in Nat
    BY <1>1, <2>3, <2>4
  <2>6. p < ChapterEndFor(book, p)
    BY <2>3, <2>4
  <2> QED
    BY <2>5, <2>6
<1>3. CASE holding = {}
  <2>1. next \in SUBSET Nat /\ next # {}
    BY <1>1, StartsNat
  <2>2. Min(next) \in next
    BY <2>1, MinIsLeast
  <2> QED
    BY <1>1, <1>3, <2>1, <2>2 DEF ChapterEndFor
<1> QED
  BY <1>2, <1>3

\* nextChapter(): the start Next picks is strictly ahead of the position.
LEMMA NextStartAhead ==
    ASSUME NEW book \in BookRecords, NEW p \in Nat, LaterStarts(book, p) # {}
    PROVE  /\ Min(LaterStarts(book, p)) \in Starts(book)
           /\ Min(LaterStarts(book, p)) > p
<1>1. LaterStarts(book, p) \in SUBSET Nat
  BY StartsNat DEF LaterStarts
<1>2. Min(LaterStarts(book, p)) \in LaterStarts(book, p)
  BY <1>1, MinIsLeast
<1> QED
  BY <1>1, <1>2, StartsNat, TimelineAssumption DEF LaterStarts

\* previousChapter(): the start Previous picks is a chapter's, or the book's,
\* and at most JumpMargin ahead of the position.
LEMMA PreviousStartBehind ==
    ASSUME NEW book \in BookRecords, NEW p \in Nat
    PROVE  /\ PreviousTarget(book, p) \in Starts(book) \cup {0}
           /\ PreviousTarget(book, p) \in Nat
           /\ PreviousTarget(book, p) <= p + JumpMargin
<1> DEFINE near    == {0} \cup {s \in Starts(book) : s <= p + JumpMargin}
           current == Max(near)
           earlier == {s \in Starts(book) : s < current}
<1>1. JumpMargin \in Nat /\ RestartAfter \in Nat
  BY TimelineAssumption
<1>2. near \in SUBSET (0 .. p + JumpMargin) /\ p + JumpMargin \in Nat
  BY <1>1, StartsNat
<1>3. current \in near
  BY <1>2, MaxIsGreatest
<1>4. current \in Nat /\ current <= p + JumpMargin
  BY <1>1, <1>2, <1>3
<1>5. CASE p - current > RestartAfter \/ earlier = {}
  <2>1. PreviousTarget(book, p) = current
    BY <1>5 DEF PreviousTarget
  <2> QED
    BY <1>3, <1>4, <2>1
<1>6. CASE ~ (p - current > RestartAfter) /\ earlier # {}
  <2>1. PreviousTarget(book, p) = Max(earlier)
    BY <1>6 DEF PreviousTarget
  <2>2. earlier \in SUBSET (0 .. current)
    BY <1>4, StartsNat
  <2>3. Max(earlier) \in earlier
    BY <1>4, <1>6, <2>2, MaxIsGreatest
  <2> QED
    BY <1>1, <1>4, <2>1, <2>2, <2>3
<1> QED
  BY <1>5, <1>6

\* What the server describes of a book: its files follow one another, they reach
\* to its end, and no two of its chapters overlap.
LaidOut(b) ==
    /\ \A i, k \in DOMAIN b.tracks :
          i < k => b.tracks[i].start + b.tracks[i].length <= b.tracks[k].start
    /\ b.duration <= b.tracks[Len(b.tracks)].start + b.tracks[Len(b.tracks)].length
    /\ \A c, d \in DOMAIN b.chapters :
          c # d => \/ b.chapters[c].end <= b.chapters[d].start
                   \/ b.chapters[d].end <= b.chapters[c].start

\* A file is entered at the position asked for, or behind it if there is none.
LEMMA FileReaches ==
    ASSUME NEW tracks \in Seq(TrackRecords), tracks # <<>>, NEW p \in Nat,
           p <= tracks[Len(tracks)].start + tracks[Len(tracks)].length
    PROVE  LET i == TrackIndexForGlobal(tracks, p)
           IN  /\ i \in 1 .. Len(tracks)
               /\ InFile(tracks, i, p) \in Nat /\ InFile(tracks, i, p) <= tracks[i].length
               /\ p <= tracks[i].start + InFile(tracks, i, p)
<1> DEFINE holding == {i \in DOMAIN tracks :
                         /\ tracks[i].start <= p
                         /\ p < tracks[i].start + tracks[i].length}
           i == TrackIndexForGlobal(tracks, p)
<1>1. i \in 1 .. Len(tracks) /\ i = IF holding = {} THEN Len(tracks) ELSE Min(holding)
  <2>1. i \in 1 .. Len(tracks)
    BY TrackIndexInRange
  <2> QED
    BY <2>1 DEF TrackIndexForGlobal
<1>2. tracks[i].start \in Nat /\ tracks[i].length \in Nat
  <2>1. tracks[i] \in TrackRecords
    BY <1>1
  <2> QED
    BY <2>1 DEF TrackRecords
<1>3. holding = {} => i = Len(tracks)
  BY <1>1
<1>4. holding # {} => tracks[i].start <= p /\ p < tracks[i].start + tracks[i].length
  <2>1. holding \in SUBSET Nat
    OBVIOUS
  <2>2. holding # {} => i \in holding
    BY <1>1, <2>1, MinIsLeast
  <2> HIDE DEF i
  <2> QED
    BY <2>2
<1> HIDE DEF i, holding
<1>5. p <= tracks[i].start + tracks[i].length
  BY <1>2, <1>3, <1>4
<1> QED
  BY <1>1, <1>2, <1>5 DEF InFile, i

\* Up to the end of a chapter it is the same end, where no two chapters overlap.
LEMMA ChapterEndStays ==
    ASSUME NEW b \in BookRecords, LaidOut(b), NEW p \in Nat, NEW q \in Nat,
           p <= q, q < ChapterEndFor(b, p)
    PROVE  ChapterEndFor(b, q) = ChapterEndFor(b, p)
<1> DEFINE Holding(x) == {c \in DOMAIN b.chapters :
                            /\ b.chapters[c].start <= x
                            /\ x < b.chapters[c].end}
           Ahead(x) == {b.duration} \cup {s \in Starts(b) : s > x}
<1>1. /\ b.chapters \in Seq(ChapterRecords) /\ b.duration \in Nat
      /\ DOMAIN b.chapters \in SUBSET Nat
      /\ \A c \in DOMAIN b.chapters : b.chapters[c].start \in Nat /\ b.chapters[c].end \in Nat
  <2>1. b.chapters \in Seq(ChapterRecords) /\ b.duration \in Nat
    BY DEF BookRecords
  <2>2. \A c \in DOMAIN b.chapters : b.chapters[c] \in ChapterRecords
    BY <2>1
  <2> QED
    BY <2>1, <2>2 DEF ChapterRecords
<1>2. \A x : ChapterEndFor(b, x) = IF Holding(x) # {} THEN b.chapters[Min(Holding(x))].end
                                   ELSE Min(Ahead(x))
  BY DEF ChapterEndFor
<1>3. CASE Holding(p) # {}
  <2> DEFINE c == Min(Holding(p))
  <2>1. c \in Holding(p)
    <3>1. Holding(p) \in SUBSET Nat
      BY <1>1
    <3> QED
      BY <1>3, <3>1, MinIsLeast
  <2>2. ChapterEndFor(b, p) = b.chapters[c].end
    BY <1>2, <1>3
  <2> HIDE DEF c
  <2>3. c \in DOMAIN b.chapters /\ b.chapters[c].start <= p /\ q < b.chapters[c].end
    BY <2>1, <2>2
  <2>4. c \in Holding(q)
    BY <1>1, <2>3
  <2>5. \A d \in Holding(q) : d = c
    BY <1>1, <2>3 DEF LaidOut
  <2>6. Min(Holding(q)) = c
    <3>1. Holding(q) \in SUBSET Nat /\ Holding(q) # {}
      BY <1>1, <2>4
    <3>2. Min(Holding(q)) \in Holding(q)
      BY <3>1, MinIsLeast
    <3> QED
      BY <2>5, <3>2
  <2> QED
    BY <1>2, <2>2, <2>4, <2>6
<1>4. CASE Holding(p) = {}
  <2> DEFINE end == ChapterEndFor(b, p)
  <2>1. end = Min(Ahead(p))
    BY <1>2, <1>4
  <2>2. end \in Nat /\ \A x \in Ahead(p) : end <= x
    <3>1. Ahead(p) \in SUBSET Nat /\ Ahead(p) # {}
      BY <1>1, StartsNat
    <3> QED
      BY <2>1, <3>1, MinIsLeast
  <2>3. \A s \in Starts(b) : s > p => s > q
    <3>1. \A s \in Starts(b) : s > p => s \in Ahead(p) /\ s \in Nat
      BY StartsNat
    <3> HIDE DEF Ahead
    <3> QED
      BY <2>2, <3>1
  <2>4. Ahead(q) = Ahead(p)
    <3>1. \A s \in Starts(b) : s \in Nat
      BY StartsNat
    <3>2. \A s \in Starts(b) : s > q <=> s > p
      BY <2>3, <3>1
    <3> QED
      BY <3>2
  <2>5. Holding(q) = {}
    <3>1. SUFFICES ASSUME NEW d \in Holding(q) PROVE FALSE
      OBVIOUS
    <3>2. b.chapters[d].start \in Starts(b) /\ d \in DOMAIN b.chapters
      BY <3>1 DEF Starts
    <3>3. b.chapters[d].start <= p
      BY <1>1, <2>3, <3>1, <3>2
    <3>4. d \in Holding(p)
      BY <1>1, <3>1, <3>2, <3>3
    <3> QED
      BY <1>4, <3>4
  <2> QED
    BY <1>2, <2>1, <2>4, <2>5
<1> QED
  BY <1>3, <1>4
=============================================================================
