-------------------------- MODULE MCPlaybackSession --------------------------
(***************************************************************************)
(* Instances of PlaybackSession for TLC.                                   *)
(***************************************************************************)
EXTENDS PlaybackSession

CONSTANTS b1, b2, e1, s1, s2

\* One file, one unit long, no chapters: the timeline out of the way.
OneFile == [tracks |-> <<[start |-> 0, length |-> 1, home |-> TRUE]>>,
            chapters |-> <<>>, duration |-> 1]

\* Three files, the last on another origin; chapters that do not coincide with
\* the files, with a gap before the last one.
ThreeFiles ==
    [tracks |-> <<[start |-> 0, length |-> 2, home |-> TRUE],
                  [start |-> 2, length |-> 1, home |-> TRUE],
                  [start |-> 3, length |-> 2, home |-> FALSE]>>,
     chapters |-> <<[start |-> 0, end |-> 1], [start |-> 1, end |-> 3],
                    [start |-> 4, end |-> 5]>>,
     duration |-> 5]

\* Shorter, for the run in which input races mpv: a gap between the chapters,
\* and the last file on another origin.
ShortFiles ==
    [tracks |-> <<[start |-> 0, length |-> 1, home |-> TRUE],
                  [start |-> 1, length |-> 1, home |-> TRUE],
                  [start |-> 2, length |-> 1, home |-> FALSE]>>,
     chapters |-> <<[start |-> 0, end |-> 1], [start |-> 2, end |-> 3]>>,
     duration |-> 3]

PlainTimeline == [m \in {b1, b2, e1} |-> OneFile]
FilesTimeline == [m \in {b1, e1} |-> IF m = b1 THEN ThreeFiles ELSE OneFile]
ShortTimeline == [m \in {b1, e1} |-> IF m = b1 THEN ShortFiles ELSE OneFile]

=============================================================================
