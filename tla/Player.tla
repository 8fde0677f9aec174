-------------------------------- MODULE Player --------------------------------
(***************************************************************************)
(* What a listening session counts on from the player: a queue of files,   *)
(* a place in the first of them, and whether sound is asked for.  A load   *)
(* starts where it was told to, a seek lands where it was told to, and     *)
(* between commands the place only moves forward, and only while not       *)
(* paused.                                                                 *)
(***************************************************************************)
EXTENDS Naturals, Sequences

CONSTANTS Queues,   \* the queues of files that may be asked for
          Length    \* bound: the length of a file

VARIABLES queue,    \* the files left to play; the first is current
          place,    \* the place in the current file
          paused,   \* is it paused?
          broken,   \* has a file failed?  What sounds then is not told
          commands  \* how many commands it was given

vars == <<queue, place, paused, broken, commands>>

Places == 0 .. Length

Init == queue = <<>> /\ place = 0 /\ paused = FALSE /\ broken = FALSE /\ commands = 0

Load(files, start, play) ==
    /\ queue' = files /\ place' = start /\ paused' = ~play /\ broken' = FALSE

\* While a file is broken there is nothing to seek in.
Seek(to) ==
    /\ place' = IF queue = <<>> THEN place ELSE to
    /\ UNCHANGED <<queue, paused, broken>>

RequestPaused(pause) == paused' = pause /\ UNCHANGED <<queue, place, broken>>

Stop == queue' = <<>> /\ place' = 0 /\ broken' = FALSE /\ UNCHANGED paused

Command ==
    /\ commands' = commands + 1
    /\ \/ \E files \in Queues, start \in Places, play \in BOOLEAN : Load(files, start, play)
       \/ \E to \in Places : Seek(to)
       \/ \E pause \in BOOLEAN : RequestPaused(pause)
       \/ Stop

Plays ==
    /\ queue # <<>> /\ ~paused
    /\ \/ place < Length /\ place' = place + 1 /\ UNCHANGED queue
       \/ place = Length /\ place' = 0 /\ queue' = Tail(queue)
    /\ UNCHANGED <<paused, broken, commands>>

Breaks == queue' = <<>> /\ place' = 0 /\ broken' = TRUE /\ UNCHANGED <<paused, commands>>

Next == Command \/ Plays \/ Breaks

Spec == Init /\ [][Next]_vars
=============================================================================
