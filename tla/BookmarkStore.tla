---------------------------- MODULE BookmarkStore ----------------------------
(***************************************************************************)
(* The bookmarks of the signed-in user (model/BookmarkStore.cpp): loaded   *)
(* from the user object at sign-in, then changed at once on screen and     *)
(* undone if the server rejects the change.                                *)
(*                                                                         *)
(* A call may be lost before the server sees it, or its answer after; the  *)
(* answers come in any order.  A reply is stale only if the client has     *)
(* been pointed at another server since (ApiClient.cpp:121), so it outlives *)
(* a sign-out from the same server.                                        *)
(*                                                                         *)
(* A book's list is kept by second: each second has the titles bookmarked  *)
(* there, in the order of the list.  The order of two seconds is never     *)
(* seen: has(), add() and remove() look one second up, forItem() sorts.    *)
(***************************************************************************)
EXTENDS Naturals, Sequences

CONSTANTS
    Hosts,          \* the servers
    Books, Seconds, Titles,
    MaxChanges      \* bound: bookmarks added, removed, and sign-ins

ASSUME BookmarkAssumption == MaxChanges \in Nat

Marks == [Seconds -> Seq(Titles)]
Calls == [kind : {"add", "remove"}, host : Hosts, book : Books, time : Seconds, title : Titles,
          epoch : Nat, nth : Nat, fate : {"sent", "applied", "rejected"}]

VARIABLES
    marks,      \* m_byItem, by book
    saved,      \* what each server has saved, by book
    host,       \* the server the client points at
    hostEpoch,  \* ApiClient::m_epoch
    signedIn,   \* whether the bookmarks are on screen
    calls,      \* POST and DELETE requests not answered yet
    doubtful,   \* seconds that calls in flight together, or a lost answer, left in doubt
    changes     \* bound

bookmarkVars == <<marks, saved, host, hostEpoch, signedIn, calls, doubtful, changes>>

BookmarkTypeOK ==
    /\ marks \in [Books -> Marks] /\ saved \in [Hosts -> [Books -> Marks]]
    /\ host \in Hosts /\ hostEpoch \in Nat /\ signedIn \in BOOLEAN
    /\ calls \subseteq Calls /\ doubtful \subseteq Books \X Seconds
    /\ changes \in 0 .. MaxChanges
-----------------------------------------------------------------------------
NoMarks == [b \in Books |-> [t \in Seconds |-> <<>>]]

Has(b, t) == marks[b][t] # <<>>

\* The calls in flight on one second of a book of the current server.
Pending(b, t) == {c \in calls : c.host = host /\ c.book = b /\ c.time = t}

BookmarkInit ==
    /\ marks = NoMarks
    /\ saved \in [Hosts -> [Books -> [Seconds -> {<<>>} \cup {<<title>> : title \in Titles}]]]
    /\ host \in Hosts /\ hostEpoch = 0 /\ signedIn = FALSE
    /\ calls = {} /\ doubtful = {} /\ changes = 0

Changing == changes < MaxChanges /\ changes' = changes + 1

\* The authenticated signal: loadFromUser().  What is still in flight on this
\* server may or may not be in what it has told.
UserLoaded ==
    /\ Changing /\ ~signedIn
    /\ signedIn' = TRUE /\ marks' = saved[host]
    /\ doubtful' = {<<c.book, c.time>> : c \in {d \in calls : d.host = host}}
    /\ UNCHANGED <<saved, host, hostEpoch, calls>>

\* The sessionEnding signal: clear(), before a change of server if there is one.
Cleared(s) ==
    /\ signedIn /\ signedIn' = FALSE
    /\ marks' = NoMarks
    /\ host' = s /\ hostEpoch' = hostEpoch + (IF s = host THEN 0 ELSE 1)
    /\ UNCHANGED <<saved, calls, doubtful, changes>>

Send(kind, b, t, title) ==
    /\ calls' = calls \cup {[kind |-> kind, host |-> host, book |-> b, time |-> t, title |-> title,
                             epoch |-> hostEpoch, nth |-> changes, fate |-> "sent"]}
    /\ doubtful' = IF Pending(b, t) = {} THEN doubtful ELSE doubtful \cup {<<b, t>>}
    /\ UNCHANGED <<saved, host, hostEpoch, signedIn>>

AddBookmark(b, t, title) ==
    /\ Changing /\ signedIn /\ ~Has(b, t)
    /\ marks' = [marks EXCEPT ![b][t] = Append(@, title)]
    /\ Send("add", b, t, title)

RemoveBookmark(b, t) ==
    /\ Changing /\ signedIn /\ Has(b, t)
    /\ marks' = [marks EXCEPT ![b][t] = <<>>]
    /\ Send("remove", b, t, Head(marks[b][t]))

\* The server: one bookmark a second, and nothing to delete where there is none.
Asked(c) == IF c.kind = "add" THEN <<c.title>> ELSE <<>>

Becomes(c, fate) == calls' = (calls \ {c}) \cup {[c EXCEPT !.fate = fate]}

Arrives(c) ==
    /\ c.fate = "sent" /\ (c.kind = "remove" => saved[c.host][c.book][c.time] # <<>>)
    /\ saved' = [saved EXCEPT ![c.host][c.book][c.time] = Asked(c)]
    /\ Becomes(c, "applied")
    /\ UNCHANGED <<marks, host, hostEpoch, signedIn, doubtful, changes>>

Rejected(c) ==
    /\ c.fate = "sent" /\ Becomes(c, "rejected")
    /\ UNCHANGED <<marks, saved, host, hostEpoch, signedIn, doubtful, changes>>

\* Slip: a reply is not tested for staleness.
NeverStaleCall(c) == FALSE

Stale(c) == c.epoch # hostEpoch

Confirmed(c) ==
    /\ c.fate = "applied" /\ calls' = calls \ {c}
    /\ UNCHANGED <<marks, saved, host, hostEpoch, signedIn, doubtful, changes>>

\* The reply handlers of add() and remove() on failure: the inserted bookmark
\* goes, the removed one comes back, whatever happened to that second meanwhile.
Undo(c) ==
    IF Stale(c) THEN marks
    ELSE [marks EXCEPT ![c.book][c.time] = IF c.kind = "add" THEN <<>> ELSE Append(@, c.title)]

Fails(c) ==
    /\ c.fate \in {"applied", "rejected"} /\ calls' = calls \ {c}
    /\ marks' = Undo(c)
    /\ doubtful' = IF c.fate = "applied" /\ c.host = host
                   THEN doubtful \cup {<<c.book, c.time>>} ELSE doubtful
    /\ UNCHANGED <<saved, host, hostEpoch, signedIn, changes>>

BookmarkNext ==
    \/ UserLoaded
    \/ \E s \in Hosts : Cleared(s)
    \/ \E b \in Books, t \in Seconds :
          (\E title \in Titles : AddBookmark(b, t, title)) \/ RemoveBookmark(b, t)
    \/ \E c \in calls : Arrives(c) \/ Rejected(c) \/ Confirmed(c) \/ Fails(c)

BookmarkSpec == BookmarkInit /\ [][BookmarkNext]_bookmarkVars
-----------------------------------------------------------------------------
\* BookmarkStore.h:13-16, "keeping a local cache in sync optimistically": while a
\* change of a second is in flight the screen shows what was asked for, and once
\* it is answered what the server has saved, at most one bookmark a second.  This
\* does not hold of a second that is changed again before the first answer, or
\* whose answer is lost: the two undo each other's change.
BookmarksSettle ==
    signedIn => \A b \in Books, t \in Seconds : <<b, t>> \notin doubtful =>
        IF Pending(b, t) = {} THEN marks[b][t] = saved[host][b][t]
        ELSE \A c \in Pending(b, t) : marks[b][t] = Asked(c)
=============================================================================
