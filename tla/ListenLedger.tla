----------------------------- MODULE ListenLedger -----------------------------
(***************************************************************************)
(* What the listening-time accounting promises, apart from how it is done. *)
(*                                                                         *)
(* Every tick of audible time of an open session is held in exactly one    *)
(* place: outstanding with the client, reserved by one request in flight,  *)
(* settled with the server, or dropped.  A request reserves everything     *)
(* outstanding; its answer settles the interval or returns it.  Time may   *)
(* be given up only once its session is over, and the outstanding time of  *)
(* a finished session is forgotten when the next one opens.                *)
(***************************************************************************)
EXTENDS Naturals

CONSTANTS Requests, MaxTicks

VARIABLES open,         \* is a session open?
          since,        \* ticks numbered above this belong to the open session
          heard,        \* ticks are numbered 1 .. heard
          outstanding,  \* with the client, in no request
          reserved,     \* Requests -> the interval a request in flight owns
          settled, dropped

ledger == <<open, since, heard, outstanding, reserved, settled, dropped>>

Init ==
    /\ open = FALSE
    /\ since = 0
    /\ heard = 0
    /\ outstanding = {}
    /\ reserved = [r \in Requests |-> {}]
    /\ settled = {}
    /\ dropped = {}

Open ==
    /\ ~open
    /\ open' = TRUE
    /\ since' = heard
    /\ dropped' = dropped \cup outstanding
    /\ outstanding' = {}
    /\ UNCHANGED <<heard, reserved, settled>>

Hear ==
    /\ open
    /\ heard < MaxTicks
    /\ heard' = heard + 1
    /\ outstanding' = outstanding \cup {heard + 1}
    /\ UNCHANGED <<open, since, reserved, settled, dropped>>

\* The whole outstanding interval goes out with one request, which may also
\* be the one that closes the session.
Reserve(r) ==
    /\ open
    /\ reserved[r] = {}
    /\ reserved' = [reserved EXCEPT ![r] = outstanding]
    /\ outstanding' = {}
    /\ open' \in BOOLEAN
    /\ UNCHANGED <<since, heard, settled, dropped>>

Settle(r) ==
    /\ settled' = settled \cup reserved[r]
    /\ reserved' = [reserved EXCEPT ![r] = {}]
    /\ UNCHANGED <<open, since, heard, outstanding, dropped>>

\* A returned interval never mixes into that of another session.
Return(r) ==
    /\ open => \A t \in reserved[r] : t > since
    /\ outstanding' = outstanding \cup reserved[r]
    /\ reserved' = [reserved EXCEPT ![r] = {}]
    /\ UNCHANGED <<open, since, heard, settled, dropped>>

\* An interval of the open session is never given up.
GiveUp(r) ==
    /\ open => \A t \in reserved[r] : t <= since
    /\ dropped' = dropped \cup reserved[r]
    /\ reserved' = [reserved EXCEPT ![r] = {}]
    /\ UNCHANGED <<open, since, heard, outstanding, settled>>

\* The client turns to another server: every request is aborted unanswered.
AbortAll ==
    /\ ~open
    /\ dropped' = dropped \cup (UNION {reserved[r] : r \in Requests})
    /\ reserved' = [r \in Requests |-> {}]
    /\ UNCHANGED <<open, since, heard, outstanding, settled>>

Next ==
    \/ Open
    \/ Hear
    \/ AbortAll
    \/ \E r \in Requests : Reserve(r) \/ Settle(r) \/ Return(r) \/ GiveUp(r)

Spec == Init /\ [][Next]_ledger
-----------------------------------------------------------------------------
LedgerTypeOK ==
    /\ open \in BOOLEAN
    /\ heard \in Nat /\ since \in 0 .. heard
    /\ outstanding \subseteq 1 .. heard
    /\ reserved \in [Requests -> SUBSET (1 .. heard)]
    /\ settled \subseteq 1 .. heard /\ dropped \subseteq 1 .. heard

\* Every tick heard is in one place, and in one only.
OnePlace ==
    /\ 1 .. heard = outstanding \cup (UNION {reserved[r] : r \in Requests}) \cup settled \cup dropped
    /\ outstanding \cap (settled \cup dropped) = {}
    /\ settled \cap dropped = {}
    /\ \A r \in Requests : reserved[r] \cap (outstanding \cup settled \cup dropped) = {}
    /\ \A q, r \in Requests : q # r => reserved[q] \cap reserved[r] = {}

\* Nothing of the open session is given up, nothing of an earlier one taken in.
KeepsItsTime ==
    open => /\ \A t \in dropped : t <= since
            /\ \A t \in outstanding : t > since
=============================================================================
