--------------------------- MODULE SingleInstance ---------------------------
(***************************************************************************)
(* The single-instance guard (app/Application.cpp): launches race for a    *)
(* file lock; the winner runs and listens at a socket path, the others     *)
(* hand it the callback URI they were launched with and exit.              *)
(*                                                                         *)
(* The lock goes when its owner exits or dies.  The socket file does not   *)
(* go with a process that is killed, and goes by name when a listener is   *)
(* closed, whoever is listening there by then.                             *)
(***************************************************************************)
EXTENDS FiniteSets

CONSTANTS
    Launches,   \* bound: the processes launched
    Nobody

ASSUME InstanceAssumption == Nobody \notin Launches

Running == {"listening", "deaf", "lockless"}    \* acquire() has returned true
Stages  == Running \cup {"off", "launched", "owner", "forwarding", "unlocked", "waiting",
                         "leaving", "gone"}

VARIABLES
    stage,      \* where each launch is
    carries,    \* the launches that carry a callback URI
    lock,       \* who holds the lock file
    endpoint,   \* whose listener the socket path leads to, dead or alive
    inbox,      \* the frames written to each listener and not read yet
    handled,    \* the launches whose URI a running process has handled
    slow,       \* the owners that need three seconds or more from the lock to the bind
    primary,    \* history: who held the lock when a launch found it taken, or had no lock file
    clean       \* history: who took the lock when no earlier owner still had its listener

history      == <<slow, primary, clean>>
instanceVars == <<stage, carries, lock, endpoint, inbox, handled, history>>

InstanceTypeOK ==
    /\ stage \in [Launches -> Stages] /\ carries \subseteq Launches
    /\ lock \in Launches \cup {Nobody} /\ endpoint \in Launches \cup {Nobody}
    /\ inbox \in [Launches -> SUBSET carries]
    /\ handled \subseteq carries /\ slow \subseteq Launches
    /\ primary \in [Launches -> Launches \cup {Nobody}] /\ clean \subseteq Launches
-----------------------------------------------------------------------------
In(s)      == {p \in Launches : stage[p] \in s}
Go(p, s)   == stage' = [stage EXCEPT ![p] = s]

InstanceInit ==
    /\ stage = [p \in Launches |-> "off"] /\ carries \in SUBSET Launches
    /\ lock = Nobody /\ endpoint = Nobody
    /\ inbox = [p \in Launches |-> {}] /\ handled = {}
    /\ slow = {} /\ primary = [p \in Launches |-> Nobody] /\ clean = {}

Launch(p) ==
    /\ stage[p] = "off" /\ Go(p, "launched")
    /\ UNCHANGED <<carries, lock, endpoint, inbox, handled, history>>

\* acquire(): flock(), or it would block, or the lock file cannot be opened.
TakeLock(p) ==
    /\ stage[p] = "launched" /\ lock = Nobody
    /\ lock' = p /\ Go(p, "owner")
    /\ slow' \in {slow, slow \cup {p}}
    /\ clean' = IF In({"leaving"}) = {} THEN clean \cup {p} ELSE clean
    /\ UNCHANGED <<carries, endpoint, inbox, handled, primary>>

LockTaken(p) ==
    /\ stage[p] = "launched" /\ lock # Nobody /\ Go(p, "forwarding")
    /\ primary' = [primary EXCEPT ![p] = lock]
    /\ UNCHANGED <<carries, lock, endpoint, inbox, handled, slow, clean>>

NoLockFile(p) ==
    /\ stage[p] = "launched" /\ Go(p, "unlocked")
    /\ primary' = [primary EXCEPT ![p] = lock]
    /\ UNCHANGED <<carries, lock, endpoint, inbox, handled, slow, clean>>

\* Slip: a callback is handled whether or not there is one.
AnyUri(p) == handled' = handled \cup {p}

\* main(): a process that runs handles its own callback.
OwnUri(p) == handled' = handled \cup ({p} \cap carries)

\* The stale socket is removed, then startListening() binds it or fails.
Listen(p) ==
    /\ stage[p] = "owner" /\ endpoint' = p /\ Go(p, "listening") /\ OwnUri(p)
    /\ UNCHANGED <<carries, lock, inbox, history>>

CannotListen(p) ==
    /\ stage[p] = "owner" /\ endpoint' = Nobody /\ Go(p, "deaf") /\ OwnUri(p)
    /\ UNCHANGED <<carries, lock, inbox, history>>

\* forwardToPrimary(): connects, retrying, and writes the frame.
Reachable == endpoint # Nobody /\ stage[endpoint] \in {"listening", "leaving"}

Connect(p) ==
    /\ stage[p] \in {"forwarding", "unlocked"} /\ Reachable
    /\ IF p \in carries
       THEN Go(p, "waiting") /\ inbox' = [inbox EXCEPT ![endpoint] = @ \cup {p}]
       ELSE Go(p, "gone") /\ UNCHANGED inbox
    /\ UNCHANGED <<carries, lock, endpoint, handled, history>>

\* Slip: one attempt to connect.
CannotConnectAtOnce(p) ==
    /\ stage[p] = "forwarding" /\ ~Reachable /\ Go(p, "gone")
    /\ UNCHANGED <<carries, lock, endpoint, inbox, handled, history>>

\* The attempts of three seconds have failed, and the launch gives up, whatever the
\* owner does.  The three seconds began when it had the lock already: if it is not
\* slow, it has by then tried to listen, or is gone.
CannotConnect(p) ==
    /\ stage[p] = "forwarding" /\ ~Reachable
    /\ stage[primary[p]] = "owner" => primary[p] \in slow
    /\ Go(p, "gone")
    /\ UNCHANGED <<carries, lock, endpoint, inbox, handled, history>>

\* "Running without single-instance ownership"
RunLockless(p) ==
    /\ stage[p] = "unlocked" /\ ~Reachable /\ Go(p, "lockless") /\ OwnUri(p)
    /\ UNCHANGED <<carries, lock, endpoint, inbox, history>>

\* The listener's readyRead: the URI is handled, then acknowledged.
Receive(q, p) ==
    /\ stage[q] = "listening" /\ p \in inbox[q]
    /\ inbox' = [inbox EXCEPT ![q] = @ \ {p}] /\ handled' = handled \cup {p}
    /\ IF stage[p] = "waiting" THEN Go(p, "gone") ELSE UNCHANGED stage
    /\ UNCHANGED <<carries, lock, endpoint, history>>

\* No acknowledgement within two seconds; the frame may still be read.
NotAcknowledged(p) ==
    /\ stage[p] = "waiting" /\ Go(p, "gone")
    /\ UNCHANGED <<carries, lock, endpoint, inbox, handled, history>>

\* ~SingleInstanceGuard() gives the lock up first, and its listener is destroyed
\* after it, taking away what is at the path.
Leave(p) ==
    /\ stage[p] \in Running /\ Go(p, IF stage[p] = "listening" THEN "leaving" ELSE "gone")
    /\ lock' = (IF lock = p THEN Nobody ELSE lock)
    /\ UNCHANGED <<carries, endpoint, inbox, handled, history>>

Unlisten(p) ==
    /\ stage[p] = "leaving" /\ Go(p, "gone") /\ endpoint' = Nobody
    /\ inbox' = [inbox EXCEPT ![p] = {}]
    /\ UNCHANGED <<carries, lock, handled, history>>

\* Killed: the kernel gives the lock up, the socket file stays.
Kill(p) ==
    /\ stage[p] \in {"owner", "listening", "deaf"} /\ Go(p, "gone") /\ lock' = Nobody
    /\ inbox' = [inbox EXCEPT ![p] = {}]
    /\ UNCHANGED <<carries, endpoint, handled, history>>

InstanceNext ==
    \E p \in Launches :
        \/ Launch(p) \/ TakeLock(p) \/ LockTaken(p) \/ NoLockFile(p)
        \/ Listen(p) \/ CannotListen(p)
        \/ Connect(p) \/ CannotConnect(p) \/ RunLockless(p) \/ NotAcknowledged(p)
        \/ \E q \in Launches : Receive(q, p)
        \/ Leave(p) \/ Unlisten(p) \/ Kill(p)

InstanceSpec == InstanceInit /\ [][InstanceNext]_instanceVars
-----------------------------------------------------------------------------
\* Application.cpp:166, "We alone own the endpoint": while the owner of the lock
\* listens, the socket path leads to it.
OwnsTheEndpoint == \A p \in In({"listening"}) : lock = p => endpoint = p

\* Application.h:22: a launch that is over has handed its callback to the owner it
\* found, which has handled it or has it to read, as long as that owner listens; also
\* when the launch raced with its start, unless the bind took it three seconds.  Not
\* claimed of an owner that started while the one before was still going: that may
\* take the callback with it, or the path (OwnsTheEndpoint).
CallbackArrives ==
    \A p \in carries \cap In({"gone"}) :
        primary[p] \in (clean \ slow) \cap In({"listening"})
            => p \in handled \/ p \in inbox[primary[p]]
=============================================================================
