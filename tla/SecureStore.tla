----------------------------- MODULE SecureStore -----------------------------
(***************************************************************************)
(* Where saved sign-ins are kept (storage/SecureStore.cpp), as the token   *)
(* store uses it: the provider of the master secret, the key file, and the *)
(* encrypted rows of the database.                                         *)
(*                                                                         *)
(* A key is a model value: a row is readable under the key it was written  *)
(* with and no other (AES-GCM under a key derived from the master secret). *)
(* Asking the Secret portal runs an event loop in which other handlers run *)
(* and may ask again: a stack of operations, of which the top one goes on. *)
(* Each operation's writes reach the disk one by one, and the process may  *)
(* be killed between any two of them.                                      *)
(***************************************************************************)
EXTENDS Naturals, Sequences, SequencesExt

CONSTANTS
    Accounts,       \* the saved servers, each with a row
    NoAccount, NoKey,
    PortalKey,      \* the secret the user's keyring holds for this application
    Flatpak,        \* runningUnderFlatpak()
    MaxPrompts,     \* bound: operations open at once
    MaxUses         \* bound: sign-ins, restores, moves and launches

\* master.key of an earlier version, and the keys RAND_bytes() makes.
OldKey == 0
Keys   == {PortalKey} \cup (0 .. MaxUses)

ASSUME SecretAssumption ==
    /\ MaxUses \in Nat
    /\ NoAccount \notin Accounts /\ NoKey \notin Keys /\ PortalKey \notin 0 .. MaxUses

Key    == Keys \cup {NoKey}

Providers == {"none", "portal-v1", "local-v1"}
Disks == [provider : Providers, keyFile : Key, rows : [Accounts -> Key]]

\* An operation under way.  row is the row a retrieve() has read; the portal is
\* asked because of a switch, by a fresh set-up, by its own marker, or not at all.
Operations == [goal : {"store", "retrieve", "toKeyring", "toDevice"}, of : Accounts \cup {NoAccount},
               row : Key, why : {"switch", "set-up", "sticky", "local"},
               portal : {"waiting", "secret", "nothing"}, nth : 1 .. MaxUses]

VARIABLES
    disk,       \* setting secretProvider, master.key and the table secrets
    master,     \* m_master
    session,    \* the account whose tokens are in memory
    running,    \* whether the process runs
    operations, \* open operations, innermost first
    crossed,    \* why the portal was being waited for when another operation began
    lost,       \* keys never written to disk, or that a Reset was giving up when killed
    unsaved,    \* accounts whose tokens could not be saved, there being no key
    uses        \* bound

secretVars == <<disk, master, session, running, operations, crossed, lost, unsaved, uses>>

SecretTypeOK ==
    /\ disk \in Disks /\ master \in Key /\ session \in Accounts \cup {NoAccount}
    /\ running \in BOOLEAN /\ operations \in Seq(Operations)
    /\ crossed \subseteq {"switch", "set-up", "sticky"} /\ lost \subseteq Key /\ unsaved \subseteq Accounts /\ uses \in 0 .. MaxUses
-----------------------------------------------------------------------------
NoRows == [a \in Accounts |-> NoKey]

SecretInit ==
    /\ \/ disk = [provider |-> "none", keyFile |-> NoKey, rows |-> NoRows]
       \/ \E saved \in [Accounts -> {OldKey, NoKey}] :     \* before the marker
              disk = [provider |-> "none", keyFile |-> OldKey, rows |-> saved]
    /\ master = NoKey /\ session = NoAccount /\ running = TRUE /\ operations = <<>>
    /\ crossed = {} /\ lost = {} /\ unsaved = {} /\ uses = 0

Top     == Head(operations)
\* Handlers run unless an operation is at work, not waiting.
Handles == running /\ (operations # <<>> => Top.portal = "waiting")
Use     == Handles /\ Len(operations) < MaxPrompts /\ uses < MaxUses /\ uses' = uses + 1

\* acquireMasterSecret(): whom an operation in need of the master secret asks.
Asks == CASE disk.provider = "portal-v1"                                 -> "sticky"
          [] disk.provider = "none" /\ disk.keyFile = NoKey /\ Flatpak   -> "set-up"
          [] OTHER                                                       -> "local"

Begin(goal, a) ==
    LET why == IF goal = "toKeyring" THEN "switch" ELSE IF master # NoKey THEN "local" ELSE Asks
    IN  /\ operations' = <<[goal |-> goal, of |-> a, why |-> why,
                            row |-> IF goal = "retrieve" THEN disk.rows[a] ELSE NoKey,
                            portal |-> IF why = "local" THEN "nothing" ELSE "waiting",
                            nth |-> uses + 1]>>
                         \o operations
        /\ crossed' = crossed \cup {operations[i].why : i \in DOMAIN operations}
        /\ UNCHANGED <<disk, master, running, lost>>

\* setTokens(), persist(): a sign-in, or a refresh, saves the tokens.
SaveTokens(a) == Use /\ session' = a /\ Begin("store", a) /\ UNCHANGED unsaved

\* load(), for the account of the server last used or chosen; no key is asked
\* for if there is no row.
Restore(a) ==
    /\ Use /\ session' = NoAccount /\ disk.rows[a] # NoKey
    /\ Begin("retrieve", a) /\ UNCHANGED unsaved

\* clear(): signing out.
SignOut ==
    /\ Handles /\ session # NoAccount /\ session' = NoAccount
    /\ disk' = [disk EXCEPT !.rows[session] = NoKey]
    /\ UNCHANGED <<master, running, operations, crossed, lost, unsaved, uses>>

\* setSignInOnDevice(): nothing to do if storage() is the target already.
MoveTo(goal) ==
    /\ Use /\ goal = (IF disk.provider = "portal-v1" THEN "toDevice" ELSE "toKeyring")
    /\ (goal = "toKeyring" => Flatpak)
    /\ Begin(goal, NoAccount) /\ UNCHANGED <<session, unsaved>>

\* The portal answers an operation, with the secret or without one, or the wait
\* for it times out; an outer one learns of it when the inner ones have returned.
PortalAnswers(i, answer) ==
    /\ running /\ operations[i].portal = "waiting"
    /\ operations' = [operations EXCEPT ![i].portal = answer]
    /\ UNCHANGED <<disk, master, session, running, crossed, lost, unsaved, uses>>
-----------------------------------------------------------------------------
(* What an operation does once it knows the portal's answer *)

\* The key an operation makes with RAND_bytes(), if it makes one.
Fresh == Top.nth

\* acquireLocalSecret(): the key file, or a fresh key written to it; the key is
\* used also if it could not be written.  A result is the key and the states the
\* disk goes through.
Local(d, written) ==
    IF d.keyFile # NoKey THEN [key |-> d.keyFile, writes |-> <<>>]
    ELSE [key |-> Fresh, writes |-> IF written THEN <<[d EXCEPT !.keyFile = Fresh]>> ELSE <<>>]

MarkedLocal(d, written) ==
    LET marked == [d EXCEPT !.provider = "local-v1"]
        local  == Local(marked, written)
    IN  [local EXCEPT !.writes = <<marked>> \o @]

\* Slip: whenever the portal gives no secret, the key file is used instead.
AcquiredOrLocal(why, answer, written) ==
    IF answer = "secret" THEN [key |-> PortalKey, writes |-> <<[disk EXCEPT !.provider = "portal-v1"]>>]
    ELSE IF why = "local" /\ master # NoKey THEN [key |-> master, writes |-> <<>>]
    ELSE MarkedLocal(disk, written)

\* masterSecret(), for an operation that has asked for the reason `why'.
Acquired(why, answer, written) ==
    IF why = "sticky" THEN [key |-> IF answer = "secret" THEN PortalKey ELSE NoKey, writes |-> <<>>]
    ELSE IF why = "set-up" /\ answer = "secret"
         THEN [key |-> PortalKey, writes |-> <<[disk EXCEPT !.provider = "portal-v1"]>>]
    ELSE IF why = "local" /\ master # NoKey THEN [key |-> master, writes |-> <<>>]
    ELSE IF why = "local" /\ disk.provider = "local-v1" THEN Local(disk, written)
    ELSE MarkedLocal(disk, written)

After(writes) == IF writes = <<>> THEN disk ELSE Last(writes)

\* store()
Stored(d, a, key) == IF a = NoAccount \/ key = NoKey THEN <<>> ELSE <<[d EXCEPT !.rows[a] = key]>>

\* load(): a row that the right key does not open is dead, and is removed.
Purged(d, o, key) ==
    IF key = NoKey \/ o.row = key THEN <<>> ELSE <<[d EXCEPT !.rows[o.of] = NoKey]>>

\* Slip: the provider is marked before the key file is written.
ToDeviceMarkedFirst(d, key) ==
    LET marked == [d EXCEPT !.provider = "local-v1"]
        home   == [marked EXCEPT !.keyFile = IF key = NoKey THEN Fresh ELSE key]
    IN  <<marked, home>> \o (IF key = NoKey THEN <<[home EXCEPT !.rows = NoRows]>> ELSE <<>>)

\* setStorage(Device): the keyring's secret becomes the key file, or a fresh one
\* does and the rows go.
ToDevice(d, key) ==
    LET home   == [d EXCEPT !.keyFile = IF key = NoKey THEN Fresh ELSE key]
        marked == [home EXCEPT !.provider = "local-v1"]
    IN  <<home, marked>> \o (IF key = NoKey THEN <<[marked EXCEPT !.rows = NoRows]>> ELSE <<>>)

\* setStorage(Keyring), the portal having given its secret and `previous' being
\* the one in use.
ToKeyring(d, previous) ==
    LET marked == [d EXCEPT !.provider = "portal-v1"]
        gone   == [marked EXCEPT !.keyFile = NoKey]
    IN  <<marked, gone>> \o (IF previous = PortalKey THEN <<>> ELSE <<[gone EXCEPT !.rows = NoRows]>>)

\* TokenStore::setStorage(): what is in memory is saved again after a move.
SavedAgain(writes, key) == writes \o Stored(After(writes), session, key)

\* Either all of the writes are done and the operation returns, or the process is
\* killed after some of them.  doing is what the memory becomes, unwritten and
\* losing the keys that are lost in any case or if killed.
Writes(writes, unwritten, losing, doing) ==
    \/ disk' = After(writes) /\ doing /\ operations' = Tail(operations)
       /\ UNCHANGED <<running, crossed, uses>> /\ lost' = lost \cup unwritten
    \/ \E n \in 1 .. Len(writes) - 1 :
        /\ disk' = writes[n] /\ running' = FALSE /\ operations' = <<>>
        /\ master' = NoKey /\ session' = NoAccount
        /\ lost' = lost \cup unwritten \cup losing
        /\ UNCHANGED <<crossed, unsaved, uses>>

Ready(goal) == running /\ operations # <<>> /\ Top.goal = goal /\ Top.portal # "waiting"

\* Every operation but a move to the keyring needs the master secret first.
Gets(written)  == Acquired(Top.why, Top.portal, written)
Unwritten(got) == {got.key} \ {NoKey, PortalKey, master, After(got.writes).keyFile}

StoreReturns ==
    /\ Ready("store")
    /\ \E written \in BOOLEAN : LET got == Gets(written) IN
        Writes(got.writes \o Stored(After(got.writes), Top.of, got.key), Unwritten(got), {},
                  /\ master' = got.key /\ session' = session
                  /\ unsaved' = IF got.key = NoKey THEN unsaved \cup {Top.of} ELSE unsaved \ {Top.of})

RetrieveReturns ==
    /\ Ready("retrieve")
    /\ \E written \in BOOLEAN : LET got == Gets(written) IN
        Writes(got.writes \o Purged(After(got.writes), Top, got.key), Unwritten(got), {},
                  /\ master' = got.key /\ unsaved' = unsaved
                  /\ session' = IF got.key = Top.row THEN Top.of ELSE session)

\* The key file may also be unwritable: then nothing changes but that file.
ToDeviceReturns ==
    /\ Ready("toDevice")
    /\ LET got == Gets(TRUE)
           key == IF got.key = NoKey THEN Fresh ELSE got.key
       IN  \/ Writes(SavedAgain(got.writes \o ToDevice(After(got.writes), got.key), key),
                     {}, {PortalKey} \ {key},
                     master' = key /\ session' = session /\ unsaved' = unsaved \ {session})
           \/ \E file \in {disk.keyFile, NoKey} :
                  Writes(got.writes \o <<[After(got.writes) EXCEPT !.keyFile = file]>>, {}, {},
                         master' = got.key /\ session' = session /\ unsaved' = unsaved)

\* Without a master secret yet, the one in use so far is acquired now; should
\* that ask the portal again, the wait for its answer is part of this step.
ToKeyringReturns ==
    /\ Ready("toKeyring") /\ Top.portal = "secret"
    /\ \E written \in BOOLEAN, answer \in {"secret", "nothing"} :
        LET got == Acquired(IF master # NoKey THEN "local" ELSE Asks, answer, written)
        IN  Writes(SavedAgain(got.writes \o ToKeyring(After(got.writes), got.key), PortalKey),
                   {}, {got.key} \ {PortalKey},
                   master' = PortalKey /\ session' = session /\ unsaved' = unsaved \ {session})

ToKeyringRefused ==
    /\ Ready("toKeyring") /\ Top.portal = "nothing" /\ operations' = Tail(operations)
    /\ UNCHANGED <<disk, master, session, running, crossed, lost, unsaved, uses>>

\* The process ends, or is killed while nothing is being written.
Killed ==
    /\ running /\ running' = FALSE
    /\ operations' = <<>> /\ master' = NoKey /\ session' = NoAccount
    /\ UNCHANGED <<disk, crossed, lost, unsaved, uses>>

Launched ==
    /\ ~running /\ uses < MaxUses /\ uses' = uses + 1 /\ running' = TRUE
    /\ UNCHANGED <<disk, master, session, operations, crossed, lost, unsaved>>

SecretNext ==
    \/ \E a \in Accounts : SaveTokens(a) \/ Restore(a)
    \/ SignOut
    \/ \E goal \in {"toKeyring", "toDevice"} : MoveTo(goal)
    \/ \E i \in DOMAIN operations, answer \in {"secret", "nothing"} : PortalAnswers(i, answer)
    \/ StoreReturns \/ RetrieveReturns \/ ToDeviceReturns \/ ToKeyringReturns \/ ToKeyringRefused
    \/ Killed \/ Launched

SecretSpec == SecretInit /\ [][SecretNext]_secretVars
-----------------------------------------------------------------------------
\* The key the next launch will use, if the keyring can be reached.
NextKey == IF disk.provider = "portal-v1" THEN PortalKey ELSE disk.keyFile

\* SecureStore.cpp:188, 225: a saved sign-in can be opened by the next launch,
\* wherever this one is killed, and the one in use is still saved after a move.
\* What a Reset gives up is given up also when cut short.
SavedSecretsOpen ==
    crossed = {} => /\ \A a \in Accounts : disk.rows[a] \in {NoKey, NextKey} \cup lost
                    /\ operations = <<>> /\ session # NoAccount /\ session \notin unsaved
                          => disk.rows[session] # NoKey

\* SecureStore.h:32-33: the provider "never changes on its own [...]; only an
\* explicit setStorage() moves it", whatever the portal answers and when; except
\* where something else needs the secret while a first set-up waits for the portal.
StickyProvider ==
    [][disk.provider # "none" /\ disk'.provider # disk.provider /\ "set-up" \notin crossed
       => operations # <<>> /\ Top.goal \in {"toKeyring", "toDevice"}]_secretVars
=============================================================================
