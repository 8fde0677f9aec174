----------------------------- MODULE Local_proofs -----------------------------
(***************************************************************************)
(* What is proved of the components that keep something on this computer,  *)
(* each about its own specification and so of the four side by side: no    *)
(* card shows an image of another server and no image is left unfetchable  *)
(* (CoverCache), no callback URI is lost on its way to an owner that keeps *)
(* listening (SingleInstance), the provider of the master secret moves only when     *)
(* told to and the saved sign-ins stay readable wherever the process is    *)
(* killed (SecureStore), and the bookmarks on screen come to be what the   *)
(* server has (BookmarkStore).                                             *)
(***************************************************************************)
EXTENDS MCLocal, TLAPS

(* Images *)

\* The requests in flight, with what the staleness test of their replies rests
\* on: as long as the client has not been pointed elsewhere, they are for it.
FetchesOk ==
    /\ epoch \in Nat
    /\ \A f \in fetches : /\ f.path \in Paths /\ f.epoch \in 0 .. epoch
                          /\ f.epoch = epoch => f.path[1] = origin

Marked ==
    /\ \A f \in fetches : f.path \in inFlight
    /\ \A m \in inFlight : \E f \in fetches : f.path = m
    /\ \A f, g \in fetches : f.path = g.path => f = g

CardsTyped == cards \in [Images -> Paths \cup {NoPath}] /\ origin \in Origins

CoverInv == FetchesOk /\ Marked /\ CardsTyped /\ CardsOfThisServer

LEMMA PathIsHere ==
    ASSUME NEW m \in Paths, m[1] = origin
    PROVE  m[2] \in Images /\ m = Path(m[2])
  BY DEF Paths, Path

LEMMA PathTyped ==
    ASSUME CardsTyped, NEW i \in Images
    PROVE  Path(i) \in Paths /\ Path(i)[1] = origin
  BY DEF CardsTyped, Path, Paths

LEMMA CoverInitInv == CoverInit => CoverInv
  BY DEF CoverInit, CoverInv, FetchesOk, Marked, CardsTyped, CardsOfThisServer, NoCards

\* A reply takes away its request and that request's mark, and no other.
LEMMA RepliedKeeps ==
    ASSUME CoverInv, NEW f \in fetches, Replied(f)
    PROVE  FetchesOk' /\ Marked'
<1>1. /\ fetches' = fetches \ {f} /\ inFlight' = inFlight \ {f.path}
      /\ origin' = origin /\ epoch' = epoch
  BY DEF Replied
<1>2. FetchesOk'
  BY <1>1 DEF CoverInv, FetchesOk
<1>3. \A g \in fetches' : g.path \in inFlight'
  BY <1>1 DEF CoverInv, Marked
<1>4. \A m \in inFlight' : \E g \in fetches' : g.path = m
  BY <1>1 DEF CoverInv, Marked
<1>5. \A g, h \in fetches' : g.path = h.path => g = h
  BY <1>1 DEF CoverInv, Marked
<1> QED
  BY <1>2, <1>3, <1>4, <1>5 DEF Marked

LEMMA CoverStep == CoverInv /\ [CoverNext]_coverVars => CoverInv'
<1> SUFFICES ASSUME CoverInv, [CoverNext]_coverVars PROVE CoverInv'
  OBVIOUS
<1> USE DEF coverVars
<1>1. ASSUME UNCHANGED <<origin, epoch, inFlight, fetches>> PROVE FetchesOk' /\ Marked'
  BY <1>1 DEF CoverInv, FetchesOk, Marked
<1>2. ASSUME UNCHANGED <<origin, cards, shown>> PROVE CardsTyped' /\ CardsOfThisServer'
  BY <1>2 DEF CoverInv, CardsTyped, CardsOfThisServer, Path
<1>3. ASSUME origin' \in Origins, cards' = NoCards PROVE CardsTyped' /\ CardsOfThisServer'
  BY <1>3 DEF CardsTyped, CardsOfThisServer, NoCards
<1>4. ASSUME NEW i \in Images, Found(i) PROVE CoverInv'
  <2>1. /\ UNCHANGED <<origin, epoch, shown, inFlight, fetches>>
        /\ cards' = [cards EXCEPT ![i] = Path(i)]
    BY <1>4 DEF Found
  <2>2. CardsTyped' /\ CardsOfThisServer'
    BY <2>1, PathTyped DEF CoverInv, CardsTyped, CardsOfThisServer, Path
  <2> QED
    BY <1>1, <2>1, <2>2 DEF CoverInv
<1>5. ASSUME NEW i \in Images, Fetch(i) PROVE CoverInv'
  <2>1. UNCHANGED <<origin, epoch, shown>> /\ cards' = [cards EXCEPT ![i] = NoPath]
    BY <1>5 DEF Fetch
  <2>2. CardsTyped' /\ CardsOfThisServer'
    BY <2>1 DEF CoverInv, CardsTyped, CardsOfThisServer, Path
  <2>3. CASE Wanted(Path(i))
    <3> DEFINE new == [path |-> Path(i), epoch |-> epoch, nth |-> looks]
    <3>1. inFlight' = inFlight \cup {Path(i)} /\ fetches' = fetches \cup {new}
      BY <1>5, <2>3 DEF Fetch
    <3>2. new.path = Path(i) /\ new.epoch = epoch
      OBVIOUS
    <3>3. Path(i) \notin inFlight
      BY <2>3 DEF Wanted
    <3> HIDE DEF new
    <3>4. FetchesOk'
      BY <2>1, <3>1, <3>2, PathTyped DEF CoverInv, FetchesOk
    <3>5. Marked'
      BY <3>1, <3>2, <3>3 DEF CoverInv, Marked
    <3> QED
      BY <2>2, <3>4, <3>5 DEF CoverInv
  <2>4. CASE ~Wanted(Path(i))
    <3>1. UNCHANGED <<inFlight, fetches>>
      BY <1>5, <2>4 DEF Fetch
    <3> QED
      BY <1>1, <2>1, <2>2, <3>1 DEF CoverInv
  <2> QED
    BY <2>3, <2>4
<1>6. ASSUME NEW s \in Origins, ChangeOrigin(s) PROVE CoverInv'
  <2>1. /\ origin' = s /\ epoch' = epoch + 1 /\ shown' = FALSE
        /\ UNCHANGED <<cards, inFlight, fetches>>
    BY <1>6 DEF ChangeOrigin
  <2>2. FetchesOk'
    BY <2>1 DEF CoverInv, FetchesOk
  <2>3. Marked'
    BY <2>1 DEF CoverInv, Marked
  <2>4. CardsTyped' /\ CardsOfThisServer'
    BY <2>1 DEF CoverInv, CardsTyped, CardsOfThisServer
  <2> QED
    BY <2>2, <2>3, <2>4 DEF CoverInv
<1>12. CASE SignedIn
  <2>1. UNCHANGED <<origin, epoch, inFlight, fetches>> /\ cards' = NoCards /\ origin' \in Origins
    BY <1>12 DEF SignedIn, CoverInv, CardsTyped
  <2> QED
    BY <1>1, <1>3, <2>1 DEF CoverInv
<1>7. ASSUME NEW f \in fetches, Arrived(f) PROVE CoverInv'
  <2>1. Replied(f) /\ f.epoch = epoch /\ cards' = [cards EXCEPT ![f.path[2]] = f.path]
        /\ UNCHANGED <<origin, shown>>
    BY <1>7 DEF Arrived, IsStale, Replied
  <2>2. f.path \in Paths /\ f.path[1] = origin
    BY <2>1 DEF CoverInv, FetchesOk
  <2>3. f.path[2] \in Images /\ f.path = Path(f.path[2])
    BY <2>2, PathIsHere
  <2>4. CardsTyped' /\ CardsOfThisServer'
    BY <2>1, <2>2, <2>3 DEF CoverInv, CardsTyped, CardsOfThisServer, Path
  <2> QED
    BY <2>1, <2>4, RepliedKeeps DEF CoverInv
<1>8. ASSUME NEW f \in fetches, NoSuchImage(f) \/ GaveUp(f) PROVE CoverInv'
  <2>1. Replied(f) /\ UNCHANGED <<origin, cards, shown>>
    BY <1>8 DEF NoSuchImage, GaveUp, Replied
  <2> QED
    BY <1>2, <2>1, RepliedKeeps DEF CoverInv
<1>9. CASE Clear
  BY <1>1, <1>2, <1>9 DEF Clear, CoverInv
<1>10. ASSUME NEW stuck \in SUBSET files, Relaunch(stuck) PROVE CoverInv'
  <2>1. /\ UNCHANGED <<origin, epoch>> /\ cards' = NoCards
        /\ inFlight' = {} /\ fetches' = {}
    BY <1>10 DEF Relaunch
  <2>2. FetchesOk' /\ Marked'
    BY <2>1 DEF CoverInv, FetchesOk, Marked
  <2>3. origin' \in Origins
    BY <2>1 DEF CoverInv, CardsTyped
  <2> QED
    BY <1>3, <2>1, <2>2, <2>3 DEF CoverInv
<1>11. CASE UNCHANGED coverVars
  BY <1>1, <1>2, <1>11 DEF CoverInv
<1> QED
  BY <1>4, <1>5, <1>6, <1>7, <1>8, <1>9, <1>10, <1>11, <1>12 DEF CoverNext

\* fetch(), coverReady(): in every order of cards, replies, changes of server,
\* clears and launches, an image is marked in flight exactly while one request
\* asks for it, and no card of a signed-in screen shows another server's image.
THEOREM CoversRight == CoverSpec => []CoversStayRight
<1>1. CoverInv => CoversStayRight
  BY DEF CoverInv, Marked, CoversStayRight, MarkedWhileAsked
<1> QED
  BY <1>1, CoverInitInv, CoverStep, PTL DEF CoverSpec
-----------------------------------------------------------------------------
(* Callback URIs *)

LEMMA InstanceTypeStep == InstanceTypeOK /\ [InstanceNext]_instanceVars => InstanceTypeOK'
<1> SUFFICES ASSUME InstanceTypeOK, [InstanceNext]_instanceVars PROVE InstanceTypeOK'
  OBVIOUS
<1> USE DEF instanceVars
<1>1. /\ stage \in [Launches -> Stages] /\ carries \subseteq Launches
      /\ lock \in Launches \cup {Nobody} /\ endpoint \in Launches \cup {Nobody}
      /\ inbox \in [Launches -> SUBSET carries] /\ handled \subseteq carries
      /\ slow \subseteq Launches /\ clean \subseteq Launches
      /\ primary \in [Launches -> Launches \cup {Nobody}]
  BY DEF InstanceTypeOK
<1>2. carries' = carries
  BY DEF InstanceNext, Launch, TakeLock, LockTaken, NoLockFile, Listen, CannotListen, Connect,
         CannotConnect, RunLockless, NotAcknowledged, Receive, Leave, Unlisten, Kill
<1>3. stage' \in [Launches -> Stages]
  BY <1>1 DEF InstanceNext, Launch, TakeLock, LockTaken, NoLockFile, Listen, CannotListen, Connect,
     CannotConnect, RunLockless, NotAcknowledged, Receive, Leave, Unlisten, Kill, Go, Stages, Running
<1>4. lock' \in Launches \cup {Nobody} /\ endpoint' \in Launches \cup {Nobody}
  BY <1>1 DEF InstanceNext, Launch, TakeLock, LockTaken, NoLockFile, Listen, CannotListen, Connect,
     CannotConnect, RunLockless, NotAcknowledged, Receive, Leave, Unlisten, Kill
<1>5. inbox' \in [Launches -> SUBSET carries]
  <2>1. ASSUME NEW l \in Launches, Connect(l) PROVE inbox' \in [Launches -> SUBSET carries]
    BY <1>1, <2>1 DEF Connect
  <2> QED
    BY <1>1, <2>1 DEF InstanceNext, Launch, TakeLock, LockTaken, NoLockFile, Listen, CannotListen,
       CannotConnect, RunLockless, NotAcknowledged, Receive, Leave, Unlisten, Kill
<1>6. handled' \subseteq carries
  BY <1>1 DEF InstanceNext, Launch, TakeLock, LockTaken, NoLockFile, Listen, CannotListen, Connect,
     CannotConnect, RunLockless, NotAcknowledged, Receive, Leave, Unlisten, Kill, OwnUri
<1>7. /\ slow' \subseteq Launches /\ clean' \subseteq Launches
      /\ primary' \in [Launches -> Launches \cup {Nobody}]
  <2>1. ASSUME NEW l \in Launches, TakeLock(l)
        PROVE  slow' \subseteq Launches /\ clean' \subseteq Launches /\ primary' = primary
    BY <1>1, <2>1 DEF TakeLock
  <2>2. ASSUME NEW l \in Launches, LockTaken(l) \/ NoLockFile(l)
        PROVE  /\ slow' = slow /\ clean' = clean
               /\ primary' \in [Launches -> Launches \cup {Nobody}]
    BY <1>1, <2>2 DEF LockTaken, NoLockFile
  <2> QED
    BY <1>1, <2>1, <2>2 DEF InstanceNext, Launch, Listen, CannotListen, Connect, CannotConnect,
       RunLockless, NotAcknowledged, Receive, Leave, Unlisten, Kill, history
<1> QED
  BY <1>1, <1>2, <1>3, <1>4, <1>5, <1>6, <1>7 DEF InstanceTypeOK

LEMMA InstanceTypes == InstanceSpec => []InstanceTypeOK
<1>1. InstanceInit => InstanceTypeOK
  BY DEF InstanceInit, InstanceTypeOK, Stages, Running
<1> QED
  BY <1>1, InstanceTypeStep, PTL DEF InstanceSpec

\* Whoever has won the lock and not given it up holds it, and no one else does.
HoldsTheLock ==
    /\ \A l \in Launches : stage[l] \in {"owner", "listening", "deaf"} => lock = l
    /\ lock # Nobody => stage[lock] \in {"owner", "listening", "deaf"}

\* An owner that found no listener of an earlier one keeps the path to itself.
Undisturbed ==
    \A o \in clean :
        /\ stage[o] \notin {"off", "launched"}
        /\ stage[o] \in {"owner", "listening"} =>
              /\ \A m \in Launches : stage[m] # "leaving"
              /\ stage[o] = "listening" => endpoint = o

\* Only a launch on its way to an owner, or past it, has found one; and that one
\* has held the lock.
FoundOne ==
    \A l \in Launches : primary[l] # Nobody =>
        /\ stage[l] \in {"forwarding", "unlocked", "lockless", "waiting", "gone"}
        /\ stage[primary[l]] \notin {"off", "launched"}

\* A launch that runs has handled its own callback.
HandlesItsOwn == \A l \in carries : stage[l] \in Running \cup {"leaving"} => l \in handled

\* A launch that has written its frame, or is over, has handed it to the owner it
\* found; while that one had not begun to listen, none could.
Delivered ==
    \A l \in carries :
        /\ stage[l] \in {"waiting", "gone"} /\ primary[l] \in clean \ slow
        /\ stage[primary[l]] \in {"owner", "listening"}
        => \/ l \in handled
           \/ stage[primary[l]] = "listening" /\ l \in inbox[primary[l]]

InstanceInv == HoldsTheLock /\ Undisturbed /\ FoundOne /\ HandlesItsOwn /\ Delivered

LEMMA InstanceInitInv == InstanceInit => InstanceInv
  BY DEF InstanceInit, InstanceInv, HoldsTheLock, Undisturbed, FoundOne, HandlesItsOwn, Delivered,
         Running

LEMMA InstanceStep ==
    InstanceTypeOK /\ InstanceTypeOK' /\ InstanceInv /\ [InstanceNext]_instanceVars => InstanceInv'
<1> SUFFICES ASSUME InstanceTypeOK, InstanceTypeOK', InstanceInv, [InstanceNext]_instanceVars
             PROVE  InstanceInv'
  OBVIOUS
<1> USE DEF history
<1>1. /\ stage \in [Launches -> Stages] /\ carries \subseteq Launches /\ Nobody \notin Launches
      /\ endpoint \in Launches \cup {Nobody} /\ inbox \in [Launches -> SUBSET carries]
      /\ primary \in [Launches -> Launches \cup {Nobody}] /\ clean \subseteq Launches
      /\ lock \in Launches \cup {Nobody} /\ handled \subseteq carries
  BY InstanceAssumption DEF InstanceTypeOK
<1>2. /\ HoldsTheLock /\ Undisturbed /\ FoundOne /\ HandlesItsOwn /\ Delivered
  BY DEF InstanceInv
<1>3. ASSUME NEW l \in Launches, Launch(l) \/ LockTaken(l) \/ NoLockFile(l)
      PROVE  InstanceInv'
  <2>1. /\ stage[l] \in {"off", "launched"}
        /\ \E s \in {"launched", "forwarding", "unlocked"} :
              /\ stage' = [stage EXCEPT ![l] = s]
              /\ s = "launched" => UNCHANGED primary
        /\ primary' \in {primary, [primary EXCEPT ![l] = lock]}
        /\ UNCHANGED <<carries, lock, endpoint, inbox, handled, slow, clean>>
    BY <1>3 DEF Launch, LockTaken, NoLockFile, Go
  <2>2. primary[l] = Nobody /\ (lock # Nobody => lock # l)
    BY <1>1, <1>2, <2>1 DEF FoundOne, HoldsTheLock
  <2>3. \A m \in Launches : primary[m] # l
    BY <1>1, <1>2, <2>1 DEF FoundOne
  <2>4. HoldsTheLock'
    BY <1>1, <1>2, <2>1 DEF HoldsTheLock
  <2>5. Undisturbed'
    BY <1>1, <1>2, <2>1 DEF Undisturbed
  <2>6. FoundOne'
    BY <1>1, <1>2, <2>1, <2>2, <2>3 DEF FoundOne, HoldsTheLock
  <2>7. HandlesItsOwn'
    BY <1>1, <1>2, <2>1 DEF HandlesItsOwn, Running
  <2>8. Delivered'
    BY <1>1, <1>2, <2>1, <2>3 DEF Delivered
  <2> QED
    BY <2>4, <2>5, <2>6, <2>7, <2>8 DEF InstanceInv
<1>4. ASSUME NEW l \in Launches, TakeLock(l) PROVE InstanceInv'
  <2>1. /\ stage[l] = "launched" /\ stage' = [stage EXCEPT ![l] = "owner"]
        /\ lock = Nobody /\ lock' = l /\ slow \subseteq slow' /\ clean' \subseteq clean \cup {l}
        /\ l \in clean' => l \in clean \/ \A m \in Launches : stage[m] # "leaving"
        /\ UNCHANGED <<carries, endpoint, inbox, handled, primary>>
    BY <1>4 DEF TakeLock, Go, In
  <2>2. \A m \in Launches : stage[m] \notin {"owner", "listening", "deaf"}
    BY <1>1, <1>2, <2>1 DEF HoldsTheLock
  <2>3. \A m \in Launches : primary[m] # l
    BY <1>1, <1>2, <2>1 DEF FoundOne
  <2>4. HoldsTheLock'
    BY <1>1, <2>1, <2>2 DEF HoldsTheLock
  <2>5. l \notin clean
    BY <1>2, <2>1 DEF Undisturbed
  <2>6. Undisturbed'
    BY <1>1, <1>2, <2>1, <2>2, <2>5 DEF Undisturbed
  <2>7. FoundOne' /\ HandlesItsOwn'
    BY <1>1, <1>2, <2>1, <2>3 DEF FoundOne, HandlesItsOwn, Running
  <2>8. Delivered'
    BY <1>1, <1>2, <2>1, <2>2, <2>3 DEF Delivered
  <2> QED
    BY <2>4, <2>6, <2>7, <2>8 DEF InstanceInv
\* The holder of the lock is the only one with a claim to anything.
<1>5. ASSUME NEW l \in Launches, lock = l, NEW o \in Launches, stage[o] \in {"owner", "listening"}
      PROVE  o = l
  BY <1>1, <1>2, <1>5 DEF HoldsTheLock
<1>6. ASSUME NEW l \in Launches, Listen(l) \/ CannotListen(l) PROVE InstanceInv'
  <2>1. /\ stage[l] = "owner" /\ handled' = handled \cup ({l} \cap carries)
        /\ \/ stage' = [stage EXCEPT ![l] = "listening"] /\ endpoint' = l
           \/ stage' = [stage EXCEPT ![l] = "deaf"]
        /\ UNCHANGED <<carries, lock, inbox, slow, primary, clean>>
    BY <1>6 DEF Listen, CannotListen, Go, OwnUri
  <2>2. lock = l /\ \A o \in Launches : stage[o] \in {"owner", "listening"} => o = l
    BY <1>1, <1>2, <1>5, <2>1 DEF HoldsTheLock
  <2>3. HoldsTheLock'
    BY <1>1, <1>2, <2>1, <2>2 DEF HoldsTheLock
  <2>4. Undisturbed'
    BY <1>1, <1>2, <2>1, <2>2 DEF Undisturbed
  <2>5. FoundOne' /\ HandlesItsOwn'
    BY <1>1, <1>2, <2>1 DEF FoundOne, HandlesItsOwn, Running
  <2>6. Delivered'
    BY <1>1, <1>2, <2>1, <2>2 DEF Delivered
  <2> QED
    BY <2>3, <2>4, <2>5, <2>6 DEF InstanceInv
<1>7. ASSUME NEW l \in Launches, NEW s \in {"waiting", "gone", "lockless"},
             stage[l] \notin {"off", "launched", "owner", "listening", "deaf", "leaving"},
             stage' = [stage EXCEPT ![l] = s],
             UNCHANGED <<carries, lock, endpoint, slow, primary, clean>>,
             handled \subseteq handled',
             s = "lockless" /\ l \in carries => l \in handled',
             \A m \in carries, o \in Launches :
                m \in inbox[o] => m \in inbox'[o] \/ m \in handled',
             Delivered'
      PROVE  InstanceInv'
  <2>1. HoldsTheLock' /\ Undisturbed'
    BY <1>1, <1>2, <1>7 DEF HoldsTheLock, Undisturbed
  <2>2. FoundOne' /\ HandlesItsOwn'
    BY <1>1, <1>2, <1>7 DEF FoundOne, HandlesItsOwn, Running
  <2> QED
    BY <1>7, <2>1, <2>2 DEF InstanceInv
\* Whom the path leads to, for a launch whose owner is there and undisturbed.
<1>8. ASSUME NEW l \in Launches, primary[l] \in clean,
             stage[primary[l]] \in {"owner", "listening"}
      PROVE  /\ Reachable <=> stage[primary[l]] = "listening"
             /\ Reachable => endpoint = primary[l]
  <2>1. /\ \A m \in Launches : stage[m] # "leaving"
        /\ stage[primary[l]] = "listening" => endpoint = primary[l]
    BY <1>2, <1>8 DEF Undisturbed
  <2>2. lock = primary[l] /\ primary[l] \in Launches
    BY <1>1, <1>2, <1>8 DEF HoldsTheLock
  <2>3. Reachable => endpoint = primary[l] /\ stage[endpoint] = "listening"
    BY <1>1, <1>5, <2>1, <2>2 DEF Reachable
  <2> QED
    BY <1>1, <1>8, <2>1, <2>2, <2>3 DEF Reachable
<1>9. ASSUME NEW l \in Launches, Connect(l) PROVE InstanceInv'
  <2>1. /\ stage[l] \in {"forwarding", "unlocked"} /\ Reachable /\ endpoint \in Launches
        /\ UNCHANGED <<carries, lock, endpoint, handled, slow, primary, clean>>
    BY <1>1, <1>9 DEF Connect, Reachable
  <2>2. CASE l \in carries
    <3>1. /\ stage' = [stage EXCEPT ![l] = "waiting"]
          /\ inbox' = [inbox EXCEPT ![endpoint] = inbox[endpoint] \cup {l}]
      BY <1>9, <2>2 DEF Connect, Go
    <3>2. \A m \in carries, o \in Launches : m \in inbox[o] => m \in inbox'[o]
      BY <1>1, <2>1, <3>1
    <3>3. l \in inbox'[endpoint]
      BY <1>1, <2>1, <3>1
    <3>4. ASSUME NEW m \in carries, stage'[m] \in {"waiting", "gone"},
                 primary[m] \in clean \ slow, stage'[primary[m]] \in {"owner", "listening"}
          PROVE  \/ m \in handled
                 \/ stage'[primary[m]] = "listening" /\ m \in inbox'[primary[m]]
      <4>1. /\ primary[m] \in Launches /\ m \in Launches
            /\ stage'[primary[m]] = stage[primary[m]]
        BY <1>1, <2>1, <3>1, <3>4
      <4>2. CASE m = l
        BY <1>8, <2>1, <3>3, <3>4, <4>1, <4>2
      <4>3. CASE m # l
        <5>1. stage[m] \in {"waiting", "gone"}
          BY <1>1, <3>1, <3>4, <4>1, <4>3
        <5> QED
          BY <1>2, <3>2, <3>4, <4>1, <5>1 DEF Delivered
      <4> QED
        BY <4>2, <4>3
    <3>5. Delivered'
      BY <2>1, <3>4 DEF Delivered
    <3> QED
      BY <1>7, <2>1, <3>1, <3>2, <3>5
  <2>3. CASE l \notin carries
    <3>1. stage' = [stage EXCEPT ![l] = "gone"] /\ UNCHANGED inbox
      BY <1>9, <2>3 DEF Connect, Go
    <3>2. Delivered'
      BY <1>1, <1>2, <2>1, <2>3, <3>1 DEF Delivered
    <3> QED
      BY <1>7, <2>1, <2>3, <3>1, <3>2
  <2> QED
    BY <2>2, <2>3
<1>10. ASSUME NEW l \in Launches, CannotConnect(l) PROVE InstanceInv'
  <2>1. /\ stage[l] = "forwarding" /\ stage' = [stage EXCEPT ![l] = "gone"] /\ ~Reachable
        /\ stage[primary[l]] = "owner" => primary[l] \in slow
        /\ UNCHANGED <<carries, lock, endpoint, inbox, handled, slow, primary, clean>>
    BY <1>10 DEF CannotConnect, Go
  <2>2. primary[l] \in clean \ slow => stage[primary[l]] \notin {"owner", "listening"}
    BY <1>8, <2>1
  <2>3. Delivered'
    BY <1>1, <1>2, <2>1, <2>2 DEF Delivered
  <2> QED
    BY <1>7, <2>1, <2>3
<1>11. ASSUME NEW l \in Launches, RunLockless(l) \/ NotAcknowledged(l) PROVE InstanceInv'
  <2>1. /\ UNCHANGED <<carries, lock, endpoint, inbox, slow, primary, clean>>
        /\ handled \subseteq handled'
    BY <1>11 DEF RunLockless, NotAcknowledged, OwnUri
  <2>2. CASE RunLockless(l)
    <3>1. /\ stage[l] = "unlocked" /\ stage' = [stage EXCEPT ![l] = "lockless"]
          /\ handled' = handled \cup ({l} \cap carries)
      BY <2>2 DEF RunLockless, Go, OwnUri
    <3>2. Delivered'
      BY <1>1, <1>2, <2>1, <3>1 DEF Delivered
    <3> QED
      BY <1>7, <2>1, <3>1, <3>2
  <2>3. CASE NotAcknowledged(l)
    <3>1. stage[l] = "waiting" /\ stage' = [stage EXCEPT ![l] = "gone"] /\ handled' = handled
      BY <2>3 DEF NotAcknowledged, Go
    <3>2. Delivered'
      BY <1>1, <1>2, <2>1, <3>1 DEF Delivered
    <3> QED
      BY <1>7, <2>1, <3>1, <3>2
  <2> QED
    BY <1>11, <2>2, <2>3
<1>12. ASSUME NEW l \in Launches, NEW q \in Launches, Receive(q, l) PROVE InstanceInv'
  <2>1. /\ stage[q] = "listening" /\ inbox' = [inbox EXCEPT ![q] = inbox[q] \ {l}]
        /\ handled' = handled \cup {l}
        /\ stage' = IF stage[l] = "waiting" THEN [stage EXCEPT ![l] = "gone"] ELSE stage
        /\ UNCHANGED <<carries, lock, endpoint, slow, primary, clean>>
    BY <1>12 DEF Receive, Go
  <2>2. \A m \in carries, o \in Launches : m \in inbox[o] => m \in inbox'[o] \/ m \in handled'
    BY <1>1, <2>1
  <2>3. ASSUME NEW m \in carries, stage'[m] \in {"waiting", "gone"},
               primary[m] \in clean \ slow, stage'[primary[m]] \in {"owner", "listening"}
        PROVE  \/ m \in handled'
               \/ stage'[primary[m]] = "listening" /\ m \in inbox'[primary[m]]
    <3>1. primary[m] \in Launches /\ m \in Launches /\ stage'[primary[m]] = stage[primary[m]]
      BY <1>1, <2>1, <2>3
    <3>2. CASE m = l
      BY <2>1, <3>2
    <3>3. CASE m # l
      <4>1. stage[m] \in {"waiting", "gone"}
        BY <1>1, <2>1, <2>3, <3>1, <3>3
      <4> QED
        BY <1>2, <2>1, <2>2, <2>3, <3>1, <4>1 DEF Delivered
    <3> QED
      BY <3>2, <3>3
  <2>4. Delivered'
    BY <2>1, <2>3 DEF Delivered
  <2>5. CASE stage[l] = "waiting"
    BY <1>7, <2>1, <2>2, <2>4, <2>5
  <2>6. CASE stage' = stage
    <3>1. HoldsTheLock' /\ Undisturbed' /\ FoundOne' /\ HandlesItsOwn'
      BY <1>1, <1>2, <2>1, <2>6 DEF HoldsTheLock, Undisturbed, FoundOne, HandlesItsOwn
    <3> QED
      BY <2>4, <3>1 DEF InstanceInv
  <2> QED
    BY <2>1, <2>5, <2>6
<1>13. ASSUME NEW l \in Launches, Leave(l) PROVE InstanceInv'
  <2>1. /\ stage[l] \in Running
        /\ stage' = [stage EXCEPT ![l] = IF stage[l] = "listening" THEN "leaving" ELSE "gone"]
        /\ lock' = (IF lock = l THEN Nobody ELSE lock)
        /\ UNCHANGED <<carries, endpoint, inbox, handled, slow, primary, clean>>
    BY <1>13 DEF Leave, Go
  <2>2. stage[l] = "listening" => lock = l
    BY <1>2, <2>1 DEF HoldsTheLock
  <2>3. HoldsTheLock'
    BY <1>1, <1>2, <2>1 DEF HoldsTheLock, Running
  <2>4. Undisturbed'
    <3> SUFFICES ASSUME NEW o \in clean, stage'[o] \in {"owner", "listening"}
                 PROVE  /\ \A m \in Launches : stage'[m] # "leaving"
                        /\ stage'[o] = "listening" => endpoint = o
      BY <1>1, <1>2, <2>1 DEF Undisturbed, Running
    <3>1. o \in Launches /\ o # l /\ stage'[o] = stage[o]
      BY <1>1, <2>1
    <3>2. stage[l] # "listening"
      BY <1>5, <2>2, <3>1
    <3>3. \A m \in Launches : stage[m] # "leaving"
      BY <1>2, <3>1 DEF Undisturbed
    <3> QED
      BY <1>1, <1>2, <2>1, <3>1, <3>2, <3>3 DEF Undisturbed
  <2>5. FoundOne' /\ HandlesItsOwn'
    BY <1>1, <1>2, <2>1 DEF FoundOne, HandlesItsOwn, Running
  <2>6. Delivered'
    BY <1>1, <1>2, <2>1 DEF Delivered, HandlesItsOwn
  <2> QED
    BY <2>3, <2>4, <2>5, <2>6 DEF InstanceInv
<1>14. ASSUME NEW l \in Launches, Unlisten(l) PROVE InstanceInv'
  <2>1. /\ stage[l] = "leaving" /\ stage' = [stage EXCEPT ![l] = "gone"]
        /\ inbox' = [inbox EXCEPT ![l] = {}]
        /\ UNCHANGED <<carries, lock, handled, slow, primary, clean>>
    BY <1>14 DEF Unlisten, Go
  <2>2. \A o \in clean : stage[o] \notin {"owner", "listening"}
    BY <1>2, <2>1 DEF Undisturbed
  <2>3. HoldsTheLock' /\ FoundOne' /\ HandlesItsOwn'
    BY <1>1, <1>2, <2>1 DEF HoldsTheLock, FoundOne, HandlesItsOwn, Running
  <2>4. Undisturbed' /\ Delivered'
    BY <1>1, <1>2, <2>1, <2>2 DEF Undisturbed, Delivered
  <2> QED
    BY <2>3, <2>4 DEF InstanceInv
<1>15. ASSUME NEW l \in Launches, Kill(l) PROVE InstanceInv'
  <2>1. /\ stage[l] \in {"owner", "listening", "deaf"} /\ stage' = [stage EXCEPT ![l] = "gone"]
        /\ lock' = Nobody /\ inbox' = [inbox EXCEPT ![l] = {}]
        /\ UNCHANGED <<carries, endpoint, handled, slow, primary, clean>>
    BY <1>15 DEF Kill, Go
  <2>2. lock = l
    BY <1>2, <2>1 DEF HoldsTheLock
  <2>3. \A o \in Launches : stage'[o] \notin {"owner", "listening", "deaf"}
    BY <1>1, <1>2, <2>1, <2>2 DEF HoldsTheLock
  <2>4. HoldsTheLock' /\ Undisturbed' /\ Delivered'
    BY <1>1, <1>2, <2>1, <2>3 DEF HoldsTheLock, Undisturbed, Delivered
  <2>5. FoundOne' /\ HandlesItsOwn'
    BY <1>1, <1>2, <2>1 DEF FoundOne, HandlesItsOwn, Running
  <2> QED
    BY <2>4, <2>5 DEF InstanceInv
<1>16. CASE UNCHANGED instanceVars
  BY <1>2, <1>16
     DEF instanceVars, InstanceInv, HoldsTheLock, Undisturbed, FoundOne, HandlesItsOwn, Delivered
<1> QED
  BY <1>3, <1>4, <1>6, <1>9, <1>10, <1>11, <1>12, <1>13, <1>14, <1>15, <1>16 DEF InstanceNext

\* SingleInstanceGuard: whatever the order of launches, locks, timeouts and ends, a
\* launch that is over has handed its callback to the owner it found, if that one
\* still listens, bound within three seconds and followed no owner still going.
THEOREM CallbacksArrive == InstanceSpec => []CallbackArrives
<1>1. InstanceInv => CallbackArrives
  BY DEF InstanceInv, Delivered, CallbackArrives, In
<1>2. InstanceTypeOK /\ InstanceTypeOK' /\ InstanceInv /\ [InstanceNext]_instanceVars
        => InstanceInv'
  BY InstanceStep
<1> QED
  BY <1>1, <1>2, InstanceInitInv, InstanceTypes, PTL DEF InstanceSpec
-----------------------------------------------------------------------------
(* The provider of the master secret *)

\* Why each open operation may go on as it does: the answer to why the portal was
\* asked is only good for the provider that was marked then.  An operation that
\* does not wait is the innermost, and a first set-up finds no provider marked
\* when the portal answers, unless something came in between.
WhyOk(op) == op.goal \in {"store", "retrieve", "toDevice"} => op.why # "switch"

AtHeadOnly(k) ==
    LET op == operations[k]
    IN  /\ op.why = "local" => /\ k = 1 /\ op.portal = "nothing"
                               /\ master # NoKey \/ disk.provider # "portal-v1"
        /\ op.why = "set-up" /\ "set-up" \notin crossed => k = 1 /\ disk.provider = "none"

SecretInv ==
    /\ disk \in Disks /\ master \in Key /\ uses \in 0 .. MaxUses
    /\ session \in Accounts \cup {NoAccount} /\ operations \in Seq(Operations)
    /\ \A k \in DOMAIN operations : WhyOk(operations[k]) /\ AtHeadOnly(k)

\* What a step may do to the stack without disturbing its invariant: nothing is
\* begun, and the head returns, with whatever it has written, or all is lost.
LEMMA ReturnKeeps ==
    ASSUME SecretInv, disk' \in Disks, master' \in Key, uses' = uses, crossed' = crossed,
           session' \in Accounts \cup {NoAccount},
           operations' = <<>> \/ (operations # <<>> /\ operations' = Tail(operations))
    PROVE  SecretInv'
<1>1. /\ operations' \in Seq(Operations)
      /\ \A k \in DOMAIN operations' : /\ k + 1 \in DOMAIN operations /\ k \in Nat \ {0}
                                       /\ operations'[k] = operations[k + 1]
  <2>1. CASE operations' = <<>>
    BY <2>1
  <2>2. CASE operations # <<>> /\ operations' = Tail(operations)
    <3>1. operations \in Seq(Operations)
      BY DEF SecretInv
    <3> QED
      BY <2>2, <3>1
  <2> QED
    BY <2>1, <2>2
<1>2. ASSUME NEW k \in DOMAIN operations' PROVE WhyOk(operations[k])' /\ AtHeadOnly(k)'
  <2>1. /\ k + 1 \in DOMAIN operations /\ k + 1 # 1 /\ operations'[k] = operations[k + 1]
        /\ WhyOk(operations[k + 1]) /\ AtHeadOnly(k + 1)
    BY <1>1 DEF SecretInv
  <2> QED
    BY <2>1 DEF WhyOk, AtHeadOnly
<1> QED
  BY <1>1, <1>2 DEF SecretInv

\* The states a sequence of writes takes the disk through.
LEMMA WritesStay ==
    ASSUME NEW D, disk \in D, NEW w \in Seq(D)
    PROVE  After(w) \in D /\ \A n \in 1 .. Len(w) - 1 : w[n] \in D
<1>1. \A n \in 1 .. Len(w) : w[n] \in D
  OBVIOUS
<1>2. w # <<>> => Len(w) \in 1 .. Len(w)
  OBVIOUS
<1> QED
  BY <1>1, <1>2 DEF After, Last

\* Disks with this provider, which most writes leave alone.
Like(prov) == {d \in Disks : d.provider = prov}

LEMMA StoredStays ==
    ASSUME NEW prov, NEW d \in Like(prov), NEW a \in Accounts \cup {NoAccount}, NEW key \in Key
    PROVE  Stored(d, a, key) \in Seq(Like(prov))
<1>1. a # NoAccount => [d EXCEPT !.rows[a] = key] \in Like(prov)
  BY DEF Like, Disks
<1> QED
  BY <1>1 DEF Stored

LEMMA PurgedStays ==
    ASSUME NEW prov, NEW d \in Like(prov), NEW op \in Operations, NEW key \in Key
    PROVE  Purged(d, op, key) \in Seq(Like(prov))
<1>1. [d EXCEPT !.rows[op.of] = NoKey] \in Like(prov)
  BY DEF Like, Disks, Key
<1> QED
  BY <1>1 DEF Purged

LEMMA TopTyped ==
    ASSUME SecretInv, operations # <<>>
    PROVE  /\ Top \in Operations /\ Top = operations[1] /\ 1 \in DOMAIN operations
           /\ Fresh \in Keys /\ Fresh \in Key /\ WhyOk(Top) /\ AtHeadOnly(1)
<1>1. Top \in Operations /\ Top = operations[1] /\ 1 \in DOMAIN operations
  BY DEF SecretInv, Top
<1>2. Top.nth \in 1 .. MaxUses
  BY <1>1 DEF Operations
<1> QED
  BY <1>1, <1>2, SecretAssumption DEF SecretInv, Fresh, Keys, Key

LEMMA LocalTyped ==
    ASSUME SecretInv, operations # <<>>, NEW prov, NEW d \in Like(prov), NEW written \in BOOLEAN
    PROVE  Local(d, written).key \in Key /\ Local(d, written).writes \in Seq(Like(prov))
<1>1. Fresh \in Key /\ d.keyFile \in Key
  BY TopTyped DEF Like, Disks
<1>2. [d EXCEPT !.keyFile = Fresh] \in Like(prov)
  BY <1>1 DEF Like, Disks
<1> QED
  BY <1>1, <1>2 DEF Local

LEMMA MarkedTyped ==
    ASSUME SecretInv, operations # <<>>, NEW d \in Disks, NEW written \in BOOLEAN
    PROVE  /\ MarkedLocal(d, written).key \in Key
           /\ MarkedLocal(d, written).writes \in Seq(Like("local-v1"))
<1> DEFINE marked == [d EXCEPT !.provider = "local-v1"]
           local == Local(marked, written)
<1>1. marked \in Like("local-v1")
  BY DEF Like, Disks, Providers
<1> HIDE DEF marked
<1>2. local.key \in Key /\ local.writes \in Seq(Like("local-v1"))
  BY <1>1, LocalTyped
<1>3. /\ MarkedLocal(d, written).key = local.key
      /\ MarkedLocal(d, written).writes = <<marked>> \o local.writes
  BY DEF MarkedLocal, Local, marked
<1>4. <<marked>> \in Seq(Like("local-v1"))
  BY <1>1
<1> HIDE DEF local
<1> QED
  BY <1>2, <1>3, <1>4

\* The master secret an operation acquires is a key, got by writes of disks.
LEMMA AcquiredTyped ==
    ASSUME SecretInv, operations # <<>>, NEW why, NEW answer, NEW written \in BOOLEAN
    PROVE  /\ Acquired(why, answer, written).key \in Key
           /\ Acquired(why, answer, written).writes \in Seq(Disks)
<1>1. disk \in Disks /\ disk \in Like(disk.provider) /\ master \in Key
      /\ PortalKey \in Key /\ NoKey \in Key
  BY DEF SecretInv, Like, Key, Keys
<1>2. [disk EXCEPT !.provider = "portal-v1"] \in Disks
  BY <1>1 DEF Disks, Providers
<1>3. \A prov : Seq(Like(prov)) \subseteq Seq(Disks)
  BY DEF Like
<1>4. /\ Local(disk, written).key \in Key /\ Local(disk, written).writes \in Seq(Disks)
      /\ MarkedLocal(disk, written).key \in Key /\ MarkedLocal(disk, written).writes \in Seq(Disks)
  BY <1>1, <1>3, LocalTyped, MarkedTyped
<1> QED
  BY <1>1, <1>2, <1>4 DEF Acquired

\* ... which mark another provider only when none was marked, or when something
\* came between the question and the answer of a first set-up.
LEMMA AcquiredStays ==
    ASSUME SecretInv, operations # <<>>, NEW written \in BOOLEAN, disk.provider # "none",
           "set-up" \notin crossed, Top.goal \in {"store", "retrieve"}
    PROVE  Gets(written).writes \in Seq(Like(disk.provider))
<1>1. /\ disk \in Like(disk.provider) /\ disk.provider \in Providers
      /\ Top.why \in {"sticky", "local"} /\ Top \in Operations
      /\ Top.why = "local" => master # NoKey \/ disk.provider # "portal-v1"
  BY TopTyped DEF SecretInv, Like, Disks, WhyOk, AtHeadOnly, Operations
<1>2. Local(disk, written).writes \in Seq(Like(disk.provider))
  BY <1>1, LocalTyped
<1>3. CASE Top.why = "sticky"
  BY <1>3 DEF Gets, Acquired
<1>4. CASE Top.why = "local" /\ master # NoKey
  BY <1>4 DEF Gets, Acquired
<1>5. CASE Top.why = "local" /\ master = NoKey
  <2>1. disk.provider = "local-v1"
    BY <1>1, <1>5 DEF Providers
  <2> QED
    BY <1>2, <1>5, <2>1 DEF Gets, Acquired
<1> QED
  BY <1>1, <1>3, <1>4, <1>5

\* How an operation ends: the disk stays as its writes make it.
LEMMA Returned ==
    ASSUME SecretInv, operations # <<>>, NEW D, disk \in D, NEW w \in Seq(D),
           \/ disk' = After(w) \/ \E n \in 1 .. Len(w) - 1 : disk' = w[n]
    PROVE  disk' \in D
  BY WritesStay

LEMMA StoreStep ==
    ASSUME SecretInv, StoreReturns
    PROVE  /\ SecretInv'
           /\ disk.provider # "none" /\ "set-up" \notin crossed => disk'.provider = disk.provider
<1>1. PICK written \in BOOLEAN :
        LET got == Gets(written)
        IN  Writes(got.writes \o Stored(After(got.writes), Top.of, got.key), Unwritten(got), {},
                   /\ master' = got.key /\ session' = session
                   /\ unsaved' = IF got.key = NoKey THEN unsaved \cup {Top.of} ELSE unsaved \ {Top.of})
  BY DEF StoreReturns
<1> DEFINE got == Gets(written)
           w == got.writes \o Stored(After(got.writes), Top.of, got.key)
<1>2. operations # <<>> /\ Top.goal = "store"
  BY DEF StoreReturns, Ready
<1>3. /\ got.key \in Key /\ got.writes \in Seq(Disks) /\ NoKey \in Key
      /\ Top.of \in Accounts \cup {NoAccount} /\ disk \in Disks
      /\ session \in Accounts \cup {NoAccount}
  BY <1>2, AcquiredTyped, TopTyped DEF Gets, SecretInv, Key, Operations
<1>4. /\ disk' = After(w) \/ \E n \in 1 .. Len(w) - 1 : disk' = w[n]
      /\ master' \in {got.key, NoKey} /\ uses' = uses /\ crossed' = crossed
      /\ operations' \in {<<>>, Tail(operations)} /\ session' \in {session, NoAccount}
  BY <1>1 DEF Writes
<1> HIDE DEF got
<1>5. ASSUME NEW prov, got.writes \in Seq(Like(prov)), After(got.writes) \in Like(prov)
      PROVE  w \in Seq(Like(prov))
  <2>1. Stored(After(got.writes), Top.of, got.key) \in Seq(Like(prov))
    BY <1>3, <1>5, StoredStays
  <2> QED
    BY <1>5, <2>1
<1>6. w \in Seq(Disks)
  <2>1. After(got.writes) \in Disks
    BY <1>3, WritesStay
  <2>2. After(got.writes) \in Like(After(got.writes).provider)
    BY <2>1 DEF Like
  <2>3. Stored(After(got.writes), Top.of, got.key) \in Seq(Like(After(got.writes).provider))
    BY <1>3, <2>2, StoredStays
  <2>4. Seq(Like(After(got.writes).provider)) \subseteq Seq(Disks)
    BY DEF Like
  <2> QED
    BY <1>3, <2>3, <2>4
<1> HIDE DEF w
<1>7. SecretInv'
  <2>1. disk' \in Disks
    BY <1>2, <1>3, <1>4, <1>6, Returned
  <2> QED
    BY <1>2, <1>3, <1>4, <2>1, ReturnKeeps
<1>8. ASSUME disk.provider # "none", "set-up" \notin crossed PROVE disk'.provider = disk.provider
  <2>1. disk \in Like(disk.provider) /\ got.writes \in Seq(Like(disk.provider))
    BY <1>2, <1>3, <1>8, AcquiredStays DEF Like, got
  <2>2. w \in Seq(Like(disk.provider))
    BY <1>5, <2>1, WritesStay
  <2>3. disk' \in Like(disk.provider)
    BY <1>2, <1>4, <2>1, <2>2, Returned
  <2> QED
    BY <2>3 DEF Like
<1> QED
  BY <1>7, <1>8

LEMMA RetrieveStep ==
    ASSUME SecretInv, RetrieveReturns
    PROVE  /\ SecretInv'
           /\ disk.provider # "none" /\ "set-up" \notin crossed => disk'.provider = disk.provider
<1>1. PICK written \in BOOLEAN :
        LET got == Gets(written)
        IN  Writes(got.writes \o Purged(After(got.writes), Top, got.key), Unwritten(got), {},
                   /\ master' = got.key /\ unsaved' = unsaved
                   /\ session' = IF got.key = Top.row THEN Top.of ELSE session)
  BY DEF RetrieveReturns
<1> DEFINE got == Gets(written)
           w == got.writes \o Purged(After(got.writes), Top, got.key)
<1>2. operations # <<>> /\ Top.goal = "retrieve"
  BY DEF RetrieveReturns, Ready
<1>3. /\ got.key \in Key /\ got.writes \in Seq(Disks) /\ NoKey \in Key
      /\ Top \in Operations /\ Top.of \in Accounts \cup {NoAccount} /\ disk \in Disks
      /\ session \in Accounts \cup {NoAccount}
  BY <1>2, AcquiredTyped, TopTyped DEF Gets, SecretInv, Key, Operations
<1>4. /\ disk' = After(w) \/ \E n \in 1 .. Len(w) - 1 : disk' = w[n]
      /\ master' \in {got.key, NoKey} /\ uses' = uses /\ crossed' = crossed
      /\ operations' \in {<<>>, Tail(operations)} /\ session' \in {session, Top.of, NoAccount}
  BY <1>1 DEF Writes
<1> HIDE DEF got
<1>5. ASSUME NEW prov, got.writes \in Seq(Like(prov)), After(got.writes) \in Like(prov)
      PROVE  w \in Seq(Like(prov))
  <2>1. Purged(After(got.writes), Top, got.key) \in Seq(Like(prov))
    BY <1>3, <1>5, PurgedStays
  <2> QED
    BY <1>5, <2>1
<1>6. w \in Seq(Disks)
  <2>1. After(got.writes) \in Disks
    BY <1>3, WritesStay
  <2>2. After(got.writes) \in Like(After(got.writes).provider)
    BY <2>1 DEF Like
  <2>3. Purged(After(got.writes), Top, got.key) \in Seq(Like(After(got.writes).provider))
    BY <1>3, <2>2, PurgedStays
  <2>4. Seq(Like(After(got.writes).provider)) \subseteq Seq(Disks)
    BY DEF Like
  <2> QED
    BY <1>3, <2>3, <2>4
<1> HIDE DEF w
<1>7. SecretInv'
  <2>1. disk' \in Disks
    BY <1>2, <1>3, <1>4, <1>6, Returned
  <2> QED
    BY <1>2, <1>3, <1>4, <2>1, ReturnKeeps
<1>8. ASSUME disk.provider # "none", "set-up" \notin crossed PROVE disk'.provider = disk.provider
  <2>1. disk \in Like(disk.provider) /\ got.writes \in Seq(Like(disk.provider))
    BY <1>2, <1>3, <1>8, AcquiredStays DEF Like, got
  <2>2. w \in Seq(Like(disk.provider))
    BY <1>5, <2>1, WritesStay
  <2>3. disk' \in Like(disk.provider)
    BY <1>2, <1>4, <2>1, <2>2, Returned
  <2> QED
    BY <2>3 DEF Like
<1> QED
  BY <1>7, <1>8

\* The writes of the two moves; each goes on from the disk the one before has left.
LEMMA MovesTyped ==
    ASSUME SecretInv, operations # <<>>, NEW d \in Disks, NEW key \in Key
    PROVE  ToDevice(d, key) \in Seq(Disks) /\ ToKeyring(d, key) \in Seq(Disks)
<1> DEFINE home == [d EXCEPT !.keyFile = IF key = NoKey THEN Fresh ELSE key]
           onDevice == [home EXCEPT !.provider = "local-v1"]
           emptied == [onDevice EXCEPT !.rows = NoRows]
           inKeyring == [d EXCEPT !.provider = "portal-v1"]
           gone == [inKeyring EXCEPT !.keyFile = NoKey]
           reset == [gone EXCEPT !.rows = NoRows]
<1>1. Fresh \in Key /\ NoKey \in Key /\ NoRows \in [Accounts -> Key]
  BY TopTyped DEF Key, NoRows
<1>2. home \in Disks
  BY <1>1 DEF Disks
<1>3. onDevice \in Disks
  BY <1>2 DEF Disks, Providers
<1>4. emptied \in Disks
  BY <1>1, <1>3 DEF Disks
<1>5. inKeyring \in Disks
  BY DEF Disks, Providers
<1>6. gone \in Disks
  BY <1>1, <1>5 DEF Disks
<1>7. reset \in Disks
  BY <1>1, <1>6 DEF Disks
<1>8. ToDevice(d, key) = <<home, onDevice>> \o (IF key = NoKey THEN <<emptied>> ELSE <<>>)
  BY DEF ToDevice
<1>9. ToKeyring(d, key) = <<inKeyring, gone>> \o (IF key = PortalKey THEN <<>> ELSE <<reset>>)
  BY DEF ToKeyring
<1> HIDE DEF home, onDevice, emptied, inKeyring, gone, reset
<1>10. ToDevice(d, key) \in Seq(Disks)
  BY <1>2, <1>3, <1>4, <1>8
<1>11. ToKeyring(d, key) \in Seq(Disks)
  BY <1>5, <1>6, <1>7, <1>9
<1> QED
  BY <1>10, <1>11

LEMMA SavedAgainTyped ==
    ASSUME SecretInv, session \in Accounts \cup {NoAccount}, NEW w \in Seq(Disks), NEW key \in Key
    PROVE  SavedAgain(w, key) \in Seq(Disks)
<1>1. After(w) \in Disks
  BY WritesStay DEF SecretInv
<1>2. After(w) \in Like(After(w).provider)
  BY <1>1 DEF Like
<1>3. Stored(After(w), session, key) \in Seq(Like(After(w).provider))
  BY <1>2, StoredStays
<1>4. Seq(Like(After(w).provider)) \subseteq Seq(Disks)
  BY DEF Like
<1> QED
  BY <1>3, <1>4 DEF SavedAgain

LEMMA ToDeviceStep == SecretInv /\ ToDeviceReturns => SecretInv'
<1> SUFFICES ASSUME SecretInv, ToDeviceReturns PROVE SecretInv'
  OBVIOUS
<1> DEFINE got == Gets(TRUE)
           key == IF got.key = NoKey THEN Fresh ELSE got.key
           moved == got.writes \o ToDevice(After(got.writes), got.key)
<1>1. operations # <<>> /\ Top.goal = "toDevice"
  BY DEF ToDeviceReturns, Ready
<1>2. /\ got.key \in Key /\ key \in Key /\ NoKey \in Key /\ got.writes \in Seq(Disks)
      /\ disk \in Disks /\ After(got.writes) \in Disks
      /\ session \in Accounts \cup {NoAccount}
  BY <1>1, AcquiredTyped, TopTyped, WritesStay DEF Gets, SecretInv, Key
<1>3. moved \in Seq(Disks)
  <2>1. ToDevice(After(got.writes), got.key) \in Seq(Disks)
    BY <1>1, <1>2, MovesTyped
  <2> HIDE DEF got
  <2> QED
    BY <1>2, <2>1
<1>4. SavedAgain(moved, key) \in Seq(Disks)
  BY <1>2, <1>3, SavedAgainTyped
<1>5. ASSUME NEW file \in {disk.keyFile, NoKey}
      PROVE  got.writes \o <<[After(got.writes) EXCEPT !.keyFile = file]>> \in Seq(Disks)
  <2>1. [After(got.writes) EXCEPT !.keyFile = file] \in Disks
    BY <1>2 DEF Disks
  <2> HIDE DEF got
  <2> QED
    BY <1>2, <2>1
<1>6. \E w \in Seq(Disks) :
         /\ disk' = After(w) \/ \E n \in 1 .. Len(w) - 1 : disk' = w[n]
         /\ master' \in {key, got.key, NoKey} /\ uses' = uses /\ crossed' = crossed
         /\ operations' \in {<<>>, Tail(operations)} /\ session' \in {session, NoAccount}
  BY <1>4, <1>5 DEF ToDeviceReturns, Writes
<1>7. disk' \in Disks
  BY <1>1, <1>2, <1>6, Returned
<1> QED
  BY <1>1, <1>2, <1>6, <1>7, ReturnKeeps

LEMMA ToKeyringStep == SecretInv /\ ToKeyringReturns => SecretInv'
<1> SUFFICES ASSUME SecretInv, ToKeyringReturns PROVE SecretInv'
  OBVIOUS
<1>1. PICK written \in BOOLEAN, answer \in {"secret", "nothing"} :
        LET got == Acquired(IF master # NoKey THEN "local" ELSE Asks, answer, written)
        IN  Writes(SavedAgain(got.writes \o ToKeyring(After(got.writes), got.key), PortalKey),
                   {}, {got.key} \ {PortalKey},
                   master' = PortalKey /\ session' = session /\ unsaved' = unsaved \ {session})
  BY DEF ToKeyringReturns
<1> DEFINE got == Acquired(IF master # NoKey THEN "local" ELSE Asks, answer, written)
           moved == got.writes \o ToKeyring(After(got.writes), got.key)
           w == SavedAgain(moved, PortalKey)
<1>2. operations # <<>>
  BY DEF ToKeyringReturns, Ready
<1>3. /\ disk' = After(w) \/ \E n \in 1 .. Len(w) - 1 : disk' = w[n]
      /\ master' \in {PortalKey, NoKey} /\ uses' = uses /\ crossed' = crossed
      /\ operations' \in {<<>>, Tail(operations)} /\ session' \in {session, NoAccount}
  BY <1>1 DEF Writes
<1>4. got.key \in Key /\ got.writes \in Seq(Disks)
  BY <1>2, AcquiredTyped
<1> HIDE DEF got
<1>5. /\ PortalKey \in Key /\ NoKey \in Key /\ disk \in Disks /\ After(got.writes) \in Disks
      /\ session \in Accounts \cup {NoAccount}
  BY <1>4, WritesStay DEF SecretInv, Key, Keys
<1>6. moved \in Seq(Disks)
  BY <1>2, <1>4, <1>5, MovesTyped
<1> HIDE DEF moved
<1>7. w \in Seq(Disks)
  BY <1>5, <1>6, SavedAgainTyped
<1> HIDE DEF w
<1>8. disk' \in Disks
  BY <1>2, <1>3, <1>5, <1>7, Returned
<1> QED
  BY <1>2, <1>3, <1>5, <1>8, ReturnKeeps

\* An operation begins only while the innermost one waits; if that was to find out
\* where a first secret is kept, it is on record that the two have crossed.
LEMMA BeginStep ==
    ASSUME SecretInv, Use, NEW goal \in {"store", "retrieve", "toKeyring", "toDevice"},
           NEW a \in Accounts \cup {NoAccount}, goal = "retrieve" => a \in Accounts,
           Begin(goal, a), session' \in Accounts \cup {NoAccount}
    PROVE  SecretInv' /\ disk' = disk
<1> DEFINE why == IF goal = "toKeyring" THEN "switch" ELSE IF master # NoKey THEN "local" ELSE Asks
           new == [goal |-> goal, of |-> a, why |-> why,
                   row |-> IF goal = "retrieve" THEN disk.rows[a] ELSE NoKey,
                   portal |-> IF why = "local" THEN "nothing" ELSE "waiting", nth |-> uses + 1]
<1>1. /\ operations' = <<new>> \o operations
      /\ crossed' = crossed \cup {operations[k].why : k \in DOMAIN operations}
      /\ UNCHANGED <<disk, master>>
  BY DEF Begin
<1>2. /\ why \in {"switch", "set-up", "sticky", "local"}
      /\ why = "local" => master # NoKey \/ disk.provider # "portal-v1"
      /\ why = "set-up" => disk.provider = "none"
      /\ why = "switch" => goal = "toKeyring"
  BY DEF Asks
<1> HIDE DEF why
<1>3. uses' = uses + 1 /\ uses + 1 \in 1 .. MaxUses /\ uses' \in 0 .. MaxUses
  BY SecretAssumption DEF Use, SecretInv
<1>4. (IF goal = "retrieve" THEN disk.rows[a] ELSE NoKey) \in Key
  BY DEF SecretInv, Disks, Key
<1>5. new \in Operations
  BY <1>2, <1>3, <1>4 DEF Operations
<1>6. /\ new.why = why /\ new.goal = goal
      /\ new.portal = IF why = "local" THEN "nothing" ELSE "waiting"
  OBVIOUS
<1> HIDE DEF new
<1>7. operations \in Seq(Operations)
  BY DEF SecretInv
<1>8. /\ operations' \in Seq(Operations) /\ operations'[1] = new
      /\ \A k \in DOMAIN operations' \ {1} : /\ k - 1 \in DOMAIN operations
                                             /\ operations'[k] = operations[k - 1]
  BY <1>1, <1>5, <1>7
<1>9. WhyOk(operations[1])' /\ AtHeadOnly(1)'
  BY <1>1, <1>2, <1>6, <1>8 DEF WhyOk, AtHeadOnly
<1>10. ASSUME NEW k \in DOMAIN operations' \ {1} PROVE WhyOk(operations[k])' /\ AtHeadOnly(k)'
  <2>1. /\ k - 1 \in DOMAIN operations /\ operations'[k] = operations[k - 1]
        /\ WhyOk(operations[k - 1]) /\ AtHeadOnly(k - 1)
    BY <1>8 DEF SecretInv
  <2>2. operations # <<>> /\ Top.portal = "waiting" /\ Top = operations[1]
    BY <2>1 DEF Use, Handles, Top
  <2>3. operations[k - 1].why # "local"
    BY <2>1, <2>2 DEF AtHeadOnly
  <2>4. operations[k - 1].why \in crossed'
    BY <1>1, <2>1
  <2> QED
    BY <2>1, <2>3, <2>4 DEF WhyOk, AtHeadOnly
<1> QED
  BY <1>1, <1>3, <1>8, <1>9, <1>10 DEF SecretInv

\* The portal's answer reaches one of the operations that wait.
LEMMA AnswerStep ==
    ASSUME SecretInv, NEW i \in DOMAIN operations, NEW answer \in {"secret", "nothing"},
           PortalAnswers(i, answer)
    PROVE  SecretInv' /\ disk' = disk
<1>1. /\ operations[i].portal = "waiting"
      /\ operations' = [operations EXCEPT ![i] = [operations[i] EXCEPT !.portal = answer]]
      /\ UNCHANGED <<disk, master, session, crossed, uses>>
  BY DEF PortalAnswers
<1>2. operations \in Seq(Operations) /\ operations[i] \in Operations
  BY DEF SecretInv
<1> DEFINE new == [operations[i] EXCEPT !.portal = answer]
<1>3. /\ new \in Operations /\ new.why = operations[i].why /\ new.goal = operations[i].goal
  BY <1>2 DEF Operations
<1> HIDE DEF new
<1>4. /\ operations' \in Seq(Operations) /\ DOMAIN operations' = DOMAIN operations
      /\ \A k \in DOMAIN operations : operations'[k] = IF k = i THEN new ELSE operations[k]
  BY <1>1, <1>2, <1>3 DEF new
<1>5. ASSUME NEW k \in DOMAIN operations' PROVE WhyOk(operations[k])' /\ AtHeadOnly(k)'
  <2>1. k \in DOMAIN operations /\ WhyOk(operations[k]) /\ AtHeadOnly(k)
    BY <1>4 DEF SecretInv
  <2>2. CASE k = i
    BY <1>1, <1>3, <1>4, <2>1, <2>2 DEF WhyOk, AtHeadOnly
  <2>3. CASE k # i
    BY <1>1, <1>4, <2>1, <2>3 DEF WhyOk, AtHeadOnly
  <2> QED
    BY <2>2, <2>3
<1> QED
  BY <1>1, <1>4, <1>5 DEF SecretInv

\* What StickyProvider says of one step.
Sticks == disk.provider # "none" /\ disk'.provider # disk.provider /\ "set-up" \notin crossed
          => operations # <<>> /\ Top.goal \in {"toKeyring", "toDevice"}

LEMMA SecretStep == SecretInv /\ [SecretNext]_secretVars => SecretInv' /\ Sticks
<1> SUFFICES ASSUME SecretInv, [SecretNext]_secretVars PROVE SecretInv' /\ Sticks
  OBVIOUS
<1> USE DEF secretVars
<1>1. disk \in Disks /\ master \in Key /\ NoKey \in Key /\ session \in Accounts \cup {NoAccount}
  BY DEF SecretInv, Key
<1>2. ASSUME NEW a \in Accounts, SaveTokens(a) \/ Restore(a) PROVE SecretInv' /\ Sticks
  BY <1>2, BeginStep DEF SaveTokens, Restore, Sticks
<1>3. ASSUME NEW goal \in {"toKeyring", "toDevice"}, MoveTo(goal) PROVE SecretInv' /\ Sticks
  BY <1>1, <1>3, BeginStep DEF MoveTo, Sticks
<1>4. CASE SignOut
  <2>1. /\ disk' = [disk EXCEPT !.rows[session] = NoKey] /\ session' = NoAccount
        /\ UNCHANGED <<master, operations, crossed, uses>>
    BY <1>4 DEF SignOut
  <2>2. disk' \in Disks /\ disk'.provider = disk.provider
    BY <1>1, <2>1 DEF Disks
  <2>3. SecretInv'
    BY <1>1, <2>1, <2>2 DEF SecretInv, WhyOk, AtHeadOnly
  <2> QED
    BY <2>2, <2>3 DEF Sticks
<1>5. ASSUME NEW i \in DOMAIN operations, NEW answer \in {"secret", "nothing"},
             PortalAnswers(i, answer)
      PROVE  SecretInv' /\ Sticks
  BY <1>5, AnswerStep DEF Sticks
<1>6. CASE StoreReturns
  BY <1>6, StoreStep DEF Sticks
<1>7. CASE RetrieveReturns
  BY <1>7, RetrieveStep DEF Sticks
<1>8. CASE ToDeviceReturns
  BY <1>8, ToDeviceStep DEF Sticks, ToDeviceReturns, Ready
<1>9. CASE ToKeyringReturns
  BY <1>9, ToKeyringStep DEF Sticks, ToKeyringReturns, Ready
<1>10. CASE ToKeyringRefused
  BY <1>1, <1>10, ReturnKeeps DEF ToKeyringRefused, Ready, Sticks
<1>11. CASE Killed
  BY <1>1, <1>11, ReturnKeeps DEF Killed, Sticks
<1>12. CASE Launched
  <2>1. uses' \in 0 .. MaxUses /\ UNCHANGED <<disk, master, session, operations, crossed>>
    BY <1>12, SecretAssumption DEF Launched, SecretInv
  <2> QED
    BY <2>1 DEF SecretInv, WhyOk, AtHeadOnly, Sticks
<1>13. CASE UNCHANGED secretVars
  BY <1>13 DEF SecretInv, WhyOk, AtHeadOnly, Sticks
<1> QED
  BY <1>2, <1>3, <1>4, <1>5, <1>6, <1>7, <1>8, <1>9, <1>10, <1>11, <1>12, <1>13 DEF SecretNext

\* acquireMasterSecret(): whatever the portal answers, and whenever, only a move the
\* user has asked for changes where a marked secret is kept, unless a first set-up
\* was overtaken while it waited.
THEOREM ProviderSticks == SecretSpec => StickyProvider
<1>1. SecretInit => SecretInv
  BY SecretAssumption
     DEF SecretInit, SecretInv, Disks, Providers, Key, Keys, OldKey, NoRows
<1> QED
  BY <1>1, SecretStep, PTL DEF SecretSpec, StickyProvider, Sticks
-----------------------------------------------------------------------------
(* What opens the saved secrets *)

\* The key the next launch takes from a disk, and the disks whose rows open with
\* it or with one of these keys.
Opener(d) == IF d.provider = "portal-v1" THEN PortalKey ELSE d.keyFile

OpensWith(keys) == {d \in Disks : \A a \in Accounts : d.rows[a] \in {NoKey, Opener(d)} \cup keys}

\* The key in memory: the one the next launch takes, or one that could not be
\* written, of a computer whose keyring is not used.
Known(d, key, keys) ==
    \/ key \in {NoKey, Opener(d)}
    \/ d.provider # "portal-v1" /\ d.keyFile = NoKey /\ key \in keys

\* An operation finds what was the case when it began.
Expects(op) ==
    /\ op.goal = "toDevice" => disk.provider = "portal-v1"
    /\ op.goal = "toKeyring" => disk.provider # "portal-v1"
    /\ op.why = "sticky" => disk.provider = "portal-v1"
    /\ op.why = "set-up" => disk.provider = "none" /\ disk.keyFile = NoKey /\ master = NoKey
    /\ op.goal = "store" => op.of \in Accounts /\ session \in {op.of, NoAccount}
    /\ op.goal = "retrieve" => /\ op.of \in Accounts /\ session = NoAccount
                               /\ op.row # NoKey /\ disk.rows[op.of] = op.row

SavedOrDue ==
    session # NoAccount /\ session \notin unsaved =>
        disk.rows[session] # NoKey \/ (operations # <<>> /\ Top.goal = "store")

\* What holds while operations do not overlap.
InTurn ==
    /\ disk \in OpensWith(lost) /\ Known(disk, master, lost)
    /\ operations = <<>> \/ (Len(operations) = 1 /\ Expects(Top))
    /\ SavedOrDue

Opens == crossed = {} => InTurn

LEMMA SecretConstants ==
    /\ NoKey \notin Keys /\ NoKey \in Key /\ PortalKey \in Key /\ PortalKey # NoKey
    /\ NoAccount \notin Accounts /\ \A n \in 1 .. MaxUses : n \in Key /\ n # NoKey /\ n # PortalKey
<1>1. \A n \in 1 .. MaxUses : n \in 0 .. MaxUses
  BY SecretAssumption
<1> QED
  BY <1>1, SecretAssumption DEF Keys, Key

\* Keys given up leave a disk as readable as it was.
LEMMA MoreKeys ==
    ASSUME NEW keys, NEW more, keys \subseteq more
    PROVE  /\ OpensWith(keys) \subseteq OpensWith(more)
           /\ Seq(OpensWith(keys)) \subseteq Seq(OpensWith(more))
<1>1. OpensWith(keys) \subseteq OpensWith(more)
  BY DEF OpensWith
<1> QED
  BY <1>1

\* A disk that differs from a readable one in what opens it.
LEMMA SameRows ==
    ASSUME NEW keys, NEW d \in OpensWith(keys), NEW e \in Disks, e.rows = d.rows,
           Opener(d) \in {NoKey, Opener(e)} \cup keys
    PROVE  e \in OpensWith(keys)
BY DEF OpensWith

\* A disk with the row of an account as a store() leaves it.
WithRow(d, a, key) == [d EXCEPT !.rows[a] = key]

\* A row saved under the key the next launch takes, or one that is lost.
LEMMA StoredOpens ==
    ASSUME NEW keys, NEW d \in OpensWith(keys), NEW a \in Accounts \cup {NoAccount}, NEW key \in Key,
           key \in {NoKey, Opener(d)} \cup keys
    PROVE  /\ Stored(d, a, key) \in Seq(OpensWith(keys))
           /\ Stored(d, a, key) = <<>> \/ Stored(d, a, key) = <<WithRow(d, a, key)>>
           /\ a \in Accounts /\ key # NoKey =>
                /\ Stored(d, a, key) = <<WithRow(d, a, key)>>
                /\ WithRow(d, a, key) \in OpensWith(keys)
                /\ WithRow(d, a, key).rows[a] = key
                /\ WithRow(d, a, key).provider = d.provider
                /\ WithRow(d, a, key).keyFile = d.keyFile
                /\ Opener(WithRow(d, a, key)) = Opener(d)
<1>1. ASSUME a \in Accounts
      PROVE  /\ WithRow(d, a, key) \in OpensWith(keys)
             /\ WithRow(d, a, key).rows[a] = key
             /\ WithRow(d, a, key).provider = d.provider
             /\ WithRow(d, a, key).keyFile = d.keyFile
             /\ Opener(WithRow(d, a, key)) = Opener(d)
  <2> DEFINE e == WithRow(d, a, key)
  <2>1. d \in Disks
    BY DEF OpensWith
  <2>2. /\ e \in Disks /\ e.rows = [d.rows EXCEPT ![a] = key]
        /\ e.provider = d.provider /\ e.keyFile = d.keyFile
    BY <1>1, <2>1 DEF Disks, WithRow
  <2> HIDE DEF e
  <2>3. Opener(e) = Opener(d)
    BY <2>2 DEF Opener
  <2>4. \A c \in Accounts : e.rows[c] = IF c = a THEN key ELSE d.rows[c]
    BY <2>1, <2>2 DEF Disks
  <2>5. e \in OpensWith(keys) /\ e.rows[a] = key
    BY <1>1, <2>2, <2>3, <2>4 DEF OpensWith
  <2> QED
    BY <2>2, <2>3, <2>5 DEF e
<1>2. a = NoAccount \/ key = NoKey => Stored(d, a, key) = <<>>
  BY DEF Stored
<1>3. a # NoAccount /\ key # NoKey => Stored(d, a, key) = <<WithRow(d, a, key)>>
  BY DEF Stored, WithRow
<1>4. Stored(d, a, key) \in Seq(OpensWith(keys))
  <2>1. CASE a = NoAccount \/ key = NoKey
    <3>1. Stored(d, a, key) = <<>>
      BY <1>2, <2>1
    <3> QED
      BY <3>1
  <2>2. CASE a # NoAccount /\ key # NoKey
    <3> DEFINE e == WithRow(d, a, key)
    <3>1. e \in OpensWith(keys) /\ Stored(d, a, key) = <<e>>
      BY <1>1, <1>3, <2>2
    <3> HIDE DEF e
    <3> QED
      BY <3>1
  <2> QED
    BY <2>1, <2>2
<1> QED
  BY <1>1, <1>2, <1>3, <1>4, SecretConstants

\* A row removed, or all of them.
LEMMA RemovedOpens ==
    ASSUME NEW keys, NEW d \in OpensWith(keys), NEW a \in Accounts
    PROVE  /\ [d EXCEPT !.rows[a] = NoKey] \in OpensWith(keys)
           /\ Opener([d EXCEPT !.rows[a] = NoKey]) = Opener(d)
           /\ [d EXCEPT !.rows[a] = NoKey].provider = d.provider
           /\ [d EXCEPT !.rows[a] = NoKey].keyFile = d.keyFile
           /\ \A c \in Accounts \ {a} : [d EXCEPT !.rows[a] = NoKey].rows[c] = d.rows[c]
<1> DEFINE e == [d EXCEPT !.rows[a] = NoKey]
<1>1. d \in Disks
  BY DEF OpensWith
<1>2. /\ e \in Disks /\ e.rows = [d.rows EXCEPT ![a] = NoKey]
      /\ e.provider = d.provider /\ e.keyFile = d.keyFile
  BY <1>1, SecretConstants DEF Disks
<1> HIDE DEF e
<1>3. Opener(e) = Opener(d)
  BY <1>2 DEF Opener
<1>4. \A c \in Accounts : e.rows[c] = IF c = a THEN NoKey ELSE d.rows[c]
  BY <1>1, <1>2 DEF Disks
<1>5. e \in OpensWith(keys)
  BY <1>2, <1>3, <1>4 DEF OpensWith
<1> QED
  BY <1>2, <1>3, <1>4, <1>5 DEF e

LEMMA EmptiedOpens ==
    ASSUME NEW keys, NEW d \in Disks
    PROVE  [d EXCEPT !.rows = NoRows] \in OpensWith(keys)
<1>1. NoRows \in [Accounts -> Key] /\ \A a \in Accounts : NoRows[a] = NoKey
  BY SecretConstants DEF NoRows
<1>2. [d EXCEPT !.rows = NoRows] \in Disks /\ [d EXCEPT !.rows = NoRows].rows = NoRows
  BY <1>1 DEF Disks
<1> QED
  BY <1>1, <1>2 DEF OpensWith

\* What acquiring the master secret may come to: some writes that keep every row
\* and end in d, and a key that d knows or that was not written.
Acquires(got, d) ==
    /\ got.writes \in Seq(OpensWith(lost)) /\ got.key \in Key
    /\ d = After(got.writes) /\ d \in OpensWith(lost) /\ d.rows = disk.rows
    /\ Known(d, got.key, lost \cup Unwritten(got))

\* acquireLocalSecret(), without a key in memory and with the keyring not marked.
LEMMA LocalOpens ==
    ASSUME SecretInv, operations # <<>>, NEW d \in OpensWith(lost), d.rows = disk.rows,
           d.provider # "portal-v1", NEW written \in BOOLEAN
    PROVE  LET local == Local(d, written)
           IN  /\ local.key \in Key \ {NoKey} /\ local.writes \in Seq(OpensWith(lost))
               /\ \/ local.writes = <<>> /\ d.keyFile = local.key
                  \/ local.writes = <<>> /\ d.keyFile = NoKey /\ local.key = Fresh
                  \/ \E e \in OpensWith(lost) :
                        /\ local.writes = <<e>> /\ e.rows = disk.rows
                        /\ e.provider = d.provider /\ e.keyFile = local.key
<1>1. d \in Disks /\ Fresh \in Key /\ Fresh # NoKey
  BY TopTyped, SecretConstants DEF OpensWith, Operations, Fresh
<1>2. CASE d.keyFile # NoKey
  BY <1>1, <1>2 DEF Local, Disks
<1>3. CASE d.keyFile = NoKey
  <2> DEFINE e == [d EXCEPT !.keyFile = Fresh]
  <2>1. e \in Disks /\ e.rows = d.rows /\ e.provider = d.provider /\ e.keyFile = Fresh
    BY <1>1 DEF Disks
  <2>2. Local(d, written) = [key |-> Fresh, writes |-> IF written THEN <<e>> ELSE <<>>]
    BY <1>3 DEF Local
  <2> HIDE DEF e
  <2>3. e \in OpensWith(lost)
    BY <1>3, <2>1, SameRows DEF Opener
  <2> QED
    BY <1>1, <1>3, <2>1, <2>2, <2>3
<1> QED
  BY <1>2, <1>3

\* ... and after the writes that lead up to it.
LEMMA LocalAcquires ==
    ASSUME SecretInv, operations # <<>>, master = NoKey, NEW d \in OpensWith(lost),
           d.rows = disk.rows, d.provider # "portal-v1", NEW written \in BOOLEAN,
           NEW before \in {<<>>, <<d>>}, d = After(before), NEW got,
           got.key = Local(d, written).key, got.writes = before \o Local(d, written).writes
    PROVE  Acquires(got, After(got.writes)) /\ got.key # NoKey
<1> DEFINE local == Local(d, written)
<1>1. /\ local.key \in Key \ {NoKey} /\ local.writes \in Seq(OpensWith(lost))
      /\ \/ local.writes = <<>> /\ d.keyFile = local.key
         \/ local.writes = <<>> /\ d.keyFile = NoKey /\ local.key = Fresh
         \/ \E e \in OpensWith(lost) :
                /\ local.writes = <<e>> /\ e.rows = disk.rows
                /\ e.provider = d.provider /\ e.keyFile = local.key
  BY LocalOpens
<1>2. got.key = local.key /\ got.writes = before \o local.writes
  OBVIOUS
<1> HIDE DEF local
<1>3. before \in Seq(OpensWith(lost))
  <2>1. <<>> \in Seq(OpensWith(lost)) /\ <<d>> \in Seq(OpensWith(lost))
    OBVIOUS
  <2> QED
    BY <2>1
<1>4. got.writes \in Seq(OpensWith(lost))
  BY <1>1, <1>2, <1>3
<1>5. Fresh # PortalKey /\ Fresh # NoKey
  BY TopTyped, SecretConstants DEF Operations, Fresh
<1>6. CASE local.writes = <<>>
  <2>1. got.writes = before
    BY <1>2, <1>3, <1>6
  <2>2. After(got.writes) = d
    BY <2>1
  <2>3. CASE d.keyFile = local.key
    BY <1>1, <1>2, <1>4, <2>2, <2>3 DEF Acquires, Known, Opener
  <2>4. CASE d.keyFile = NoKey /\ local.key = Fresh
    <3>1. Fresh \in Unwritten(got)
      BY <1>2, <1>5, <2>2, <2>4 DEF Unwritten
    <3> QED
      BY <1>1, <1>2, <1>4, <2>2, <2>4, <3>1 DEF Acquires, Known
  <2> QED
    BY <1>1, <1>2, <1>6, <2>3, <2>4
<1>7. ASSUME NEW e \in OpensWith(lost), local.writes = <<e>>, e.rows = disk.rows,
             e.provider = d.provider, e.keyFile = local.key
      PROVE  Acquires(got, After(got.writes)) /\ got.key # NoKey
  <2>1. After(got.writes) = e
    BY <1>2, <1>3, <1>7 DEF After, Last
  <2> QED
    BY <1>1, <1>2, <1>4, <1>7, <2>1 DEF Acquires, Known, Opener
<1> QED
  BY <1>1, <1>6, <1>7

\* masterSecret(): every row that opened still does; there is always a key but
\* where the keyring keeps it.
Sound(got, why) ==
    /\ Acquires(got, After(got.writes))
    /\ got.key = NoKey => why = "sticky"
    /\ disk.provider = "portal-v1" => got.writes = <<>> /\ got.key \in {NoKey, PortalKey}

LEMMA AcquiredOpens ==
    ASSUME SecretInv, disk \in OpensWith(lost), Known(disk, master, lost), operations # <<>>,
           NEW why \in {"sticky", "set-up", "local"}, NEW answer, NEW written \in BOOLEAN,
           why = "sticky" => disk.provider = "portal-v1",
           why = "set-up" => disk.provider = "none" /\ disk.keyFile = NoKey /\ master = NoKey,
           why = "local" => master # NoKey \/ disk.provider # "portal-v1"
    PROVE  Sound(Acquired(why, answer, written), why)
<1> DEFINE got == Acquired(why, answer, written)
<1> SUFFICES Sound(got, why)
  OBVIOUS
<1> HIDE DEF got
<1>1. disk \in Disks /\ master \in Key /\ disk.provider \in Providers
  BY DEF SecretInv, Disks
<1>2. After(<<>>) = disk
  BY DEF After
<1>3. CASE why = "sticky"
  <2>1. got = [key |-> IF answer = "secret" THEN PortalKey ELSE NoKey, writes |-> <<>>]
    BY <1>3 DEF got, Acquired
  <2> QED
    BY <1>2, <1>3, <2>1, SecretConstants DEF Sound, Acquires, Known, Opener
<1>4. CASE why = "local" /\ master # NoKey
  <2>1. got = [key |-> master, writes |-> <<>>]
    BY <1>4 DEF got, Acquired
  <2>2. Known(disk, master, lost \cup Unwritten(got))
    BY DEF Known
  <2> QED
    BY <1>1, <1>2, <1>4, <2>1, <2>2, SecretConstants DEF Sound, Acquires, Known, Opener
<1>5. CASE why = "set-up" /\ answer = "secret"
  <2> DEFINE e == [disk EXCEPT !.provider = "portal-v1"]
  <2>1. got = [key |-> PortalKey, writes |-> <<e>>]
    BY <1>5 DEF got, Acquired
  <2>2. e \in Disks /\ e.rows = disk.rows /\ e.provider = "portal-v1"
    BY <1>1 DEF Disks, Providers
  <2> HIDE DEF e
  <2>3. e \in OpensWith(lost)
    BY <1>5, <2>2, SameRows DEF Opener
  <2>4. After(got.writes) = e
    BY <2>1 DEF After, Last
  <2> QED
    BY <1>5, <2>1, <2>2, <2>3, <2>4, SecretConstants DEF Sound, Acquires, Known, Opener
<1>6. CASE why = "local" /\ master = NoKey /\ disk.provider = "local-v1"
  <2>1. got = Local(disk, written)
    BY <1>6 DEF got, Acquired
  <2>2. Local(disk, written).writes \in Seq(OpensWith(lost))
    BY <1>6, LocalOpens
  <2>3. got.writes = <<>> \o Local(disk, written).writes
    BY <2>1, <2>2
  <2>4. Acquires(got, After(got.writes)) /\ got.key # NoKey
    BY <1>2, <1>6, <2>1, <2>3, LocalAcquires
  <2> QED
    BY <1>6, <2>4 DEF Sound
<1>7. CASE /\ why \in {"set-up", "local"} /\ disk.provider = "none" /\ master = NoKey
           /\ ~(why = "set-up" /\ answer = "secret")
  <2> DEFINE e == [disk EXCEPT !.provider = "local-v1"]
  <2>1. /\ got.key = Local(e, written).key
        /\ got.writes = <<e>> \o Local(e, written).writes
    BY <1>7 DEF got, Acquired, MarkedLocal, Local
  <2>2. e \in Disks /\ e.rows = disk.rows /\ e.provider = "local-v1" /\ e.keyFile = disk.keyFile
    BY <1>1 DEF Disks, Providers
  <2> HIDE DEF e
  <2>3. e \in OpensWith(lost)
    BY <1>7, <2>2, SameRows DEF Opener
  <2>4. After(<<e>>) = e
    BY DEF After, Last
  <2>5. Acquires(got, After(got.writes)) /\ got.key # NoKey
    BY <1>7, <2>1, <2>2, <2>3, <2>4, LocalAcquires
  <2> QED
    BY <1>7, <2>5 DEF Sound
<1> QED
  BY <1>1, <1>3, <1>4, <1>5, <1>6, <1>7 DEF Providers

LEMMA AfterAdded ==
    ASSUME NEW D, NEW w \in Seq(D), NEW e
    PROVE  w \o <<>> = w /\ <<>> \o w = w /\ After(w \o <<e>>) = e
BY DEF After, Last

LEMMA Joined ==
    ASSUME NEW d, NEW e
    PROVE  <<>> \o <<d>> = <<d>> /\ <<d, e>> \o <<>> = <<d, e>>
<1>1. <<>> \o <<d>> = <<d>>
  OBVIOUS
<1>2. <<d, e>> \o <<>> = <<d, e>>
  OBVIOUS
<1> QED
  BY <1>1, <1>2

\* TokenStore::setStorage(): the session that is open is saved under the new key.
LEMMA SavedAgainOpens ==
    ASSUME NEW keys, NEW more, keys \subseteq more, NEW w \in Seq(OpensWith(more)),
           After(w) \in OpensWith(keys), NEW key \in Key \ {NoKey}, Opener(After(w)) = key,
           session \in Accounts \cup {NoAccount}
    PROVE  LET all == SavedAgain(w, key)
           IN  /\ all \in Seq(OpensWith(more)) /\ After(all) \in OpensWith(keys)
               /\ Opener(After(all)) = key
               /\ session # NoAccount => After(all).rows[session] = key
<1> DEFINE d == After(w)
           e == WithRow(d, session, key)
<1>1. SavedAgain(w, key) = w \o Stored(d, session, key)
  BY DEF SavedAgain
<1>2. d \in OpensWith(keys) /\ Opener(d) = key
  OBVIOUS
<1> HIDE DEF d
<1>3. CASE session = NoAccount
  <2>1. SavedAgain(w, key) = w
    BY <1>1, <1>3, AfterAdded DEF Stored
  <2> QED
    BY <1>2, <1>3, <2>1 DEF d
<1>4. CASE session # NoAccount
  <2>1. session \in Accounts
    BY <1>4
  <2>2. /\ Stored(d, session, key) = <<e>> /\ e \in OpensWith(keys)
        /\ e.rows[session] = key /\ Opener(e) = key
    BY <1>2, <2>1, StoredOpens
  <2> HIDE DEF e
  <2>3. SavedAgain(w, key) = w \o <<e>> /\ After(w \o <<e>>) = e /\ e \in OpensWith(more)
    BY <1>1, <2>2, AfterAdded, MoreKeys
  <2>4. w \o <<e>> \in Seq(OpensWith(more))
    BY <2>3
  <2> QED
    BY <2>2, <2>3, <2>4
<1> QED
  BY <1>3, <1>4
-----------------------------------------------------------------------------
\* The steps.  With nothing open, what an operation has left must be in order.
LEMMA Settled ==
    ASSUME operations' = <<>>, disk' \in OpensWith(lost'), Known(disk', master', lost'),
           session' # NoAccount /\ session' \notin unsaved' => disk'.rows[session'] # NoKey
    PROVE  InTurn'
BY DEF InTurn, SavedOrDue

\* The process is killed between two writes.
LEMMA KilledInTurn ==
    ASSUME NEW w \in Seq(OpensWith(lost')), \E n \in 1 .. Len(w) - 1 : disk' = w[n],
           operations' = <<>>, master' = NoKey, session' = NoAccount
    PROVE  InTurn'
<1>1. disk' \in OpensWith(lost')
  OBVIOUS
<1> QED
  BY <1>1, Settled DEF Known

LEMMA EmptySeq == ASSUME NEW D, NEW s \in Seq(D), Len(s) = 0 PROVE s = <<>>
OBVIOUS

LEMMA OnlyTop ==
    ASSUME SecretInv, InTurn, operations # <<>>
    PROVE  /\ Tail(operations) = <<>> /\ Expects(Top) /\ WhyOk(Top) /\ Top \in Operations
           /\ disk \in OpensWith(lost) /\ Known(disk, master, lost)
           /\ Top.why = "local" => master # NoKey \/ disk.provider # "portal-v1"
           /\ session \in Accounts \cup {NoAccount}
           /\ Fresh \in Key \ {NoKey}
<1>1. Len(operations) = 1 /\ operations \in Seq(Operations)
  BY DEF InTurn, SecretInv
<1>2. Tail(operations) = <<>>
  <2>1. Tail(operations) \in Seq(Operations) /\ Len(Tail(operations)) = 0
    BY <1>1
  <2> HIDE DEF Top
  <2> QED
    BY <2>1, EmptySeq
<1>3. Fresh \in Key \ {NoKey}
  BY TopTyped, SecretConstants DEF Operations, Fresh
<1> QED
  BY <1>2, <1>3, TopTyped DEF InTurn, AtHeadOnly, SecretInv

LEMMA GetsSoundly ==
    ASSUME SecretInv, InTurn, operations # <<>>, Top.goal # "toKeyring", NEW written \in BOOLEAN
    PROVE  Sound(Gets(written), Top.why)
<1>1. Top.why \in {"sticky", "set-up", "local"}
  BY OnlyTop DEF WhyOk, Operations
<1> QED
  BY <1>1, OnlyTop, AcquiredOpens DEF Gets, Expects

LEMMA StoreInTurn == ASSUME SecretInv, InTurn, StoreReturns PROVE InTurn'
<1>1. PICK written \in BOOLEAN :
        LET got == Gets(written)
        IN  Writes(got.writes \o Stored(After(got.writes), Top.of, got.key), Unwritten(got), {},
                   /\ master' = got.key /\ session' = session
                   /\ unsaved' = IF got.key = NoKey THEN unsaved \cup {Top.of} ELSE unsaved \ {Top.of})
  BY DEF StoreReturns
<1> DEFINE got == Gets(written)
           d == After(got.writes)
           w == got.writes \o Stored(d, Top.of, got.key)
           keys == lost \cup Unwritten(got)
<1>2. operations # <<>> /\ Top.goal = "store"
  BY DEF StoreReturns, Ready
<1>3. Sound(got, Top.why) /\ Top.of \in Accounts /\ session \in {Top.of, NoAccount}
  BY <1>2, GetsSoundly, OnlyTop DEF Expects
<1>4. \/ /\ disk' = After(w) /\ operations' = Tail(operations) /\ lost' = keys
         /\ master' = got.key /\ session' = session
         /\ unsaved' = IF got.key = NoKey THEN unsaved \cup {Top.of} ELSE unsaved \ {Top.of}
      \/ /\ \E n \in 1 .. Len(w) - 1 : disk' = w[n]
         /\ operations' = <<>> /\ master' = NoKey /\ session' = NoAccount /\ lost' = keys
  BY <1>1 DEF Writes
<1>5. /\ got.writes \in Seq(OpensWith(lost)) /\ got.key \in Key
      /\ d \in OpensWith(lost) /\ Known(d, got.key, keys)
  BY <1>3 DEF Sound, Acquires
<1> HIDE DEF got, keys
<1>6. got.writes \in Seq(OpensWith(keys)) /\ d \in OpensWith(keys)
  BY <1>5, MoreKeys DEF keys
<1>7. got.key \in {NoKey, Opener(d)} \cup keys
  BY <1>5 DEF Known
<1> HIDE DEF d
<1>8. CASE got.key = NoKey
  <2>1. w = got.writes
    BY <1>6, <1>8, AfterAdded DEF Stored
  <2>2. After(w) = d
    BY <2>1 DEF d
  <2> HIDE DEF w
  <2>3. CASE \E n \in 1 .. Len(w) - 1 : disk' = w[n]
    BY <1>3, <1>4, <1>5, <1>6, <1>8, <2>1, <2>2, <2>3, KilledInTurn, Settled, <1>2, OnlyTop
  <2> QED
    BY <1>2, <1>3, <1>4, <1>5, <1>6, <1>8, <2>2, <2>3, OnlyTop, Settled
<1>9. CASE got.key # NoKey
  <2> DEFINE e == WithRow(d, Top.of, got.key)
  <2>1. /\ Stored(d, Top.of, got.key) = <<e>> /\ e \in OpensWith(keys)
        /\ e.rows[Top.of] = got.key /\ Opener(e) = Opener(d)
        /\ e.provider = d.provider /\ e.keyFile = d.keyFile
    <3>1. Top.of \in Accounts \cup {NoAccount}
      BY <1>3
    <3> QED
      BY <1>3, <1>5, <1>6, <1>7, <1>9, <3>1, StoredOpens
  <2> HIDE DEF e
  <2>2. After(w) = e /\ w \in Seq(OpensWith(keys))
    BY <1>6, <2>1, AfterAdded
  <2> HIDE DEF w
  <2>3. Known(e, got.key, keys)
    BY <1>5, <2>1 DEF Known
  <2>4. CASE \E n \in 1 .. Len(w) - 1 : disk' = w[n]
    BY <1>2, <1>3, <1>4, <1>9, <2>1, <2>2, <2>3, <2>4, KilledInTurn, Settled, OnlyTop
  <2> QED
    BY <1>2, <1>3, <1>4, <1>9, <2>1, <2>2, <2>3, <2>4, OnlyTop, Settled
<1> QED
  BY <1>8, <1>9

LEMMA RetrieveInTurn == ASSUME SecretInv, InTurn, RetrieveReturns PROVE InTurn'
<1>1. PICK written \in BOOLEAN :
        LET got == Gets(written)
        IN  Writes(got.writes \o Purged(After(got.writes), Top, got.key), Unwritten(got), {},
                   /\ master' = got.key /\ unsaved' = unsaved
                   /\ session' = IF got.key = Top.row THEN Top.of ELSE session)
  BY DEF RetrieveReturns
<1> DEFINE got == Gets(written)
           d == After(got.writes)
           w == got.writes \o Purged(d, Top, got.key)
           keys == lost \cup Unwritten(got)
<1>2. operations # <<>> /\ Top.goal = "retrieve"
  BY DEF RetrieveReturns, Ready
<1>3. /\ Sound(got, Top.why) /\ Top.of \in Accounts /\ session = NoAccount
      /\ Top.row # NoKey /\ disk.rows[Top.of] = Top.row /\ Tail(operations) = <<>>
  BY <1>2, GetsSoundly, OnlyTop DEF Expects
<1>4. \/ /\ disk' = After(w) /\ operations' = <<>> /\ lost' = keys /\ master' = got.key
         /\ session' = IF got.key = Top.row THEN Top.of ELSE session
      \/ /\ \E n \in 1 .. Len(w) - 1 : disk' = w[n]
         /\ operations' = <<>> /\ master' = NoKey /\ session' = NoAccount /\ lost' = keys
  BY <1>1, <1>3 DEF Writes
<1>5. /\ got.writes \in Seq(OpensWith(lost)) /\ got.key \in Key
      /\ d \in OpensWith(lost) /\ d.rows = disk.rows /\ Known(d, got.key, keys)
  BY <1>3 DEF Sound, Acquires
<1> HIDE DEF got, keys
<1>6. got.writes \in Seq(OpensWith(keys)) /\ d \in OpensWith(keys)
  BY <1>5, MoreKeys DEF keys
<1> HIDE DEF d
<1>7. CASE got.key = NoKey \/ Top.row = got.key
  <2>1. w = got.writes
    BY <1>6, <1>7, AfterAdded DEF Purged
  <2>2. After(w) = d /\ w \in Seq(OpensWith(keys))
    BY <1>6, <2>1 DEF d
  <2> HIDE DEF w
  <2>3. CASE \E n \in 1 .. Len(w) - 1 : disk' = w[n]
    BY <1>3, <1>4, <1>5, <1>6, <1>7, <2>2, <2>3, KilledInTurn, Settled
  <2> QED
    BY <1>3, <1>4, <1>5, <1>6, <1>7, <2>2, <2>3, Settled
<1>8. CASE got.key # NoKey /\ Top.row # got.key
  <2> DEFINE e == [d EXCEPT !.rows[Top.of] = NoKey]
  <2>1. /\ e \in OpensWith(keys) /\ Opener(e) = Opener(d)
        /\ e.provider = d.provider /\ e.keyFile = d.keyFile
    BY <1>3, <1>6, RemovedOpens
  <2>2. Purged(d, Top, got.key) = <<e>>
    BY <1>8 DEF Purged
  <2> HIDE DEF e
  <2>3. After(w) = e /\ w \in Seq(OpensWith(keys))
    BY <1>6, <2>1, <2>2, AfterAdded
  <2> HIDE DEF w
  <2>4. Known(e, got.key, keys)
    BY <1>5, <2>1 DEF Known
  <2>5. CASE \E n \in 1 .. Len(w) - 1 : disk' = w[n]
    BY <1>3, <1>4, <1>8, <2>1, <2>3, <2>4, <2>5, KilledInTurn, Settled
  <2> QED
    BY <1>3, <1>4, <1>8, <2>1, <2>3, <2>4, <2>5, Settled
<1> QED
  BY <1>7, <1>8

\* The move to the device: the rows stay if the keyring's secret does, and go if not.
LEMMA ToDeviceOpens ==
    ASSUME NEW d \in OpensWith(lost), d.provider = "portal-v1", NEW got \in {NoKey, PortalKey},
           Fresh \in Key \ {NoKey}, NEW key, key = IF got = NoKey THEN Fresh ELSE got,
           NEW more, more = lost \cup ({PortalKey} \ {key})
    PROVE  /\ ToDevice(d, got) \in Seq(OpensWith(more))
           /\ After(ToDevice(d, got)) \in OpensWith(lost)
           /\ Opener(After(ToDevice(d, got))) = key
<1> DEFINE home == [d EXCEPT !.keyFile = IF got = NoKey THEN Fresh ELSE got]
           marked == [home EXCEPT !.provider = "local-v1"]
           emptied == [marked EXCEPT !.rows = NoRows]
<1>1. ToDevice(d, got) = <<home, marked>> \o (IF got = NoKey THEN <<emptied>> ELSE <<>>)
  BY DEF ToDevice
<1>2. d \in Disks /\ key \in Key
  BY SecretConstants DEF OpensWith
<1>3. home \in Disks /\ home.rows = d.rows /\ home.provider = "portal-v1" /\ home.keyFile = key
  BY <1>2 DEF Disks
<1> HIDE DEF home
<1>4. /\ marked \in Disks /\ marked.rows = d.rows /\ marked.provider = "local-v1"
      /\ marked.keyFile = key
  BY <1>3 DEF Disks, Providers
<1> HIDE DEF marked
<1>5. emptied \in OpensWith(lost) /\ emptied.provider = "local-v1" /\ emptied.keyFile = key
  <2>1. emptied.provider = "local-v1" /\ emptied.keyFile = key
    BY <1>4 DEF Disks
  <2> QED
    BY <1>4, <2>1, EmptiedOpens
<1> HIDE DEF emptied
<1>6. d \in OpensWith(more) /\ emptied \in OpensWith(more)
  BY <1>5, MoreKeys
<1>7. home \in OpensWith(more)
  BY <1>3, <1>6, SameRows DEF Opener
<1>8. marked \in OpensWith(more)
  BY <1>4, <1>6, SameRows DEF Opener
<1>9. CASE got = NoKey
  <2>1. ToDevice(d, got) = <<home, marked>> \o <<emptied>>
    BY <1>1, <1>9
  <2>2. <<home, marked>> \in Seq(OpensWith(more)) /\ <<emptied>> \in Seq(OpensWith(more))
    BY <1>6, <1>7, <1>8
  <2>3. <<home, marked>> \o <<emptied>> \in Seq(OpensWith(more))
    BY <2>2
  <2>4. After(<<home, marked>> \o <<emptied>>) = emptied
    BY <2>2, AfterAdded
  <2> QED
    BY <1>5, <2>1, <2>3, <2>4 DEF Opener
<1>10. CASE got = PortalKey
  <2>1. ToDevice(d, got) = <<home, marked>>
    BY <1>1, <1>10, SecretConstants, Joined
  <2>2. marked \in OpensWith(lost)
    BY <1>4, <1>10, SameRows, SecretConstants DEF Opener
  <2> QED
    BY <1>4, <1>7, <1>8, <2>1, <2>2 DEF After, Last, Opener
<1> QED
  BY <1>9, <1>10

LEMMA ToDeviceInTurn == ASSUME SecretInv, InTurn, ToDeviceReturns PROVE InTurn'
<1> DEFINE got == Gets(TRUE)
           key == IF got.key = NoKey THEN Fresh ELSE got.key
           moved == ToDevice(disk, got.key)
           w == SavedAgain(moved, key)
           more == lost \cup ({PortalKey} \ {key})
<1>1. operations # <<>> /\ Top.goal = "toDevice"
  BY DEF ToDeviceReturns, Ready
<1>2. /\ disk.provider = "portal-v1" /\ Tail(operations) = <<>> /\ disk \in OpensWith(lost)
      /\ session \in Accounts \cup {NoAccount} /\ Fresh \in Key \ {NoKey}
      /\ Sound(got, Top.why)
  BY <1>1, GetsSoundly, OnlyTop DEF Expects
<1>3. got.writes = <<>> /\ got.key \in {NoKey, PortalKey}
  BY <1>2 DEF Sound
<1>4. After(got.writes) = disk /\ disk \in Disks
  BY <1>2, <1>3 DEF After, OpensWith
<1>5. /\ moved \in Seq(OpensWith(more)) /\ After(moved) \in OpensWith(lost)
      /\ Opener(After(moved)) = key /\ key \in Key \ {NoKey}
  BY <1>2, <1>3, ToDeviceOpens, SecretConstants
<1>6. got.writes \o ToDevice(After(got.writes), got.key) = moved
  <2> HIDE DEF more
  <2>1. moved \in Seq(OpensWith(more))
    BY <1>5
  <2> HIDE DEF moved
  <2> QED
    BY <1>3, <1>4, <2>1, AfterAdded DEF moved
<1>7. \/ Writes(w, {}, {PortalKey} \ {key},
                master' = key /\ session' = session /\ unsaved' = unsaved \ {session})
      \/ \E file \in {disk.keyFile, NoKey} :
            Writes(<<[disk EXCEPT !.keyFile = file]>>, {}, {},
                   master' = got.key /\ session' = session /\ unsaved' = unsaved)
  <2>1. \A file : got.writes \o <<[After(got.writes) EXCEPT !.keyFile = file]>>
                  = <<[disk EXCEPT !.keyFile = file]>>
    BY <1>3, <1>4, Joined
  <2> HIDE DEF got, moved
  <2> QED
    BY <1>6, <2>1 DEF ToDeviceReturns, got
<1> HIDE DEF got, key, moved
<1>8. ASSUME Writes(w, {}, {PortalKey} \ {key},
                    master' = key /\ session' = session /\ unsaved' = unsaved \ {session})
      PROVE  InTurn'
  <2>1. /\ w \in Seq(OpensWith(more)) /\ After(w) \in OpensWith(lost) /\ Opener(After(w)) = key
        /\ session # NoAccount => After(w).rows[session] = key
    BY <1>2, <1>5, SavedAgainOpens
  <2> HIDE DEF w
  <2>2. \/ /\ disk' = After(w) /\ operations' = <<>> /\ lost' = lost
           /\ master' = key /\ session' = session
        \/ /\ \E n \in 1 .. Len(w) - 1 : disk' = w[n]
           /\ operations' = <<>> /\ master' = NoKey /\ session' = NoAccount /\ lost' = more
    BY <1>2, <1>8 DEF Writes
  <2> HIDE DEF more
  <2>3. CASE \E n \in 1 .. Len(w) - 1 : disk' = w[n]
    BY <1>5, <2>1, <2>2, <2>3, KilledInTurn, Settled DEF Known
  <2> QED
    BY <1>5, <2>1, <2>2, <2>3, Settled DEF Known
<1>9. ASSUME NEW file \in {disk.keyFile, NoKey},
             Writes(<<[disk EXCEPT !.keyFile = file]>>, {}, {},
                    master' = got.key /\ session' = session /\ unsaved' = unsaved)
      PROVE  InTurn'
  <2> DEFINE e == [disk EXCEPT !.keyFile = file]
  <2>1. file \in Key
    BY <1>4, SecretConstants DEF Disks
  <2>2. e \in Disks /\ e.rows = disk.rows /\ e.provider = "portal-v1"
    BY <1>2, <1>4, <2>1 DEF Disks
  <2> HIDE DEF e
  <2>3. e \in OpensWith(lost)
    BY <1>2, <2>2, SameRows DEF Opener
  <2>4. After(<<e>>) = e /\ 1 .. Len(<<e>>) - 1 = {}
    BY DEF After, Last
  <2>5. /\ disk' = e /\ operations' = <<>> /\ lost' = lost
        /\ master' = got.key /\ session' = session /\ unsaved' = unsaved
    BY <1>2, <1>9, <2>4 DEF Writes, e
  <2> QED
    BY <1>1, <1>3, <2>2, <2>3, <2>5, Settled DEF Known, Opener, InTurn, SavedOrDue
<1> QED
  BY <1>7, <1>8, <1>9

LEMMA AfterJoined ==
    ASSUME NEW D, NEW u \in Seq(D), NEW v \in Seq(D), v # <<>>
    PROVE  u \o v \in Seq(D) /\ After(u \o v) = After(v)
<1>1. /\ u \o v \in Seq(D) /\ Len(u \o v) = Len(u) + Len(v) /\ Len(v) \in 1 .. Len(v)
      /\ Len(u) \in Nat /\ u \o v # <<>>
  OBVIOUS
<1>2. (u \o v)[Len(u) + Len(v)] = v[Len(v)]
  BY <1>1
<1> QED
  BY <1>1, <1>2 DEF After, Last

\* The move to the keyring: the rows stay if the key in use is the keyring's already.
LEMMA ToKeyringOpens ==
    ASSUME NEW d \in OpensWith(lost), NEW got \in Key \ {NoKey}, Opener(d) \in {NoKey, got, PortalKey},
           got = PortalKey => Opener(d) \in {NoKey, PortalKey},
           NEW more, more = lost \cup ({got} \ {PortalKey})
    PROVE  /\ ToKeyring(d, got) \in Seq(OpensWith(more)) /\ ToKeyring(d, got) # <<>>
           /\ After(ToKeyring(d, got)) \in OpensWith(lost)
           /\ Opener(After(ToKeyring(d, got))) = PortalKey
<1> DEFINE marked == [d EXCEPT !.provider = "portal-v1"]
           gone == [marked EXCEPT !.keyFile = NoKey]
           reset == [gone EXCEPT !.rows = NoRows]
<1>1. ToKeyring(d, got) = <<marked, gone>> \o (IF got = PortalKey THEN <<>> ELSE <<reset>>)
  BY DEF ToKeyring
<1>2. d \in Disks
  BY DEF OpensWith
<1>3. marked \in Disks /\ marked.rows = d.rows /\ marked.provider = "portal-v1"
  BY <1>2 DEF Disks, Providers
<1> HIDE DEF marked
<1>4. gone \in Disks /\ gone.rows = d.rows /\ gone.provider = "portal-v1"
  BY <1>3, SecretConstants DEF Disks
<1> HIDE DEF gone
<1>5. reset \in OpensWith(lost) /\ reset.provider = "portal-v1"
  <2>1. reset.provider = "portal-v1"
    BY <1>4 DEF Disks
  <2> QED
    BY <1>4, <2>1, EmptiedOpens
<1> HIDE DEF reset
<1>6. d \in OpensWith(more) /\ reset \in OpensWith(more)
  BY <1>5, MoreKeys
<1>7. marked \in OpensWith(more) /\ gone \in OpensWith(more)
  <2>1. Opener(d) \in {NoKey, PortalKey} \cup more /\ Opener(marked) = PortalKey /\ Opener(gone) = PortalKey
    BY <1>3, <1>4 DEF Opener
  <2> QED
    BY <1>3, <1>4, <1>6, <2>1, SameRows
<1>8. <<marked, gone>> \in Seq(OpensWith(more)) /\ <<reset>> \in Seq(OpensWith(more))
  BY <1>6, <1>7
<1>9. CASE got # PortalKey
  <2>1. ToKeyring(d, got) = <<marked, gone>> \o <<reset>>
    BY <1>1, <1>9
  <2>2. <<marked, gone>> \o <<reset>> \in Seq(OpensWith(more)) /\ <<marked, gone>> \o <<reset>> # <<>>
    BY <1>8
  <2>3. After(<<marked, gone>> \o <<reset>>) = reset
    BY <1>8, AfterAdded
  <2> QED
    BY <1>5, <2>1, <2>2, <2>3 DEF Opener
<1>10. CASE got = PortalKey
  <2>1. ToKeyring(d, got) = <<marked, gone>>
    BY <1>1, <1>10, Joined
  <2>2. gone \in OpensWith(lost)
    BY <1>4, <1>10, SameRows DEF Opener
  <2>3. After(<<marked, gone>>) = gone /\ <<marked, gone>> # <<>>
    BY DEF After, Last
  <2> QED
    BY <1>4, <1>8, <2>1, <2>2, <2>3 DEF Opener
<1> QED
  BY <1>9, <1>10

LEMMA ToKeyringInTurn == ASSUME SecretInv, InTurn, ToKeyringReturns PROVE InTurn'
<1> DEFINE why == IF master # NoKey THEN "local" ELSE Asks
<1>1. PICK written \in BOOLEAN, answer \in {"secret", "nothing"} :
        LET got == Acquired(why, answer, written)
        IN  Writes(SavedAgain(got.writes \o ToKeyring(After(got.writes), got.key), PortalKey),
                   {}, {got.key} \ {PortalKey},
                   master' = PortalKey /\ session' = session /\ unsaved' = unsaved \ {session})
  BY DEF ToKeyringReturns
<1> DEFINE got == Acquired(why, answer, written)
           d == After(got.writes)
           moved == got.writes \o ToKeyring(d, got.key)
           w == SavedAgain(moved, PortalKey)
           more == lost \cup ({got.key} \ {PortalKey})
<1>2. operations # <<>> /\ Top.goal = "toKeyring"
  BY DEF ToKeyringReturns, Ready
<1>3. /\ disk.provider # "portal-v1" /\ Tail(operations) = <<>> /\ disk \in OpensWith(lost)
      /\ Known(disk, master, lost) /\ session \in Accounts \cup {NoAccount}
  BY <1>2, OnlyTop DEF Expects
<1>4. /\ why \in {"set-up", "local"}
      /\ why = "set-up" => disk.provider = "none" /\ disk.keyFile = NoKey /\ master = NoKey
  BY <1>3 DEF Asks
<1>5. Sound(got, why)
  <2> HIDE DEF why
  <2> QED
    BY <1>2, <1>3, <1>4, AcquiredOpens
<1>6. /\ got.writes \in Seq(OpensWith(lost)) /\ got.key \in Key \ {NoKey} /\ d \in OpensWith(lost)
      /\ Known(d, got.key, lost \cup Unwritten(got))
  BY <1>4, <1>5 DEF Sound, Acquires
<1>7. /\ disk' = After(w) /\ operations' = <<>> /\ lost' = lost
         /\ master' = PortalKey /\ session' = session
      \/ /\ \E n \in 1 .. Len(w) - 1 : disk' = w[n]
         /\ operations' = <<>> /\ master' = NoKey /\ session' = NoAccount /\ lost' = more
  BY <1>1, <1>3 DEF Writes
<1> HIDE DEF got, why
<1>8. /\ Opener(d) \in {NoKey, got.key, PortalKey}
      /\ got.key = PortalKey => Opener(d) \in {NoKey, PortalKey}
  BY <1>6 DEF Known, Opener
<1> HIDE DEF d
<1>9. /\ ToKeyring(d, got.key) \in Seq(OpensWith(more)) /\ ToKeyring(d, got.key) # <<>>
      /\ After(ToKeyring(d, got.key)) \in OpensWith(lost)
      /\ Opener(After(ToKeyring(d, got.key))) = PortalKey
  BY <1>6, <1>8, ToKeyringOpens
<1> HIDE DEF more
<1>10. got.writes \in Seq(OpensWith(more))
  BY <1>6, MoreKeys DEF more
<1>11. moved \in Seq(OpensWith(more)) /\ After(moved) = After(ToKeyring(d, got.key))
  BY <1>9, <1>10, AfterJoined
<1> HIDE DEF moved
<1>12. /\ w \in Seq(OpensWith(more)) /\ After(w) \in OpensWith(lost) /\ Opener(After(w)) = PortalKey
       /\ session # NoAccount => After(w).rows[session] = PortalKey
  <2>1. lost \subseteq more /\ PortalKey \in Key \ {NoKey}
    BY SecretConstants DEF more
  <2> QED
    BY <1>3, <1>9, <1>11, <2>1, SavedAgainOpens
<1> HIDE DEF w
<1>13. CASE \E n \in 1 .. Len(w) - 1 : disk' = w[n]
  BY <1>7, <1>12, <1>13, KilledInTurn, Settled, SecretConstants DEF Known
<1> QED
  BY <1>7, <1>12, <1>13, Settled, SecretConstants DEF Known

\* An operation that begins while another is open leaves it on record.
LEMMA BeginInTurn ==
    ASSUME SecretInv, Opens, crossed' = {},
           NEW goal \in {"store", "retrieve", "toKeyring", "toDevice"},
           NEW a \in Accounts \cup {NoAccount}, Begin(goal, a), unsaved' = unsaved,
           goal = "store" => a \in Accounts /\ session' = a,
           goal = "retrieve" => a \in Accounts /\ disk.rows[a] # NoKey /\ session' = NoAccount,
           goal \in {"toKeyring", "toDevice"} =>
                session' = session /\ goal = (IF disk.provider = "portal-v1" THEN "toDevice" ELSE "toKeyring")
    PROVE  InTurn'
<1> DEFINE why == IF goal = "toKeyring" THEN "switch" ELSE IF master # NoKey THEN "local" ELSE Asks
           new == [goal |-> goal, of |-> a, why |-> why,
                   row |-> IF goal = "retrieve" THEN disk.rows[a] ELSE NoKey,
                   portal |-> IF why = "local" THEN "nothing" ELSE "waiting", nth |-> uses + 1]
<1>1. /\ operations' = <<new>> \o operations
      /\ crossed' = crossed \cup {operations[k].why : k \in DOMAIN operations}
      /\ UNCHANGED <<disk, master, lost>>
  BY DEF Begin
<1>2. /\ why = "sticky" => disk.provider = "portal-v1"
      /\ why = "set-up" => disk.provider = "none" /\ disk.keyFile = NoKey /\ master = NoKey
  BY DEF Asks
<1> HIDE DEF why
<1>3. /\ new.why = why /\ new.goal = goal /\ new.of = a
      /\ goal = "retrieve" => new.row = disk.rows[a]
  OBVIOUS
<1> HIDE DEF new
<1>a. PICK op : op = new
  OBVIOUS
<1>4. crossed = {} /\ operations = <<>>
  <2>1. operations # <<>> => 1 \in DOMAIN operations
    BY DEF SecretInv
  <2> QED
    BY <1>1, <2>1
<1>5. operations' = <<op>> /\ Len(operations') = 1 /\ Top' = op
  <2>1. <<op>> \in Seq({op})
    OBVIOUS
  <2>2. <<op>> \o <<>> = <<op>>
    BY <2>1, AfterAdded
  <2> QED
    BY <1>1, <1>a, <1>4, <2>2 DEF Top
<1>6. InTurn
  BY <1>4 DEF Opens
<1>7. Expects(Top)'
  <2>1. Expects(op)'
    BY <1>1, <1>2, <1>3, <1>a DEF Expects
  <2> QED
    BY <1>5, <2>1 DEF Expects
<1>8. SavedOrDue'
  BY <1>1, <1>3, <1>a, <1>4, <1>5, <1>6 DEF InTurn, SavedOrDue
<1> QED
  BY <1>1, <1>5, <1>6, <1>7, <1>8 DEF InTurn, Known

LEMMA AnswerInTurn ==
    ASSUME SecretInv, InTurn, NEW i \in DOMAIN operations, NEW answer \in {"secret", "nothing"},
           PortalAnswers(i, answer)
    PROVE  InTurn'
<1> DEFINE new == [operations[i] EXCEPT !.portal = answer]
<1>1. /\ operations' = [operations EXCEPT ![i] = new]
      /\ UNCHANGED <<disk, master, session, lost, unsaved>>
  BY DEF PortalAnswers
<1>2. /\ operations \in Seq(Operations) /\ Len(operations) = 1 /\ operations # <<>>
      /\ Expects(Top) /\ i = 1 /\ Top = operations[1]
  BY DEF SecretInv, InTurn, Top
<1>3. /\ new.goal = Top.goal /\ new.of = Top.of /\ new.row = Top.row /\ new.why = Top.why
      /\ new \in Operations
  <2>1. operations[i] \in Operations /\ Top = operations[i]
    BY <1>2
  <2> QED
    BY <2>1 DEF Operations
<1> HIDE DEF new
<1>4. operations' \in Seq(Operations) /\ Len(operations') = 1 /\ operations'[1] = new
  BY <1>1, <1>2, <1>3
<1>5. Top' = new /\ operations' # <<>>
  BY <1>4 DEF Top
<1>6. Expects(Top)' /\ SavedOrDue'
  BY <1>1, <1>2, <1>3, <1>5 DEF Expects, SavedOrDue, InTurn
<1> QED
  BY <1>1, <1>4, <1>6 DEF InTurn, Known

LEMMA SignOutInTurn == ASSUME SecretInv, InTurn, SignOut PROVE InTurn'
<1>1. /\ session \in Accounts /\ session' = NoAccount
      /\ disk' = [disk EXCEPT !.rows[session] = NoKey]
      /\ UNCHANGED <<master, operations, lost, unsaved>>
  BY DEF SignOut, SecretInv
<1>2. disk \in OpensWith(lost) /\ Known(disk, master, lost)
  BY DEF InTurn
<1>3. /\ disk' \in OpensWith(lost) /\ Opener(disk') = Opener(disk)
      /\ disk'.provider = disk.provider /\ disk'.keyFile = disk.keyFile
  BY <1>1, <1>2, RemovedOpens
<1>4. operations # <<>> => Expects(Top)'
  BY <1>1, <1>3, SecretConstants DEF InTurn, Expects, Top
<1> QED
  BY <1>1, <1>2, <1>3, <1>4 DEF InTurn, Known, SavedOrDue

LEMMA OpensStep == SecretInv /\ Opens /\ [SecretNext]_secretVars => Opens'
<1> SUFFICES ASSUME SecretInv, Opens, [SecretNext]_secretVars, crossed' = {} PROVE InTurn'
  BY DEF Opens
<1> USE DEF secretVars
<1>1. crossed = {}
  BY DEF SecretNext, SaveTokens, Restore, MoveTo, Begin, SignOut, PortalAnswers, StoreReturns,
         RetrieveReturns, ToDeviceReturns, ToKeyringReturns, ToKeyringRefused, Writes, Killed, Launched
<1>2. InTurn
  BY <1>1 DEF Opens
<1>3. ASSUME NEW a \in Accounts, SaveTokens(a) PROVE InTurn'
  BY <1>3, BeginInTurn DEF SaveTokens
<1>4. ASSUME NEW a \in Accounts, Restore(a) PROVE InTurn'
  BY <1>4, BeginInTurn DEF Restore
<1>5. ASSUME NEW goal \in {"toKeyring", "toDevice"}, MoveTo(goal) PROVE InTurn'
  BY <1>5, BeginInTurn DEF MoveTo
<1>6. ASSUME ToKeyringRefused PROVE InTurn'
  <2>1. /\ operations # <<>> /\ Top.goal = "toKeyring" /\ operations' = Tail(operations)
        /\ UNCHANGED <<disk, master, session, lost, unsaved>>
    BY <1>6 DEF ToKeyringRefused, Ready
  <2> QED
    BY <1>2, <2>1, OnlyTop, Settled DEF InTurn, SavedOrDue
<1>7. ASSUME Killed PROVE InTurn'
  BY <1>2, <1>7, Settled DEF Killed, InTurn, Known
<1>8. ASSUME Launched \/ UNCHANGED secretVars PROVE InTurn'
  BY <1>2, <1>8 DEF Launched, InTurn, Known, Expects, SavedOrDue, Top
<1> QED
  BY <1>2, <1>3, <1>4, <1>5, <1>6, <1>7, <1>8, SignOutInTurn, AnswerInTurn, StoreInTurn,
     RetrieveInTurn, ToDeviceInTurn, ToKeyringInTurn DEF SecretNext

\* SecureStore.cpp:188, 225: whatever the portal answers, and wherever the process is
\* killed, the next launch takes the key that opens every saved sign-in, but those a
\* Reset was giving up or whose key the disk would not take; and after a move the
\* sign-in in use is still saved.  As long as no operation begins inside another.
THEOREM SecretsOpen == SecretSpec => []SavedSecretsOpen
<1>1. SecretInit => SecretInv /\ Opens
  <2> SUFFICES ASSUME SecretInit PROVE SecretInv /\ Opens
    OBVIOUS
  <2>1. SecretInv
    BY SecretAssumption
       DEF SecretInit, SecretInv, Disks, Providers, Key, Keys, OldKey, NoRows
  <2>2. disk \in OpensWith(lost)
    BY <2>1, SecretConstants DEF SecretInit, SecretInv, OpensWith, Opener, NoRows
  <2> QED
    BY <2>1, <2>2 DEF SecretInit, Opens, InTurn, Known, SavedOrDue
<1>2. Opens => SavedSecretsOpen
  BY DEF Opens, InTurn, SavedOrDue, OpensWith, Opener, SavedSecretsOpen, NextKey
<1> QED
  BY <1>1, <1>2, SecretStep, OpensStep, PTL DEF SecretSpec
-----------------------------------------------------------------------------
(* Bookmarks *)

\* A server keeps one bookmark a second.
Lists == {<<>>} \cup {<<title>> : title \in Titles}

\* A call is stale or of the server the client points at.
CallsPlaced ==
    \A c \in calls : c.epoch <= hostEpoch /\ (c.epoch = hostEpoch => c.host = host)

\* What the server has of the second before it hears of a call.
Before(c) == IF c.kind = "add" THEN <<>> ELSE <<c.title>>

\* The screen is ahead of the server by this call, or by its answer only.
Ahead(c) ==
    /\ c.epoch = hostEpoch
    /\ marks[c.book][c.time] = Asked(c)
    /\ saved[host][c.book][c.time] = IF c.fate = "applied" THEN Asked(c) ELSE Before(c)

\* A second in no doubt: nothing is in flight, or one call whose answer, either
\* way, brings screen and server together.
InStep(b, t) ==
    /\ Pending(b, t) = {} => marks[b][t] = saved[host][b][t]
    /\ \A c, d \in Pending(b, t) : c = d
    /\ \A c \in Pending(b, t) : Ahead(c)

BookmarkInv ==
    /\ BookmarkTypeOK /\ CallsPlaced
    /\ \A h \in Hosts, b \in Books, t \in Seconds : saved[h][b][t] \in Lists
    /\ signedIn => \A b \in Books, t \in Seconds : <<b, t>> \notin doubtful => InStep(b, t)

\* One bookmark and none.
LEMMA OneMark ==
    ASSUME NEW title \in Titles
    PROVE  /\ <<title>> \in Seq(Titles) /\ Append(<<>>, title) = <<title>>
           /\ Head(<<title>>) = title /\ <<title>> # <<>>
  OBVIOUS

LEMMA ListsTyped ==
    ASSUME NEW s \in Lists
    PROVE  s \in Seq(Titles) /\ (s # <<>> => Head(s) \in Titles /\ s = <<Head(s)>>)
<1>1. CASE s = <<>>
  BY <1>1
<1>2. ASSUME NEW title \in Titles, s = <<title>>
      PROVE  s \in Seq(Titles) /\ Head(s) \in Titles /\ s = <<Head(s)>>
  BY <1>2, OneMark
<1> QED
  BY <1>1, <1>2 DEF Lists

LEMMA AskedTyped ==
    ASSUME NEW c \in Calls
    PROVE  Asked(c) \in Lists /\ Asked(c) \in Seq(Titles)
  BY OneMark DEF Asked, Calls, Lists

\* The list of one second is replaced.
Remark(m, b, t, s) == [m EXCEPT ![b][t] = s]

LEMMA Remarked ==
    ASSUME NEW m \in [Books -> Marks], NEW b \in Books, NEW t \in Seconds, NEW s \in Seq(Titles)
    PROVE  /\ Remark(m, b, t, s) \in [Books -> Marks]
           /\ \A f \in Books, u \in Seconds :
                Remark(m, b, t, s)[f][u] = IF f = b /\ u = t THEN s ELSE m[f][u]
<1> DEFINE n == Remark(m, b, t, s)
<1>1. n = [m EXCEPT ![b] = [m[b] EXCEPT ![t] = s]]
  BY DEF Remark
<1> HIDE DEF n
<1>2. m[b] \in Marks
  OBVIOUS
<1>3. [m[b] EXCEPT ![t] = s] \in Marks
  BY <1>2 DEF Marks
<1>4. n[b] = [m[b] EXCEPT ![t] = s] /\ n \in [Books -> Marks]
  BY <1>1, <1>3
<1>5. \A u \in Seconds : n[b][u] = IF u = t THEN s ELSE m[b][u]
  BY <1>2, <1>4 DEF Marks
<1>6. \A f \in Books : f # b => n[f] = m[f]
  BY <1>1
<1> QED
  BY <1>4, <1>5, <1>6 DEF n

LEMMA BookmarkInitInv == BookmarkInit => BookmarkInv
<1> SUFFICES ASSUME BookmarkInit PROVE BookmarkInv
  OBVIOUS
<1>1. saved \in [Hosts -> [Books -> [Seconds -> Lists]]]
  BY DEF BookmarkInit, Lists
<1>2. [Seconds -> Lists] \subseteq Marks
  BY ListsTyped DEF Marks
<1>3. saved \in [Hosts -> [Books -> Marks]]
  BY <1>1, <1>2
<1>4. NoMarks \in [Books -> Marks]
  BY DEF NoMarks, Marks
<1>5. changes \in 0 .. MaxChanges
  BY BookmarkAssumption DEF BookmarkInit
<1>6. BookmarkTypeOK
  BY <1>3, <1>4, <1>5 DEF BookmarkInit, BookmarkTypeOK
<1>7. \A h \in Hosts, b \in Books, t \in Seconds : saved[h][b][t] \in Lists
  BY <1>1
<1> QED
  BY <1>6, <1>7 DEF BookmarkInit, BookmarkInv, CallsPlaced

\* A second whose calls, marks and saved marks stay is as much in step as it was.
LEMMA Untouched ==
    ASSUME NEW b \in Books, NEW t \in Seconds, InStep(b, t), UNCHANGED <<host, hostEpoch>>,
           Pending(b, t)' = Pending(b, t), marks'[b][t] = marks[b][t],
           saved'[host][b][t] = saved[host][b][t]
    PROVE  InStep(b, t)'
<1>1. ASSUME NEW d \in Pending(b, t) PROVE Ahead(d)'
  BY <1>1 DEF InStep, Ahead, Pending, Asked, Before
<1> QED
  BY <1>1 DEF InStep

\* A call of the client begins: of a second with none in flight, the screen
\* having been in step with the server.
LEMMA SendKeeps ==
    ASSUME BookmarkInv, signedIn, Changing, NEW kind \in {"add", "remove"}, NEW b \in Books,
           NEW t \in Seconds, NEW title \in Titles, NEW s \in Seq(Titles),
           marks' = [marks EXCEPT ![b][t] = s], Send(kind, b, t, title),
           kind = "add" => marks[b][t] = <<>> /\ s = <<title>>,
           kind = "remove" => s = <<>> /\ title = Head(marks[b][t]) /\ marks[b][t] # <<>>
    PROVE  BookmarkInv'
<1>0. PICK c : c = [kind |-> kind, host |-> host, book |-> b, time |-> t, title |-> title,
                    epoch |-> hostEpoch, nth |-> changes, fate |-> "sent"]
  OBVIOUS
<1>1. /\ calls' = calls \cup {c} /\ UNCHANGED <<saved, host, hostEpoch, signedIn>>
      /\ doubtful' = IF Pending(b, t) = {} THEN doubtful ELSE doubtful \cup {<<b, t>>}
  BY <1>0 DEF Send
<1>2. /\ c \in Calls /\ c.kind = kind /\ c.host = host /\ c.book = b /\ c.time = t
      /\ c.title = title /\ c.epoch = hostEpoch /\ c.fate = "sent"
  BY <1>0 DEF BookmarkInv, BookmarkTypeOK, Calls
<1>3. /\ marks' \in [Books -> Marks]
      /\ \A f \in Books, u \in Seconds : marks'[f][u] = IF f = b /\ u = t THEN s ELSE marks[f][u]
  <2>1. PICK n : n = Remark(marks, b, t, s)
    OBVIOUS
  <2>2. marks' = n /\ marks \in [Books -> Marks]
    BY <2>1 DEF Remark, BookmarkInv, BookmarkTypeOK
  <2>3. /\ n \in [Books -> Marks]
        /\ \A f \in Books, u \in Seconds : n[f][u] = IF f = b /\ u = t THEN s ELSE marks[f][u]
    BY <2>1, <2>2, Remarked
  <2> QED
    BY <2>2, <2>3
<1>4. ASSUME NEW f \in Books, NEW u \in Seconds, f # b \/ u # t
      PROVE  marks'[f][u] = marks[f][u] /\ Pending(f, u)' = Pending(f, u)
  BY <1>1, <1>2, <1>3, <1>4 DEF Pending
<1>5. changes' \in 0 .. MaxChanges
  BY BookmarkAssumption DEF Changing, BookmarkInv, BookmarkTypeOK
<1>6. BookmarkTypeOK'
  BY <1>1, <1>2, <1>3, <1>5 DEF BookmarkInv, BookmarkTypeOK
<1>7. CallsPlaced'
  BY <1>1, <1>2 DEF BookmarkInv, BookmarkTypeOK, CallsPlaced
<1>8. ASSUME NEW f \in Books, NEW u \in Seconds, <<f, u>> \notin doubtful'
      PROVE  InStep(f, u)'
  <2>1. InStep(f, u)
    BY <1>1, <1>8 DEF BookmarkInv
  <2>2. CASE f # b \/ u # t
    <3>1. marks'[f][u] = marks[f][u] /\ Pending(f, u)' = Pending(f, u)
      BY <1>4, <2>2
    <3>2. saved'[host][f][u] = saved[host][f][u] /\ UNCHANGED <<host, hostEpoch>>
      BY <1>1
    <3> QED
      BY <2>1, <3>1, <3>2, Untouched
  <2>3. CASE f = b /\ u = t
    <3>1. Pending(b, t) = {}
      BY <1>1, <1>8, <2>3
    <3>2. Pending(b, t)' = {c}
      BY <1>1, <1>2, <3>1 DEF Pending
    <3>3. marks[b][t] = saved[host][b][t] /\ saved[host][b][t] \in Lists
      BY <2>1, <2>3, <3>1 DEF InStep, BookmarkInv, BookmarkTypeOK
    <3>4. kind = "remove" => saved[host][b][t] = <<title>>
      BY <3>3, ListsTyped
    <3>5. Ahead(c)'
      BY <1>1, <1>2, <1>3, <3>3, <3>4 DEF Ahead, Asked, Before
    <3> QED
      BY <2>3, <3>2, <3>5 DEF InStep
  <2> QED
    BY <2>2, <2>3
<1> QED
  BY <1>1, <1>6, <1>7, <1>8 DEF BookmarkInv

\* A call takes another fate, or is over: no other second is concerned.
LEMMA BecomesKeeps ==
    ASSUME BookmarkInv, NEW c \in calls, NEW fate \in {"applied", "rejected"}, Becomes(c, fate)
    PROVE  /\ calls' \subseteq Calls
           /\ UNCHANGED <<host, hostEpoch>> => CallsPlaced'
           /\ host' = host => \A b \in Books, t \in Seconds :
                IF c.host = host /\ b = c.book /\ t = c.time
                THEN Pending(b, t)' = (Pending(b, t) \ {c}) \cup {[c EXCEPT !.fate = fate]}
                ELSE Pending(b, t)' = Pending(b, t)
<1> DEFINE new == [c EXCEPT !.fate = fate]
<1>1. c \in Calls
  BY DEF BookmarkInv, BookmarkTypeOK
<1>2. /\ new \in Calls /\ new.host = c.host /\ new.book = c.book /\ new.time = c.time
      /\ new.epoch = c.epoch
  BY <1>1 DEF Calls
<1>3. calls' = (calls \ {c}) \cup {new}
  BY DEF Becomes
<1> HIDE DEF new
<1>4. calls' \subseteq Calls
  BY <1>2, <1>3 DEF BookmarkInv, BookmarkTypeOK
<1>5. ASSUME UNCHANGED <<host, hostEpoch>> PROVE CallsPlaced'
  BY <1>2, <1>3, <1>5 DEF BookmarkInv, CallsPlaced
<1>6. ASSUME host' = host, NEW b \in Books, NEW t \in Seconds,
             c.host = host /\ b = c.book /\ t = c.time
      PROVE  Pending(b, t)' = (Pending(b, t) \ {c}) \cup {new}
  BY <1>2, <1>3, <1>6 DEF Pending
<1>7. ASSUME host' = host, NEW b \in Books, NEW t \in Seconds,
             ~(c.host = host /\ b = c.book /\ t = c.time)
      PROVE  Pending(b, t)' = Pending(b, t)
  BY <1>2, <1>3, <1>7 DEF Pending
<1> QED
  BY <1>4, <1>5, <1>6, <1>7 DEF new

LEMMA OverKeeps ==
    ASSUME BookmarkInv, NEW c \in calls, calls' = calls \ {c}
    PROVE  /\ calls' \subseteq Calls
           /\ UNCHANGED <<host, hostEpoch>> => CallsPlaced'
           /\ host' = host => \A b \in Books, t \in Seconds :
                IF c.host = host /\ b = c.book /\ t = c.time
                THEN Pending(b, t)' = Pending(b, t) \ {c}
                ELSE Pending(b, t)' = Pending(b, t)
  BY DEF BookmarkInv, BookmarkTypeOK, CallsPlaced, Pending

LEMMA ArrivesKeeps == ASSUME BookmarkInv, NEW c \in calls, Arrives(c) PROVE BookmarkInv'
<1> DEFINE new == [c EXCEPT !.fate = "applied"]
<1>1. c \in Calls
  BY DEF BookmarkInv, BookmarkTypeOK
<1>2. /\ c.fate = "sent" /\ UNCHANGED <<marks, host, hostEpoch, signedIn, doubtful, changes>>
      /\ saved' = [saved EXCEPT ![c.host][c.book][c.time] = Asked(c)]
      /\ Becomes(c, "applied")
  BY DEF Arrives
<1>3. /\ new.kind = c.kind /\ new.host = c.host /\ new.book = c.book /\ new.time = c.time
      /\ new.epoch = c.epoch /\ new.title = c.title /\ new.fate = "applied"
  BY <1>1 DEF Calls
<1>4. /\ calls' \subseteq Calls /\ CallsPlaced'
      /\ \A b \in Books, t \in Seconds :
           IF c.host = host /\ b = c.book /\ t = c.time
           THEN Pending(b, t)' = (Pending(b, t) \ {c}) \cup {new}
           ELSE Pending(b, t)' = Pending(b, t)
  BY <1>2, BecomesKeeps
<1> HIDE DEF new
<1>5. /\ saved' \in [Hosts -> [Books -> Marks]]
      /\ \A h \in Hosts, b \in Books, t \in Seconds :
           saved'[h][b][t] = IF h = c.host /\ b = c.book /\ t = c.time THEN Asked(c)
                             ELSE saved[h][b][t]
  <2>1. /\ c.host \in Hosts /\ c.book \in Books /\ c.time \in Seconds /\ Asked(c) \in Seq(Titles)
        /\ saved \in [Hosts -> [Books -> Marks]]
    BY <1>1, AskedTyped DEF BookmarkInv, BookmarkTypeOK, Calls
  <2>2. PICK n : n = Remark(saved[c.host], c.book, c.time, Asked(c))
    OBVIOUS
  <2>3. /\ n \in [Books -> Marks]
        /\ \A b \in Books, t \in Seconds :
             n[b][t] = IF b = c.book /\ t = c.time THEN Asked(c) ELSE saved[c.host][b][t]
    BY <2>1, <2>2, Remarked
  <2>4. saved' = [saved EXCEPT ![c.host] = n]
    BY <1>2, <2>2 DEF Remark
  <2>5. /\ saved' \in [Hosts -> [Books -> Marks]] /\ saved'[c.host] = n
        /\ \A h \in Hosts : h # c.host => saved'[h] = saved[h]
    BY <2>1, <2>3, <2>4
  <2> QED
    BY <2>3, <2>5
<1>6. BookmarkTypeOK'
  BY <1>2, <1>4, <1>5 DEF BookmarkInv, BookmarkTypeOK
<1>7. \A h \in Hosts, b \in Books, t \in Seconds : saved'[h][b][t] \in Lists
  BY <1>1, <1>5, AskedTyped DEF BookmarkInv
<1>8. ASSUME signedIn, NEW b \in Books, NEW t \in Seconds, <<b, t>> \notin doubtful
      PROVE  InStep(b, t)'
  <2>1. InStep(b, t) /\ host \in Hosts
    BY <1>8 DEF BookmarkInv, BookmarkTypeOK
  <2>2. CASE c.host = host /\ b = c.book /\ t = c.time
    <3>1. c \in Pending(b, t)
      BY <2>2 DEF Pending
    <3>2. Pending(b, t)' = {new}
      BY <1>4, <2>1, <2>2, <3>1 DEF InStep
    <3>3. Ahead(c)
      BY <2>1, <3>1 DEF InStep
    <3>4. Ahead(new)'
      BY <1>2, <1>3, <1>5, <2>1, <2>2, <3>3 DEF Ahead, Asked
    <3> QED
      BY <3>2, <3>4 DEF InStep
  <2>3. CASE ~(c.host = host /\ b = c.book /\ t = c.time)
    BY <1>2, <1>4, <1>5, <2>1, <2>3, Untouched
  <2> QED
    BY <2>2, <2>3
<1> QED
  BY <1>2, <1>4, <1>6, <1>7, <1>8 DEF BookmarkInv

LEMMA RejectedKeeps == ASSUME BookmarkInv, NEW c \in calls, Rejected(c) PROVE BookmarkInv'
<1> DEFINE new == [c EXCEPT !.fate = "rejected"]
<1>1. c \in Calls
  BY DEF BookmarkInv, BookmarkTypeOK
<1>2. /\ c.fate = "sent" /\ Becomes(c, "rejected")
      /\ UNCHANGED <<marks, saved, host, hostEpoch, signedIn, doubtful, changes>>
  BY DEF Rejected
<1>3. /\ new.kind = c.kind /\ new.host = c.host /\ new.book = c.book /\ new.time = c.time
      /\ new.epoch = c.epoch /\ new.title = c.title /\ new.fate = "rejected"
  BY <1>1 DEF Calls
<1>4. /\ calls' \subseteq Calls /\ CallsPlaced'
      /\ \A b \in Books, t \in Seconds :
           IF c.host = host /\ b = c.book /\ t = c.time
           THEN Pending(b, t)' = (Pending(b, t) \ {c}) \cup {new}
           ELSE Pending(b, t)' = Pending(b, t)
  BY <1>2, BecomesKeeps
<1> HIDE DEF new
<1>5. BookmarkTypeOK'
  BY <1>2, <1>4 DEF BookmarkInv, BookmarkTypeOK
<1>6. ASSUME signedIn, NEW b \in Books, NEW t \in Seconds, <<b, t>> \notin doubtful
      PROVE  InStep(b, t)'
  <2>1. InStep(b, t)
    BY <1>6 DEF BookmarkInv
  <2>2. CASE c.host = host /\ b = c.book /\ t = c.time
    <3>1. c \in Pending(b, t)
      BY <2>2 DEF Pending
    <3>2. Pending(b, t)' = {new}
      BY <1>4, <2>1, <2>2, <3>1 DEF InStep
    <3>3. Ahead(new)'
      BY <1>2, <1>3, <2>1, <2>2, <3>1 DEF InStep, Ahead, Asked, Before
    <3> QED
      BY <3>2, <3>3 DEF InStep
  <2>3. CASE ~(c.host = host /\ b = c.book /\ t = c.time)
    BY <1>2, <1>4, <2>1, <2>3, Untouched
  <2> QED
    BY <2>2, <2>3
<1> QED
  BY <1>2, <1>4, <1>5, <1>6 DEF BookmarkInv

LEMMA ConfirmedKeeps == ASSUME BookmarkInv, NEW c \in calls, Confirmed(c) PROVE BookmarkInv'
<1>1. /\ c.fate = "applied" /\ calls' = calls \ {c}
      /\ UNCHANGED <<marks, saved, host, hostEpoch, signedIn, doubtful, changes>>
  BY DEF Confirmed
<1>2. /\ calls' \subseteq Calls /\ CallsPlaced'
      /\ \A b \in Books, t \in Seconds :
           IF c.host = host /\ b = c.book /\ t = c.time THEN Pending(b, t)' = Pending(b, t) \ {c}
           ELSE Pending(b, t)' = Pending(b, t)
  BY <1>1, OverKeeps
<1>3. BookmarkTypeOK'
  BY <1>1, <1>2 DEF BookmarkInv, BookmarkTypeOK
<1>4. ASSUME signedIn, NEW b \in Books, NEW t \in Seconds, <<b, t>> \notin doubtful
      PROVE  InStep(b, t)'
  <2>1. InStep(b, t)
    BY <1>4 DEF BookmarkInv
  <2>2. CASE c.host = host /\ b = c.book /\ t = c.time
    <3>1. c \in Pending(b, t)
      BY <2>2 DEF Pending
    <3>2. Pending(b, t)' = {}
      BY <1>2, <2>1, <2>2, <3>1 DEF InStep
    <3>3. marks[b][t] = saved[host][b][t]
      BY <1>1, <2>1, <2>2, <3>1 DEF InStep, Ahead
    <3> QED
      BY <1>1, <3>2, <3>3 DEF InStep
  <2>3. CASE ~(c.host = host /\ b = c.book /\ t = c.time)
    BY <1>1, <1>2, <2>1, <2>3, Untouched
  <2> QED
    BY <2>2, <2>3
<1> QED
  BY <1>1, <1>2, <1>3, <1>4 DEF BookmarkInv

LEMMA FailsKeeps == ASSUME BookmarkInv, NEW c \in calls, Fails(c) PROVE BookmarkInv'
<1> USE DEF Stale
<1>1. /\ c.fate \in {"applied", "rejected"} /\ calls' = calls \ {c} /\ marks' = Undo(c)
      /\ doubtful' = IF c.fate = "applied" /\ c.host = host
                     THEN doubtful \cup {<<c.book, c.time>>} ELSE doubtful
      /\ UNCHANGED <<saved, host, hostEpoch, signedIn, changes>>
  BY DEF Fails
<1>2. c \in Calls /\ c.book \in Books /\ c.time \in Seconds /\ c.title \in Titles
  BY DEF BookmarkInv, BookmarkTypeOK, Calls
<1>3. /\ calls' \subseteq Calls /\ CallsPlaced'
      /\ \A b \in Books, t \in Seconds :
           IF c.host = host /\ b = c.book /\ t = c.time THEN Pending(b, t)' = Pending(b, t) \ {c}
           ELSE Pending(b, t)' = Pending(b, t)
  BY <1>1, OverKeeps
<1> DEFINE back == IF c.kind = "add" THEN <<>> ELSE Append(marks[c.book][c.time], c.title)
<1>4. marks[c.book][c.time] \in Seq(Titles) /\ back \in Seq(Titles)
  BY <1>2 DEF BookmarkInv, BookmarkTypeOK, Marks
<1>5. c.epoch = hostEpoch => marks' = [marks EXCEPT ![c.book][c.time] = back] /\ c.host = host
  BY <1>1 DEF Undo, BookmarkInv, CallsPlaced
<1>6. c.epoch # hostEpoch => marks' = marks
  BY <1>1 DEF Undo
<1> HIDE DEF back
<1>7. /\ marks' \in [Books -> Marks]
      /\ c.epoch = hostEpoch => marks'[c.book][c.time] = back
      /\ \A b \in Books, t \in Seconds :
           ~(c.host = host /\ b = c.book /\ t = c.time) => marks'[b][t] = marks[b][t]
  <2>1. marks \in [Books -> Marks]
    BY DEF BookmarkInv, BookmarkTypeOK
  <2>2. CASE c.epoch = hostEpoch
    <3>1. marks' = Remark(marks, c.book, c.time, back)
      BY <1>5, <2>2 DEF Remark
    <3> QED
      BY <1>2, <1>4, <1>5, <2>1, <2>2, <3>1, Remarked
  <2>3. CASE c.epoch # hostEpoch
    BY <1>6, <2>1, <2>3
  <2> QED
    BY <2>2, <2>3
<1>8. doubtful' \subseteq Books \X Seconds
  BY <1>1, <1>2 DEF BookmarkInv, BookmarkTypeOK
<1>9. BookmarkTypeOK'
  BY <1>1, <1>3, <1>7, <1>8 DEF BookmarkInv, BookmarkTypeOK
<1>10. ASSUME signedIn, NEW b \in Books, NEW t \in Seconds, <<b, t>> \notin doubtful'
       PROVE  InStep(b, t)'
  <2>1. InStep(b, t)
    BY <1>1, <1>10 DEF BookmarkInv
  <2>2. CASE c.host = host /\ b = c.book /\ t = c.time
    <3>1. c \in Pending(b, t)
      BY <2>2 DEF Pending
    <3>2. Pending(b, t)' = {}
      BY <1>3, <2>1, <2>2, <3>1 DEF InStep
    <3>3. c.fate = "rejected"
      BY <1>1, <1>10, <2>2
    <3>4. Ahead(c)
      BY <2>1, <3>1 DEF InStep
    <3>5. back = Before(c)
      BY <1>2, <3>4, OneMark DEF back, Ahead, Asked, Before
    <3>6. marks'[b][t] = saved[host][b][t]
      BY <1>7, <2>2, <3>3, <3>4, <3>5 DEF Ahead
    <3> QED
      BY <1>1, <3>2, <3>6 DEF InStep
  <2>3. CASE ~(c.host = host /\ b = c.book /\ t = c.time)
    BY <1>1, <1>3, <1>7, <2>1, <2>3, Untouched
  <2> QED
    BY <2>2, <2>3
<1> QED
  BY <1>1, <1>3, <1>9, <1>10 DEF BookmarkInv

LEMMA LoadedKeeps == ASSUME BookmarkInv, UserLoaded PROVE BookmarkInv'
<1>1. /\ Changing /\ marks' = saved[host] /\ UNCHANGED <<saved, host, hostEpoch, calls>>
      /\ signedIn' = TRUE /\ doubtful' = {<<c.book, c.time>> : c \in {d \in calls : d.host = host}}
  BY DEF UserLoaded
<1>2. changes' \in 0 .. MaxChanges
  BY <1>1, BookmarkAssumption DEF Changing, BookmarkInv, BookmarkTypeOK
<1>3. doubtful' \subseteq Books \X Seconds
  BY <1>1 DEF BookmarkInv, BookmarkTypeOK, Calls
<1>4. BookmarkTypeOK'
  BY <1>1, <1>2, <1>3 DEF BookmarkInv, BookmarkTypeOK
<1>5. ASSUME NEW b \in Books, NEW t \in Seconds, <<b, t>> \notin doubtful' PROVE InStep(b, t)'
  <2>1. Pending(b, t)' = {}
    BY <1>1, <1>5 DEF Pending
  <2> QED
    BY <1>1, <2>1 DEF InStep
<1> QED
  BY <1>1, <1>4, <1>5 DEF BookmarkInv, CallsPlaced

LEMMA ClearedKeeps == ASSUME BookmarkInv, NEW s \in Hosts, Cleared(s) PROVE BookmarkInv'
<1>1. /\ signedIn' = FALSE /\ marks' = NoMarks /\ host' = s
      /\ hostEpoch' = hostEpoch + (IF s = host THEN 0 ELSE 1)
      /\ UNCHANGED <<saved, calls, doubtful, changes>>
  BY DEF Cleared
<1>2. NoMarks \in [Books -> Marks]
  BY DEF NoMarks, Marks
<1>3. BookmarkTypeOK'
  <2>1. hostEpoch \in Nat /\ hostEpoch' \in Nat
    BY <1>1 DEF BookmarkInv, BookmarkTypeOK
  <2> QED
    BY <1>1, <1>2, <2>1 DEF BookmarkInv, BookmarkTypeOK
<1>4. \A c \in calls : c.epoch \in Nat
  BY DEF BookmarkInv, BookmarkTypeOK, Calls
<1>5. CallsPlaced'
  BY <1>1, <1>4 DEF BookmarkInv, BookmarkTypeOK, CallsPlaced
<1> QED
  BY <1>1, <1>3, <1>5 DEF BookmarkInv

LEMMA BookmarkStep == BookmarkInv /\ [BookmarkNext]_bookmarkVars => BookmarkInv'
<1> SUFFICES ASSUME BookmarkInv, [BookmarkNext]_bookmarkVars PROVE BookmarkInv'
  OBVIOUS
<1>1. ASSUME NEW b \in Books, NEW t \in Seconds, NEW title \in Titles, AddBookmark(b, t, title)
      PROVE  BookmarkInv'
  <2>1. marks[b][t] = <<>> /\ <<title>> \in Seq(Titles)
    BY <1>1, OneMark DEF AddBookmark, Has
  <2>2. /\ Changing /\ signedIn /\ Send("add", b, t, title)
        /\ marks' = [marks EXCEPT ![b][t] = Append(marks[b][t], title)]
    BY <1>1 DEF AddBookmark
  <2>3. marks' = [marks EXCEPT ![b][t] = <<title>>]
    BY <2>1, <2>2, OneMark
  <2> QED
    BY <2>1, <2>2, <2>3, SendKeeps
<1>2. ASSUME NEW b \in Books, NEW t \in Seconds, RemoveBookmark(b, t) PROVE BookmarkInv'
  <2>1. marks[b][t] # <<>> /\ marks[b][t] \in Seq(Titles)
    BY <1>2 DEF RemoveBookmark, Has, BookmarkInv, BookmarkTypeOK, Marks
  <2>2. Head(marks[b][t]) \in Titles
    BY <2>1
  <2>3. /\ Changing /\ signedIn /\ Send("remove", b, t, Head(marks[b][t]))
        /\ marks' = [marks EXCEPT ![b][t] = <<>>] /\ <<>> \in Seq(Titles)
    BY <1>2 DEF RemoveBookmark
  <2> QED
    BY <2>1, <2>2, <2>3, SendKeeps
<1>3. ASSUME UNCHANGED bookmarkVars PROVE BookmarkInv'
  BY <1>3 DEF bookmarkVars, BookmarkInv, BookmarkTypeOK, CallsPlaced, InStep, Pending, Ahead, Asked,
              Before
<1> QED
  BY <1>1, <1>2, <1>3, LoadedKeeps, ClearedKeeps, ArrivesKeeps, RejectedKeeps, ConfirmedKeeps,
     FailsKeeps DEF BookmarkNext

\* BookmarkStore.h:13-16: a second that is not changed again before the answer shows
\* what was asked for until the answer comes, and then what the server has saved,
\* whatever the answer, in any order of the answers of other seconds, and across
\* sign-outs and changes of server.
THEOREM BookmarksInStep == BookmarkSpec => []BookmarksSettle
<1>1. BookmarkInv => BookmarksSettle
  <2> SUFFICES ASSUME BookmarkInv, signedIn, NEW b \in Books, NEW t \in Seconds,
                      <<b, t>> \notin doubtful
               PROVE  IF Pending(b, t) = {} THEN marks[b][t] = saved[host][b][t]
                      ELSE \A c \in Pending(b, t) : marks[b][t] = Asked(c)
    BY DEF BookmarksSettle
  <2>1. InStep(b, t)
    BY DEF BookmarkInv
  <2>2. ASSUME NEW c \in Pending(b, t) PROVE marks[b][t] = Asked(c)
    <3>1. Ahead(c) /\ c.book = b /\ c.time = t
      BY <2>1, <2>2 DEF InStep, Pending
    <3> QED
      BY <3>1 DEF Ahead
  <2> QED
    BY <2>1, <2>2 DEF InStep
<1> QED
  BY <1>1, BookmarkInitInv, BookmarkStep, PTL DEF BookmarkSpec
-----------------------------------------------------------------------------
(* Types *)

LEMMA BookmarkTypes == BookmarkSpec => []BookmarkTypeOK
<1>1. BookmarkInv => BookmarkTypeOK
  BY DEF BookmarkInv
<1> QED
  BY <1>1, BookmarkInitInv, BookmarkStep, PTL DEF BookmarkSpec

LEMMA PathsTyped == ASSUME CoverTypeOK, NEW i \in Images PROVE Path(i) \in Paths
  BY DEF CoverTypeOK, Path, Paths

\* The files stay ordered by when they were written.
FilesOrdered ==
    /\ files \subseteq Paths /\ older \subseteq files \X files
    /\ \A m, n \in files : <<m, n>> \in older <=> m # n /\ <<n, m>> \notin older

LEMMA CoverTypeStep == CoverTypeOK /\ [CoverNext]_coverVars => CoverTypeOK'
<1> SUFFICES ASSUME CoverTypeOK, [CoverNext]_coverVars PROVE CoverTypeOK'
  OBVIOUS
<1> USE DEF coverVars, diskVars
<1>0. /\ FilesOrdered /\ origin \in Origins /\ epoch \in Nat /\ shown \in BOOLEAN
      /\ cards \in [Images -> Paths \cup {NoPath}] /\ inFlight \subseteq Paths
      /\ missing \subseteq Paths /\ fetches \subseteq [path : Paths, epoch : Nat, nth : Nat]
      /\ looks \in 0 .. MaxLooks
  BY DEF CoverTypeOK, FilesOrdered
<1> DEFINE Rest == /\ origin' \in Origins /\ epoch' \in Nat /\ shown' \in BOOLEAN
                   /\ cards' \in [Images -> Paths \cup {NoPath}] /\ inFlight' \subseteq Paths
                   /\ missing' \subseteq Paths
                   /\ fetches' \subseteq [path : Paths, epoch : Nat, nth : Nat]
                   /\ looks' \in 0 .. MaxLooks
<1>1. ASSUME Rest, FilesOrdered' PROVE CoverTypeOK'
  BY <1>1 DEF CoverTypeOK, FilesOrdered
<1>2. ASSUME UNCHANGED diskVars PROVE FilesOrdered'
  BY <1>0, <1>2 DEF FilesOrdered
<1>3. ASSUME Look PROVE looks' \in 0 .. MaxLooks
  BY <1>0, <1>3, CoverAssumption DEF Look
<1>4. NoCards \in [Images -> Paths \cup {NoPath}]
  BY DEF NoCards
<1>5. ASSUME NEW f \in fetches PROVE f.path \in Paths /\ f.path[2] \in Images
  BY <1>0, <1>5 DEF Paths
<1>6. ASSUME NEW f \in fetches, Replied(f)
      PROVE  /\ inFlight' \subseteq Paths /\ UNCHANGED <<origin, epoch, shown, looks>>
             /\ fetches' \subseteq [path : Paths, epoch : Nat, nth : Nat]
  BY <1>0, <1>6 DEF Replied
<1>7. ASSUME NEW i \in Images, Found(i) PROVE CoverTypeOK'
  BY <1>0, <1>1, <1>2, <1>3, <1>7, PathsTyped DEF Found
<1>8. ASSUME NEW i \in Images, Fetch(i) PROVE CoverTypeOK'
  <2>1. [path |-> Path(i), epoch |-> epoch, nth |-> looks] \in [path : Paths, epoch : Nat, nth : Nat]
    BY <1>0, PathsTyped
  <2>2. /\ inFlight' \in {inFlight, inFlight \cup {Path(i)}}
        /\ fetches' \in {fetches, fetches \cup {[path |-> Path(i), epoch |-> epoch, nth |-> looks]}}
        /\ Look /\ cards' = [cards EXCEPT ![i] = NoPath]
        /\ UNCHANGED <<origin, epoch, shown, missing, diskVars>>
    BY <1>8 DEF Fetch
  <2>3. Rest
    BY <1>0, <1>3, <2>1, <2>2, PathsTyped
  <2> QED
    BY <1>1, <1>2, <2>2, <2>3
<1>9. ASSUME NEW s \in Origins, ChangeOrigin(s) PROVE CoverTypeOK'
  <2>1. /\ origin' = s /\ epoch' = epoch + 1 /\ shown' = FALSE /\ Look
        /\ UNCHANGED <<cards, inFlight, missing, diskVars, fetches>>
    BY <1>9 DEF ChangeOrigin
  <2>2. Rest
    <3>1. epoch' \in Nat /\ origin' \in Origins
      BY <1>0, <2>1
    <3>3. shown' \in BOOLEAN
      <4>1. shown' = FALSE
        BY <2>1
      <4> QED
        BY <4>1, Zenon
    <3>2. looks' \in 0 .. MaxLooks
      BY <1>3, <2>1
    <3> QED
      BY <1>0, <2>1, <3>1, <3>2, <3>3
  <2> QED
    BY <1>1, <1>2, <2>1, <2>2
<1>15. CASE SignedIn
  BY <1>0, <1>1, <1>2, <1>4, <1>15 DEF SignedIn
<1>10. ASSUME NEW f \in fetches, Arrived(f) PROVE CoverTypeOK'
  <2>1. /\ Replied(f) /\ files' = files \cup {f.path}
        /\ older' = {o \in older : f.path \notin {o[1], o[2]}}
                    \cup {<<m, f.path>> : m \in files \ {f.path}}
        /\ cards' = [cards EXCEPT ![f.path[2]] = f.path] /\ missing' = missing
    BY <1>10 DEF Arrived
  <2>2. f.path \in Paths /\ f.path[2] \in Images
    BY <1>5
  <2>3. FilesOrdered'
    <3>1. files' \subseteq Paths /\ older' \subseteq files' \X files'
      BY <1>0, <2>1, <2>2 DEF FilesOrdered
    <3>2. ASSUME NEW m \in files', NEW n \in files'
          PROVE  <<m, n>> \in older' <=> \/ m # f.path /\ n # f.path /\ <<m, n>> \in older
                                         \/ m # f.path /\ n = f.path
      BY <2>1, <3>2
    <3>3. ASSUME NEW m \in files', NEW n \in files'
          PROVE  <<m, n>> \in older' <=> m # n /\ <<n, m>> \notin older'
      BY <1>0, <2>1, <3>2, <3>3 DEF FilesOrdered
    <3> QED
      BY <3>1, <3>3 DEF FilesOrdered
  <2>4. Rest
    BY <1>0, <1>6, <2>1, <2>2
  <2> QED
    BY <1>1, <2>3, <2>4
<1>11. ASSUME NEW f \in fetches, NoSuchImage(f) \/ GaveUp(f) PROVE CoverTypeOK'
  <2>1. Replied(f) /\ missing' \in {missing, missing \cup {f.path}} /\ UNCHANGED <<diskVars, cards>>
    BY <1>11 DEF NoSuchImage, GaveUp
  <2> QED
    BY <1>0, <1>1, <1>2, <1>5, <1>6, <2>1
<1>12. CASE Clear
  <2>1. FilesOrdered'
    BY <1>12 DEF Clear, FilesOrdered
  <2> QED
    BY <1>0, <1>1, <1>3, <1>12, <2>1 DEF Clear
<1>13. ASSUME NEW stuck \in SUBSET files, Relaunch(stuck) PROVE CoverTypeOK'
  <2>1. files' \subseteq files /\ older' = older \cap (files' \X files')
    BY <1>13 DEF Relaunch, Pruned
  <2>2. FilesOrdered'
    BY <1>0, <2>1 DEF FilesOrdered
  <2> QED
    BY <1>0, <1>1, <1>3, <1>4, <1>13, <2>2 DEF Relaunch
<1>14. CASE UNCHANGED coverVars
  BY <1>0, <1>1, <1>2, <1>14
<1> QED
  BY <1>7, <1>8, <1>9, <1>10, <1>11, <1>12, <1>13, <1>14, <1>15 DEF CoverNext

LEMMA CoverTypes == CoverSpec => []CoverTypeOK
<1>1. CoverInit => CoverTypeOK
  BY CoverAssumption DEF CoverInit, CoverTypeOK, NoCards
<1> QED
  BY <1>1, CoverTypeStep, PTL DEF CoverSpec

\* What only the types rest on: tokens are saved for an account, and what is open
\* waits for the portal when something else begins.
SecretRest ==
    /\ running \in BOOLEAN /\ crossed \subseteq {"switch", "set-up", "sticky"}
    /\ lost \subseteq Key /\ unsaved \subseteq Accounts
    /\ \A k \in DOMAIN operations : operations[k].goal = "store" => operations[k].of \in Accounts

LEMMA SecretTyped == SecretInv /\ SecretRest => SecretTypeOK
  BY DEF SecretInv, SecretRest, SecretTypeOK

LEMMA KeysTyped == NoKey \in Key /\ PortalKey \in Key
  BY DEF Key, Keys

\* An operation returns, or is cut short.
LEMMA WritesRest ==
    ASSUME SecretInv, SecretRest, operations # <<>>, NEW w, NEW un \in SUBSET Key,
           NEW losing \in SUBSET Key, NEW doing, Writes(w, un, losing, doing),
           doing => unsaved' \subseteq Accounts
    PROVE  SecretRest'
<1>1. /\ running' \in BOOLEAN /\ crossed' = crossed /\ lost' \subseteq Key
      /\ unsaved' \subseteq Accounts /\ operations' \in {<<>>, Tail(operations)}
  BY DEF Writes, SecretRest
<1>2. operations \in Seq(Operations)
  BY DEF SecretInv
<1>3. \A k \in DOMAIN operations' : /\ k + 1 \in DOMAIN operations
                                    /\ operations'[k] = operations[k + 1]
  BY <1>1, <1>2
<1> QED
  BY <1>1, <1>3 DEF SecretRest

LEMMA BeginRest ==
    ASSUME SecretInv, SecretRest, Handles, NEW goal \in {"store", "retrieve", "toKeyring", "toDevice"},
           NEW a \in Accounts \cup {NoAccount}, goal = "store" => a \in Accounts,
           Begin(goal, a), unsaved' = unsaved
    PROVE  SecretRest'
<1> DEFINE why == IF goal = "toKeyring" THEN "switch" ELSE IF master # NoKey THEN "local" ELSE Asks
           new == [goal |-> goal, of |-> a, why |-> why,
                   row |-> IF goal = "retrieve" THEN disk.rows[a] ELSE NoKey,
                   portal |-> IF why = "local" THEN "nothing" ELSE "waiting", nth |-> uses + 1]
<1>1. /\ operations' = <<new>> \o operations
      /\ crossed' = crossed \cup {operations[k].why : k \in DOMAIN operations}
      /\ UNCHANGED <<running, lost>>
  BY DEF Begin
<1>2. new.goal = goal /\ new.of = a
  OBVIOUS
<1> HIDE DEF new
<1>3. operations \in Seq(Operations)
  BY DEF SecretInv
<1>4. \A k \in DOMAIN operations' : \/ operations'[k] = new
                                    \/ k - 1 \in DOMAIN operations
                                       /\ operations'[k] = operations[k - 1]
  BY <1>1, <1>3
<1>5. ASSUME NEW k \in DOMAIN operations
      PROVE  operations[k].why \in {"switch", "set-up", "sticky"}
  <2>1. operations[k] \in Operations
    BY <1>3
  <2>2. operations[k].why # "local"
    <3>1. k = 1 => Top.portal = "waiting" /\ Top = operations[1]
      BY <1>3, <1>5 DEF Handles, Top
    <3> QED
      BY <1>5, <3>1 DEF SecretInv, AtHeadOnly
  <2> QED
    BY <2>1, <2>2 DEF Operations
<1>6. crossed' \subseteq {"switch", "set-up", "sticky"}
  BY <1>1, <1>5 DEF SecretRest
<1>7. ASSUME NEW k \in DOMAIN operations', operations'[k].goal = "store"
      PROVE  operations'[k].of \in Accounts
  BY <1>2, <1>4, <1>7 DEF SecretRest
<1> QED
  BY <1>1, <1>6, <1>7 DEF SecretRest

LEMMA UnwrittenTyped ==
    ASSUME SecretInv, operations # <<>>, NEW written \in BOOLEAN
    PROVE  Unwritten(Gets(written)) \subseteq Key
<1>1. Gets(written).key \in Key
  BY AcquiredTyped DEF Gets
<1> QED
  BY <1>1 DEF Unwritten

LEMMA SecretRestStep == SecretInv /\ SecretRest /\ [SecretNext]_secretVars => SecretRest'
<1> SUFFICES ASSUME SecretInv, SecretRest, [SecretNext]_secretVars PROVE SecretRest'
  OBVIOUS
<1> USE DEF secretVars
<1>1. ASSUME NEW a \in Accounts, SaveTokens(a) \/ Restore(a) PROVE SecretRest'
  BY <1>1, BeginRest DEF SaveTokens, Restore, Use
<1>2. ASSUME NEW goal \in {"toKeyring", "toDevice"}, MoveTo(goal) PROVE SecretRest'
  BY <1>2, BeginRest DEF MoveTo, Use
<1>3. ASSUME NEW i \in DOMAIN operations, NEW answer \in {"secret", "nothing"},
             PortalAnswers(i, answer)
      PROVE  SecretRest'
  <2>1. operations \in Seq(Operations) /\ operations[i] \in Operations
    BY DEF SecretInv
  <2>2. PICK new : new = [operations[i] EXCEPT !.portal = answer]
    OBVIOUS
  <2>3. new.goal = operations[i].goal /\ new.of = operations[i].of
    BY <2>1, <2>2 DEF Operations
  <2>4. /\ DOMAIN operations' = DOMAIN operations
        /\ \A k \in DOMAIN operations : operations'[k] = IF k = i THEN new ELSE operations[k]
    BY <1>3, <2>1, <2>2 DEF PortalAnswers
  <2>5. UNCHANGED <<running, crossed, lost, unsaved>>
    BY <1>3 DEF PortalAnswers
  <2> QED
    BY <2>3, <2>4, <2>5 DEF SecretRest
<1>4. CASE StoreReturns
  <2>1. operations # <<>> /\ Top.of \in Accounts
    BY <1>4, TopTyped DEF StoreReturns, Ready, SecretRest
  <2>2. PICK written \in BOOLEAN :
          LET got == Gets(written)
          IN  Writes(got.writes \o Stored(After(got.writes), Top.of, got.key), Unwritten(got), {},
                     /\ master' = got.key /\ session' = session
                     /\ unsaved' = IF got.key = NoKey THEN unsaved \cup {Top.of} ELSE unsaved \ {Top.of})
    BY <1>4 DEF StoreReturns
  <2>3. unsaved \cup {Top.of} \subseteq Accounts /\ unsaved \ {Top.of} \subseteq Accounts
    BY <2>1 DEF SecretRest
  <2>4. Unwritten(Gets(written)) \subseteq Key
    BY <2>1, UnwrittenTyped
  <2> QED
    BY <2>1, <2>2, <2>3, <2>4, WritesRest
<1>5. CASE RetrieveReturns
  <2>1. operations # <<>>
    BY <1>5 DEF RetrieveReturns, Ready
  <2>2. PICK written \in BOOLEAN :
          LET got == Gets(written)
          IN  Writes(got.writes \o Purged(After(got.writes), Top, got.key), Unwritten(got), {},
                     /\ master' = got.key /\ unsaved' = unsaved
                     /\ session' = IF got.key = Top.row THEN Top.of ELSE session)
    BY <1>5 DEF RetrieveReturns
  <2>3. Unwritten(Gets(written)) \subseteq Key /\ unsaved \subseteq Accounts
    BY <2>1, UnwrittenTyped DEF SecretRest
  <2> QED
    BY <2>1, <2>2, <2>3, WritesRest
<1>6. CASE ToDeviceReturns
  <2>1. operations # <<>> /\ unsaved \subseteq Accounts
    BY <1>6 DEF ToDeviceReturns, Ready, SecretRest
  <2> DEFINE got == Gets(TRUE)
             key == IF got.key = NoKey THEN Fresh ELSE got.key
  <2>2. CASE Writes(SavedAgain(got.writes \o ToDevice(After(got.writes), got.key), key),
                    {}, {PortalKey} \ {key},
                    master' = key /\ session' = session /\ unsaved' = unsaved \ {session})
    <3>1. {PortalKey} \ {key} \subseteq Key /\ unsaved \ {session} \subseteq Accounts
      BY <2>1, KeysTyped
    <3> HIDE DEF got, key
    <3> QED
      BY <2>1, <2>2, <3>1, WritesRest
  <2>3. ASSUME NEW file,
               Writes(got.writes \o <<[After(got.writes) EXCEPT !.keyFile = file]>>, {}, {},
                      master' = got.key /\ session' = session /\ unsaved' = unsaved)
        PROVE  SecretRest'
    <3> HIDE DEF got
    <3> QED
      BY <2>1, <2>3, WritesRest
  <2> QED
    BY <1>6, <2>2, <2>3 DEF ToDeviceReturns
<1>7. CASE ToKeyringReturns
  <2>1. operations # <<>>
    BY <1>7 DEF ToKeyringReturns, Ready
  <2>2. PICK written \in BOOLEAN, answer \in {"secret", "nothing"} :
          LET got == Acquired(IF master # NoKey THEN "local" ELSE Asks, answer, written)
          IN  Writes(SavedAgain(got.writes \o ToKeyring(After(got.writes), got.key), PortalKey),
                     {}, {got.key} \ {PortalKey},
                     master' = PortalKey /\ session' = session /\ unsaved' = unsaved \ {session})
    BY <1>7 DEF ToKeyringReturns
  <2>3. Acquired(IF master # NoKey THEN "local" ELSE Asks, answer, written).key \in Key
    BY <2>1, AcquiredTyped
  <2>4. unsaved \ {session} \subseteq Accounts
    BY DEF SecretRest
  <2> QED
    BY <2>1, <2>2, <2>3, <2>4, WritesRest
<1>8. CASE ToKeyringRefused
  <2>1. operations' = Tail(operations) /\ operations # <<>> /\ UNCHANGED <<running, crossed, lost, unsaved>>
    BY <1>8 DEF ToKeyringRefused, Ready
  <2>2. operations \in Seq(Operations)
    BY DEF SecretInv
  <2>3. \A k \in DOMAIN operations' : k + 1 \in DOMAIN operations /\ operations'[k] = operations[k + 1]
    BY <2>1, <2>2
  <2> QED
    BY <2>1, <2>3 DEF SecretRest
<1>9. CASE Killed
  <2>1. DOMAIN operations' = {} /\ running' = FALSE /\ UNCHANGED <<crossed, lost, unsaved>>
    BY <1>9 DEF Killed
  <2> QED
    BY <2>1 DEF SecretRest
<1>10. CASE SignOut \/ Launched \/ UNCHANGED secretVars
  <2>1. UNCHANGED <<operations, crossed, lost, unsaved>> /\ running' \in {running, TRUE}
    BY <1>10 DEF SignOut, Launched
  <2> QED
    BY <2>1 DEF SecretRest
<1> QED
  BY <1>1, <1>2, <1>3, <1>4, <1>5, <1>6, <1>7, <1>8, <1>9, <1>10 DEF SecretNext

LEMMA SecretTypes == SecretSpec => []SecretTypeOK
<1>1. SecretInit => SecretInv /\ SecretRest
  BY SecretAssumption
     DEF SecretInit, SecretInv, SecretRest, Disks, Providers, Key, Keys, OldKey, NoRows
<1> QED
  BY <1>1, SecretStep, SecretRestStep, SecretTyped, PTL DEF SecretSpec

\* A behaviour of the four side by side is one of each.
LEMMA FourInOne == Spec => BookmarkSpec /\ CoverSpec /\ SecretSpec /\ InstanceSpec
<1>1. Init => BookmarkInit /\ CoverInit /\ SecretInit /\ InstanceInit
  BY DEF Init
<1>2. [Next]_<<scene, bookmarkVars, coverVars, secretVars, instanceVars>> =>
        /\ [BookmarkNext]_bookmarkVars /\ [CoverNext]_coverVars
        /\ [SecretNext]_secretVars /\ [InstanceNext]_instanceVars
  BY DEF Next, Bookmarking, Covering, Keeping, Launching
<1> QED
  BY <1>1, <1>2, PTL DEF Spec, BookmarkSpec, CoverSpec, SecretSpec, InstanceSpec

\* BookmarkStore, CoverCache, SecureStore, SingleInstanceGuard: the state of each keeps
\* its types; of SecureStore because nothing begins unless the operations open wait.
THEOREM LocalTypes == Spec => []LocalTypeOK
  BY FourInOne, BookmarkTypes, CoverTypes, SecretTypes, InstanceTypes, PTL DEF LocalTypeOK
=============================================================================
