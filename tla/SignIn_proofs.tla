----------------------------- MODULE SignIn_proofs -----------------------------
(***************************************************************************)
(* Signing in, for any servers, accounts and bounds: the types, that one   *)
(* refresh serves all that wait, that saved tokens stay with their server, *)
(* that who is signed in can be restored, and the ways out of that state.  *)
(*                                                                         *)
(* The step that keeps saved tokens at home is the change of server: it    *)
(* takes every request in flight with it.  Hence what is in flight is for  *)
(* the server of the moment, and while a request is in flight whose reply  *)
(* saves the tokens held, those are of that server, although a restore     *)
(* that fails may leave the tokens of one server with the client of        *)
(* another.  The last two hold of a user who is not overtaken, by an       *)
(* invariant stated further down, where they are proved.                   *)
(***************************************************************************)
EXTENDS SignIn, TLAPS

\* PointedAt()
Clients == [server : Servers, state : States, oidc : BOOLEAN, flying : SUBSET Requests,
            waiting : SUBSET Requests, refreshing : BOOLEAN]

\* Requests in flight and waiting at a client that points at s.
Directed(s, fl, wt) == \A r \in fl \cup wt : r.to = s

OneRefreshFor(fl, wt, rf) ==
    /\ rf <=> SomeKind(fl, {"refresh"})
    /\ \A q, r \in fl : q.kind = "refresh" /\ r.kind = "refresh" => q = r
    /\ wt # {} => rf
    /\ \A r \in wt : r.kind # "refresh"

\* What is in flight whose reply saves the tokens held.
Verified(s, fl, wt, pair) ==
    \A r \in fl \cup wt : r.kind \in {"authorize", "restore"} => pair = NoTokens \/ pair.at = s

Consistent(w) == Directed(w.server, w.flying, w.waiting)
                 /\ OneRefreshFor(w.flying, w.waiting, w.refreshing)

\* Whoever can send has a server to send to.
Somewhere ==
    /\ methods \/ oidc \/ state = "Authenticated" \/ suspended # NoRestore => server \in Servers
    /\ retry \/ suspended # NoRestore => restore \in Servers

InFlight == Directed(server, flying, waiting) /\ OneRefreshFor(flying, waiting, refreshing)

Inv == TypeOK /\ Somewhere /\ InFlight

AtHome ==
    /\ suspended = NoRestore
    /\ SavedTokensAreHome
    /\ Verified(server, flying, waiting, tokens)
-----------------------------------------------------------------------------
\* The calls the handlers are made of: what they return and what they keep.

LEMMA RequestMade ==
    ASSUME NEW kind \in Kinds, NEW f \in 0 .. MaxFlows + MaxCalls, NEW s \in Servers,
           NEW b \in Pairs \cup Servers \cup {NoTokens}
    PROVE  /\ Request(kind, f, s, b) \in Requests
           /\ Request(kind, f, s, b).kind = kind /\ Request(kind, f, s, b).to = s
           /\ Request(kind, f, s, b).bears = b
BY DEF Request, Requests

LEMMA FlowFits ==
    /\ \A n \in 0 .. MaxFlows : n \in 0 .. MaxFlows + MaxCalls
    /\ \A n \in 0 .. MaxCalls : n \in 0 .. MaxFlows + MaxCalls
BY SignInAssumption DEF SignInAssumption

\* setBaseUrl(): the client pointed at a server keeps only requests to it.
LEMMA PointedAtConsistent ==
    ASSUME TypeOK, InFlight, NEW s \in Servers
    PROVE  /\ PointedAt(s) \in Clients /\ PointedAt(s).server = s /\ Consistent(PointedAt(s))
           /\ Verified(server, flying, waiting, tokens) =>
                Verified(s, PointedAt(s).flying, PointedAt(s).waiting, tokens)
<1>1. CASE s = server
  <2>1. PointedAt(s) = [server |-> s, state |-> state, oidc |-> oidc, flying |-> flying,
                        waiting |-> waiting, refreshing |-> refreshing]
    BY <1>1 DEF PointedAt, KeptAcross
  <2>2. PointedAt(s) \in Clients
    BY <2>1 DEF TypeOK, Clients
  <2> QED
    BY <1>1, <2>1, <2>2 DEF InFlight, Consistent
<1>2. CASE s # server
  <2> DEFINE st == IF SomeKind(waiting, {"restore"}) THEN "NeedsLogin" ELSE state
             oi == oidc /\ ~SomeKind(flying \cup waiting, {"openid", "exchange"})
  <2>1. PointedAt(s) = [server |-> s, state |-> st, oidc |-> oi, flying |-> {},
                        waiting |-> {}, refreshing |-> FALSE]
    BY <1>2 DEF PointedAt
  <2>2. st \in States
    BY DEF TypeOK, States
  <2>3. oi \in BOOLEAN
    OBVIOUS
  <2> HIDE DEF st, oi
  <2>4. PointedAt(s) \in Clients
    BY <2>1, <2>2, <2>3 DEF Clients
  <2>5. Directed(s, {}, {}) /\ OneRefreshFor({}, {}, FALSE) /\ Verified(s, {}, {}, tokens)
    BY DEF Directed, OneRefreshFor, Verified, SomeKind
  <2>6. /\ PointedAt(s).server = s /\ PointedAt(s).flying = {}
        /\ PointedAt(s).waiting = {} /\ PointedAt(s).refreshing = FALSE
    BY <2>1
  <2> QED
    BY <2>4, <2>5, <2>6 DEF Consistent
<1> QED
  BY <1>1, <1>2

\* A client in a consistent state, and what it sends.
LEMMA Adopted ==
    ASSUME NEW w \in Clients, NEW sent \in SUBSET Requests, Adopts(w, sent),
           Directed(w.server, w.flying, w.waiting), Directed(w.server, sent, {}),
           OneRefreshFor(w.flying \cup sent, w.waiting, w.refreshing)
    PROVE  /\ server' \in Servers /\ oidc' \in BOOLEAN
           /\ flying' \in SUBSET Requests /\ waiting' \in SUBSET Requests
           /\ refreshing' \in BOOLEAN
           /\ InFlight'
<1>1. w.server \in Servers /\ w.oidc \in BOOLEAN /\ w.flying \in SUBSET Requests
      /\ w.waiting \in SUBSET Requests /\ w.refreshing \in BOOLEAN
  BY DEF Clients
<1>2. Directed(w.server, w.flying \cup sent, w.waiting)
  BY DEF Directed
<1> QED
  BY <1>1, <1>2 DEF Adopts, InFlight

\* Sending anything but a refresh.
LEMMA OtherSent ==
    ASSUME NEW fl, NEW wt, NEW rf, NEW sent, OneRefreshFor(fl, wt, rf),
           ~SomeKind(sent, {"refresh"})
    PROVE  OneRefreshFor(fl \cup sent, wt, rf)
<1>1. SomeKind(fl \cup sent, {"refresh"}) <=> SomeKind(fl, {"refresh"})
  BY DEF SomeKind
<1>2. \A q \in sent : q.kind # "refresh"
  BY DEF SomeKind
<1> QED
  BY <1>1, <1>2 DEF OneRefreshFor

\* A reply to anything but a refresh.
LEMMA OtherGone ==
    ASSUME NEW fl, NEW wt, NEW rf, NEW r, OneRefreshFor(fl, wt, rf), r.kind # "refresh"
    PROVE  OneRefreshFor(fl \ {r}, wt, rf)
<1>1. SomeKind(fl \ {r}, {"refresh"}) <=> SomeKind(fl, {"refresh"})
  BY DEF SomeKind
<1> QED
  BY <1>1 DEF OneRefreshFor

\* The last refresh answered, with nothing left to wait.
LEMMA RefreshGone ==
    ASSUME NEW fl, NEW wt, NEW rf, NEW r \in fl, OneRefreshFor(fl, wt, rf),
           r.kind = "refresh"
    PROVE  OneRefreshFor(fl \ {r}, {}, FALSE)
<1>1. ~SomeKind(fl \ {r}, {"refresh"})
  BY DEF SomeKind, OneRefreshFor
<1> QED
  BY <1>1 DEF OneRefreshFor, SomeKind

\* refresh(): one more waits.
LEMMA RenewalSent ==
    ASSUME NEW w \in Clients, NEW f \in 0 .. MaxFlows + MaxCalls,
           NEW pair \in Pairs \cup {NoTokens}, NEW fl, NEW wt, NEW more,
           OneRefreshFor(fl, wt, w.refreshing), ~SomeKind(more, {"refresh"})
    PROVE  /\ Renewal(w, f, pair) \in SUBSET Requests
           /\ Directed(w.server, Renewal(w, f, pair), {})
           /\ \A r \in Renewal(w, f, pair) : r.kind = "refresh"
           /\ OneRefreshFor(fl \cup Renewal(w, f, pair), wt \cup more, TRUE)
<1> DEFINE req == [Request("refresh", f, w.server, pair) EXCEPT !.again = TRUE]
<1>1. w.server \in Servers /\ w.refreshing \in BOOLEAN
  BY DEF Clients
<1> DEFINE base == Request("refresh", f, w.server, pair)
<1>2. base = [kind |-> "refresh", flow |-> f, to |-> w.server, bears |-> pair, again |-> FALSE]
  BY DEF Request
<1>3. req \in Requests /\ req.kind = "refresh" /\ req.to = w.server
  <2>1. req = [base EXCEPT !.again = TRUE]
    OBVIOUS
  <2> HIDE DEF base, req
  <2>2. base \in Requests /\ base.kind = "refresh" /\ base.to = w.server
    BY <1>1, <1>2 DEF Requests, Kinds
  <2> QED
    BY <2>1, <2>2 DEF Requests
<1>4. Renewal(w, f, pair) = IF w.refreshing THEN {} ELSE {req}
  BY DEF Renewal, OwnRenewal
<1> HIDE DEF req
<1>5. OneRefreshFor(fl \cup Renewal(w, f, pair), wt \cup more, TRUE)
  <2>1. CASE w.refreshing
    BY <1>4, <2>1 DEF OneRefreshFor, SomeKind
  <2>2. CASE ~w.refreshing
    BY <1>3, <1>4, <2>2 DEF OneRefreshFor, SomeKind
  <2> QED
    BY <1>1, <2>1, <2>2
<1> QED
  BY <1>3, <1>4, <1>5 DEF Directed

\* What a handler of SignIn leaves of a well-typed state it changes.
TypesAfter ==
    /\ state' \in States /\ account' \in Accounts \cup {NoAccount}
    /\ tokens' \in Pairs \cup {NoTokens}
    /\ server' \in Servers /\ oidc' \in BOOLEAN
    /\ flying' \in SUBSET Requests /\ waiting' \in SUBSET Requests /\ refreshing' \in BOOLEAN
    /\ retry' \in BOOLEAN /\ attempts' \in 0 .. KeyringRetries
    /\ InFlight'

\* persist()
LEMMA PersistKeeps ==
    ASSUME TypeOK, NEW pair \in Pairs \cup {NoTokens}, NEW owner \in Accounts \cup {NoAccount},
           Persist(pair, owner)
    PROVE  /\ saved' \in [Servers -> Blobs \cup {NoBlob}] /\ unlocked' \in BOOLEAN
           /\ SavedTokensAreHome /\ (pair = NoTokens \/ pair.at = server) => SavedTokensAreHome'
<1> DEFINE blob == [tokens |-> pair, account |-> owner]
<1>1. blob \in Blobs /\ blob.tokens = pair
  BY DEF Blobs
<1>2. saved' = saved \/ saved' = [saved EXCEPT ![server] = blob]
  BY DEF Persist
<1>3. unlocked' \in BOOLEAN
  BY DEF Persist, TypeOK
<1> HIDE DEF blob
<1>4. saved' \in [Servers -> Blobs \cup {NoBlob}]
  BY <1>1, <1>2 DEF TypeOK
<1>5. ASSUME SavedTokensAreHome, pair = NoTokens \/ pair.at = server PROVE SavedTokensAreHome'
  BY <1>1, <1>2, <1>5 DEF SavedTokensAreHome, TypeOK
<1> QED
  BY <1>3, <1>4, <1>5

\* Tokens removed from the disk.
LEMMA ForgottenHome ==
    ASSUME TypeOK, NEW s, saved' = [saved EXCEPT ![s] = NoBlob]
    PROVE  /\ saved' \in [Servers -> Blobs \cup {NoBlob}]
           /\ SavedTokensAreHome => SavedTokensAreHome'
BY DEF TypeOK, SavedTokensAreHome

LEMMA FailedKeeps ==
    ASSUME TypeOK, NEW rs, NEW before \in States, Failed(rs, before)
    PROVE  /\ state' \in States /\ oidc' \in BOOLEAN
           /\ tokens' \in Pairs \cup {NoTokens} /\ tokens' \in {tokens, NoTokens}
           /\ saved' \in [Servers -> Blobs \cup {NoBlob}]
           /\ state' = "Authenticated" => before = "Authenticated"
           /\ SavedTokensAreHome => SavedTokensAreHome'
<1>1. state' = before \/ state' \in {"Error", "NeedsLogin"}
  BY DEF Failed, Outcome
<1>2. tokens' \in {tokens, NoTokens}
  BY DEF Failed
<1>3. saved' = saved \/ saved' = [saved EXCEPT ![server] = NoBlob]
  BY DEF Failed
<1>4. oidc' \in BOOLEAN
  BY DEF Failed
<1>5. saved' = saved => saved' \in [Servers -> Blobs \cup {NoBlob}]
                        /\ (SavedTokensAreHome => SavedTokensAreHome')
  BY DEF TypeOK, SavedTokensAreHome
<1> QED
  BY <1>1, <1>2, <1>3, <1>4, <1>5, ForgottenHome DEF TypeOK, States

LEMMA ChecksKeeps ==
    ASSUME NEW w \in Clients, Consistent(w), NEW f \in 0 .. MaxFlows, Checks(w, f)
    PROVE  /\ TypesAfter /\ ~retry' /\ state' # "Authenticated" /\ tokens' = NoTokens
           /\ server' = w.server
<1> DEFINE req == Request("status", f, w.server, NoTokens)
<1>1. w.server \in Servers
  BY DEF Clients
<1>2. req \in Requests /\ req.kind = "status" /\ req.to = w.server
  BY <1>1, FlowFits, RequestMade DEF Kinds
<1>3. Adopts(w, {req}) /\ tokens' = NoTokens /\ account' = NoAccount /\ state' = "Checking"
      /\ retry' = FALSE /\ attempts' = 0
  BY DEF Checks, StopWaiting
<1> HIDE DEF req
<1>4. /\ ~SomeKind({req}, {"refresh"}) /\ Directed(w.server, {req}, {})
      /\ Directed(w.server, w.flying, w.waiting)
  BY <1>2 DEF SomeKind, Directed, Consistent
<1>5. OneRefreshFor(w.flying \cup {req}, w.waiting, w.refreshing)
  BY <1>4, OtherSent DEF Consistent
<1>6. /\ server' \in Servers /\ oidc' \in BOOLEAN
      /\ flying' \in SUBSET Requests /\ waiting' \in SUBSET Requests
      /\ refreshing' \in BOOLEAN
      /\ InFlight'
  <2>1. {req} \in SUBSET Requests
    BY <1>2
  <2> QED
    BY <1>3, <1>4, <1>5, <2>1, Adopted
<1>7. 0 \in 0 .. KeyringRetries
  BY SignInAssumption DEF SignInAssumption
<1> QED
  BY <1>3, <1>6, <1>7 DEF TypesAfter, States, Adopts

\* A client nothing more is sent from.
LEMMA AdoptedAsIs ==
    ASSUME NEW w \in Clients, Consistent(w), Adopts(w, {})
    PROVE  /\ server' \in Servers /\ oidc' \in BOOLEAN
           /\ flying' \in SUBSET Requests /\ waiting' \in SUBSET Requests
           /\ refreshing' \in BOOLEAN
           /\ InFlight'
<1>1. ~SomeKind({}, {"refresh"}) /\ Directed(w.server, {}, {})
  BY DEF SomeKind, Directed
<1>2. OneRefreshFor(w.flying \cup {}, w.waiting, w.refreshing)
  BY <1>1, OtherSent DEF Consistent
<1> QED
  BY <1>1, <1>2, Adopted DEF Consistent

LEMMA WaitForKeyringKeeps ==
    ASSUME NEW n \in 0 .. KeyringRetries, WaitForKeyring(n)
    PROVE  /\ retry' \in BOOLEAN /\ attempts' \in 0 .. KeyringRetries
           /\ state' \in {"Authenticating", "NeedsLogin"}
<1>1. KeyringRetries \in Nat
  BY SignInAssumption DEF SignInAssumption
<1>2. CASE n < KeyringRetries
  <2>1. retry' = TRUE /\ attempts' = n + 1 /\ state' = "Authenticating"
    BY <1>2 DEF WaitForKeyring
  <2>2. n + 1 \in 0 .. KeyringRetries
    BY <1>1, <1>2
  <2>3. retry' \in BOOLEAN
    BY <2>1
  <2> QED
    BY <2>1, <2>2, <2>3
<1>3. CASE ~(n < KeyringRetries)
  <2>1. retry' = FALSE /\ attempts' = 0 /\ state' = "NeedsLogin"
    BY <1>3 DEF WaitForKeyring, StopWaiting
  <2>2. 0 \in 0 .. KeyringRetries
    BY <1>1
  <2> QED
    BY <1>1, <2>1, <2>2
<1> QED
  BY <1>2, <1>3

LEMMA ForgoesKeeps ==
    ASSUME TypeOK, InFlight, NEW w \in Clients, Consistent(w), NEW q \in Restores,
           NEW holder \in Accounts \cup {NoAccount}, NEW f \in 0 .. MaxFlows,
           NEW st \in States, NEW pair \in Pairs \cup {NoTokens},
           Forgoes(w, q, holder, f, st, pair)
    PROVE  TypesAfter /\ ~retry'
<1>1. CASE q.from = "user"
  <2> DEFINE x == IF w.server = q.server THEN w ELSE PointedAt(q.server)
  <2>1. q.server \in Servers
    BY DEF Restores
  <2>2. x \in Clients /\ Consistent(x)
    BY <2>1, PointedAtConsistent
  <2>3. Checks(x, f)
    BY <1>1 DEF Forgoes
  <2> HIDE DEF x
  <2> QED
    BY <2>2, <2>3, ChecksKeeps
<1>2. CASE q.from # "user"
  <2>1. /\ Adopts(w, {}) /\ account' = holder /\ tokens' = pair
        /\ state' \in {"NeedsLogin", st} /\ retry' = FALSE /\ attempts' = 0
    BY <1>2 DEF Forgoes, StopWaiting
  <2>2. 0 \in 0 .. KeyringRetries
    BY SignInAssumption DEF SignInAssumption
  <2> QED
    BY <2>1, <2>2, AdoptedAsIs DEF TypesAfter, States
<1> QED
  BY <1>1, <1>2

\* attemptRestore() with tokens: verified at once, or refreshed first.
LEMMA EntersKeeps ==
    ASSUME NEW w \in Clients, Consistent(w), NEW f \in 0 .. MaxFlows, NEW pair \in Pairs,
           NEW holder \in Accounts \cup {NoAccount}, account' = holder, Enters(w, f, pair)
    PROVE  TypesAfter /\ ~retry' /\ server' = w.server /\ tokens' = pair
<1> DEFINE auth == Request("authorize", f, w.server, pair)
           rest == Request("restore", f, w.server, pair)
           x    == [w EXCEPT !.waiting = @ \cup {rest}, !.refreshing = TRUE]
<1>1. w.server \in Servers /\ w.oidc \in BOOLEAN /\ w.flying \in SUBSET Requests
      /\ w.waiting \in SUBSET Requests
  BY DEF Clients
<1>2. /\ auth \in Requests /\ auth.kind = "authorize" /\ auth.to = w.server
      /\ rest \in Requests /\ rest.kind = "restore" /\ rest.to = w.server
  BY <1>1, FlowFits, RequestMade DEF Kinds
<1>3. /\ state' = "Authenticating" /\ tokens' = pair /\ retry' = FALSE /\ attempts' = 0
      /\ Adopts(w, {auth}) \/ Adopts(x, Renewal(w, f, pair))
  BY DEF Enters, StopWaiting
<1>4. f \in 0 .. MaxFlows + MaxCalls
  BY FlowFits
<1>5. 0 \in 0 .. KeyringRetries
  BY SignInAssumption DEF SignInAssumption
<1>6. x \in Clients /\ x.server = w.server /\ x.flying = w.flying
      /\ x.waiting = w.waiting \cup {rest} /\ x.refreshing = TRUE
  <2> HIDE DEF rest
  <2> QED
    BY <1>2 DEF Clients
<1> HIDE DEF auth, rest, x
<1>7. CASE Adopts(w, {auth})
  <2>1. /\ ~SomeKind({auth}, {"refresh"}) /\ Directed(w.server, {auth}, {})
        /\ Directed(w.server, w.flying, w.waiting)
    BY <1>2 DEF SomeKind, Directed, Consistent
  <2>2. OneRefreshFor(w.flying \cup {auth}, w.waiting, w.refreshing)
    BY <2>1, OtherSent DEF Consistent
  <2>3. {auth} \in SUBSET Requests
    BY <1>2
  <2>4. /\ server' \in Servers /\ oidc' \in BOOLEAN
        /\ flying' \in SUBSET Requests /\ waiting' \in SUBSET Requests
        /\ refreshing' \in BOOLEAN
        /\ InFlight'
    BY <1>7, <2>1, <2>2, <2>3, Adopted
  <2> QED
    BY <1>3, <1>5, <1>7, <2>4 DEF TypesAfter, States, Adopts
<1>8. CASE Adopts(x, Renewal(w, f, pair))
  <2> DEFINE sent == Renewal(w, f, pair)
  <2>1. /\ sent \in SUBSET Requests /\ Directed(w.server, sent, {})
        /\ OneRefreshFor(w.flying \cup sent, w.waiting \cup {rest}, TRUE)
    <3>1. OneRefreshFor(w.flying, w.waiting, w.refreshing)
      BY DEF Consistent
    <3>2. pair \in Pairs \cup {NoTokens}
      OBVIOUS
    <3>3. ~SomeKind({rest}, {"refresh"})
      BY <1>2 DEF SomeKind
    <3> QED
      BY <1>4, <3>1, <3>2, <3>3, RenewalSent
  <2> HIDE DEF sent
  <2>2. Directed(x.server, x.flying, x.waiting) /\ Directed(x.server, sent, {})
        /\ OneRefreshFor(x.flying \cup sent, x.waiting, x.refreshing)
    BY <1>2, <1>6, <2>1 DEF Directed, Consistent
  <2>3. Adopts(x, sent)
    BY <1>8 DEF sent
  <2>4. /\ server' \in Servers /\ oidc' \in BOOLEAN
        /\ flying' \in SUBSET Requests /\ waiting' \in SUBSET Requests
        /\ refreshing' \in BOOLEAN
        /\ InFlight'
    BY <1>6, <2>1, <2>2, <2>3, Adopted
  <2> QED
    BY <1>3, <1>5, <1>6, <2>3, <2>4 DEF TypesAfter, States, Adopts
<1> QED
  BY <1>3, <1>7, <1>8

\* load() and what attemptRestore() makes of it.
LEMMA LoadsKeeps ==
    ASSUME TypeOK, InFlight, NEW w \in Clients, Consistent(w), NEW q \in Restores,
           NEW holder \in Accounts \cup {NoAccount}, NEW f \in 0 .. MaxFlows,
           NEW n \in 0 .. KeyringRetries, NEW mayFail \in BOOLEAN,
           Loads(w, q, holder, f, n, mayFail)
    PROVE  /\ TypesAfter
           /\ saved' \in [Servers -> Blobs \cup {NoBlob}] /\ unlocked' \in BOOLEAN
<1>1. /\ w.state \in States /\ tokens \in Pairs \cup {NoTokens} /\ "NeedsLogin" \in States
      /\ NoTokens \in Pairs \cup {NoTokens} /\ saved \in [Servers -> Blobs \cup {NoBlob}]
      /\ unlocked \in BOOLEAN /\ q.blob \in Blobs \cup {NoBlob}
  BY DEF Clients, TypeOK, States, Restores
<1>2. CASE /\ Forgoes(w, q, holder, f, w.state, tokens)
           /\ UNCHANGED <<saved, unlocked>>
  BY <1>1, <1>2, ForgoesKeeps
<1>3. CASE /\ unlocked' = FALSE
           /\ Adopts(w, {})
           /\ account' = holder
           /\ WaitForKeyring(n)
           /\ UNCHANGED <<tokens, saved>>
  BY <1>1, <1>3, AdoptedAsIs, WaitForKeyringKeeps DEF TypesAfter, States
<1>4. CASE /\ unlocked' = TRUE
           /\ saved' = [saved EXCEPT ![w.server] = NoBlob]
           /\ Forgoes(w, q, holder, f, "NeedsLogin", tokens)
  BY <1>1, <1>4, ForgoesKeeps, ForgottenHome
<1>5. CASE /\ unlocked' = TRUE /\ UNCHANGED saved
           /\ Forgoes(w, q, holder, f, w.state, NoTokens)
  BY <1>1, <1>5, ForgoesKeeps
<1>6. CASE /\ unlocked' = TRUE /\ UNCHANGED saved
           /\ q.blob # NoBlob /\ q.blob.tokens # NoTokens
           /\ account' = holder /\ Enters(w, f, q.blob.tokens)
  <2>1. q.blob.tokens \in Pairs
    BY <1>1, <1>6 DEF Blobs
  <2> QED
    BY <1>1, <1>6, <2>1, EntersKeeps
<1> QED
  BY <1>2, <1>3, <1>4, <1>5, <1>6 DEF Loads

\* attemptRestore(): the same, and the portal may be left to answer.
LEMMA AttemptKeeps ==
    ASSUME TypeOK, InFlight, NEW s \in Servers, NEW from \in {"user", "retry", "boot"},
           NEW f \in 0 .. MaxFlows, NEW n \in 0 .. KeyringRetries, Attempt(s, from, f, n)
    PROVE  /\ TypesAfter
           /\ saved' \in [Servers -> Blobs \cup {NoBlob}] /\ unlocked' \in BOOLEAN
           /\ suspended' \in Restores \cup {NoRestore}
           /\ PortalPrompts \/ suspended' = suspended
<1> DEFINE w == PointedAt(s)
           q == [server |-> s, blob |-> saved[s], account |-> rows[s], from |-> from]
<1>1. w \in Clients /\ Consistent(w) /\ w.server = s
  BY PointedAtConsistent
<1>2. q \in Restores /\ q.account \in Accounts \cup {NoAccount}
  BY DEF TypeOK, Restores
<1>3. CASE /\ PortalPrompts
           /\ suspended' = q
           /\ Adopts(w, {})
           /\ state' = w.state /\ account' = q.account
           /\ retry' = FALSE /\ attempts' = n
           /\ UNCHANGED <<tokens, saved, unlocked>>
  <2> HIDE DEF w, q
  <2>1. w.state \in States
    BY <1>1 DEF Clients
  <2> QED
    BY <1>1, <1>2, <1>3, <2>1, AdoptedAsIs DEF TypesAfter, TypeOK
<1>4. CASE Loads(w, q, q.account, f, n, ~unlocked) /\ UNCHANGED suspended
  <2> HIDE DEF w, q
  <2>1. (~unlocked) \in BOOLEAN /\ suspended \in Restores \cup {NoRestore}
    BY DEF TypeOK
  <2> QED
    BY <1>1, <1>2, <1>4, <2>1, LoadsKeeps
<1> QED
  BY <1>3, <1>4 DEF Attempt

LEMMA OvertakesTyped ==
    ASSUME NEW w, NEW scheduled, Overtakes(w, scheduled)
    PROVE  overtaken' \in BOOLEAN /\ signedOut' \in BOOLEAN
BY DEF Overtakes
-----------------------------------------------------------------------------
\* Every handler keeps the invariant.

LEMMA InvInit == Init => Inv
<1> SUFFICES ASSUME Init PROVE Inv
  OBVIOUS
<1>1. PICK owner \in [Servers -> Accounts \cup {NoAccount}] :
        /\ rows = owner
        /\ saved = [s \in Servers |-> IF owner[s] = NoAccount THEN NoBlob ELSE
                      [tokens  |-> [at |-> s, owner |-> owner[s], turn |-> 0],
                       account |-> owner[s]]]
        /\ recent \in Servers \cup {NoServer}
  BY DEF Init
<1>2. saved \in [Servers -> Blobs \cup {NoBlob}]
  <2>1. ASSUME NEW s \in Servers, owner[s] # NoAccount
        PROVE  [tokens  |-> [at |-> s, owner |-> owner[s], turn |-> 0], account |-> owner[s]]
                 \in Blobs
    BY <2>1 DEF Blobs, Pairs
  <2> QED
    BY <1>1, <2>1
<1>3. 0 \in 0 .. MaxFlows /\ 0 \in 0 .. MaxCalls /\ 0 \in 0 .. KeyringRetries /\ 1 \in 0 .. MaxRuns
  BY SignInAssumption DEF SignInAssumption
<1>4. runs = 1 /\ flow = 0 /\ calls = 0 /\ handoff = 0 /\ attempts = 0
  BY DEF Init
<1>5. TypeOK
  BY <1>1, <1>2, <1>3, <1>4 DEF Init, TypeOK, States
<1> QED
  BY <1>5 DEF Inv, Init, Somewhere, oidcVars, InFlight, Directed, OneRefreshFor, SomeKind

\* main(): the restore at the start.
LEMMA BootKeeps == ASSUME Inv, Boot PROVE Inv'
<1>1. TypeOK /\ Somewhere /\ InFlight
  BY DEF Inv
<1>2. CASE recent = NoServer \/ flow = MaxFlows
  <2>1. booted' = TRUE /\ UNCHANGED <<state, server, account, tokens, netVars, oidcVars,
                                      keyringVars, saved, serverRows, portalVars, methods, calls,
                                      runs, flow, historyVars>>
    BY <1>2 DEF Boot, oidcVars
  <2> QED
    BY <1>1, <2>1 DEF Inv, TypeOK, Somewhere, oidcVars, InFlight, netVars, oidcVars, keyringVars,
                      serverRows, portalVars, historyVars
<1>3. CASE ~(recent = NoServer \/ flow = MaxFlows)
  <2>1. /\ flow' = flow + 1 /\ restore' = recent /\ Attempt(recent, "boot", flow + 1, 0)
        /\ booted' = TRUE
        /\ UNCHANGED <<handoff, oidcTimer, browser, serverRows, methods, calls, runs,
                       historyVars>>
    BY <1>3 DEF Boot
  <2>2. recent \in Servers
    BY <1>1, <1>3 DEF TypeOK
  <2>3. flow + 1 \in 0 .. MaxFlows /\ 0 \in 0 .. KeyringRetries
    BY <1>1, <1>3, SignInAssumption DEF TypeOK, SignInAssumption
  <2>4. /\ TypesAfter
        /\ saved' \in [Servers -> Blobs \cup {NoBlob}] /\ unlocked' \in BOOLEAN
        /\ suspended' \in Restores \cup {NoRestore}
    BY <1>1, <2>1, <2>2, <2>3, AttemptKeeps
  <2>5. TypeOK'
    BY <1>1, <2>1, <2>2, <2>3, <2>4 DEF TypeOK, TypesAfter, serverRows, historyVars
  <2> QED
    BY <2>1, <2>2, <2>4, <2>5 DEF Inv, Somewhere, TypesAfter
<1> QED
  BY <1>2, <1>3

LEMMA KilledKeeps ==
    ASSUME Inv, Killed, saved' \in [Servers -> Blobs \cup {NoBlob}]
    PROVE  Inv'
<1>1. TypeOK
  BY DEF Inv
<1>2. 0 \in 0 .. MaxFlows /\ 0 \in 0 .. KeyringRetries /\ runs + 1 \in 0 .. MaxRuns
  BY <1>1, SignInAssumption DEF SignInAssumption, TypeOK, Killed
<1>3. TypeOK'
  BY <1>1, <1>2 DEF TypeOK, Killed, StopWaiting, States, serverRows
<1>4. InFlight' /\ Somewhere'
  BY DEF Killed, StopWaiting, InFlight, Directed, OneRefreshFor, SomeKind, Somewhere
<1> QED
  BY <1>3, <1>4 DEF Inv

\* The kill inside authorizeAndFinish() saves what is held.
LEMMA KilledSaves ==
    ASSUME Inv, NEW r \in flying, AuthorizeKilled(r)
    PROVE  saved' \in [Servers -> Blobs \cup {NoBlob}]
<1>1. [tokens |-> tokens, account |-> r.bears.owner] \in Blobs
  BY DEF AuthorizeKilled, Inv, TypeOK, Pairs, Blobs
<1> QED
  BY <1>1 DEF AuthorizeKilled, Inv, TypeOK

LEMMA KillStepKeeps == ASSUME Inv, KillStep PROVE Inv'
<1>1. CASE Restart
  BY <1>1, KilledKeeps DEF Restart, Inv, TypeOK
<1>2. ASSUME NEW r \in flying, AuthorizeKilled(r) PROVE Inv'
  BY <1>2, KilledKeeps, KilledSaves DEF AuthorizeKilled
<1> QED
  BY <1>1, <1>2 DEF KillStep

LEMMA FlowBegins ==
    ASSUME TypeOK, Begins
    PROVE  flow + 1 \in 0 .. MaxFlows /\ flow' = flow + 1
BY SignInAssumption DEF TypeOK, Begins, SignInAssumption

LEMMA CheckServerKeeps == ASSUME Inv, NEW s \in Servers, CheckServer(s) PROVE Inv'
<1>1. TypeOK /\ Somewhere /\ InFlight
  BY DEF Inv
<1>2. flow + 1 \in 0 .. MaxFlows /\ flow' = flow + 1
  BY <1>1, FlowBegins DEF CheckServer
<1>3. overtaken' \in BOOLEAN /\ signedOut' \in BOOLEAN
  BY OvertakesTyped DEF CheckServer, MovesOn
<1>4. TypesAfter /\ ~retry'
  BY <1>1, <1>2, ChecksKeeps, PointedAtConsistent DEF CheckServer
<1>5. TypeOK'
  BY <1>1, <1>2, <1>3, <1>4 DEF CheckServer, TypeOK, TypesAfter, serverRows, portalVars, countVars
<1> QED
  BY <1>1, <1>4, <1>5 DEF Inv, CheckServer, Somewhere, TypesAfter, portalVars

LEMMA RestoreSessionKeeps == ASSUME Inv, NEW s \in Servers, RestoreSession(s) PROVE Inv'
<1>1. TypeOK /\ Somewhere /\ InFlight
  BY DEF Inv
<1>2. flow + 1 \in 0 .. MaxFlows /\ flow' = flow + 1 /\ 0 \in 0 .. KeyringRetries
  BY <1>1, FlowBegins, SignInAssumption DEF RestoreSession, SignInAssumption
<1>3. overtaken' \in BOOLEAN /\ signedOut' \in BOOLEAN
  BY OvertakesTyped DEF RestoreSession, MovesOn
<1>4. /\ TypesAfter
      /\ saved' \in [Servers -> Blobs \cup {NoBlob}] /\ unlocked' \in BOOLEAN
      /\ suspended' \in Restores \cup {NoRestore}
  BY <1>1, <1>2, AttemptKeeps DEF RestoreSession
<1>5. TypeOK'
  BY <1>1, <1>2, <1>3, <1>4 DEF RestoreSession, TypeOK, TypesAfter, serverRows, countVars
<1> QED
  BY <1>4, <1>5 DEF Inv, RestoreSession, Somewhere, TypesAfter

LEMMA PortalAnswersKeeps == ASSUME Inv, PortalAnswers PROVE Inv'
<1>1. TypeOK /\ Somewhere /\ InFlight
  BY DEF Inv
<1>2. suspended \in Restores /\ server \in Servers /\ restore \in Servers
  BY <1>1 DEF PortalAnswers, TypeOK, Somewhere
<1>3. Loads(PointedAt(server), suspended, account, flow, attempts, TRUE)
  BY DEF PortalAnswers
<1>4. PointedAt(server) \in Clients /\ Consistent(PointedAt(server))
  BY <1>1, <1>2, PointedAtConsistent
<1>5. flow \in 0 .. MaxFlows /\ attempts \in 0 .. KeyringRetries
      /\ account \in Accounts \cup {NoAccount} /\ TRUE \in BOOLEAN
  BY <1>1 DEF TypeOK
<1>6. /\ TypesAfter
      /\ saved' \in [Servers -> Blobs \cup {NoBlob}] /\ unlocked' \in BOOLEAN
  BY <1>1, <1>2, <1>3, <1>4, <1>5, LoadsKeeps
<1>7. overtaken' \in BOOLEAN
  BY DEF PortalAnswers
<1>8. TypeOK'
  BY <1>1, <1>6, <1>7 DEF PortalAnswers, TypeOK, TypesAfter, serverRows, countVars
<1> QED
  BY <1>2, <1>6, <1>8 DEF Inv, PortalAnswers, Somewhere, TypesAfter

LEMMA KeyringRetryKeeps == ASSUME Inv, KeyringRetry PROVE Inv'
<1>1. TypeOK /\ Somewhere /\ InFlight
  BY DEF Inv
<1>2. restore \in Servers /\ flow \in 0 .. MaxFlows /\ attempts \in 0 .. KeyringRetries
  BY <1>1 DEF KeyringRetry, TypeOK, Somewhere
<1>3. /\ TypesAfter
      /\ saved' \in [Servers -> Blobs \cup {NoBlob}] /\ unlocked' \in BOOLEAN
      /\ suspended' \in Restores \cup {NoRestore}
  BY <1>1, <1>2, AttemptKeeps DEF KeyringRetry
<1>4. overtaken' \in BOOLEAN
  BY DEF KeyringRetry
<1>5. TypeOK'
  BY <1>1, <1>3, <1>4 DEF KeyringRetry, TypeOK, TypesAfter, serverRows, countVars
<1> QED
  BY <1>2, <1>3, <1>5 DEF Inv, KeyringRetry, Somewhere, TypesAfter

\* A handler that sends one request, none of them a refresh.
LEMMA SentOne ==
    ASSUME TypeOK, InFlight, server \in Servers, NEW kind \in Kinds \ {"refresh"},
           NEW f \in 0 .. MaxFlows + MaxCalls, NEW b \in Pairs \cup Servers \cup {NoTokens},
           flying' = flying \cup {Request(kind, f, server, b)},
           UNCHANGED <<server, waiting, refreshing>>
    PROVE  flying' \in SUBSET Requests /\ InFlight'
<1> DEFINE req == Request(kind, f, server, b)
<1>1. req \in Requests /\ req.kind = kind /\ req.to = server
  BY RequestMade
<1> HIDE DEF req
<1>2. flying' = flying \cup {req}
  BY DEF req
<1>3. flying' \in SUBSET Requests
  BY <1>1, <1>2 DEF TypeOK
<1>4. ~SomeKind({req}, {"refresh"})
  BY <1>1 DEF SomeKind
<1>5. OneRefreshFor(flying \cup {req}, waiting, refreshing)
  BY <1>4, OtherSent DEF InFlight
<1>6. Directed(server, flying \cup {req}, waiting)
  BY <1>1 DEF Directed, InFlight
<1> QED
  BY <1>2, <1>3, <1>5, <1>6 DEF InFlight

LEMMA LoginLocalKeeps == ASSUME Inv, LoginLocal PROVE Inv'
<1>1. TypeOK /\ Somewhere /\ InFlight
  BY DEF Inv
<1>2. flow + 1 \in 0 .. MaxFlows /\ flow' = flow + 1
  BY <1>1, FlowBegins DEF LoginLocal
<1>3. overtaken' \in BOOLEAN /\ signedOut' \in BOOLEAN
  BY OvertakesTyped DEF LoginLocal
<1>4. server \in Servers
  BY <1>1 DEF LoginLocal, Somewhere
<1>5. flying' \in SUBSET Requests /\ InFlight'
  BY <1>1, <1>2, <1>4, SentOne, FlowFits DEF LoginLocal, Kinds
<1>6. TypeOK'
  BY <1>1, <1>2, <1>3, <1>5
  DEF LoginLocal, TypeOK, States, oidcVars, keyringVars, serverRows, portalVars, countVars
<1> QED
  BY <1>1, <1>4, <1>5, <1>6 DEF Inv, LoginLocal, Somewhere, oidcVars, keyringVars, portalVars

LEMMA BeginOidcKeeps == ASSUME Inv, BeginOidc PROVE Inv'
<1>1. TypeOK /\ Somewhere /\ InFlight
  BY DEF Inv
<1>2. flow + 1 \in 0 .. MaxFlows /\ flow' = flow + 1
  BY <1>1, FlowBegins DEF BeginOidc
<1>3. overtaken' \in BOOLEAN /\ signedOut' \in BOOLEAN
  BY OvertakesTyped DEF BeginOidc
<1>4. server \in Servers
  BY <1>1 DEF BeginOidc, Somewhere
<1>5. flying' \in SUBSET Requests /\ InFlight'
  BY <1>1, <1>2, <1>4, SentOne, FlowFits DEF BeginOidc, Kinds
<1>6. TypeOK'
  BY <1>1, <1>2, <1>3, <1>5
  DEF BeginOidc, TypeOK, States, keyringVars, serverRows, portalVars, countVars
<1> QED
  BY <1>1, <1>4, <1>5, <1>6 DEF Inv, BeginOidc, Somewhere, oidcVars, keyringVars, portalVars

LEMMA CancelAuthKeeps == ASSUME Inv, CancelAuth PROVE Inv'
<1>1. TypeOK /\ Somewhere /\ InFlight
  BY DEF Inv
<1>2. overtaken' \in BOOLEAN
  BY <1>1 DEF CancelAuth, TypeOK
<1>3. 0 \in 0 .. KeyringRetries
  BY SignInAssumption DEF SignInAssumption
<1>4. TypeOK'
  <2>1. /\ state' \in States /\ oidc' \in BOOLEAN /\ oidcTimer' \in BOOLEAN
        /\ retry' \in BOOLEAN /\ attempts' \in 0 .. KeyringRetries
    BY <1>1, <1>3 DEF CancelAuth, TypeOK, States, StopWaiting
  <2>2. UNCHANGED <<server, account, tokens, flying, waiting, refreshing, handoff, browser, restore,
                    saved, rows, recent, unlocked, suspended, methods, booted, flow, calls, runs,
                    signedOut>>
    BY DEF CancelAuth, netVars, serverRows, portalVars, countVars
  <2> QED
    BY <1>1, <1>2, <2>1, <2>2 DEF TypeOK
<1> QED
  BY <1>1, <1>4
  DEF Inv, CancelAuth, Somewhere, oidcVars, InFlight, StopWaiting, netVars, portalVars

LEMMA LogoutKeeps == ASSUME Inv, Logout PROVE Inv'
<1>1. TypeOK /\ Somewhere /\ InFlight
  BY DEF Inv
<1>2. overtaken' \in BOOLEAN /\ signedOut' \in BOOLEAN
  BY <1>1 DEF Logout, TypeOK
<1>3. server \in Servers /\ 0 \in 0 .. KeyringRetries
  BY <1>1, SignInAssumption DEF Logout, Somewhere, SignInAssumption
<1>4. flying' \in SUBSET Requests /\ InFlight'
  <2>1. tokens \in Pairs \cup Servers \cup {NoTokens} /\ flow \in 0 .. MaxFlows + MaxCalls
    BY <1>1, FlowFits DEF TypeOK
  <2>2. "logout" \in Kinds \ {"refresh"}
    BY DEF Kinds
  <2> QED
    BY <1>1, <1>3, <2>1, <2>2, SentOne DEF Logout
<1>5. saved' \in [Servers -> Blobs \cup {NoBlob}]
  BY <1>1, ForgottenHome DEF Logout
<1>6. TypeOK'
  BY <1>1, <1>2, <1>3, <1>4, <1>5
  DEF Logout, TypeOK, States, StopWaiting, oidcVars, serverRows, portalVars, countVars
<1> QED
  BY <1>1, <1>3, <1>4, <1>6 DEF Inv, Logout, Somewhere, oidcVars, StopWaiting, portalVars

LEMMA OidcTimeoutKeeps == ASSUME Inv, OidcTimeout PROVE Inv'
<1>1. TypeOK /\ Somewhere /\ InFlight
  BY DEF Inv
<1>2. /\ state' \in {state, "NeedsLogin"}
      /\ UNCHANGED <<server, account, tokens, netVars, handoff, browser, keyringVars, saved,
                     serverRows, portalVars, methods, countVars, flow, historyVars>>
  BY DEF OidcTimeout
<1>3. oidc' = FALSE /\ oidcTimer' = FALSE
  BY DEF OidcTimeout
<1>4. oidc' \in BOOLEAN /\ oidcTimer' \in BOOLEAN
  BY <1>3
<1>5. TypeOK'
  BY <1>1, <1>2, <1>4
  DEF TypeOK, States, netVars, keyringVars, serverRows, portalVars, countVars, historyVars
<1>6. Somewhere'
  BY <1>1, <1>2, <1>3 DEF Somewhere, keyringVars, portalVars
<1>7. InFlight'
  BY <1>1, <1>2 DEF InFlight, netVars
<1> QED
  BY <1>5, <1>6, <1>7 DEF Inv

LEMMA OauthCallbackKeeps ==
    ASSUME Inv, NEW page \in browser, NEW code \in BOOLEAN, OauthCallback(page, code)
    PROVE  Inv'
<1>1. TypeOK /\ Somewhere /\ InFlight
  BY DEF Inv
<1>2. browser' = browser \ {page}
      /\ UNCHANGED <<server, account, tokens, waiting, refreshing, handoff, keyringVars, saved,
                     serverRows, portalVars, methods, countVars, flow, historyVars>>
  BY DEF OauthCallback
<1>3. CASE UNCHANGED flying /\ state' \in {state, "Error"} /\ oidc' \in {oidc, FALSE}
           /\ oidcTimer' \in {oidcTimer, FALSE}
  <2>2. state' \in States /\ oidc' \in BOOLEAN /\ oidcTimer' \in BOOLEAN
    BY <1>1, <1>3 DEF TypeOK, States
  <2>1. TypeOK'
    BY <1>1, <1>2, <1>3, <2>2
    DEF TypeOK, keyringVars, serverRows, portalVars, countVars, historyVars
  <2>3. oidc' => oidc
    BY <1>3
  <2>4. Somewhere'
    BY <1>1, <1>2, <1>3, <2>3 DEF Somewhere, keyringVars, portalVars
  <2>5. InFlight'
    BY <1>1, <1>2, <1>3 DEF InFlight
  <2> QED
    BY <2>1, <2>4, <2>5 DEF Inv
<1>4. CASE /\ oidc /\ code /\ page.flow = handoff
           /\ flying' = flying \cup {Request("exchange", handoff, server, page.at)}
           /\ UNCHANGED <<state, oidc>> /\ oidcTimer' = FALSE
  <2>1. page \in Pages /\ page.at \in Servers /\ handoff \in 0 .. MaxFlows + MaxCalls
    BY <1>1, FlowFits DEF TypeOK, Pages
  <2>2. server \in Servers
    BY <1>1, <1>4 DEF Somewhere
  <2>3. flying' \in SUBSET Requests /\ InFlight'
    <3>1. "exchange" \in Kinds \ {"refresh"}
      BY DEF Kinds
    <3> QED
      BY <1>1, <1>2, <1>4, <2>1, <2>2, <3>1, SentOne
  <2>5. state' = state /\ oidc' \in BOOLEAN /\ oidcTimer' \in BOOLEAN
    BY <1>1, <1>4 DEF TypeOK
  <2>4. TypeOK'
    BY <1>1, <1>2, <2>3, <2>5
    DEF TypeOK, keyringVars, serverRows, portalVars, countVars, historyVars
  <2> QED
    BY <1>1, <1>2, <1>4, <2>3, <2>4 DEF Inv, Somewhere, oidcVars, keyringVars, portalVars
<1> QED
  BY <1>3, <1>4 DEF OauthCallback

\* A reply is to the server of the moment.
LEMMA RepliedHere ==
    ASSUME Inv, NEW r \in flying
    PROVE  r \in Requests /\ r.to = server /\ server \in Servers /\ r.kind \in Kinds
           /\ r.flow \in 0 .. MaxFlows + MaxCalls
BY DEF Inv, TypeOK, InFlight, Directed, Requests

\* A reply that sends nothing.
LEMMA AnsweredOther ==
    ASSUME Inv, NEW r \in flying, r.kind # "refresh", flying' = flying \ {r},
           UNCHANGED <<server, waiting, refreshing>>
    PROVE  flying' \in SUBSET Requests /\ InFlight'
<1>1. OneRefreshFor(flying \ {r}, waiting, refreshing)
  BY OtherGone DEF Inv, InFlight
<1>2. Directed(server, flying \ {r}, waiting)
  BY DEF Inv, InFlight, Directed
<1> QED
  BY <1>1, <1>2 DEF Inv, TypeOK, InFlight

LEMMA StatusOkKeeps == ASSUME Inv, NEW r \in flying, StatusOk(r) PROVE Inv'
<1>1. TypeOK /\ Somewhere /\ server \in Servers
  BY RepliedHere DEF Inv
<1>2. flying' \in SUBSET Requests /\ InFlight'
  BY AnsweredOther DEF StatusOk
<1>3. TypeOK'
  BY <1>1, <1>2
  DEF StatusOk, TypeOK, States, oidcVars, keyringVars, serverRows, portalVars, countVars,
      historyVars
<1> QED
  BY <1>1, <1>2, <1>3 DEF Inv, StatusOk, Somewhere, oidcVars, keyringVars, portalVars

LEMMA OpenidOkKeeps == ASSUME Inv, NEW r \in flying, OpenidOk(r) PROVE Inv'
<1>1. TypeOK /\ Somewhere /\ server \in Servers
  BY RepliedHere DEF Inv
<1>2. flying' \in SUBSET Requests /\ InFlight'
  BY AnsweredOther DEF OpenidOk
<1>3. browser' \in SUBSET Pages
  <2>1. r.flow \in 0 .. MaxFlows + MaxCalls /\ r.to \in Servers
    BY RepliedHere
  <2> QED
    BY <1>1, <2>1 DEF OpenidOk, TypeOK, Pages
<1>4. TypeOK'
  BY <1>1, <1>2, <1>3
  DEF OpenidOk, TypeOK, keyringVars, serverRows, portalVars, countVars, historyVars
<1> QED
  BY <1>1, <1>2, <1>4 DEF Inv, OpenidOk, Somewhere, oidcVars, keyringVars, portalVars

\* applyLoginPayload()
LEMMA LoginOkKeeps ==
    ASSUME Inv, NEW r \in flying, NEW owner \in Accounts, NEW named \in BOOLEAN,
           LoginOk(r, owner, named)
    PROVE  Inv'
<1> DEFINE pair == [at |-> r.to, owner |-> owner, turn |-> 0]
           bind == IF named THEN owner ELSE NoAccount
           auth == Request("authorize", r.flow, server, pair)
<1>1. TypeOK /\ Somewhere /\ InFlight
  BY DEF Inv
<1>2. r \in Requests /\ r.to = server /\ server \in Servers /\ r.flow \in 0 .. MaxFlows + MaxCalls
  BY RepliedHere
<1>3. pair \in Pairs
  BY <1>2 DEF Pairs
<1>4. bind \in Accounts \cup {NoAccount}
  OBVIOUS
<1> HIDE DEF pair, bind
<1>5. auth \in Requests /\ auth.kind = "authorize" /\ auth.to = server
  BY <1>2, <1>3, RequestMade DEF Kinds
<1>6. /\ account' = bind /\ tokens' = pair /\ Persist(pair, bind)
      /\ oidc' = (oidc /\ r.kind # "exchange")
      /\ flying' = (flying \ {r}) \cup {auth}
      /\ r.kind # "refresh"
      /\ UNCHANGED <<state, server, waiting, refreshing, handoff, oidcTimer, browser, keyringVars,
                     serverRows, suspended, methods, countVars, flow, signedOut>>
  BY DEF LoginOk, pair, bind
<1> HIDE DEF auth
<1>7. saved' \in [Servers -> Blobs \cup {NoBlob}] /\ unlocked' \in BOOLEAN
  BY <1>1, <1>3, <1>4, <1>6, PersistKeeps
<1>8. flying' \in SUBSET Requests /\ InFlight'
  <2>1. OneRefreshFor(flying \ {r}, waiting, refreshing) /\ ~SomeKind({auth}, {"refresh"})
    BY <1>1, <1>5, <1>6, OtherGone DEF InFlight, SomeKind
  <2>2. OneRefreshFor((flying \ {r}) \cup {auth}, waiting, refreshing)
    BY <2>1, OtherSent
  <2>3. Directed(server, (flying \ {r}) \cup {auth}, waiting)
    BY <1>1, <1>5 DEF InFlight, Directed
  <2> QED
    BY <1>1, <1>5, <1>6, <2>2, <2>3 DEF TypeOK, InFlight
<1>9. oidc' \in BOOLEAN /\ overtaken' \in BOOLEAN
  <2>1. overtaken' = (overtaken \/ refreshing)
    BY DEF LoginOk
  <2> QED
    BY <1>6, <2>1
<1>10. TypeOK'
  BY <1>1, <1>3, <1>4, <1>6, <1>7, <1>8, <1>9
  DEF TypeOK, keyringVars, serverRows, countVars
<1> QED
  BY <1>1, <1>6, <1>8, <1>10 DEF Inv, Somewhere, oidcVars, keyringVars

LEMMA LoginUselessKeeps == ASSUME Inv, NEW r \in flying, LoginUseless(r) PROVE Inv'
<1>1. TypeOK /\ Somewhere /\ server \in Servers
  BY RepliedHere DEF Inv
<1>2. flying' \in SUBSET Requests /\ InFlight'
  BY AnsweredOther DEF LoginUseless
<1>3. oidc' \in BOOLEAN
  BY DEF LoginUseless
<1>4. TypeOK'
  BY <1>1, <1>2, <1>3
  DEF LoginUseless, TypeOK, States, keyringVars, serverRows, portalVars, countVars, historyVars
<1> QED
  BY <1>1, <1>2, <1>4 DEF Inv, LoginUseless, Somewhere, oidcVars, keyringVars, portalVars

\* authorizeAndFinish()
LEMMA AuthorizeOkKeeps == ASSUME Inv, NEW r \in flying, AuthorizeOk(r) PROVE Inv'
<1>1. TypeOK /\ Somewhere /\ server \in Servers
  BY RepliedHere DEF Inv
<1>2. flying' \in SUBSET Requests /\ InFlight'
  BY AnsweredOther DEF AuthorizeOk
<1>3. r.bears.owner \in Accounts
  BY DEF AuthorizeOk, Pairs
<1>4. saved' \in [Servers -> Blobs \cup {NoBlob}] /\ unlocked' \in BOOLEAN
  <2>1. tokens \in Pairs \cup {NoTokens} /\ r.bears.owner \in Accounts \cup {NoAccount}
    BY <1>1, <1>3 DEF TypeOK
  <2> QED
    BY <1>1, <2>1, PersistKeeps DEF AuthorizeOk
<1>5. TypeOK'
  BY <1>1, <1>2, <1>3, <1>4
  DEF AuthorizeOk, TypeOK, States, oidcVars, keyringVars, countVars, historyVars
<1> QED
  BY <1>1, <1>2, <1>5 DEF Inv, AuthorizeOk, Somewhere, oidcVars, keyringVars

LEMMA OtherOkKeeps == ASSUME Inv, NEW r \in flying, OtherOk(r) PROVE Inv'
<1>1. TypeOK /\ Somewhere
  BY DEF Inv
<1>2. flying' \in SUBSET Requests /\ InFlight'
  BY AnsweredOther DEF OtherOk
<1>3. TypeOK'
  BY <1>1, <1>2
  DEF OtherOk, TypeOK, oidcVars, keyringVars, serverRows, portalVars, countVars, historyVars
<1> QED
  BY <1>1, <1>2, <1>3 DEF Inv, OtherOk, Somewhere, oidcVars, keyringVars, portalVars

LEMMA ReplyFailsKeeps == ASSUME Inv, NEW r \in flying, ReplyFails(r) PROVE Inv'
<1>1. TypeOK /\ Somewhere /\ server \in Servers
  BY RepliedHere DEF Inv
<1>2. flying' \in SUBSET Requests /\ InFlight'
  BY AnsweredOther DEF ReplyFails
<1>3. /\ state' \in States /\ oidc' \in BOOLEAN /\ tokens' \in Pairs \cup {NoTokens}
      /\ saved' \in [Servers -> Blobs \cup {NoBlob}]
  <2>1. CASE Failed({r}, state)
    BY <1>1, <2>1, FailedKeeps DEF TypeOK
  <2>2. CASE state' = "NeedsLogin" /\ UNCHANGED <<oidc, tokens, saved>>
    BY <1>1, <2>2 DEF TypeOK, States
  <2> QED
    BY <2>1, <2>2 DEF ReplyFails
<1>4. TypeOK'
  BY <1>1, <1>2, <1>3
  DEF ReplyFails, TypeOK, keyringVars, serverRows, portalVars, countVars, historyVars
<1> QED
  BY <1>1, <1>2, <1>4 DEF Inv, ReplyFails, Somewhere, oidcVars, keyringVars, portalVars

\* sendImpl(): a 401 waits for a refresh.
LEMMA UnauthorizedKeeps == ASSUME Inv, NEW r \in flying, Unauthorized(r) PROVE Inv'
<1> DEFINE w == PointedAt(server)
           sent == Renewal(w, r.flow, tokens)
<1>1. TypeOK /\ Somewhere /\ InFlight
  BY DEF Inv
<1>2. r \in Requests /\ r.to = server /\ server \in Servers /\ r.flow \in 0 .. MaxFlows + MaxCalls
  BY RepliedHere
<1>3. /\ r.kind # "refresh" /\ flying' = (flying \ {r}) \cup sent
      /\ waiting' = waiting \cup {r} /\ refreshing' = TRUE
      /\ UNCHANGED <<state, server, account, tokens, oidcVars, keyringVars, saved, serverRows,
                     portalVars, methods, countVars, flow, historyVars>>
  BY DEF Unauthorized
<1>4. w \in Clients /\ w.server = server /\ w.refreshing = refreshing
  <2>1. w.refreshing = refreshing
    BY DEF PointedAt, KeptAcross
  <2> QED
    BY <1>1, <1>2, <2>1, PointedAtConsistent
<1>5. OneRefreshFor(flying \ {r}, waiting, refreshing)
  BY <1>1, <1>3, OtherGone DEF InFlight
<1>6. tokens \in Pairs \cup {NoTokens}
  BY <1>1 DEF TypeOK
<1> HIDE DEF w
<1>7. /\ sent \in SUBSET Requests /\ Directed(server, sent, {})
      /\ OneRefreshFor((flying \ {r}) \cup sent, waiting \cup {r}, TRUE)
  <2>1. ~SomeKind({r}, {"refresh"})
    BY <1>3 DEF SomeKind
  <2> QED
    BY <1>2, <1>4, <1>5, <1>6, <2>1, RenewalSent
<1> HIDE DEF sent
<1>8. flying' \in SUBSET Requests /\ waiting' \in SUBSET Requests
  BY <1>1, <1>2, <1>3, <1>7 DEF TypeOK
<1>9. InFlight'
  <2>1. Directed(server, flying', waiting')
    BY <1>1, <1>2, <1>3, <1>7 DEF Directed, InFlight
  <2> QED
    BY <1>3, <1>7, <2>1 DEF InFlight
<1>10. TypeOK'
  BY <1>1, <1>3, <1>8
  DEF TypeOK, oidcVars, keyringVars, serverRows, portalVars, countVars, historyVars
<1> QED
  BY <1>1, <1>3, <1>9, <1>10 DEF Inv, Somewhere, oidcVars, keyringVars, portalVars

\* What the waiters go on with.
LEMMA GoneOn ==
    ASSUME TypeOK, NEW r \in Requests, r.to = server, server \in Servers, NEW pair \in Pairs
    PROVE  /\ GoOn(r, pair) \in Requests /\ GoOn(r, pair).to = server
           /\ r.kind # "refresh" => GoOn(r, pair).kind # "refresh"
<1>1. r.flow \in 0 .. MaxFlows + MaxCalls /\ pair \in Pairs \cup Servers \cup {NoTokens}
  BY DEF Requests
<1>2. CASE r.kind = "restore"
  <2>1. "authorize" \in Kinds
    BY DEF Kinds
  <2>2. GoOn(r, pair) = Request("authorize", r.flow, server, pair)
    BY <1>2 DEF GoOn
  <2> QED
    BY <1>1, <2>1, <2>2, RequestMade
<1>3. CASE r.kind # "restore"
  <2>1. PICK b \in {r.bears, pair} : GoOn(r, pair) = [r EXCEPT !.bears = b, !.again = TRUE]
    BY <1>3 DEF GoOn, Replay
  <2> QED
    BY <1>1, <2>1 DEF Requests
<1> QED
  BY <1>2, <1>3

LEMMA RefreshOkKeeps ==
    ASSUME Inv, NEW r \in flying, RefreshOk(r)
    PROVE  Inv'
<1> DEFINE pair == [r.bears EXCEPT !.turn = 1 - @]
           sent == {GoOn(x, pair) : x \in waiting}
<1>1. TypeOK /\ Somewhere /\ InFlight
  BY DEF Inv
<1>2. r \in Requests /\ r.to = server /\ server \in Servers
  BY RepliedHere
<1>3. pair \in Pairs
  <2>1. r.bears \in Pairs
    BY DEF RefreshOk
  <2> QED
    BY <2>1 DEF Pairs
<1> HIDE DEF pair
<1>4. /\ r.kind = "refresh" /\ tokens' = pair /\ Persist(pair, account)
      /\ refreshing' = FALSE /\ waiting' = {}
      /\ flying' = (flying \ {r}) \cup sent
      /\ UNCHANGED <<state, server, account, oidcVars, keyringVars, serverRows, suspended,
                     methods, countVars, flow, historyVars>>
  BY DEF RefreshOk, pair
<1>5. \A x \in waiting : x \in Requests /\ x.to = server /\ x.kind # "refresh"
  BY <1>1 DEF TypeOK, InFlight, Directed, OneRefreshFor
<1>6. \A y \in sent : y \in Requests /\ y.to = server /\ y.kind # "refresh"
  BY <1>1, <1>2, <1>3, <1>5, GoneOn
<1> HIDE DEF sent
<1>7. OneRefreshFor((flying \ {r}) \cup sent, {}, FALSE)
  <2>1. OneRefreshFor(flying \ {r}, {}, FALSE)
    BY <1>1, <1>4, RefreshGone DEF InFlight
  <2>2. ~SomeKind(sent, {"refresh"})
    BY <1>6 DEF SomeKind
  <2> QED
    BY <2>1, <2>2, OtherSent
<1>8. flying' \in SUBSET Requests /\ InFlight'
  <2>1. Directed(server, flying', {})
    BY <1>1, <1>4, <1>6 DEF Directed, InFlight
  <2> QED
    BY <1>1, <1>4, <1>6, <1>7, <2>1 DEF InFlight, TypeOK
<1>9. saved' \in [Servers -> Blobs \cup {NoBlob}] /\ unlocked' \in BOOLEAN
  <2>1. account \in Accounts \cup {NoAccount} /\ pair \in Pairs \cup {NoTokens}
    BY <1>1, <1>3 DEF TypeOK
  <2> QED
    BY <1>1, <1>4, <2>1, PersistKeeps
<1>10. TypeOK'
  <2>1. UNCHANGED <<state, server, account, oidc, handoff, oidcTimer, browser, restore, retry,
                    attempts, rows, recent, suspended, methods, booted, flow, calls, runs,
                    overtaken, signedOut>>
    BY <1>4 DEF oidcVars, keyringVars, serverRows, countVars, historyVars
  <2>2. tokens' \in Pairs \cup {NoTokens} /\ waiting' \in SUBSET Requests /\ refreshing' \in BOOLEAN
    BY <1>3, <1>4
  <2> QED
    BY <1>1, <1>8, <1>9, <2>1, <2>2 DEF TypeOK
<1> QED
  BY <1>1, <1>4, <1>8, <1>10 DEF Inv, Somewhere, oidcVars, keyringVars

LEMMA RefreshFailsKeeps ==
    ASSUME Inv, NEW r \in flying, NEW refused \in BOOLEAN, RefreshFails(r, refused)
    PROVE  Inv'
<1> DEFINE before == IF refused THEN "NeedsLogin" ELSE state
<1>1. TypeOK /\ Somewhere /\ InFlight
  BY DEF Inv
<1>2. server \in Servers
  BY RepliedHere
<1>3. /\ r.kind = "refresh" /\ flying' = flying \ {r}
      /\ refreshing' = FALSE /\ waiting' = {} /\ Failed(waiting, before)
      /\ UNCHANGED <<server, account, handoff, oidcTimer, browser, keyringVars, serverRows,
                     portalVars, methods, countVars, flow, historyVars>>
  BY DEF RefreshFails
<1>4. before \in States
  BY <1>1 DEF TypeOK, States
<1> HIDE DEF before
<1>5. /\ state' \in States /\ oidc' \in BOOLEAN /\ tokens' \in Pairs \cup {NoTokens}
      /\ saved' \in [Servers -> Blobs \cup {NoBlob}]
  BY <1>1, <1>3, <1>4, FailedKeeps
<1>6. flying' \in SUBSET Requests /\ InFlight'
  <2>1. OneRefreshFor(flying \ {r}, {}, FALSE)
    BY <1>1, <1>3, RefreshGone DEF InFlight
  <2>2. Directed(server, flying \ {r}, {})
    BY <1>1 DEF InFlight, Directed
  <2> QED
    BY <1>1, <1>3, <2>1, <2>2 DEF InFlight, TypeOK
<1>7. TypeOK'
  <2>1. UNCHANGED <<server, account, handoff, oidcTimer, browser, restore, retry, attempts, rows,
                    recent, unlocked, suspended, methods, booted, flow, calls, runs, overtaken,
                    signedOut>>
    BY <1>3 DEF keyringVars, serverRows, portalVars, countVars, historyVars
  <2>2. waiting' \in SUBSET Requests /\ refreshing' \in BOOLEAN
    BY <1>3
  <2> QED
    BY <1>1, <1>5, <1>6, <2>1, <2>2 DEF TypeOK
<1> QED
  BY <1>1, <1>2, <1>3, <1>6, <1>7 DEF Inv, Somewhere, keyringVars, portalVars

LEMMA ApiCallKeeps == ASSUME Inv, ApiCall PROVE Inv'
<1>1. TypeOK /\ Somewhere /\ InFlight
  BY DEF Inv
<1>2. server \in Servers
  BY <1>1 DEF ApiCall, Somewhere
<1>3. calls + 1 \in 0 .. MaxCalls /\ calls' = calls + 1
  BY <1>1, SignInAssumption DEF ApiCall, TypeOK, SignInAssumption
<1>4. flying' \in SUBSET Requests /\ InFlight'
  <2>1. tokens \in Pairs \cup Servers \cup {NoTokens} /\ calls + 1 \in 0 .. MaxFlows + MaxCalls
    BY <1>1, <1>3, FlowFits DEF TypeOK
  <2>2. "api" \in Kinds \ {"refresh"}
    BY DEF Kinds
  <2> QED
    BY <1>1, <1>2, <2>1, <2>2, SentOne DEF ApiCall
<1>5. TypeOK'
  BY <1>1, <1>3, <1>4
  DEF ApiCall, TypeOK, oidcVars, keyringVars, serverRows, portalVars, historyVars
<1> QED
  BY <1>1, <1>2, <1>4, <1>5 DEF Inv, ApiCall, Somewhere, oidcVars, keyringVars, portalVars

LEMMA InvStep == Inv /\ [Next]_vars => Inv'
<1> SUFFICES ASSUME Inv, [Next]_vars PROVE Inv'
  OBVIOUS
<1>1. CASE UNCHANGED vars
  BY <1>1 DEF Inv, TypeOK, Somewhere, InFlight, vars, netVars, oidcVars, keyringVars, serverRows,
              portalVars, countVars, historyVars
<1>2. CASE Boot
  BY <1>2, BootKeeps
<1>3. CASE KillStep
  BY <1>3, KillStepKeeps
<1>4. CASE UserStep
  BY <1>4, CheckServerKeeps, RestoreSessionKeeps, LoginLocalKeeps, BeginOidcKeeps,
     CancelAuthKeeps, LogoutKeeps DEF UserStep
<1>5. CASE TimerStep
  BY <1>5, OidcTimeoutKeeps, KeyringRetryKeeps, PortalAnswersKeeps DEF TimerStep
<1>6. CASE BrowserStep
  BY <1>6, OauthCallbackKeeps DEF BrowserStep
<1>7. CASE NetworkStep
  <2>1. PICK r \in flying : Answer(r)
    BY <1>7 DEF NetworkStep
  <2> QED
    BY <2>1, StatusOkKeeps, OpenidOkKeeps, LoginOkKeeps, LoginUselessKeeps, AuthorizeOkKeeps,
       OtherOkKeeps, ReplyFailsKeeps, UnauthorizedKeeps, RefreshOkKeeps, RefreshFailsKeeps
    DEF Answer
<1>8. CASE ApiCall
  BY <1>8, ApiCallKeeps
<1> QED
  BY <1>1, <1>2, <1>3, <1>4, <1>5, <1>6, <1>7, <1>8 DEF Next
-----------------------------------------------------------------------------
\* What is saved, when asking the keyring keeps other handlers out.

LEMMA HomeInit == Init => AtHome
<1> SUFFICES ASSUME Init PROVE AtHome
  OBVIOUS
<1>1. PICK owner \in [Servers -> Accounts \cup {NoAccount}] :
        saved = [s \in Servers |-> IF owner[s] = NoAccount THEN NoBlob ELSE
                   [tokens  |-> [at |-> s, owner |-> owner[s], turn |-> 0],
                    account |-> owner[s]]]
  BY DEF Init
<1>2. SavedTokensAreHome
  BY <1>1 DEF SavedTokensAreHome
<1> QED
  BY <1>2 DEF Init, AtHome, Verified

\* A handler that saves nothing and sends nothing that will.
LEMMA QuietHome ==
    ASSUME AtHome, NEW sent, ~SomeKind(sent, {"authorize", "restore"}),
           flying' \cup waiting' \subseteq flying \cup waiting \cup sent,
           UNCHANGED <<server, saved, suspended>>, tokens' \in {tokens, NoTokens}
    PROVE  AtHome'
<1>1. Verified(server, flying', waiting', tokens')
  BY DEF AtHome, Verified, SomeKind
<1>2. SavedTokensAreHome'
  BY DEF AtHome, SavedTokensAreHome
<1> QED
  BY <1>1, <1>2 DEF AtHome

\* A handler that takes the tokens that follow from what it does.
LEMMA TakenHome ==
    ASSUME NEW s, NEW fl, NEW wt, NEW pair, pair = NoTokens \/ pair.at = s
    PROVE  Verified(s, fl, wt, pair)
BY DEF Verified

LEMMA ForgoesHome ==
    ASSUME TypeOK, InFlight, NEW w \in Clients, Consistent(w), NEW q \in Restores,
           NEW holder, NEW f \in 0 .. MaxFlows, NEW st, NEW pair,
           Verified(w.server, w.flying, w.waiting, pair),
           Forgoes(w, q, holder, f, st, pair)
    PROVE  Verified(server', flying', waiting', tokens')
<1>1. CASE q.from = "user"
  BY <1>1, TakenHome DEF Forgoes, Checks
<1>2. CASE q.from # "user"
  <2>1. Adopts(w, {}) /\ tokens' = pair
    BY <1>2 DEF Forgoes
  <2>2. server' = w.server /\ flying' = w.flying /\ waiting' = w.waiting
    BY <2>1 DEF Adopts
  <2> QED
    BY <2>1, <2>2
<1> QED
  BY <1>1, <1>2

\* Tokens loaded for the server the client was pointed at are that server's.
LEMMA LoadsHome ==
    ASSUME TypeOK, InFlight, SavedTokensAreHome, NEW w \in Clients, Consistent(w),
           Verified(w.server, w.flying, w.waiting, tokens),
           NEW q \in Restores, q.blob = saved[w.server], NEW holder \in Accounts \cup {NoAccount},
           NEW f \in 0 .. MaxFlows, NEW n, NEW mayFail, Loads(w, q, holder, f, n, mayFail)
    PROVE  SavedTokensAreHome' /\ Verified(server', flying', waiting', tokens')
<1>1. UNCHANGED saved => SavedTokensAreHome'
  BY DEF SavedTokensAreHome
<1>2. w.server \in Servers /\ Verified(w.server, w.flying, w.waiting, NoTokens)
  BY TakenHome DEF Clients
<1>3. CASE Forgoes(w, q, holder, f, w.state, tokens) /\ UNCHANGED saved
  BY <1>1, <1>3, ForgoesHome
<1>4. CASE Adopts(w, {}) /\ UNCHANGED <<tokens, saved>>
  <2>1. server' = w.server /\ flying' = w.flying /\ waiting' = w.waiting /\ tokens' = tokens
    BY <1>4 DEF Adopts
  <2> QED
    BY <1>1, <1>4, <2>1
<1>5. CASE /\ saved' = [saved EXCEPT ![w.server] = NoBlob]
           /\ Forgoes(w, q, holder, f, "NeedsLogin", tokens)
  BY <1>5, ForgoesHome, ForgottenHome
<1>6. CASE UNCHANGED saved /\ Forgoes(w, q, holder, f, w.state, NoTokens)
  BY <1>1, <1>2, <1>6, ForgoesHome
<1>7. CASE /\ UNCHANGED saved /\ q.blob # NoBlob /\ q.blob.tokens # NoTokens
           /\ account' = holder /\ Enters(w, f, q.blob.tokens)
  <2>1. q.blob.tokens \in Pairs
    BY <1>7 DEF Restores, Blobs
  <2>2. q.blob.tokens.at = w.server
    BY <1>2, <1>7 DEF SavedTokensAreHome
  <2>3. tokens' = q.blob.tokens /\ server' = w.server
    BY <1>7, <2>1, EntersKeeps
  <2> QED
    BY <1>1, <1>7, <2>2, <2>3, TakenHome
<1> QED
  BY <1>3, <1>4, <1>5, <1>6, <1>7 DEF Loads

LEMMA AttemptHome ==
    ASSUME Inv, AtHome, PortalPrompts = FALSE, NEW s \in Servers,
           NEW from \in {"user", "retry", "boot"}, NEW f \in 0 .. MaxFlows, NEW n,
           Attempt(s, from, f, n)
    PROVE  AtHome'
<1> DEFINE w == PointedAt(s)
           q == [server |-> s, blob |-> saved[s], account |-> rows[s], from |-> from]
<1>1. TypeOK /\ InFlight
  BY DEF Inv
<1>2. /\ w \in Clients /\ Consistent(w) /\ w.server = s
      /\ Verified(s, w.flying, w.waiting, tokens)
  BY <1>1, PointedAtConsistent DEF AtHome
<1>3. q \in Restores /\ q.account \in Accounts \cup {NoAccount} /\ q.blob = saved[s]
  BY <1>1 DEF TypeOK, Restores
<1>4. Loads(w, q, q.account, f, n, ~unlocked) /\ UNCHANGED suspended
  BY DEF Attempt
<1> HIDE DEF w, q
<1>5. SavedTokensAreHome' /\ Verified(server', flying', waiting', tokens')
  BY <1>1, <1>2, <1>3, <1>4, LoadsHome DEF AtHome
<1> QED
  BY <1>4, <1>5 DEF AtHome

LEMMA UserHome == ASSUME Inv, AtHome, PortalPrompts = FALSE, UserStep PROVE AtHome'
<1>1. TypeOK /\ InFlight
  BY DEF Inv
<1>2. ASSUME NEW s \in Servers, CheckServer(s) PROVE AtHome'
  <2>1. tokens' = NoTokens /\ UNCHANGED <<saved, suspended>>
    BY <1>2 DEF CheckServer, Checks, portalVars
  <2>2. Verified(server', flying', waiting', tokens')
    BY <2>1, TakenHome
  <2>3. SavedTokensAreHome'
    BY <2>1 DEF AtHome, SavedTokensAreHome
  <2> QED
    BY <2>1, <2>2, <2>3 DEF AtHome
<1>3. ASSUME NEW s \in Servers, RestoreSession(s) PROVE AtHome'
  <2>1. flow + 1 \in 0 .. MaxFlows
    BY <1>1, <1>3, FlowBegins DEF RestoreSession
  <2> QED
    BY <1>3, <2>1, AttemptHome DEF RestoreSession
<1>4. CASE LoginLocal
  <2> DEFINE sent == {Request("login", flow + 1, server, NoTokens)}
  <2>1. ~SomeKind(sent, {"authorize", "restore"})
    BY DEF SomeKind, Request
  <2>2. /\ flying' = flying \cup sent
        /\ UNCHANGED <<waiting, server, tokens, saved, suspended>>
    BY <1>4 DEF LoginLocal, portalVars
  <2> HIDE DEF sent
  <2> QED
    BY <2>1, <2>2, QuietHome
<1>5. CASE BeginOidc
  <2> DEFINE sent == {Request("openid", flow + 1, server, NoTokens)}
  <2>1. ~SomeKind(sent, {"authorize", "restore"})
    BY DEF SomeKind, Request
  <2>2. /\ flying' = flying \cup sent
        /\ UNCHANGED <<waiting, server, tokens, saved, suspended>>
    BY <1>5 DEF BeginOidc, portalVars
  <2> HIDE DEF sent
  <2> QED
    BY <2>1, <2>2, QuietHome
<1>6. CASE CancelAuth
  BY <1>6 DEF CancelAuth, AtHome, SavedTokensAreHome, Verified, netVars, portalVars
<1>7. CASE Logout
  <2>1. SavedTokensAreHome'
    BY <1>1, <1>7, ForgottenHome DEF Logout, AtHome
  <2>2. Verified(server', flying', waiting', tokens')
    BY <1>7, TakenHome DEF Logout
  <2> QED
    BY <1>7, <2>1, <2>2 DEF Logout, AtHome, portalVars
<1> QED
  BY <1>2, <1>3, <1>4, <1>5, <1>6, <1>7 DEF UserStep

LEMMA TimerHome == ASSUME Inv, AtHome, PortalPrompts = FALSE, TimerStep PROVE AtHome'
<1>1. CASE OidcTimeout
  BY <1>1 DEF OidcTimeout, AtHome, SavedTokensAreHome, Verified, netVars, portalVars
<1>2. CASE KeyringRetry
  <2>1. restore \in Servers /\ flow \in 0 .. MaxFlows
    BY <1>2 DEF KeyringRetry, Inv, TypeOK, Somewhere
  <2> QED
    BY <1>2, <2>1, AttemptHome DEF KeyringRetry
<1>3. ~PortalAnswers
  BY DEF PortalAnswers, AtHome
<1> QED
  BY <1>1, <1>2, <1>3 DEF TimerStep

LEMMA BrowserHome ==
    ASSUME Inv, AtHome, NEW page \in browser, NEW code \in BOOLEAN, OauthCallback(page, code)
    PROVE  AtHome'
<1> DEFINE sent == {Request("exchange", handoff, server, page.at)}
<1>1. ~SomeKind(sent, {"authorize", "restore"})
  BY DEF SomeKind, Request
<1>2. /\ flying' \subseteq flying \cup sent
      /\ UNCHANGED <<waiting, server, tokens, saved, suspended>>
  BY DEF OauthCallback, portalVars
<1> HIDE DEF sent
<1> QED
  BY <1>1, <1>2, QuietHome

\* A reply whose handler saves nothing it was told.
LEMMA AnsweredHome ==
    ASSUME AtHome, NEW r \in flying, flying' = flying \ {r},
           waiting' \in {waiting, {}}, UNCHANGED <<server, suspended>>,
           tokens' \in {tokens, NoTokens}, SavedTokensAreHome'
    PROVE  AtHome'
<1>1. Verified(server, flying', waiting', tokens')
  BY DEF AtHome, Verified
<1> QED
  BY <1>1 DEF AtHome

LEMMA ReplyHome ==
    ASSUME Inv, AtHome, NEW r \in flying, Answer(r)
    PROVE  AtHome'
<1>1. TypeOK /\ InFlight /\ r.to = server /\ server \in Servers
  BY RepliedHere DEF Inv
<1>2. UNCHANGED saved => SavedTokensAreHome'
  BY DEF AtHome, SavedTokensAreHome
<1>3. CASE StatusOk(r) \/ OpenidOk(r) \/ LoginUseless(r) \/ OtherOk(r)
  <2>1. flying' = flying \ {r} /\ UNCHANGED <<waiting, server, tokens, saved, suspended>>
    BY <1>3 DEF StatusOk, OpenidOk, LoginUseless, OtherOk, portalVars
  <2> QED
    BY <1>2, <2>1, AnsweredHome
<1>4. ASSUME NEW owner \in Accounts, NEW named \in BOOLEAN, LoginOk(r, owner, named)
      PROVE  AtHome'
  <2> DEFINE pair == [at |-> r.to, owner |-> owner, turn |-> 0]
             bind == IF named THEN owner ELSE NoAccount
  <2>1. pair \in Pairs /\ pair.at = server /\ bind \in Accounts \cup {NoAccount}
    BY <1>1 DEF Pairs
  <2>2. Persist(pair, bind) /\ tokens' = pair /\ UNCHANGED <<server, suspended>>
    BY <1>4 DEF LoginOk
  <2> HIDE DEF pair, bind
  <2>3. SavedTokensAreHome'
    BY <1>1, <2>1, <2>2, PersistKeeps DEF AtHome
  <2>4. Verified(server', flying', waiting', tokens')
    BY <2>1, <2>2, TakenHome
  <2> QED
    BY <2>2, <2>3, <2>4 DEF AtHome
<1>5. CASE AuthorizeOk(r)
  <2>1. /\ r.kind = "authorize" /\ Persist(tokens, r.bears.owner) /\ r.bears \in Pairs
        /\ flying' = flying \ {r} /\ UNCHANGED <<waiting, server, tokens, suspended>>
    BY <1>5 DEF AuthorizeOk
  <2>2. tokens = NoTokens \/ tokens.at = server
    BY <2>1 DEF AtHome, Verified
  <2>3. r.bears.owner \in Accounts \cup {NoAccount} /\ tokens \in Pairs \cup {NoTokens}
    BY <1>1, <2>1 DEF TypeOK, Pairs
  <2>4. SavedTokensAreHome'
    BY <1>1, <2>1, <2>2, <2>3, PersistKeeps DEF AtHome
  <2> QED
    BY <2>1, <2>4, AnsweredHome
<1>6. CASE ReplyFails(r)
  <2>1. /\ flying' = flying \ {r} /\ UNCHANGED <<waiting, server, suspended>>
        /\ Failed({r}, state) \/ UNCHANGED <<tokens, saved>>
    BY <1>6 DEF ReplyFails, portalVars
  <2>2. SavedTokensAreHome' /\ tokens' \in {tokens, NoTokens}
    <3>1. state \in States
      BY <1>1 DEF TypeOK
    <3>2. SavedTokensAreHome
      BY DEF AtHome
    <3> QED
      BY <1>1, <1>2, <2>1, <3>1, <3>2, FailedKeeps
  <2> QED
    BY <2>1, <2>2, AnsweredHome
<1>7. CASE Unauthorized(r)
  <2> DEFINE w == PointedAt(server)
             sent == Renewal(w, r.flow, tokens)
  <2>1. /\ flying' = (flying \ {r}) \cup sent /\ waiting' = waiting \cup {r}
        /\ UNCHANGED <<server, tokens, saved, suspended>>
    BY <1>7 DEF Unauthorized, portalVars
  <2>2. \A x \in sent : x.kind = "refresh"
    BY DEF Renewal, OwnRenewal, Request
  <2> HIDE DEF sent, w
  <2>3. ~SomeKind(sent, {"authorize", "restore"})
    BY <2>2 DEF SomeKind
  <2> QED
    BY <2>1, <2>3, QuietHome
<1>8. CASE RefreshOk(r)
  <2> DEFINE pair == [r.bears EXCEPT !.turn = 1 - @]
  <2>1. r.bears \in Pairs /\ r.bears.at = server
    BY <1>1, <1>8 DEF RefreshOk
  <2>2. pair \in Pairs /\ pair.at = server
    BY <2>1 DEF Pairs
  <2>3. Persist(pair, account) /\ tokens' = pair /\ UNCHANGED <<server, suspended>>
    BY <1>8 DEF RefreshOk
  <2> HIDE DEF pair
  <2>4. SavedTokensAreHome'
    BY <1>1, <2>2, <2>3, PersistKeeps DEF AtHome, TypeOK
  <2>5. Verified(server', flying', waiting', tokens')
    BY <2>2, <2>3, TakenHome
  <2> QED
    BY <2>3, <2>4, <2>5 DEF AtHome
<1>9. ASSUME NEW refused \in BOOLEAN, RefreshFails(r, refused) PROVE AtHome'
  <2> DEFINE before == IF refused THEN "NeedsLogin" ELSE state
  <2>1. /\ flying' = flying \ {r} /\ waiting' = {} /\ Failed(waiting, before)
        /\ UNCHANGED <<server, suspended>>
    BY <1>9 DEF RefreshFails, portalVars
  <2>2. before \in States
    BY <1>1 DEF TypeOK, States
  <2> HIDE DEF before
  <2>3. SavedTokensAreHome' /\ tokens' \in {tokens, NoTokens}
    BY <1>1, <2>1, <2>2, FailedKeeps DEF AtHome
  <2> QED
    BY <2>1, <2>3, AnsweredHome
<1> QED
  BY <1>3, <1>4, <1>5, <1>6, <1>7, <1>8, <1>9 DEF Answer

LEMMA KilledHome == ASSUME Inv, AtHome, KillStep PROVE AtHome'
<1>2. CASE Restart
  BY <1>2 DEF Restart, Killed, AtHome, SavedTokensAreHome, Verified
<1>3. ASSUME NEW r \in flying, AuthorizeKilled(r) PROVE AtHome'
  <2>1. tokens # NoTokens => tokens.at = server
    BY <1>3 DEF AuthorizeKilled, AtHome, Verified, Replied, SomeKind
  <2>2. SavedTokensAreHome'
    BY <1>3, <2>1 DEF AuthorizeKilled, AtHome, SavedTokensAreHome, Inv, TypeOK
  <2> QED
    BY <1>3, <2>2 DEF AuthorizeKilled, Killed, AtHome, Verified
<1> QED
  BY <1>2, <1>3 DEF KillStep

LEMMA HomeStep == ASSUME PortalPrompts = FALSE PROVE Inv /\ AtHome /\ [Next]_vars => AtHome'
<1> SUFFICES ASSUME Inv, AtHome, [Next]_vars PROVE AtHome'
  OBVIOUS
<1>1. CASE UNCHANGED vars
  BY <1>1 DEF AtHome, SavedTokensAreHome, Verified, vars, netVars, portalVars
<1>2. CASE Boot
  <2>1. CASE recent = NoServer \/ flow = MaxFlows
    BY <1>2, <2>1 DEF Boot, AtHome, SavedTokensAreHome, Verified, netVars, portalVars
  <2>2. CASE ~(recent = NoServer \/ flow = MaxFlows)
    <3>1. recent \in Servers /\ flow + 1 \in 0 .. MaxFlows
      BY <2>2, SignInAssumption DEF Inv, TypeOK, SignInAssumption
    <3> QED
      BY <1>2, <2>2, <3>1, AttemptHome DEF Boot
  <2> QED
    BY <2>1, <2>2
<1>3. CASE KillStep
  BY <1>3, KilledHome
<1>4. CASE ApiCall
  <2> DEFINE sent == {Request("api", calls + 1, server, tokens)}
  <2>1. ~SomeKind(sent, {"authorize", "restore"})
    BY DEF SomeKind, Request
  <2>2. flying' = flying \cup sent /\ UNCHANGED <<waiting, server, tokens, saved, suspended>>
    BY <1>4 DEF ApiCall, portalVars
  <2> HIDE DEF sent
  <2> QED
    BY <2>1, <2>2, QuietHome
<1>5. CASE UserStep
  BY <1>5, UserHome
<1>6. CASE TimerStep
  BY <1>6, TimerHome
<1>7. CASE BrowserStep
  BY <1>7, BrowserHome DEF BrowserStep
<1>8. CASE NetworkStep
  BY <1>8, ReplyHome DEF NetworkStep
<1> QED
  BY <1>1, <1>2, <1>3, <1>4, <1>5, <1>6, <1>7, <1>8 DEF Next
-----------------------------------------------------------------------------

LEMMA SignInInvariant == Spec => []Inv
BY InvInit, InvStep, PTL DEF Spec

\* The state of sign-in has the types TypeOK gives it: above all, whatever can
\* send a request has a server to send it to, and a keyring retry one to restore.
THEOREM SignInTypes == Spec => []TypeOK
BY SignInInvariant, PTL DEF Inv

\* TokenStore::refresh(): one refresh is in flight at a time, and nothing waits
\* on a refresh that is not.
THEOREM OneRefresh == Spec => []SingleFlight
<1>1. Inv => SingleFlight
  BY DEF Inv, InFlight, OneRefreshFor, SingleFlight
<1> QED
  BY <1>1, SignInInvariant, PTL

\* The tokens saved under the key of a server are that server's, whatever late
\* reply saved them - as long as no handler runs while the keyring is asked.
THEOREM TokensStayHome ==
    ASSUME PortalPrompts = FALSE
    PROVE  Spec => []SavedTokensAreHome
<1>1. Init => Inv /\ AtHome
  BY InvInit, HomeInit
<1>2. Inv /\ AtHome /\ [Next]_vars => (Inv /\ AtHome)'
  BY InvStep, HomeStep
<1>3. Inv /\ AtHome => SavedTokensAreHome
  BY DEF AtHome
<1> QED
  BY <1>1, <1>2, <1>3, PTL DEF Spec
-----------------------------------------------------------------------------
(* The keyring retry *)

\* An attempt at s schedules a retry only with the client pointed at s.
LEMMA AttemptRetries ==
    ASSUME PortalPrompts = FALSE, NEW s, NEW from, NEW f, NEW n, Attempt(s, from, f, n)
    PROVE  retry' = FALSE \/ server' = s
<1> DEFINE w == PointedAt(s)
           q == [server |-> s, blob |-> saved[s], account |-> rows[s], from |-> from]
<1>1. w.server = s
  BY DEF PointedAt, KeptAcross
<1>2. Loads(w, q, q.account, f, n, ~unlocked)
  BY DEF Attempt
<1> HIDE DEF w, q
<1>3. ASSUME NEW st, NEW pair, Forgoes(w, q, q.account, f, st, pair) PROVE retry' = FALSE
  BY <1>3 DEF Forgoes, Checks, StopWaiting
<1>4. CASE Adopts(w, {})
  BY <1>1, <1>4 DEF Adopts
<1>5. CASE Enters(w, f, q.blob.tokens)
  BY <1>5 DEF Enters, StopWaiting
<1> QED
  BY <1>2, <1>3, <1>4, <1>5 DEF Loads

LEMMA RetryStep ==
    ASSUME PortalPrompts = FALSE, AtHome, RetryIsForTheChosenServer, [Next]_vars
    PROVE  RetryIsForTheChosenServer'
<1>1. \/ UNCHANGED <<retry, restore, server>>
      \/ retry' = FALSE
      \/ restore' = server'
      => RetryIsForTheChosenServer'
  BY DEF RetryIsForTheChosenServer
<1>2. CASE UNCHANGED vars \/ ApiCall \/ OidcTimeout \/ LoginLocal \/ BeginOidc
  BY <1>1, <1>2 DEF vars, ApiCall, OidcTimeout, LoginLocal, BeginOidc, keyringVars
<1>3. CASE KillStep \/ CancelAuth \/ Logout
  BY <1>1, <1>3 DEF KillStep, Restart, AuthorizeKilled, Killed, CancelAuth, Logout, StopWaiting
<1>4. ASSUME NEW s \in Servers, CheckServer(s) PROVE retry' = FALSE
  BY <1>4 DEF CheckServer, Checks, StopWaiting
<1>5. CASE Boot
  BY <1>1, <1>5, AttemptRetries DEF Boot, keyringVars
<1>6. ASSUME NEW s \in Servers, RestoreSession(s) PROVE retry' = FALSE \/ restore' = server'
  BY <1>6, AttemptRetries DEF RestoreSession
<1>7. CASE KeyringRetry
  BY <1>1, <1>7, AttemptRetries DEF KeyringRetry
<1>8. ~PortalAnswers
  BY DEF AtHome, PortalAnswers
<1>9. CASE BrowserStep
  BY <1>1, <1>9 DEF BrowserStep, OauthCallback, keyringVars
<1>10. CASE NetworkStep
  <2>1. PICK r \in flying : Answer(r)
    BY <1>10 DEF NetworkStep
  <2>2. CASE StatusOk(r) \/ OpenidOk(r) \/ LoginUseless(r) \/ AuthorizeOk(r) \/ OtherOk(r)
    BY <1>1, <2>2 DEF StatusOk, OpenidOk, LoginUseless, AuthorizeOk, OtherOk, keyringVars
  <2>3. CASE ReplyFails(r) \/ Unauthorized(r) \/ RefreshOk(r)
    BY <1>1, <2>3 DEF ReplyFails, Unauthorized, RefreshOk, keyringVars
  <2>4. ASSUME NEW owner \in Accounts, NEW named \in BOOLEAN, LoginOk(r, owner, named)
        PROVE  UNCHANGED <<retry, restore, server>>
    BY <2>4 DEF LoginOk, keyringVars
  <2>5. ASSUME NEW refused \in BOOLEAN, RefreshFails(r, refused)
        PROVE  UNCHANGED <<retry, restore, server>>
    BY <2>5 DEF RefreshFails, keyringVars
  <2> QED
    BY <1>1, <2>1, <2>2, <2>3, <2>4, <2>5 DEF Answer
<1> QED
  BY <1>1, <1>2, <1>3, <1>4, <1>5, <1>6, <1>7, <1>8, <1>9, <1>10 DEF Next, UserStep, TimerStep

\* waitForKeyring(): a retry that fires never takes the client back to a server
\* the user has left - as long as no handler runs while the keyring is asked.
THEOREM RetriesStayHere ==
    ASSUME PortalPrompts = FALSE
    PROVE  Spec => []RetryIsForTheChosenServer
<1>1. Init => Inv /\ AtHome /\ RetryIsForTheChosenServer
  BY InvInit, HomeInit DEF Init, RetryIsForTheChosenServer
<1>2. Inv /\ AtHome /\ RetryIsForTheChosenServer /\ [Next]_vars
      => (Inv /\ AtHome /\ RetryIsForTheChosenServer)'
  BY InvStep, HomeStep, RetryStep
<1> QED
  BY <1>1, <1>2, PTL DEF Spec
-----------------------------------------------------------------------------
(* Whoever is signed in.  For a user who is not overtaken at most one      *)
(* attempt is under way at a time, and the tokens held, the one verified   *)
(* and the one being refreshed are of one owner.                           *)

AttemptKinds == {"status", "login", "openid", "exchange", "authorize", "restore"}

NoAttempt(fl, wt) == \A r \in fl \cup wt : r.kind \notin AttemptKinds

OneAttempt(fl, wt) ==
    /\ \A q, r \in fl \cup wt : q.kind \in AttemptKinds /\ r.kind \in AttemptKinds => q = r
    /\ \A r \in fl \cap wt : r.kind \notin AttemptKinds

\* Two rotations of one sign-in.
Kin(p, q) == p \in Pairs /\ q \in Pairs /\ p.at = q.at /\ p.owner = q.owner

\* One request speaks for the attempt; none while it waits for the keyring, and
\* while it is an OpenID attempt only one of that attempt.
Alone ==
    /\ OneAttempt(flying, waiting)
    /\ retry \/ suspended # NoRestore => NoAttempt(flying, waiting) /\ ~oidc
    /\ retry => suspended = NoRestore
    /\ oidc => \A r \in flying \cup waiting :
                 r.kind \in AttemptKinds => r.kind \in {"openid", "exchange"} /\ r.flow = handoff

\* An answer verifies, or rotates, the tokens that are held.
Kindred ==
    /\ \A r \in flying \cup waiting : r.kind \in {"authorize", "restore"} => Kin(tokens, r.bears)
    /\ \A r \in flying : r.kind = "refresh" =>
                           r.bears \in Pairs /\ (tokens = NoTokens \/ Kin(tokens, r.bears))

\* Nothing of an attempt is left once it has ended in the signed-in state.
Settled ==
    state = "Authenticated" =>
        /\ booted /\ ~oidc /\ ~retry /\ suspended = NoRestore /\ NoAttempt(flying, waiting)
        /\ tokens \in Pairs /\ tokens.at = server /\ tokens.owner = account
        /\ account = rows[server]
        /\ unlocked => saved[server] = [tokens |-> tokens, account |-> account]

\* Each attempt opens one page, after its request and before its exchange.
OnePage ==
    /\ handoff \in Nat /\ flow \in Nat /\ handoff <= flow
    /\ \A p \in browser : p.flow <= flow
    /\ \A p, q \in browser : p.flow = q.flow => p = q
    /\ \A r \in flying \cup waiting : r.kind \in {"openid", "exchange"} =>
         r.flow <= flow /\ \A p \in browser : p.flow # r.flow

\* Before main() runs nothing is under way.
Unstarted ==
    ~booted => /\ state = "Disconnected" /\ flying = {} /\ waiting = {} /\ ~refreshing
               /\ ~oidc /\ ~retry /\ suspended = NoRestore

Undisturbed == Alone /\ Kindred /\ Settled /\ OnePage

Steady == Unstarted /\ (~overtaken => Undisturbed)
-----------------------------------------------------------------------------
\* Handlers that only take something of an attempt away, or send what belongs to
\* none.
LEMMA QuietSteady ==
    ASSUME Undisturbed, \A r \in flying' : r \in flying \/ r.kind \in {"api", "logout"},
           waiting' \subseteq waiting, browser' \subseteq browser, oidc' => oidc, retry' => retry,
           UNCHANGED <<handoff, flow, suspended>>,
           tokens' = tokens \/ (tokens' = NoTokens /\ NoAttempt(flying', waiting')),
           state' = "Authenticated" =>
             state = "Authenticated"
             /\ UNCHANGED <<booted, server, account, tokens, rows, unlocked, saved>>
    PROVE  Undisturbed'
<1>1. \A r \in flying' \cup waiting' : r \in flying \cup waiting \/ r.kind \in {"api", "logout"}
  OBVIOUS
<1>2. NoAttempt(flying, waiting) => NoAttempt(flying', waiting')
  BY <1>1 DEF NoAttempt, AttemptKinds
<1>3. \A r \in flying' \cup waiting' : r.kind \in AttemptKinds => r \in flying \cup waiting
  BY <1>1 DEF AttemptKinds
<1>4. Alone'
  <2>1. OneAttempt(flying', waiting')
    BY <1>3 DEF Undisturbed, Alone, OneAttempt, AttemptKinds
  <2>2. oidc' => \A r \in flying' \cup waiting' :
                   r.kind \in AttemptKinds => r.kind \in {"openid", "exchange"} /\ r.flow = handoff'
    BY <1>3 DEF Undisturbed, Alone
  <2> QED
    BY <1>2, <2>1, <2>2 DEF Undisturbed, Alone
<1>5. Kindred'
  <2>1. \A r \in flying' : r.kind = "refresh" =>
          r.bears \in Pairs /\ (tokens' = NoTokens \/ Kin(tokens', r.bears))
    BY DEF Undisturbed, Kindred
  <2>2. \A r \in flying' \cup waiting' :
          r.kind \in {"authorize", "restore"} => Kin(tokens', r.bears)
    <3>1. CASE tokens' = tokens
      BY <1>1, <3>1 DEF Undisturbed, Kindred
    <3>2. CASE NoAttempt(flying', waiting')
      BY <3>2 DEF NoAttempt, AttemptKinds
    <3> QED
      BY <3>1, <3>2
  <2> QED
    BY <2>1, <2>2 DEF Kindred
<1>6. Settled'
  BY <1>2 DEF Undisturbed, Settled
<1>7. OnePage'
  BY <1>1 DEF Undisturbed, OnePage
<1> QED
  BY <1>4, <1>5, <1>6, <1>7 DEF Undisturbed

\* A client on which no attempt is under way and no refresh.
Idle(w) ==
    /\ w \in Clients /\ Consistent(w)
    /\ NoAttempt(w.flying, w.waiting)
    /\ ~w.refreshing /\ ~w.oidc /\ w.state # "Authenticated"

LEMMA IdleKinds ==
    ASSUME NEW w, Idle(w)
    PROVE  /\ w.waiting = {}
           /\ \A r \in w.flying : r.kind \notin AttemptKinds /\ r.kind # "refresh"
BY DEF Idle, Consistent, OneRefreshFor, NoAttempt, SomeKind

\* Where an attempt to check or to restore leaves the client.
Begun ==
    /\ Alone' /\ Kindred' /\ state' # "Authenticated"
    /\ \A r \in flying' \cup waiting' : r.kind \notin {"openid", "exchange"}

\* What an idle client sends for one attempt.
LEMMA IdleSends ==
    ASSUME NEW w, Idle(w), NEW sent, Adopts(w, sent), NEW r, \A x \in sent : x = r,
           r.kind \in {"status", "authorize"},
           r.kind = "authorize" => Kin(tokens', r.bears),
           ~retry', suspended' = NoRestore, state' # "Authenticated"
    PROVE  Begun
<1>1. /\ waiting' = {} /\ flying' = w.flying \cup sent /\ oidc' = FALSE
      /\ \A x \in w.flying : x.kind \notin AttemptKinds /\ x.kind # "refresh"
  BY IdleKinds DEF Adopts, Idle, Clients
<1>2. \A x \in flying' \cup waiting' : x.kind \in AttemptKinds => x = r
  BY <1>1
<1>3. Alone'
  BY <1>1, <1>2 DEF Alone, OneAttempt
<1>4. Kindred'
  BY <1>1, <1>2 DEF Kindred, AttemptKinds
<1> QED
  BY <1>1, <1>2, <1>3, <1>4 DEF Begun, AttemptKinds

LEMMA IdleRests ==
    ASSUME NEW w, Idle(w), Adopts(w, {}), retry' => suspended' = NoRestore,
           state' # "Authenticated"
    PROVE  Begun
<1>1. /\ waiting' = {} /\ flying' = w.flying /\ oidc' = FALSE
      /\ \A x \in w.flying : x.kind \notin AttemptKinds /\ x.kind # "refresh"
  BY IdleKinds DEF Adopts, Idle, Clients
<1>2. Alone'
  BY <1>1 DEF Alone, OneAttempt, NoAttempt
<1>3. Kindred'
  BY <1>1 DEF Kindred, AttemptKinds
<1> QED
  BY <1>1, <1>2, <1>3 DEF Begun, AttemptKinds

LEMMA ChecksSteady ==
    ASSUME NEW w, Idle(w), NEW f, Checks(w, f), suspended' = NoRestore
    PROVE  Begun
<1> DEFINE req == Request("status", f, w.server, NoTokens)
<1>1. req.kind = "status"
  BY DEF Request
<1>2. Adopts(w, {req}) /\ state' = "Checking" /\ retry' = FALSE
  BY DEF Checks, StopWaiting
<1> HIDE DEF req
<1>3. /\ req.kind \in {"status", "authorize"}
      /\ req.kind = "authorize" => Kin(tokens', req.bears)
      /\ state' # "Authenticated" /\ ~retry' /\ \A x \in {req} : x = req
  BY <1>1, <1>2
<1> QED
  BY <1>2, <1>3, IdleSends

LEMMA ForgoesSteady ==
    ASSUME NEW w, Idle(w), NEW q, q.server # w.server => Idle(PointedAt(q.server)),
           NEW holder, NEW f, NEW st, st # "Authenticated", NEW pair,
           Forgoes(w, q, holder, f, st, pair), suspended' = NoRestore
    PROVE  Begun
<1>1. CASE q.from = "user"
  BY <1>1, ChecksSteady DEF Forgoes
<1>2. CASE q.from # "user"
  BY <1>2, IdleRests DEF Forgoes, StopWaiting
<1> QED
  BY <1>1, <1>2

LEMMA EntersSteady ==
    ASSUME NEW w, Idle(w), NEW f \in 0 .. MaxFlows + MaxCalls, NEW pair \in Pairs,
           Enters(w, f, pair), suspended' = NoRestore
    PROVE  Begun
<1>1. state' = "Authenticating" /\ tokens' = pair /\ retry' = FALSE
  BY DEF Enters, StopWaiting
<1>2. Kin(pair, pair)
  BY DEF Kin
<1>3. CASE Adopts(w, {Request("authorize", f, w.server, pair)})
  <2> DEFINE req == Request("authorize", f, w.server, pair)
  <2>1. req.kind = "authorize" /\ req.bears = pair
    BY DEF Request
  <2> HIDE DEF req
  <2>2. Adopts(w, {req})
    BY <1>3 DEF req
  <2>3. /\ req.kind \in {"status", "authorize"}
        /\ req.kind = "authorize" => Kin(tokens', req.bears)
        /\ state' # "Authenticated" /\ ~retry' /\ \A x \in {req} : x = req
    BY <1>1, <1>2, <2>1
  <2> QED
    BY <1>1, <2>2, <2>3, IdleSends
<1>4. CASE Adopts([w EXCEPT !.waiting = @ \cup {Request("restore", f, w.server, pair)},
                            !.refreshing = TRUE],
                  Renewal(w, f, pair))
  <2> DEFINE req == Request("restore", f, w.server, pair)
             sent == Renewal(w, f, pair)
  <2>1. req.kind = "restore" /\ req.bears = pair
    BY DEF Request
  <2>2. \A r \in sent : r.kind = "refresh" /\ r.bears = pair
    BY DEF Renewal, OwnRenewal, Request
  <2>3. w.waiting = {} /\ (\A r \in w.flying : r.kind \notin AttemptKinds /\ r.kind # "refresh")
        /\ ~w.oidc
    BY IdleKinds DEF Idle
  <2>4. waiting' = {req} /\ flying' = w.flying \cup sent /\ oidc' = w.oidc
    BY <1>4, <2>3 DEF Adopts, Idle, Clients
  <2> HIDE DEF req, sent
  <2>5. \A r \in flying' : r.kind \notin AttemptKinds
    BY <2>2, <2>3, <2>4 DEF AttemptKinds
  <2>6. Alone'
    BY <1>1, <2>3, <2>4, <2>5 DEF Alone, OneAttempt
  <2>7. Kindred'
    <3>1. \A r \in flying' : r.kind = "refresh" => r.bears \in Pairs /\ Kin(tokens', r.bears)
      BY <1>1, <1>2, <2>2, <2>3, <2>4
    <3>2. \A r \in flying' \cup waiting' :
            r.kind \in {"authorize", "restore"} => Kin(tokens', r.bears)
      BY <1>1, <1>2, <2>1, <2>4, <2>5 DEF AttemptKinds
    <3> QED
      BY <3>1, <3>2 DEF Kindred
  <2> QED
    BY <1>1, <2>1, <2>4, <2>5, <2>6, <2>7 DEF Begun, AttemptKinds
<1> QED
  BY <1>3, <1>4 DEF Enters

LEMMA LoadsSteady ==
    ASSUME NEW w, Idle(w), NEW q \in Restores,
           q.server # w.server => Idle(PointedAt(q.server)),
           NEW holder, NEW f \in 0 .. MaxFlows, NEW n, NEW mayFail,
           Loads(w, q, holder, f, n, mayFail), suspended' = NoRestore
    PROVE  Begun
<1>1. w.state # "Authenticated" /\ f \in 0 .. MaxFlows + MaxCalls
  BY FlowFits DEF Idle
<1>2. CASE Forgoes(w, q, holder, f, w.state, tokens)
  BY <1>1, <1>2, ForgoesSteady
<1>3. CASE Adopts(w, {}) /\ WaitForKeyring(n)
  <2>1. state' # "Authenticated"
    BY <1>3 DEF WaitForKeyring
  <2> QED
    BY <1>3, <2>1, IdleRests
<1>4. CASE Forgoes(w, q, holder, f, "NeedsLogin", tokens)
  BY <1>4, ForgoesSteady
<1>5. CASE Forgoes(w, q, holder, f, w.state, NoTokens)
  BY <1>1, <1>5, ForgoesSteady
<1>6. CASE q.blob # NoBlob /\ q.blob.tokens # NoTokens /\ Enters(w, f, q.blob.tokens)
  <2>1. q.blob.tokens \in Pairs
    BY <1>6 DEF Restores, Blobs
  <2> QED
    BY <1>1, <1>6, <2>1, EntersSteady
<1> QED
  BY <1>2, <1>3, <1>4, <1>5, <1>6 DEF Loads

LEMMA AttemptSteady ==
    ASSUME TypeOK, NEW s \in Servers, Idle(PointedAt(s)), suspended = NoRestore,
           NEW from \in {"user", "retry", "boot"}, NEW f \in 0 .. MaxFlows, NEW n,
           Attempt(s, from, f, n)
    PROVE  Begun
<1> DEFINE w == PointedAt(s)
           q == [server |-> s, blob |-> saved[s], account |-> rows[s], from |-> from]
<1>1. q \in Restores /\ q.server = s
  BY DEF TypeOK, Restores
<1>2. w.server = s
  BY DEF PointedAt, KeptAcross
<1>3. CASE /\ suspended' = q
           /\ Adopts(w, {})
           /\ state' = w.state
           /\ retry' = FALSE
  <2> HIDE DEF w, q
  <2>1. Idle(w) /\ w.state # "Authenticated"
    BY DEF w, Idle
  <2> QED
    BY <1>3, <2>1, IdleRests
<1>4. CASE Loads(w, q, q.account, f, n, ~unlocked) /\ UNCHANGED suspended
  <2> HIDE DEF w, q
  <2>1. Idle(w)
    BY DEF w
  <2> QED
    BY <1>1, <1>2, <1>4, <2>1, LoadsSteady
<1> QED
  BY <1>3, <1>4 DEF Attempt

\* The same, for the rest of the state.
LEMMA BegunSteady ==
    ASSUME TypeOK, OnePage, Begun, UNCHANGED <<handoff, browser>>, flow' \in {flow, flow + 1}
    PROVE  Undisturbed'
<1>1. Settled'
  BY DEF Begun, Settled
<1>2. OnePage'
  <2>1. handoff' \in Nat /\ flow' \in Nat /\ handoff' <= flow'
    BY DEF OnePage
  <2>2. \A p \in browser' : p.flow <= flow'
    <3>1. \A p \in browser : p.flow \in Nat /\ p.flow <= flow
      BY SignInAssumption DEF OnePage, TypeOK, Pages, SignInAssumption
    <3> QED
      BY <3>1 DEF OnePage
  <2>3. \A p, q \in browser' : p.flow = q.flow => p = q
    BY DEF OnePage
  <2> QED
    BY <2>1, <2>2, <2>3 DEF Begun, OnePage
<1> QED
  BY <1>1, <1>2 DEF Begun, Undisturbed

\* The client pointed at s, when what it awaits is the end of no attempt.
LEMMA PointedAtState ==
    ASSUME NEW s
    PROVE  /\ PointedAt(s).state \in {state, "NeedsLogin"}
           /\ PointedAt(s).oidc => oidc
           /\ PointedAt(s).flying \subseteq flying /\ PointedAt(s).waiting \subseteq waiting
           /\ s # server => /\ PointedAt(s).flying = {} /\ PointedAt(s).waiting = {}
                            /\ PointedAt(s).refreshing = FALSE
BY DEF PointedAt, KeptAcross

LEMMA FinishedIdle ==
    ASSUME TypeOK, InFlight, NEW s \in Servers, ~Unfinished(PointedAt(s)),
           state # "Authenticated"
    PROVE  Idle(PointedAt(s)) /\ suspended = NoRestore
<1> DEFINE w == PointedAt(s)
<1>1. w \in Clients /\ Consistent(w)
  BY PointedAtConsistent
<1>2. w.state # "Authenticated"
  BY PointedAtState
<1> HIDE DEF w
<1>3. /\ ~w.oidc /\ suspended = NoRestore
      /\ ~SomeKind(w.flying \cup w.waiting, Kinds \ {"api", "logout"})
  BY DEF Unfinished, w
<1>4. \A r \in w.flying \cup w.waiting : r.kind \in Kinds /\ r.kind \notin Kinds \ {"api", "logout"}
  BY <1>1, <1>3 DEF Clients, Requests, SomeKind
<1>5. NoAttempt(w.flying, w.waiting) /\ ~SomeKind(w.flying, {"refresh"})
  BY <1>4 DEF NoAttempt, AttemptKinds, Kinds, SomeKind
<1>6. ~w.refreshing
  BY <1>1, <1>5 DEF Consistent, OneRefreshFor
<1> QED
  BY <1>1, <1>2, <1>3, <1>5, <1>6 DEF Idle, w

LEMMA WaitingIdle ==
    ASSUME TypeOK, InFlight, NEW s \in Servers, NoAttempt(flying, waiting), ~oidc,
           s = server => ~refreshing, state # "Authenticated"
    PROVE  Idle(PointedAt(s))
<1>1. PointedAt(s) \in Clients /\ Consistent(PointedAt(s))
  BY PointedAtConsistent
<1>2. ~PointedAt(s).refreshing
  BY PointedAtState DEF PointedAt, KeptAcross
<1> QED
  BY <1>1, <1>2, PointedAtState DEF Idle, NoAttempt

\* Every handler keeps a user who is not overtaken undisturbed.

LEMMA InitSteady == Init => Steady
<1> SUFFICES ASSUME Init PROVE Steady
  OBVIOUS
<1>1. flying = {} /\ waiting = {} /\ browser = {} /\ oidc = FALSE /\ retry = FALSE
      /\ suspended = NoRestore /\ state = "Disconnected" /\ handoff = 0 /\ flow = 0
      /\ refreshing = FALSE
  BY DEF Init
<1>2. Alone /\ Kindred /\ Settled /\ OnePage /\ Unstarted
  BY <1>1 DEF Alone, OneAttempt, NoAttempt, Kindred, Settled, OnePage, Unstarted
<1> QED
  BY <1>2 DEF Steady, Undisturbed

LEMMA BootSteady == ASSUME Inv, Steady, Boot, ~overtaken' PROVE Undisturbed'
<1>1. TypeOK /\ InFlight
  BY DEF Inv
<1>2. ~overtaken /\ state = "Disconnected" /\ flying = {} /\ waiting = {} /\ ~refreshing
      /\ ~oidc /\ ~retry /\ suspended = NoRestore
  BY DEF Boot, Steady, Unstarted, historyVars
<1>3. OnePage /\ UNCHANGED <<handoff, browser>>
  BY <1>2 DEF Steady, Undisturbed, Boot
<1>4. CASE recent = NoServer \/ flow = MaxFlows
  <2>1. UNCHANGED <<state, flying, waiting, oidc, retry, suspended, flow, handoff, browser>>
    BY <1>4 DEF Boot, netVars, keyringVars, portalVars
  <2>2. Alone' /\ Kindred' /\ Settled'
    BY <1>2, <2>1 DEF Alone, OneAttempt, NoAttempt, Kindred, Settled
  <2>3. OnePage'
    BY <1>3, <2>1 DEF OnePage
  <2> QED
    BY <2>2, <2>3 DEF Undisturbed
<1>5. CASE ~(recent = NoServer \/ flow = MaxFlows)
  <2>1. recent \in Servers /\ flow + 1 \in 0 .. MaxFlows /\ flow' = flow + 1
        /\ Attempt(recent, "boot", flow + 1, 0)
    BY <1>1, <1>5, SignInAssumption DEF TypeOK, SignInAssumption, Boot
  <2>2. Idle(PointedAt(recent))
    BY <1>1, <1>2, <2>1, WaitingIdle DEF NoAttempt
  <2>3. Begun
    BY <1>1, <1>2, <2>1, <2>2, AttemptSteady
  <2> QED
    BY <1>1, <1>3, <2>1, <2>3, BegunSteady
<1> QED
  BY <1>4, <1>5

LEMMA KilledSteady == ASSUME Inv, Killed PROVE Undisturbed'
<1>1. flying' = {} /\ waiting' = {} /\ browser' = {} /\ oidc' = FALSE /\ retry' = FALSE
      /\ suspended' = NoRestore /\ state' = "Disconnected" /\ handoff' = 0 /\ flow' = flow
  BY DEF Killed, StopWaiting
<1>2. flow \in Nat
  BY SignInAssumption DEF SignInAssumption, Inv, TypeOK
<1>3. Alone' /\ Kindred' /\ Settled' /\ OnePage'
  BY <1>1, <1>2 DEF Alone, OneAttempt, NoAttempt, Kindred, Settled, OnePage
<1> QED
  BY <1>3 DEF Undisturbed

LEMMA CheckServerSteady ==
    ASSUME Inv, Steady, NEW s \in Servers, CheckServer(s), ~overtaken'
    PROVE  Undisturbed'
<1>1. TypeOK /\ InFlight
  BY DEF Inv
<1>2. ~overtaken /\ ~Unfinished(PointedAt(s)) /\ state # "Authenticated"
  BY DEF CheckServer, MovesOn, Overtakes, Begins, OnScreen
<1>3. Idle(PointedAt(s)) /\ suspended = NoRestore
  BY <1>1, <1>2, FinishedIdle
<1>4. /\ Checks(PointedAt(s), flow + 1) /\ flow' = flow + 1
      /\ UNCHANGED <<suspended, handoff, browser>>
  BY DEF CheckServer, Begins, portalVars
<1>5. Begun
  BY <1>3, <1>4, ChecksSteady
<1>6. OnePage
  BY <1>2 DEF Steady, Undisturbed
<1> QED
  BY <1>1, <1>4, <1>5, <1>6, BegunSteady

LEMMA RestoreSessionSteady ==
    ASSUME Inv, Steady, NEW s \in Servers, RestoreSession(s), ~overtaken'
    PROVE  Undisturbed'
<1>1. TypeOK /\ InFlight
  BY DEF Inv
<1>2. ~overtaken /\ ~Unfinished(PointedAt(s)) /\ state # "Authenticated"
  BY DEF RestoreSession, MovesOn, Overtakes, Begins, OnScreen
<1>3. Idle(PointedAt(s)) /\ suspended = NoRestore
  BY <1>1, <1>2, FinishedIdle
<1>4. flow + 1 \in 0 .. MaxFlows /\ flow' = flow + 1
  BY <1>1, FlowBegins DEF RestoreSession
<1>5. Begun
  BY <1>1, <1>3, <1>4, AttemptSteady DEF RestoreSession
<1>6. OnePage
  BY <1>2 DEF Steady, Undisturbed
<1> QED
  BY <1>1, <1>4, <1>5, <1>6, BegunSteady DEF RestoreSession

LEMMA KeyringRetrySteady == ASSUME Inv, Steady, KeyringRetry, ~overtaken' PROVE Undisturbed'
<1>1. TypeOK /\ InFlight /\ restore \in Servers /\ flow \in 0 .. MaxFlows
  BY DEF Inv, TypeOK, Somewhere, KeyringRetry
<1>2. ~overtaken /\ ~PointedAt(restore).refreshing
  BY DEF KeyringRetry
<1>3. OnePage /\ NoAttempt(flying, waiting) /\ ~oidc /\ suspended = NoRestore
      /\ state # "Authenticated"
  BY <1>2 DEF Steady, Undisturbed, Alone, Settled, KeyringRetry
<1>4. restore = server => ~refreshing
  BY <1>2 DEF PointedAt, KeptAcross
<1>5. Idle(PointedAt(restore))
  BY <1>1, <1>3, <1>4, WaitingIdle
<1>6. Begun
  BY <1>1, <1>3, <1>5, AttemptSteady DEF KeyringRetry
<1> QED
  BY <1>1, <1>3, <1>6, BegunSteady DEF KeyringRetry

LEMMA PortalAnswersSteady == ASSUME Inv, Steady, PortalAnswers, ~overtaken' PROVE Undisturbed'
<1>1. TypeOK /\ InFlight /\ server \in Servers /\ flow \in 0 .. MaxFlows
      /\ suspended \in Restores
  BY DEF Inv, TypeOK, Somewhere, PortalAnswers
<1>2. ~overtaken /\ ~refreshing /\ suspended' = NoRestore
  BY DEF PortalAnswers
<1>3. OnePage /\ NoAttempt(flying, waiting) /\ ~oidc /\ state # "Authenticated"
  BY <1>2 DEF Steady, Undisturbed, Alone, Settled, PortalAnswers
<1>4. \A s \in Servers : Idle(PointedAt(s))
  BY <1>1, <1>2, <1>3, WaitingIdle
<1>5. suspended.server \in Servers
  BY <1>1 DEF Restores
<1>6. Loads(PointedAt(server), suspended, account, flow, attempts, TRUE)
  BY DEF PortalAnswers
<1>7. Begun
  BY <1>1, <1>2, <1>4, <1>5, <1>6, LoadsSteady
<1> QED
  BY <1>1, <1>3, <1>7, BegunSteady DEF PortalAnswers

\* Pages and requests are of flows there have been.
LEMMA PageFlows ==
    ASSUME TypeOK
    PROVE  \A p \in browser : p.flow \in Nat
BY SignInAssumption DEF TypeOK, Pages, SignInAssumption

\* An attempt begun at the login form.
LEMMA FormSteady ==
    ASSUME Inv, Undisturbed, state # "Authenticated", server \in Servers, ~retry,
           ~Unfinished(PointedAt(server)), flow' = flow + 1,
           NEW r, r.kind \in {"login", "openid"}, \A x \in flying' : x = r \/ x \in flying,
           UNCHANGED <<waiting, browser, suspended, tokens>>, ~retry',
           r.kind = "openid" => r.flow = flow + 1 /\ handoff' = flow + 1,
           r.kind = "login" => handoff' = handoff /\ (oidc' => oidc),
           state' # "Authenticated"
    PROVE  Undisturbed'
<1>1. TypeOK /\ InFlight
  BY DEF Inv
<1>2. Idle(PointedAt(server)) /\ suspended = NoRestore
  BY <1>1, FinishedIdle
<1>3. /\ waiting = {} /\ ~oidc
      /\ \A x \in flying : x.kind \notin AttemptKinds /\ x.kind # "refresh"
  <2>1. PointedAt(server) = KeptAcross(server)
    BY DEF PointedAt
  <2>2. /\ PointedAt(server).flying = flying /\ PointedAt(server).waiting = waiting
        /\ PointedAt(server).oidc = oidc
    BY <2>1 DEF KeptAcross
  <2> QED
    BY <1>2, <2>2, IdleKinds DEF Idle
<1>4. \A x \in flying' \cup waiting' : x = r \/ (x.kind \notin AttemptKinds /\ x.kind # "refresh")
  BY <1>3
<1>5. Alone'
  <2>1. OneAttempt(flying', waiting')
    BY <1>3, <1>4 DEF OneAttempt
  <2>2. ~retry' /\ suspended' = NoRestore
    BY <1>2
  <2>3. oidc' => r.kind = "openid" /\ r.flow = handoff'
    BY <1>3
  <2> QED
    BY <1>4, <2>1, <2>2, <2>3 DEF Alone
<1>6. Kindred'
  BY <1>4 DEF Kindred, AttemptKinds
<1>7. OnePage'
  <2>1. OnePage
    BY DEF Undisturbed
  <2>2. handoff' \in Nat /\ flow' \in Nat /\ handoff' <= flow'
    BY <2>1 DEF OnePage
  <2>3. \A p \in browser : p.flow <= flow' /\ p.flow # flow + 1
    BY <1>1, <2>1, PageFlows DEF OnePage
  <2>4. \A x \in flying' \cup waiting' :
          x.kind \in {"openid", "exchange"} => x = r /\ r.kind = "openid"
    BY <1>4 DEF AttemptKinds
  <2> QED
    BY <2>1, <2>2, <2>3, <2>4 DEF OnePage
<1> QED
  BY <1>5, <1>6, <1>7 DEF Undisturbed, Settled

LEMMA LoginLocalSteady == ASSUME Inv, Steady, LoginLocal, ~overtaken' PROVE Undisturbed'
<1>0. PICK req : req = Request("login", flow + 1, server, NoTokens)
  OBVIOUS
<1>1. req.kind = "login" /\ req.flow = flow + 1
  BY <1>0 DEF Request
<1>2. ~overtaken /\ ~retry /\ ~Unfinished(PointedAt(server))
  BY DEF LoginLocal, Overtakes
<1>3. /\ state # "Authenticated" /\ server \in Servers /\ Undisturbed
      /\ state' # "Authenticated" /\ flow' = flow + 1
  BY <1>2 DEF LoginLocal, Begins, Inv, Somewhere, Steady
<1>4. /\ \A x \in flying' : x = req \/ x \in flying
      /\ handoff' = handoff /\ (oidc' => oidc)
      /\ UNCHANGED <<waiting, browser, suspended, tokens>> /\ ~retry'
  BY <1>0, <1>2 DEF LoginLocal, oidcVars, keyringVars, portalVars
<1>5. /\ req.kind \in {"login", "openid"}
      /\ req.kind = "openid" => req.flow = flow + 1 /\ handoff' = flow + 1
      /\ req.kind = "login" => handoff' = handoff /\ (oidc' => oidc)
  BY <1>1, <1>4
<1> QED
  BY <1>2, <1>3, <1>4, <1>5, FormSteady

LEMMA BeginOidcSteady == ASSUME Inv, Steady, BeginOidc, ~overtaken' PROVE Undisturbed'
<1>0. PICK req : req = Request("openid", flow + 1, server, NoTokens)
  OBVIOUS
<1>1. req.kind = "openid" /\ req.flow = flow + 1
  BY <1>0 DEF Request
<1>2. ~overtaken /\ ~retry /\ ~Unfinished(PointedAt(server))
  BY DEF BeginOidc, Overtakes
<1>3. /\ state # "Authenticated" /\ server \in Servers /\ Undisturbed
      /\ state' # "Authenticated" /\ flow' = flow + 1
  BY <1>2 DEF BeginOidc, Begins, Inv, Somewhere, Steady
<1>4. /\ \A x \in flying' : x = req \/ x \in flying
      /\ handoff' = flow + 1
      /\ UNCHANGED <<waiting, browser, suspended, tokens>> /\ ~retry'
  BY <1>0, <1>2 DEF BeginOidc, keyringVars, portalVars
<1>5. /\ req.kind \in {"login", "openid"}
      /\ req.kind = "openid" => req.flow = flow + 1 /\ handoff' = flow + 1
      /\ req.kind = "login" => handoff' = handoff /\ (oidc' => oidc)
  BY <1>1, <1>4
<1> QED
  BY <1>2, <1>3, <1>4, <1>5, FormSteady

LEMMA CancelAuthSteady == ASSUME Inv, Steady, CancelAuth, ~overtaken' PROVE Undisturbed'
<1>1. /\ ~overtaken /\ oidc' = FALSE /\ retry' = FALSE /\ state' = "NeedsLogin"
      /\ UNCHANGED <<flying, waiting, tokens, handoff, browser, suspended, flow>>
  BY DEF CancelAuth, StopWaiting, netVars, portalVars
<1>2. Undisturbed
  BY <1>1 DEF Steady
<1> QED
  BY <1>1, <1>2, QuietSteady

LEMMA LogoutSteady == ASSUME Inv, Steady, Logout, ~overtaken' PROVE Undisturbed'
<1> DEFINE sent == {Request("logout", flow, server, tokens)}
<1>1. /\ ~overtaken /\ retry' = FALSE /\ state' = "NeedsLogin" /\ tokens' = NoTokens
      /\ UNCHANGED <<waiting, oidc, handoff, browser, suspended, flow>>
      /\ flying' = flying \cup sent
  BY DEF Logout, StopWaiting, oidcVars, portalVars
<1>2. Undisturbed /\ NoAttempt(flying, waiting)
  BY <1>1 DEF Steady, Undisturbed, Settled, Logout
<1>3. \A r \in sent : r.kind = "logout"
  BY DEF Request
<1> HIDE DEF sent
<1>4. /\ NoAttempt(flying', waiting')
      /\ \A r \in flying' : r \in flying \/ r.kind \in {"api", "logout"}
  BY <1>1, <1>2, <1>3 DEF NoAttempt, AttemptKinds
<1> QED
  BY <1>1, <1>2, <1>4, QuietSteady

LEMMA OidcTimeoutSteady == ASSUME Inv, Steady, OidcTimeout, ~overtaken' PROVE Undisturbed'
<1>1. /\ ~overtaken /\ oidc' = FALSE /\ state' \in {state, "NeedsLogin"}
      /\ UNCHANGED <<flying, waiting, tokens, handoff, browser, suspended, flow, retry, booted,
                     server, account, rows, unlocked, saved>>
  BY DEF OidcTimeout, netVars, keyringVars, serverRows, portalVars, countVars, historyVars
<1>2. Undisturbed
  BY <1>1 DEF Steady
<1> QED
  BY <1>1, <1>2, QuietSteady

LEMMA OauthCallbackSteady ==
    ASSUME Inv, Steady, NEW page \in browser, NEW code \in BOOLEAN, OauthCallback(page, code),
           ~overtaken'
    PROVE  Undisturbed'
<1> DEFINE req == Request("exchange", handoff, server, page.at)
<1>1. /\ ~overtaken /\ browser' = browser \ {page}
      /\ UNCHANGED <<waiting, tokens, handoff, suspended, flow, retry, booted, server, account,
                     rows, unlocked, saved>>
  BY DEF OauthCallback, keyringVars, serverRows, portalVars, countVars, historyVars
<1>2. Undisturbed
  BY <1>1 DEF Steady
<1>3. CASE ~oidc
  <2>1. UNCHANGED <<state, flying, oidc>>
    BY <1>3 DEF OauthCallback
  <2> QED
    BY <1>1, <1>2, <2>1, QuietSteady
<1>4. CASE oidc /\ ~(code /\ page.flow = handoff)
  <2>1. oidc' = FALSE /\ state' = "Error" /\ flying' = flying
    BY <1>4 DEF OauthCallback
  <2> QED
    BY <1>1, <1>2, <2>1, QuietSteady
<1>5. CASE oidc /\ code /\ page.flow = handoff
  <2>1. req.kind = "exchange" /\ req.flow = handoff
    BY DEF Request
  <2>2. flying' = flying \cup {req} /\ UNCHANGED <<state, oidc>>
    BY <1>5 DEF OauthCallback
  <2> HIDE DEF req
  <2>3. Alone /\ Kindred /\ Settled /\ OnePage
    BY <1>2 DEF Undisturbed
  <2>4. \A r \in flying \cup waiting : r.kind \notin AttemptKinds
    BY <1>5, <2>3 DEF Alone, OnePage
  <2>5. \A r \in flying' \cup waiting' : r = req \/ r \in flying \cup waiting
    BY <1>1, <2>2
  <2>6. Alone'
    <3>1. OneAttempt(flying', waiting')
      BY <1>1, <2>2, <2>4, <2>5 DEF OneAttempt
    <3>2. ~retry' /\ suspended' = NoRestore
      BY <1>1, <1>5, <2>3 DEF Alone
    <3> QED
      BY <1>1, <2>1, <2>4, <2>5, <3>1, <3>2 DEF Alone
  <2>7. Kindred'
    BY <1>1, <2>1, <2>2, <2>3, <2>5 DEF Kindred
  <2>8. state # "Authenticated"
    BY <1>5, <2>3 DEF Settled
  <2>9. OnePage'
    BY <1>1, <1>5, <2>1, <2>3, <2>5 DEF OnePage
  <2> QED
    BY <2>2, <2>6, <2>7, <2>8, <2>9 DEF Undisturbed, Settled
<1> QED
  BY <1>3, <1>4, <1>5

\* A reply whose handler sends nothing.
LEMMA AnsweredSteady ==
    ASSUME Undisturbed, NEW r \in flying, flying' = flying \ {r}, waiting' \in {waiting, {}},
           oidc' => oidc, UNCHANGED <<handoff, flow, suspended, browser, retry>>,
           tokens' = tokens \/ (tokens' = NoTokens /\ NoAttempt(flying', waiting')),
           state' = "Authenticated" =>
             state = "Authenticated"
             /\ UNCHANGED <<booted, server, account, tokens, rows, unlocked, saved>>
    PROVE  Undisturbed'
BY QuietSteady

\* What is replied to is the attempt, or there is none but that of another request.
LEMMA AttemptReplied ==
    ASSUME Alone, NEW r \in flying, r.kind \in AttemptKinds
    PROVE  NoAttempt(flying \ {r}, waiting)
BY DEF Alone, OneAttempt, NoAttempt

LEMMA PlainReplySteady ==
    ASSUME Inv, Steady, NEW r \in flying,
           StatusOk(r) \/ LoginUseless(r) \/ OtherOk(r) \/ ReplyFails(r), ~overtaken'
    PROVE  Undisturbed'
<1>1. /\ ~overtaken /\ flying' = flying \ {r}
      /\ UNCHANGED <<waiting, handoff, flow, suspended, browser, retry, booted, server, account,
                     rows, unlocked>>
  BY DEF StatusOk, LoginUseless, OtherOk, ReplyFails, oidcVars, keyringVars, serverRows, portalVars,
         countVars, historyVars
<1>2. Undisturbed
  BY <1>1 DEF Steady
<1>3. CASE StatusOk(r) \/ LoginUseless(r) \/ OtherOk(r)
  <2>1. oidc' => oidc
    BY <1>3 DEF StatusOk, LoginUseless, OtherOk, oidcVars
  <2>2. tokens' = tokens /\ saved' = saved /\ (state' = state \/ state' # "Authenticated")
    BY <1>3 DEF StatusOk, LoginUseless, OtherOk
  <2> QED
    BY <1>1, <1>2, <2>1, <2>2, AnsweredSteady
<1>4. CASE ReplyFails(r) /\ state' = "NeedsLogin" /\ UNCHANGED <<oidc, tokens, saved>>
  BY <1>1, <1>2, <1>4, AnsweredSteady
<1>5. CASE ReplyFails(r) /\ Failed({r}, state)
  <2>1. oidc' => oidc
    BY <1>5 DEF Failed
  <2>2. CASE r.kind = "authorize"
    <3>1. NoAttempt(flying', waiting')
      BY <1>1, <1>2, <2>2, AttemptReplied DEF Undisturbed, AttemptKinds
    <3>2. tokens' = NoTokens /\ state' = "NeedsLogin"
      BY <1>5, <2>2 DEF Failed, SomeKind, Outcome
    <3> QED
      BY <1>1, <1>2, <2>1, <3>1, <3>2, AnsweredSteady
  <2>3. CASE r.kind # "authorize"
    <3>1. tokens' = tokens /\ saved' = saved
      BY <1>5, <2>3 DEF Failed, SomeKind
    <3>2. state' = state \/ state' # "Authenticated"
      BY <1>5 DEF Failed, Outcome
    <3> QED
      BY <1>1, <1>2, <2>1, <3>1, <3>2, AnsweredSteady
  <2> QED
    BY <2>2, <2>3
<1> QED
  BY <1>3, <1>4, <1>5 DEF ReplyFails

LEMMA RefreshFailsSteady ==
    ASSUME Inv, Steady, NEW r \in flying, NEW refused \in BOOLEAN, RefreshFails(r, refused),
           ~overtaken'
    PROVE  Undisturbed'
<1> DEFINE before == IF refused THEN "NeedsLogin" ELSE state
<1>1. /\ ~overtaken /\ flying' = flying \ {r} /\ waiting' = {} /\ Failed(waiting, before)
      /\ UNCHANGED <<handoff, flow, suspended, browser, retry, booted, server, account, rows,
                     unlocked>>
  BY DEF RefreshFails, keyringVars, serverRows, portalVars, countVars, historyVars
<1>2. Undisturbed /\ before \in {state, "NeedsLogin"}
  BY <1>1 DEF Steady
<1> HIDE DEF before
<1>3. oidc' => oidc
  BY <1>1 DEF Failed
<1>4. CASE SomeKind(waiting, {"authorize"})
  <2>1. PICK q \in waiting : q.kind = "authorize"
    BY <1>4 DEF SomeKind
  <2>2. NoAttempt(flying', waiting')
    BY <1>1, <1>2, <2>1 DEF Undisturbed, Alone, OneAttempt, NoAttempt, AttemptKinds
  <2>3. tokens' = NoTokens
    BY <1>1, <1>4 DEF Failed
  <2>4. state' # "Authenticated"
    BY <1>1, <2>1 DEF Failed, Outcome
  <2> QED
    BY <1>1, <1>2, <1>3, <2>2, <2>3, <2>4, AnsweredSteady
<1>5. CASE ~SomeKind(waiting, {"authorize"})
  <2>1. tokens' = tokens /\ saved' = saved
    BY <1>1, <1>5 DEF Failed
  <2>2. state' = before \/ state' # "Authenticated"
    BY <1>1 DEF Failed, Outcome
  <2> QED
    BY <1>1, <1>2, <1>3, <2>1, <2>2, AnsweredSteady
<1> QED
  BY <1>4, <1>5

\* The browser opens.
LEMMA OpenidOkSteady ==
    ASSUME Inv, Steady, NEW r \in flying, OpenidOk(r), ~overtaken'
    PROVE  Undisturbed'
<1>1. /\ ~overtaken /\ flying' = flying \ {r} /\ r.kind = "openid"
      /\ UNCHANGED <<state, waiting, handoff, flow, suspended, retry, booted, server, account, rows,
                     unlocked, oidc, tokens, saved>>
      /\ browser' = browser \cup {[flow |-> r.flow, at |-> r.to]}
  BY DEF OpenidOk, keyringVars, serverRows, portalVars, countVars, historyVars
<1>2. Alone /\ Kindred /\ Settled /\ OnePage
  BY <1>1 DEF Steady, Undisturbed
<1>3. NoAttempt(flying', waiting')
  BY <1>1, <1>2, AttemptReplied DEF AttemptKinds
<1>4. Alone'
  BY <1>1, <1>2, <1>3 DEF Alone, OneAttempt, NoAttempt
<1>5. Kindred'
  BY <1>1, <1>2 DEF Kindred
<1>6. Settled'
  BY <1>1, <1>2, <1>3 DEF Settled
<1>7. OnePage'
  <2>1. PICK page : page = [flow |-> r.flow, at |-> r.to]
    OBVIOUS
  <2>2. page.flow = r.flow /\ \A p \in browser' : p = page \/ p \in browser
    BY <1>1, <2>1
  <2>3. r.flow <= flow /\ \A p \in browser : p.flow # r.flow
    BY <1>1, <1>2 DEF OnePage
  <2>4. \A x \in flying' \cup waiting' : x.kind \notin {"openid", "exchange"}
    BY <1>3 DEF NoAttempt, AttemptKinds
  <2> QED
    BY <1>1, <1>2, <2>2, <2>3, <2>4 DEF OnePage
<1> QED
  BY <1>4, <1>5, <1>6, <1>7 DEF Undisturbed

\* applyLoginPayload()
LEMMA LoginOkSteady ==
    ASSUME Inv, Steady, NEW r \in flying, NEW owner \in Accounts, NEW named \in BOOLEAN,
           LoginOk(r, owner, named), ~overtaken'
    PROVE  Undisturbed'
<1>1. PICK pair : pair = [at |-> r.to, owner |-> owner, turn |-> 0]
  OBVIOUS
<1>2. PICK auth : auth = Request("authorize", r.flow, server, pair)
  OBVIOUS
<1>3. pair \in Pairs /\ Kin(pair, pair)
  <2>1. r.to \in Servers
    BY RepliedHere
  <2> QED
    BY <1>1, <2>1 DEF Pairs, Kin
<1>4. auth.kind = "authorize" /\ auth.bears = pair /\ auth.flow = r.flow
  BY <1>2 DEF Request
<1>5. /\ ~overtaken /\ ~refreshing /\ tokens' = pair
      /\ UNCHANGED <<state, waiting, handoff, flow, suspended, browser, retry>>
  BY <1>1 DEF LoginOk, keyringVars
<1>6. r.kind \in {"login", "exchange"} /\ flying' = (flying \ {r}) \cup {auth}
  BY <1>1, <1>2 DEF LoginOk
<1>7. oidc' => oidc /\ r.kind # "exchange"
  BY DEF LoginOk
<1>8. Alone /\ Kindred /\ Settled /\ OnePage
  BY <1>5 DEF Steady, Undisturbed
<1>9. NoAttempt(flying \ {r}, waiting)
  BY <1>6, <1>8, AttemptReplied DEF AttemptKinds
<1>10. waiting = {} /\ \A x \in flying : x.kind # "refresh"
  BY <1>5 DEF Inv, InFlight, OneRefreshFor, SomeKind
<1>11. \A x \in flying' \cup waiting' :
         x = auth \/ (x \in flying \ {r} /\ x.kind \notin AttemptKinds /\ x.kind # "refresh")
  BY <1>5, <1>6, <1>9, <1>10 DEF NoAttempt
<1>12. ~oidc' /\ ~retry' /\ suspended' = NoRestore /\ state # "Authenticated"
  BY <1>5, <1>6, <1>7, <1>8 DEF Alone, Settled, NoAttempt, AttemptKinds
<1>13. Alone'
  BY <1>5, <1>10, <1>11, <1>12 DEF Alone, OneAttempt
<1>14. Kindred'
  BY <1>3, <1>4, <1>5, <1>11 DEF Kindred, AttemptKinds
<1>15. OnePage'
  BY <1>4, <1>5, <1>8, <1>11 DEF OnePage, AttemptKinds
<1> QED
  BY <1>5, <1>12, <1>13, <1>14, <1>15 DEF Undisturbed, Settled

\* authorizeAndFinish(): what was verified, what is held and what is saved are one.
LEMMA AuthorizeOkSteady ==
    ASSUME Inv, Steady, NEW r \in flying, AuthorizeOk(r), ~overtaken'
    PROVE  Undisturbed'
<1>1. /\ ~overtaken /\ flying' = flying \ {r} /\ r.kind = "authorize"
      /\ UNCHANGED <<server, tokens, waiting, handoff, oidc, flow, suspended, browser, retry,
                     booted>>
  BY DEF AuthorizeOk, oidcVars, keyringVars, countVars, historyVars
<1>2. Alone /\ Kindred /\ Settled /\ OnePage
  BY <1>1 DEF Steady, Undisturbed
<1>3. NoAttempt(flying', waiting')
  BY <1>1, <1>2, AttemptReplied DEF AttemptKinds
<1>4. Alone' /\ Kindred' /\ OnePage'
  <2>1. Alone'
    BY <1>1, <1>2, <1>3 DEF Alone, OneAttempt, NoAttempt
  <2>2. Kindred'
    BY <1>1, <1>2 DEF Kindred
  <2>3. OnePage'
    BY <1>1, <1>2 DEF OnePage
  <2> QED
    BY <2>1, <2>2, <2>3
<1>5. booted /\ ~oidc /\ ~retry /\ suspended = NoRestore
  <2>1. booted
    BY DEF Steady, Unstarted
  <2> QED
    BY <1>1, <1>2, <2>1 DEF Alone, NoAttempt, AttemptKinds
<1>6. Kin(tokens, r.bears) /\ r.bears.at = server /\ server \in Servers
  BY <1>1, <1>2, RepliedHere DEF Kindred, AuthorizeOk
<1>7. tokens \in Pairs /\ tokens.at = server /\ tokens.owner = r.bears.owner
  BY <1>6 DEF Kin
<1>8. account' = r.bears.owner /\ rows'[server] = r.bears.owner
  BY <1>6 DEF AuthorizeOk, Inv, TypeOK
<1>9. unlocked' => saved'[server] = [tokens |-> tokens, account |-> r.bears.owner]
  BY <1>6 DEF AuthorizeOk, Persist, Inv, TypeOK
<1>10. Settled'
  BY <1>1, <1>3, <1>5, <1>7, <1>8, <1>9 DEF Settled
<1> QED
  BY <1>4, <1>10 DEF Undisturbed

\* sendImpl(): the request that waits is the one that was in flight.
LEMMA UnauthorizedSteady ==
    ASSUME Inv, Steady, NEW r \in flying, Unauthorized(r), ~overtaken'
    PROVE  Undisturbed'
<1>1. PICK sent : sent = Renewal(PointedAt(server), r.flow, tokens)
  OBVIOUS
<1>2. \A x \in sent : x.kind = "refresh" /\ x.bears = tokens
  BY <1>1 DEF Renewal, OwnRenewal, Request
<1>3. /\ ~overtaken /\ tokens # NoTokens
      /\ flying' = (flying \ {r}) \cup sent /\ waiting' = waiting \cup {r}
      /\ UNCHANGED <<state, server, account, tokens, oidc, handoff, browser, retry, saved, rows,
                     unlocked, suspended, booted, flow>>
  BY <1>1 DEF Unauthorized, oidcVars, keyringVars, serverRows, portalVars, countVars, historyVars
<1>4. Alone /\ Kindred /\ Settled /\ OnePage
  BY <1>3 DEF Steady, Undisturbed
<1>5. tokens \in Pairs /\ Kin(tokens, tokens)
  BY <1>3 DEF Inv, TypeOK, Kin
<1>6. \A x \in flying' \cup waiting' : x \in flying \cup waiting \/ x.kind = "refresh"
  BY <1>2, <1>3
<1>7. NoAttempt(flying, waiting) => NoAttempt(flying', waiting')
  BY <1>6 DEF NoAttempt, AttemptKinds
<1>8. Alone'
  <2>1. \A x \in flying' \cup waiting' : x.kind \in AttemptKinds => x \in flying \cup waiting
    BY <1>6 DEF AttemptKinds
  <2>2. \A x \in flying' \cap waiting' : x.kind \notin AttemptKinds
    BY <1>2, <1>3, <1>4 DEF Alone, OneAttempt, AttemptKinds
  <2>3. OneAttempt(flying', waiting')
    BY <1>4, <2>1, <2>2 DEF Alone, OneAttempt
  <2> QED
    BY <1>3, <1>4, <1>7, <2>1, <2>3 DEF Alone
<1>9. Kindred'
  <2>1. \A x \in flying' : x.kind = "refresh" =>
          x.bears \in Pairs /\ (tokens' = NoTokens \/ Kin(tokens', x.bears))
    BY <1>2, <1>3, <1>4, <1>5 DEF Kindred
  <2>2. \A x \in flying' \cup waiting' :
          x.kind \in {"authorize", "restore"} => Kin(tokens', x.bears)
    BY <1>3, <1>4, <1>6 DEF Kindred
  <2> QED
    BY <2>1, <2>2 DEF Kindred
<1>10. Settled'
  BY <1>3, <1>4, <1>7 DEF Settled
<1>11. OnePage'
  BY <1>3, <1>4, <1>6 DEF OnePage
<1> QED
  BY <1>8, <1>9, <1>10, <1>11 DEF Undisturbed

\* What a waiter goes on with is the same step of the same attempt.
LEMMA GoneOnSteady ==
    ASSUME NEW r \in Requests, NEW pair
    PROVE  /\ GoOn(r, pair).flow = r.flow
           /\ GoOn(r, pair).kind \in AttemptKinds <=> r.kind \in AttemptKinds
           /\ GoOn(r, pair).kind \in {"openid", "exchange"} <=> r.kind \in {"openid", "exchange"}
           /\ GoOn(r, pair).kind \in {"authorize", "restore"} =>
                r.kind \in {"authorize", "restore"} /\ GoOn(r, pair).bears = pair
           /\ GoOn(r, pair).kind = "refresh" => r.kind = "refresh"
<1>1. CASE r.kind = "restore"
  <2>1. GoOn(r, pair) = Request("authorize", r.flow, server, pair)
    BY <1>1 DEF GoOn
  <2> QED
    BY <1>1, <2>1 DEF Request, AttemptKinds
<1>2. CASE r.kind # "restore"
  <2>1. GoOn(r, pair) = [r EXCEPT !.bears = IF r.kind = "exchange" THEN r.bears ELSE pair,
                                  !.again = TRUE]
    BY <1>2 DEF GoOn, Replay
  <2>2. GoOn(r, pair).kind = r.kind /\ GoOn(r, pair).flow = r.flow
        /\ (r.kind # "exchange" => GoOn(r, pair).bears = pair)
    BY <2>1 DEF Requests
  <2> QED
    BY <1>2, <2>2
<1> QED
  BY <1>1, <1>2

LEMMA RefreshOkSteady ==
    ASSUME Inv, Steady, NEW r \in flying, RefreshOk(r), ~overtaken'
    PROVE  Undisturbed'
<1>1. PICK pair : pair = [r.bears EXCEPT !.turn = 1 - @]
  OBVIOUS
<1>2. pair \in Pairs /\ r.bears \in Pairs /\ Kin(pair, r.bears) /\ pair.at = server
  <2>1. r.bears \in Pairs /\ r.bears.at = server
    BY DEF RefreshOk
  <2> QED
    BY <1>1, <2>1 DEF Pairs, Kin
<1>3. /\ ~overtaken /\ r.kind = "refresh" /\ tokens' = pair /\ waiting' = {}
      /\ Persist(pair, account)
      /\ UNCHANGED <<state, server, account, oidc, handoff, browser, retry, rows, suspended, booted,
                     flow>>
  BY <1>1 DEF RefreshOk, oidcVars, keyringVars, serverRows, countVars, historyVars
<1>4. \A y \in flying' : y \in flying \ {r} \/ \E x \in waiting : y = GoOn(x, pair)
  BY <1>1 DEF RefreshOk
<1>5. Alone /\ Kindred /\ Settled /\ OnePage
  BY <1>3 DEF Steady, Undisturbed
<1>6. /\ \A x \in waiting : x \in Requests /\ x.kind # "refresh"
      /\ \A x \in flying : x.kind = "refresh" => x = r
  BY <1>3 DEF Inv, TypeOK, InFlight, OneRefreshFor
<1>7. NoAttempt(flying, waiting) => NoAttempt(flying', waiting')
  <2> SUFFICES ASSUME NoAttempt(flying, waiting), NEW y \in flying' PROVE y.kind \notin AttemptKinds
    BY <1>3 DEF NoAttempt
  <2> QED
    BY <1>4, <1>6, GoneOnSteady DEF NoAttempt
<1>8. \A y \in flying' : y.kind # "refresh"
  BY <1>4, <1>6, GoneOnSteady
<1>9. Alone'
  <2>1. ASSUME NEW y \in flying', NEW z \in flying', y.kind \in AttemptKinds,
               z.kind \in AttemptKinds
        PROVE  y = z
    <3>1. \/ y \in flying /\ z \in flying
          \/ \E x \in waiting : y = GoOn(x, pair) /\ z \in flying
          \/ \E x \in waiting : z = GoOn(x, pair) /\ y \in flying
          \/ \E x, v \in waiting : y = GoOn(x, pair) /\ z = GoOn(v, pair)
      BY <1>4
    <3>2. CASE y \in flying /\ z \in flying
      BY <1>5, <2>1, <3>2 DEF Alone, OneAttempt
    <3>3. ASSUME NEW x \in waiting, NEW v \in flying, v.kind \in AttemptKinds,
                 GoOn(x, pair).kind \in AttemptKinds
          PROVE  FALSE
      BY <1>5, <1>6, <3>3, GoneOnSteady DEF Alone, OneAttempt
    <3>4. ASSUME NEW x \in waiting, NEW v \in waiting, y = GoOn(x, pair), z = GoOn(v, pair)
          PROVE  y = z
      <4>1. x.kind \in AttemptKinds /\ v.kind \in AttemptKinds
        BY <1>6, <2>1, <3>4, GoneOnSteady
      <4>2. x = v
        BY <1>5, <4>1 DEF Alone, OneAttempt
      <4> QED
        BY <3>4, <4>2
    <3> QED
      BY <2>1, <3>1, <3>2, <3>3, <3>4
  <2>2. OneAttempt(flying', waiting')
    BY <1>3, <2>1 DEF OneAttempt
  <2>3. ASSUME oidc', NEW y \in flying', y.kind \in AttemptKinds
        PROVE  y.kind \in {"openid", "exchange"} /\ y.flow = handoff'
    <3>1. CASE y \in flying
      BY <1>3, <1>5, <2>3, <3>1 DEF Alone
    <3>2. ASSUME NEW x \in waiting, y = GoOn(x, pair)
          PROVE  y.kind \in {"openid", "exchange"} /\ y.flow = handoff'
      BY <1>3, <1>5, <1>6, <2>3, <3>2, GoneOnSteady DEF Alone
    <3> QED
      BY <1>4, <3>1, <3>2
  <2> QED
    BY <1>3, <1>5, <1>7, <2>2, <2>3 DEF Alone
<1>10. Kindred'
  <2>1. ASSUME NEW y \in flying', y.kind \in {"authorize", "restore"} PROVE Kin(pair, y.bears)
    <3>1. CASE y \in flying
      <4>1. Kin(tokens, y.bears)
        BY <1>5, <2>1, <3>1 DEF Kindred
      <4>2. tokens # NoTokens
        BY <4>1, SignInAssumption DEF Kin, SignInAssumption
      <4>3. Kin(tokens, r.bears)
        BY <1>3, <1>5, <4>2 DEF Kindred
      <4> QED
        BY <1>2, <4>1, <4>3 DEF Kin
    <3>2. ASSUME NEW x \in waiting, y = GoOn(x, pair) PROVE Kin(pair, y.bears)
      BY <1>2, <1>6, <2>1, <3>2, GoneOnSteady DEF Kin
    <3> QED
      BY <1>4, <3>1, <3>2
  <2> QED
    BY <1>3, <1>8, <2>1 DEF Kindred
<1>11. Settled'
  <2> SUFFICES ASSUME state = "Authenticated" PROVE Settled'
    BY <1>3 DEF Settled
  <2>1. server \in Servers
    BY RepliedHere
  <2>2. pair.owner = account
    BY <1>2, <1>3, <1>5, SignInAssumption DEF Settled, Kindred, Kin, SignInAssumption
  <2>3. unlocked' => saved'[server] = [tokens |-> pair, account |-> account]
    BY <1>3, <2>1 DEF Persist, Inv, TypeOK
  <2> QED
    BY <1>2, <1>3, <1>5, <1>7, <2>2, <2>3 DEF Settled
<1>12. OnePage'
  <2>1. ASSUME NEW y \in flying', y.kind \in {"openid", "exchange"}
        PROVE  y.flow <= flow /\ \A p \in browser : p.flow # y.flow
    <3>1. CASE y \in flying
      BY <1>5, <2>1, <3>1 DEF OnePage
    <3>2. ASSUME NEW x \in waiting, y = GoOn(x, pair)
          PROVE  y.flow <= flow /\ \A p \in browser : p.flow # y.flow
      BY <1>5, <1>6, <2>1, <3>2, GoneOnSteady DEF OnePage
    <3> QED
      BY <1>4, <3>1, <3>2
  <2> QED
    BY <1>3, <1>5, <2>1 DEF OnePage
<1> QED
  BY <1>9, <1>10, <1>11, <1>12 DEF Undisturbed

LEMMA ApiCallSteady == ASSUME Inv, Steady, ApiCall, ~overtaken' PROVE Undisturbed'
<1>1. /\ ~overtaken
      /\ UNCHANGED <<state, waiting, handoff, browser, oidc, flow, suspended, retry, booted, server,
                     account, rows, unlocked, tokens, saved>>
  BY DEF ApiCall, oidcVars, keyringVars, serverRows, portalVars, historyVars
<1>2. \A r \in flying' : r \in flying \/ r.kind \in {"api", "logout"}
  BY DEF ApiCall, Request
<1>3. Undisturbed
  BY <1>1 DEF Steady
<1> QED
  BY <1>1, <1>2, <1>3, QuietSteady

LEMMA UnstartedStep == ASSUME Inv, Unstarted, [Next]_vars PROVE Unstarted'
<1>1. CASE UNCHANGED vars
  BY <1>1 DEF Unstarted, vars, netVars, oidcVars, keyringVars, portalVars, countVars
<1>2. CASE Boot
  BY <1>2 DEF Boot, Unstarted
<1>3. CASE KillStep
  BY <1>3 DEF KillStep, Restart, AuthorizeKilled, Killed, StopWaiting, Unstarted
<1>4. CASE booted /\ (UserStep \/ KeyringRetry \/ PortalAnswers \/ ApiCall)
  <2>1. booted' = booted
    BY <1>4 DEF UserStep, CheckServer, RestoreSession, LoginLocal, BeginOidc, CancelAuth, Logout,
                KeyringRetry, PortalAnswers, ApiCall, countVars
  <2> QED
    BY <1>4, <2>1 DEF Unstarted
<1>5. CASE ~booted
  <2>1. ~UserStep /\ ~KeyringRetry /\ ~PortalAnswers /\ ~ApiCall
    BY <1>5 DEF Unstarted, UserStep, CheckServer, RestoreSession, LoginLocal, BeginOidc, CancelAuth,
                Logout, Begins, OnScreen, KeyringRetry, PortalAnswers, ApiCall
  <2>2. ~NetworkStep
    BY <1>5 DEF Unstarted, NetworkStep
  <2>3. CASE OidcTimeout
    BY <1>5, <2>3 DEF OidcTimeout, Unstarted, netVars, keyringVars, portalVars, countVars
  <2>4. CASE BrowserStep
    BY <1>5, <2>4 DEF BrowserStep, OauthCallback, Unstarted, keyringVars, portalVars, countVars
  <2> QED
    BY <1>1, <1>2, <1>3, <2>1, <2>2, <2>3, <2>4 DEF Next, TimerStep
<1>6. CASE booted /\ (OidcTimeout \/ BrowserStep)
  BY <1>6 DEF OidcTimeout, BrowserStep, OauthCallback, countVars, Unstarted
<1>7. CASE booted /\ NetworkStep
  <2>1. PICK r \in flying : Answer(r)
    BY <1>7 DEF NetworkStep
  <2>2. StatusOk(r) \/ OpenidOk(r) \/ LoginUseless(r) \/ AuthorizeOk(r) \/ OtherOk(r)
        => booted' = booted
    BY DEF StatusOk, OpenidOk, LoginUseless, AuthorizeOk, OtherOk, countVars
  <2>3. ReplyFails(r) \/ Unauthorized(r) \/ RefreshOk(r) => booted' = booted
    BY DEF ReplyFails, Unauthorized, RefreshOk, countVars
  <2>4. \A owner \in Accounts, named \in BOOLEAN : LoginOk(r, owner, named) => booted' = booted
    BY DEF LoginOk, countVars
  <2>5. \A refused \in BOOLEAN : RefreshFails(r, refused) => booted' = booted
    BY DEF RefreshFails, countVars
  <2>6. booted' = booted
    BY <2>1, <2>2, <2>3, <2>4, <2>5 DEF Answer
  <2> QED
    BY <1>7, <2>6 DEF Unstarted
<1> QED
  BY <1>1, <1>2, <1>3, <1>4, <1>5, <1>6, <1>7 DEF Next, TimerStep

LEMMA SteadyStep == Inv /\ Steady /\ [Next]_vars => Steady'
<1> SUFFICES ASSUME Inv, Steady, [Next]_vars, ~overtaken' PROVE Undisturbed'
  BY UnstartedStep DEF Steady
<1>1. CASE UNCHANGED vars
  <2>1. Undisturbed
    BY <1>1 DEF vars, historyVars, Steady
  <2>2. Alone' /\ Kindred'
    BY <1>1, <2>1 DEF Undisturbed, Alone, Kindred, vars, netVars, oidcVars, keyringVars, portalVars
  <2>3. Settled' /\ OnePage'
    BY <1>1, <2>1 DEF Undisturbed, Settled, OnePage, vars, netVars, oidcVars, keyringVars,
                      portalVars, serverRows, countVars
  <2> QED
    BY <2>2, <2>3 DEF Undisturbed
<1>2. CASE Boot
  BY <1>2, BootSteady
<1>3. CASE KillStep
  BY <1>3, KilledSteady DEF KillStep, Restart, AuthorizeKilled
<1>4. CASE UserStep
  BY <1>4, CheckServerSteady, RestoreSessionSteady, LoginLocalSteady, BeginOidcSteady,
     CancelAuthSteady, LogoutSteady DEF UserStep
<1>5. CASE TimerStep
  BY <1>5, OidcTimeoutSteady, KeyringRetrySteady, PortalAnswersSteady DEF TimerStep
<1>6. CASE BrowserStep
  BY <1>6, OauthCallbackSteady DEF BrowserStep
<1>7. CASE NetworkStep
  <2>1. PICK r \in flying : Answer(r)
    BY <1>7 DEF NetworkStep
  <2> QED
    BY <2>1, PlainReplySteady, OpenidOkSteady, LoginOkSteady, AuthorizeOkSteady, UnauthorizedSteady,
       RefreshOkSteady, RefreshFailsSteady
    DEF Answer
<1>8. CASE ApiCall
  BY <1>8, ApiCallSteady
<1> QED
  BY <1>1, <1>2, <1>3, <1>4, <1>5, <1>6, <1>7, <1>8 DEF Next

LEMMA SteadyInvariant == Spec => [](Inv /\ Steady)
<1>1. Init => Inv /\ Steady
  BY InvInit, InitSteady
<1>2. Inv /\ Steady /\ [Next]_vars => (Inv /\ Steady)'
  BY InvStep, SteadyStep
<1> QED
  BY <1>1, <1>2, PTL DEF Spec

\* authorizeAndFinish(): whoever is signed in holds tokens the next launch can
\* restore, whatever replies, rotations and retries came before.
THEOREM SignedInRestores == Spec => []SignedInIsRestorable
<1>1. Inv /\ Steady => SignedInIsRestorable
  <2> SUFFICES ASSUME Inv, Steady, state = "Authenticated", ~overtaken
               PROVE  /\ tokens # NoTokens
                      /\ tokens.at = server /\ tokens.owner = account /\ account = rows[server]
                      /\ unlocked => saved[server] = [tokens |-> tokens, account |-> account]
    BY DEF SignedInIsRestorable
  <2>1. Settled
    BY DEF Steady, Undisturbed
  <2> QED
    BY <2>1, SignInAssumption DEF Settled, SignInAssumption
<1> QED
  BY <1>1, SteadyInvariant, PTL

\* A signed-in state that a step leaves for another than the ways out.
LEMMA StaysIn ==
    ASSUME Inv, Steady, [Next]_vars, state = "Authenticated", ~overtaken, ~WaysOut
    PROVE  state' = "Authenticated"
<1>1. Settled
  BY DEF Steady, Undisturbed
<1>2. booted /\ ~oidc /\ ~retry /\ suspended = NoRestore /\ NoAttempt(flying, waiting)
  BY <1>1 DEF Settled
<1>3. CASE UNCHANGED vars \/ ApiCall \/ OidcTimeout
  BY <1>2, <1>3 DEF vars, ApiCall, OidcTimeout
<1>4. ~Boot /\ ~KillStep /\ ~Logout /\ ~KeyringRetry /\ ~PortalAnswers
  BY <1>2 DEF Boot, WaysOut, KillStep, Restart, AuthorizeKilled, KeyringRetry, PortalAnswers
<1>5. ~LoginLocal /\ ~BeginOidc /\ ~CancelAuth
      /\ \A s \in Servers : ~CheckServer(s) /\ ~RestoreSession(s)
  BY DEF LoginLocal, BeginOidc, CancelAuth, CheckServer, RestoreSession, Begins, OnScreen
<1>6. CASE BrowserStep
  BY <1>2, <1>6 DEF BrowserStep, OauthCallback
<1>7. CASE NetworkStep
  <2>1. PICK r \in flying : Answer(r)
    BY <1>7 DEF NetworkStep
  <2>2. r.kind \notin AttemptKinds
    BY <1>2 DEF NoAttempt
  <2>3. CASE OtherOk(r) \/ Unauthorized(r) \/ RefreshOk(r)
    BY <2>3 DEF OtherOk, Unauthorized, RefreshOk
  <2>4. ~StatusOk(r) /\ ~OpenidOk(r) /\ ~LoginUseless(r) /\ ~AuthorizeOk(r)
    BY <2>2 DEF StatusOk, OpenidOk, LoginUseless, AuthorizeOk, AttemptKinds
  <2>5. \A owner \in Accounts, named \in BOOLEAN : ~LoginOk(r, owner, named)
    BY <2>2 DEF LoginOk, AttemptKinds
  <2>6. CASE ReplyFails(r)
    <3>1. r.kind \in {"api", "logout"}
      <4>1. r.kind \in Kinds /\ r.kind # "refresh"
        BY <2>6, RepliedHere DEF ReplyFails
      <4> QED
        BY <2>2, <4>1 DEF Kinds, AttemptKinds
    <3>2. {x \in {r} : x.kind \notin {"api", "logout"}} = {}
      BY <3>1
    <3>3. Failed({r}, state)
      BY <2>6, <3>1 DEF ReplyFails
    <3> QED
      BY <3>2, <3>3 DEF Failed
  <2>7. ASSUME NEW refused \in BOOLEAN, RefreshFails(r, refused) PROVE state' = "Authenticated"
    <3>1. refused = FALSE
      BY <2>7 DEF WaysOut
    <3>2. Failed(waiting, state)
      BY <2>7, <3>1 DEF RefreshFails
    <3>3. \A x \in waiting : x.kind \in {"api", "logout"}
      BY <1>2 DEF NoAttempt, AttemptKinds, Inv, TypeOK, Requests, Kinds, InFlight, OneRefreshFor
    <3>4. {x \in waiting : x.kind \notin {"api", "logout"}} = {}
      BY <3>3
    <3> QED
      BY <3>2, <3>4 DEF Failed
  <2> QED
    BY <2>1, <2>3, <2>4, <2>5, <2>6, <2>7 DEF Answer
<1> QED
  BY <1>3, <1>4, <1>5, <1>6, <1>7 DEF Next, UserStep, TimerStep

\* main.cpp:175: only sign-out and a refused refresh lead out of the signed-in
\* state, for a user who lets an attempt finish before the next.
THEOREM StaysUntilRefused == Spec => SignedInUntilRefused
<1>1. Inv /\ Steady /\ [Next]_vars
      => [state = "Authenticated" /\ state' # "Authenticated" /\ ~overtaken => WaysOut]_vars
  BY StaysIn
<1> QED
  BY <1>1, SteadyInvariant, PTL DEF Spec, SignedInUntilRefused
=============================================================================
