-------------------------------- MODULE SignIn --------------------------------
(***************************************************************************)
(* Signing in: the state machine of auth/AuthManager.cpp, the tokens of    *)
(* auth/TokenStore.cpp with their single-flight refresh, and the requests  *)
(* of net/ApiClient.cpp with the one replay of a 401.  The server, the     *)
(* browser, the keyring and the secrets table are what they act upon.      *)
(*                                                                         *)
(* A sign-in attempt is a flow, numbered as the user (or the start of the  *)
(* application) begins it; a request is named by its kind and its flow.    *)
(* The base URL of the client and the key of the token store always name   *)
(* the same server.  Pointing the client at another server completes, in   *)
(* that very call, every request in flight as stale.                       *)
(***************************************************************************)
EXTENDS Naturals, FiniteSets

CONSTANTS
    Servers, Accounts,
    NoServer, NoAccount, NoTokens, NoBlob, NoRestore,
    KeyringRetries,     \* the length of kKeyringRetrySeconds (6)
    MaxFlows,           \* bound: sign-in attempts
    MaxCalls,           \* bound: content requests
    MaxRuns,            \* bound: launches of the application
    PortalPrompts       \* does asking the keyring let other handlers run?

\* An access token with its refresh token: who issued it, to whom, and which of
\* two successive rotations it is.
Pairs    == [at : Servers, owner : Accounts, turn : {0, 1}]
Blobs    == [tokens : Pairs \cup {NoTokens}, account : Accounts \cup {NoAccount}]
States   == {"Disconnected", "Checking", "NeedsLogin", "Authenticating", "Authenticated", "Error"}
Kinds    == {"status", "login", "openid", "exchange", "authorize", "logout", "api",
             "refresh", "restore"}

\* What a request bears: a token pair, or the server whose OpenID code it is.
\* The kind "restore" is not sent: it is attemptRestore() waiting on a refresh.
Requests == [kind : Kinds, flow : 0 .. MaxFlows + MaxCalls, to : Servers,
             bears : Pairs \cup Servers \cup {NoTokens}, again : BOOLEAN]
Pages    == [flow : 0 .. MaxFlows + MaxCalls, at : Servers]
Restores == [server : Servers, blob : Blobs \cup {NoBlob}, account : Accounts \cup {NoAccount},
             from : {"user", "retry", "boot"}]

ASSUME SignInAssumption ==
    /\ NoServer \notin Servers /\ NoAccount \notin Accounts
    /\ NoTokens \notin Pairs \cup Servers
    /\ NoBlob \notin Blobs /\ NoRestore \notin Restores
    /\ Servers \cap Pairs = {}
    /\ KeyringRetries \in Nat /\ MaxFlows \in Nat /\ MaxCalls \in Nat /\ MaxRuns \in Nat \ {0}
    /\ PortalPrompts \in BOOLEAN

VARIABLES
    state,                          \* AuthManager::m_state
    server, account,                \* the server and account the client works for
    tokens,                         \* m_access with m_refresh, and the client's bearer
    flying,                         \* requests sent and not answered
    waiting, refreshing,            \* TokenStore::m_pending, m_refreshing
    oidc, handoff, oidcTimer,       \* m_oidcInProgress, the flow of m_pkce, m_oidcTimeout
    browser,                        \* identity-provider pages the browser has open
    restore, retry, attempts,       \* m_restoreUrl, m_keyringRetry, m_keyringAttempts
    saved, rows, recent,            \* disk: token blobs, servers table, last used
    unlocked, suspended,            \* is m_master known?  a restore asking the portal
    methods,                        \* has a /status of this run offered a login form?
    booted, flow, calls, runs,      \* main() has run; what was used of the bounds
    overtaken,                      \* history: moved on with an attempt or a refresh unfinished
    signedOut                       \* history: signed out, and no attempt begun since

netVars     == <<flying, waiting, refreshing>>
oidcVars    == <<oidc, handoff, oidcTimer, browser>>
keyringVars == <<restore, retry, attempts>>
serverRows  == <<rows, recent>>
portalVars  == <<unlocked, suspended>>
countVars   == <<booted, calls, runs>>
historyVars == <<overtaken, signedOut>>
vars == <<state, server, account, tokens, netVars, oidcVars, keyringVars, saved, serverRows,
          portalVars, methods, countVars, flow, historyVars>>

TypeOK ==
    /\ state \in States
    /\ server \in Servers \cup {NoServer} /\ account \in Accounts \cup {NoAccount}
    /\ tokens \in Pairs \cup {NoTokens}
    /\ flying \subseteq Requests /\ waiting \subseteq Requests /\ refreshing \in BOOLEAN
    /\ oidc \in BOOLEAN /\ handoff \in 0 .. MaxFlows /\ oidcTimer \in BOOLEAN
    /\ browser \subseteq Pages
    /\ restore \in Servers \cup {NoServer} /\ retry \in BOOLEAN
    /\ attempts \in 0 .. KeyringRetries
    /\ saved \in [Servers -> Blobs \cup {NoBlob}]
    /\ rows \in [Servers -> Accounts \cup {NoAccount}] /\ recent \in Servers \cup {NoServer}
    /\ unlocked \in BOOLEAN /\ suspended \in Restores \cup {NoRestore}
    /\ methods \in BOOLEAN /\ booted \in BOOLEAN /\ flow \in 0 .. MaxFlows
    /\ calls \in 0 .. MaxCalls /\ runs \in 0 .. MaxRuns
    /\ overtaken \in BOOLEAN /\ signedOut \in BOOLEAN

\* An earlier run may have left sign-ins behind.
Init ==
    /\ state = "Disconnected" /\ server = NoServer /\ account = NoAccount /\ tokens = NoTokens
    /\ flying = {} /\ waiting = {} /\ refreshing = FALSE
    /\ oidc = FALSE /\ handoff = 0 /\ oidcTimer = FALSE /\ browser = {}
    /\ restore = NoServer /\ retry = FALSE /\ attempts = 0
    /\ \E owner \in [Servers -> Accounts \cup {NoAccount}] :
         /\ rows = owner
         /\ saved = [s \in Servers |-> IF owner[s] = NoAccount THEN NoBlob ELSE
                       [tokens  |-> [at |-> s, owner |-> owner[s], turn |-> 0],
                        account |-> owner[s]]]
         /\ recent \in {s \in Servers : owner[s] # NoAccount} \cup {NoServer}
         /\ recent = NoServer => \A s \in Servers : owner[s] = NoAccount
    /\ unlocked = FALSE /\ suspended = NoRestore
    /\ methods = FALSE /\ booted = FALSE /\ flow = 0 /\ calls = 0 /\ runs = 1
    /\ overtaken = FALSE /\ signedOut = FALSE
-----------------------------------------------------------------------------
\* The calls the handlers are made of.

Busy == state \in {"Checking", "Authenticating"}

Request(kind, f, s, bears) ==
    [kind |-> kind, flow |-> f, to |-> s, bears |-> bears, again |-> FALSE]

SomeKind(rs, kinds) == \E r \in rs : r.kind \in kinds

\* The client with nothing aborted: it points at s already.
\* Slip: also when it points elsewhere.
KeptAcross(s) ==
    [server |-> s, state |-> state, oidc |-> oidc,
     flying |-> flying, waiting |-> waiting, refreshing |-> refreshing]

\* setBaseUrl(): what is left when the client points at s.  Aborting a refresh
\* fails its waiters, among them a restore, which gives up.
PointedAt(s) ==
    IF s = server THEN KeptAcross(s)
    ELSE [server |-> s,
          state  |-> IF SomeKind(waiting, {"restore"}) THEN "NeedsLogin" ELSE state,
          oidc   |-> oidc /\ ~SomeKind(flying \cup waiting, {"openid", "exchange"}),
          flying |-> {}, waiting |-> {}, refreshing |-> FALSE]

\* An attempt or a refresh whose end the client w, and the keyring, still await.
Unfinished(w) == \/ w.oidc \/ suspended # NoRestore
                 \/ SomeKind(w.flying \cup w.waiting, Kinds \ {"api", "logout"})

\* The user begins an attempt; a retry that is not stopped by it is unfinished too.
Overtakes(w, scheduled) ==
    /\ overtaken' = (overtaken \/ scheduled \/ Unfinished(w))
    /\ signedOut' = FALSE

MovesOn(w) == Overtakes(w, FALSE)

StopWaiting == retry' = FALSE /\ attempts' = 0

\* persist(): without the master secret what was saved before is left alone.
Persist(pair, owner) ==
    \E got \in {unlocked, TRUE} :
       /\ unlocked' = got
       /\ saved' = IF got THEN [saved EXCEPT ![server] = [tokens |-> pair, account |-> owner]]
                   ELSE saved

\* Slip: every 401 asks for a refresh of its own.
OwnRenewal(w, f, pair) == {[Request("refresh", f, w.server, pair) EXCEPT !.again = TRUE]}

\* TokenStore::refresh(): one /auth/refresh for all that wait; it is never
\* itself replayed.
Renewal(w, f, pair) == IF w.refreshing THEN {} ELSE OwnRenewal(w, f, pair)

\* What becomes of AuthManager when the requests rs fail.  When several fail at
\* once the one handled last has the last word.
Outcome(kind) == IF kind \in {"status", "exchange"} THEN "Error" ELSE "NeedsLogin"

\* Slip: a content request that fails ends the session.
AllFailed(rs, before) ==
    LET forget  == SomeKind(rs, {"authorize"})
    IN  /\ state' \in IF rs = {} THEN {before} ELSE {Outcome(r.kind) : r \in rs}
        /\ oidc' = (oidc /\ ~SomeKind(rs, {"openid", "exchange"}))
        /\ tokens' = IF forget THEN NoTokens ELSE tokens
        /\ saved' = IF forget THEN [saved EXCEPT ![server] = NoBlob] ELSE saved

Failed(rs, before) ==
    LET handled == {r \in rs : r.kind \notin {"api", "logout"}}
        forget  == SomeKind(rs, {"authorize"})
    IN  /\ state' \in IF handled = {} THEN {before} ELSE {Outcome(r.kind) : r \in handled}
        /\ oidc' = (oidc /\ ~SomeKind(rs, {"openid", "exchange"}))
        /\ tokens' = IF forget THEN NoTokens ELSE tokens
        /\ saved' = IF forget THEN [saved EXCEPT ![server] = NoBlob] ELSE saved
-----------------------------------------------------------------------------
\* Pointing the client, and restoring.

Adopts(w, sent) ==
    /\ server' = w.server /\ oidc' = w.oidc
    /\ flying' = w.flying \cup sent
    /\ waiting' = w.waiting /\ refreshing' = w.refreshing

\* checkServer()
Checks(w, f) ==
    /\ Adopts(w, {Request("status", f, w.server, NoTokens)})
    /\ tokens' = NoTokens /\ account' = NoAccount
    /\ state' = "Checking"
    /\ StopWaiting

\* Slip: the timer of the retry is not started.
WaitUnscheduled(n) == retry' = FALSE /\ attempts' = n /\ state' = "Authenticating"

\* waitForKeyring(), after n attempts.
WaitForKeyring(n) ==
    IF n < KeyringRetries
    THEN retry' = TRUE /\ attempts' = n + 1 /\ state' = "Authenticating"
    ELSE StopWaiting /\ state' = "NeedsLogin"

\* attemptRestore() finds nothing to restore: the sign-in screen goes on with
\* checkServer(), a retry asks the user, the start of the application shows the
\* sign-in screen as it is.
Forgoes(w, q, holder, f, st, pair) ==
    IF q.from = "user"
    THEN Checks(IF w.server = q.server THEN w ELSE PointedAt(q.server), f)
    ELSE /\ Adopts(w, {})
         /\ account' = holder /\ tokens' = pair
         /\ state' = IF q.from = "retry" THEN "NeedsLogin" ELSE st
         /\ StopWaiting

\* attemptRestore() has tokens: they are refreshed first when about to expire.
Enters(w, f, pair) ==
    /\ state' = "Authenticating" /\ tokens' = pair
    /\ StopWaiting
    /\ \/ Adopts(w, {Request("authorize", f, w.server, pair)})
       \/ Adopts([w EXCEPT !.waiting = @ \cup {Request("restore", f, w.server, pair)},
                           !.refreshing = TRUE],
                 Renewal(w, f, pair))

\* TokenStore::load() and what attemptRestore() makes of it.  A blob that does
\* not open under the account is removed, under the key of that moment.
Loads(w, q, holder, f, n, mayFail) ==
    \/ /\ q.blob = NoBlob
       /\ Forgoes(w, q, holder, f, w.state, tokens)
       /\ UNCHANGED <<saved, unlocked>>
    \/ /\ q.blob # NoBlob
       /\ mayFail
       /\ unlocked' = FALSE
       /\ Adopts(w, {})
       /\ account' = holder
       /\ WaitForKeyring(n)
       /\ UNCHANGED <<tokens, saved>>
    \/ /\ q.blob # NoBlob
       /\ unlocked' = TRUE
       /\ IF q.blob.account # q.account
          THEN /\ saved' = [saved EXCEPT ![w.server] = NoBlob]
               /\ Forgoes(w, q, holder, f, "NeedsLogin", tokens)
          ELSE /\ UNCHANGED saved
               /\ IF q.blob.tokens = NoTokens
                  THEN Forgoes(w, q, holder, f, w.state, NoTokens)
                  ELSE account' = holder /\ Enters(w, f, q.blob.tokens)

\* attemptRestore().  Asking the portal for the key spins an event loop: the
\* rest happens when it answers, whatever was handled meanwhile.
Attempt(s, from, f, n) ==
    LET w == PointedAt(s)
        q == [server |-> s, blob |-> saved[s], account |-> rows[s], from |-> from]
    IN  IF PortalPrompts /\ q.blob # NoBlob /\ ~unlocked
        THEN /\ suspended = NoRestore        \* bound: one portal request at a time
             /\ suspended' = q
             /\ Adopts(w, {})
             /\ state' = w.state /\ account' = q.account
             /\ retry' = FALSE /\ attempts' = n
             /\ UNCHANGED <<tokens, saved, unlocked>>
        ELSE /\ Loads(w, q, q.account, f, n, ~unlocked)
             /\ UNCHANGED suspended
-----------------------------------------------------------------------------

\* main(): the server used last is restored at the start.
Boot ==
    /\ ~booted
    /\ booted' = TRUE
    /\ IF recent = NoServer \/ flow = MaxFlows
       THEN UNCHANGED <<state, server, account, tokens, netVars, oidc, keyringVars, saved,
                        portalVars, flow>>
       ELSE /\ flow' = flow + 1 /\ restore' = recent
            /\ Attempt(recent, "boot", flow + 1, 0)
    /\ UNCHANGED <<handoff, oidcTimer, browser, serverRows, methods, calls, runs, historyVars>>

\* A crash or a quit, and the next launch: only the disk is left.
Killed ==
    /\ booted /\ runs < MaxRuns
    /\ runs' = runs + 1
    /\ state' = "Disconnected" /\ server' = NoServer /\ account' = NoAccount
    /\ tokens' = NoTokens
    /\ flying' = {} /\ waiting' = {} /\ refreshing' = FALSE
    /\ oidc' = FALSE /\ handoff' = 0 /\ oidcTimer' = FALSE /\ browser' = {}
    /\ restore' = NoServer /\ StopWaiting
    /\ unlocked' = FALSE /\ suspended' = NoRestore
    /\ methods' = FALSE /\ booted' = FALSE
    /\ overtaken' = FALSE /\ signedOut' = FALSE
    /\ UNCHANGED <<serverRows, calls, flow>>

Restart == Killed /\ UNCHANGED saved

\* The sign-in screen, shown whenever nobody is signed in.
OnScreen == booted /\ state # "Authenticated"

Begins == OnScreen /\ flow < MaxFlows /\ flow' = flow + 1

\* Slip: a retry scheduled earlier stays scheduled.
CheckKeepsRetrying(s) ==
    /\ Begins
    /\ Adopts(PointedAt(s), {Request("status", flow + 1, s, NoTokens)})
    /\ tokens' = NoTokens /\ account' = NoAccount /\ state' = "Checking"
    /\ MovesOn(PointedAt(s))
    /\ UNCHANGED <<handoff, oidcTimer, browser, keyringVars, saved, serverRows, portalVars,
                   methods, countVars>>

CheckServer(s) ==
    /\ Begins
    /\ Checks(PointedAt(s), flow + 1)
    /\ MovesOn(PointedAt(s))
    /\ UNCHANGED <<handoff, oidcTimer, browser, restore, saved, serverRows, portalVars, methods,
                   countVars>>

\* restoreSession(), from the list of saved servers.
RestoreSession(s) ==
    /\ Begins
    /\ rows[s] # NoAccount
    /\ restore' = s
    /\ Attempt(s, "user", flow + 1, 0)
    /\ MovesOn(PointedAt(s))
    /\ UNCHANGED <<handoff, oidcTimer, browser, serverRows, methods, countVars>>

\* The portal answers a suspended restore: with the key, or after its timeouts
\* without (which also forgets a key another handler may have got).  A refresh of
\* the tokens that those restored replace may be in flight.
PortalAnswers ==
    /\ suspended # NoRestore
    /\ suspended' = NoRestore
    /\ Loads(PointedAt(server), suspended, account, flow, attempts, TRUE)
    /\ overtaken' = (overtaken \/ refreshing)
    /\ UNCHANGED <<handoff, oidcTimer, browser, restore, serverRows, methods, countVars, flow,
                   signedOut>>

\* m_keyringRetry, and the same refresh.
KeyringRetry ==
    /\ retry
    /\ Attempt(restore, "retry", flow, attempts)
    /\ overtaken' = (overtaken \/ PointedAt(restore).refreshing)
    /\ UNCHANGED <<handoff, oidcTimer, browser, restore, serverRows, methods, countVars, flow,
                   signedOut>>

LoginLocal ==
    /\ Begins
    /\ state = "NeedsLogin" /\ methods
    /\ state' = "Authenticating"
    /\ flying' = flying \cup {Request("login", flow + 1, server, NoTokens)}
    /\ Overtakes(PointedAt(server), retry)
    /\ UNCHANGED <<server, account, tokens, waiting, refreshing, oidcVars, keyringVars, saved,
                   serverRows, portalVars, methods, countVars>>

BeginOidc ==
    /\ Begins
    /\ state = "NeedsLogin" /\ methods
    /\ state' = "Authenticating"
    /\ oidc' = TRUE /\ handoff' = flow + 1
    /\ flying' = flying \cup {Request("openid", flow + 1, server, NoTokens)}
    /\ Overtakes(PointedAt(server), retry)
    /\ UNCHANGED <<server, account, tokens, waiting, refreshing, oidcTimer, browser, keyringVars,
                   saved, serverRows, portalVars, methods, countVars>>

CancelAuth ==
    /\ OnScreen /\ Busy
    /\ state' = "NeedsLogin"
    /\ oidc' = FALSE /\ oidcTimer' = FALSE
    /\ StopWaiting
    /\ overtaken' = (overtaken \/ suspended # NoRestore
                     \/ SomeKind(flying \cup waiting, Kinds \ {"api", "logout"}))
    /\ UNCHANGED <<server, account, tokens, netVars, handoff, browser, restore, saved, serverRows,
                   portalVars, methods, countVars, flow, signedOut>>

\* logout(): the local session ends before the server answers.
Logout ==
    /\ booted /\ state = "Authenticated"
    /\ state' = "NeedsLogin"
    /\ StopWaiting
    /\ tokens' = NoTokens
    /\ saved' = [saved EXCEPT ![server] = NoBlob]
    /\ flying' = flying \cup {Request("logout", flow, server, tokens)}
    /\ signedOut' = TRUE
    /\ overtaken' = (overtaken \/ Unfinished(PointedAt(server)))
    /\ UNCHANGED <<server, account, waiting, refreshing, oidcVars, restore, serverRows, portalVars,
                   methods, countVars, flow>>
-----------------------------------------------------------------------------
\* OpenID: the browser, and the time it is given.

OidcTimeout ==
    /\ oidcTimer
    /\ oidcTimer' = FALSE
    /\ oidc' = FALSE
    /\ state' = IF oidc THEN "NeedsLogin" ELSE state
    /\ UNCHANGED <<server, account, tokens, netVars, handoff, browser, keyringVars, saved,
                   serverRows, portalVars, methods, countVars, flow, historyVars>>

\* onOauthCallback(): a callback counts while an attempt is in progress, and
\* only with the state parameter of that attempt.
OauthCallback(page, code) ==
    /\ page \in browser
    /\ browser' = browser \ {page}
    /\ IF ~oidc
       THEN UNCHANGED <<state, flying, oidc, oidcTimer>>
       ELSE /\ oidcTimer' = FALSE
            /\ IF code /\ page.flow = handoff
               THEN /\ flying' = flying \cup {Request("exchange", handoff, server, page.at)}
                    /\ UNCHANGED <<state, oidc>>
               ELSE oidc' = FALSE /\ state' = "Error" /\ UNCHANGED flying
    /\ UNCHANGED <<server, account, tokens, waiting, refreshing, handoff, keyringVars, saved,
                   serverRows, portalVars, methods, countVars, flow, historyVars>>
-----------------------------------------------------------------------------
\* Replies.  Every one takes its request out of flying.  None is stale: what was
\* in flight to another server was completed when the client left it.

Replied(r) == r \in flying

StatusOk(r) ==
    /\ Replied(r) /\ r.kind = "status"
    /\ flying' = flying \ {r}
    /\ state' = "NeedsLogin" /\ methods' = TRUE
    /\ UNCHANGED <<server, account, tokens, waiting, refreshing, oidcVars, keyringVars, saved,
                   serverRows, portalVars, countVars, flow, historyVars>>

\* The browser opens on the identity provider.
OpenidOk(r) ==
    /\ Replied(r) /\ r.kind = "openid"
    /\ flying' = flying \ {r}
    /\ oidcTimer' = TRUE
    /\ browser' = browser \cup {[flow |-> r.flow, at |-> r.to]}
    /\ UNCHANGED <<state, server, account, tokens, waiting, refreshing, oidc, handoff, keyringVars,
                   saved, serverRows, portalVars, methods, countVars, flow, historyVars>>

\* applyLoginPayload(), of /login or the OpenID code exchange.  The payload may
\* name the account or not; the tokens are saved before /authorize is asked.  A
\* refresh of the tokens they replace may still be in flight.
LoginOk(r, owner, named) ==
    LET pair == [at |-> r.to, owner |-> owner, turn |-> 0]
        bind == IF named THEN owner ELSE NoAccount
    IN  /\ Replied(r)
        /\ r.kind = "login" \/ (r.kind = "exchange" /\ r.bears = r.to)
        /\ account' = bind /\ tokens' = pair
        /\ Persist(pair, bind)
        /\ oidc' = (oidc /\ r.kind # "exchange")
        /\ flying' = (flying \ {r}) \cup {Request("authorize", r.flow, server, pair)}
        /\ overtaken' = (overtaken \/ refreshing)
        /\ UNCHANGED <<state, server, waiting, refreshing, handoff, oidcTimer, browser, keyringVars,
                       serverRows, suspended, methods, countVars, flow, signedOut>>

\* A login reply without an access token.
LoginUseless(r) ==
    /\ Replied(r) /\ r.kind \in {"login", "exchange"}
    /\ flying' = flying \ {r}
    /\ state' = "Error"
    /\ oidc' = (oidc /\ r.kind # "exchange")
    /\ UNCHANGED <<server, account, tokens, waiting, refreshing, handoff, oidcTimer, browser,
                   keyringVars, saved, serverRows, portalVars, methods, countVars, flow,
                   historyVars>>

\* Slip: the tokens stay saved as the login payload had them.
AuthorizeBindsNothing(r) ==
    /\ Replied(r) /\ r.kind = "authorize" /\ r.bears \in Pairs /\ r.bears.at = r.to
    /\ flying' = flying \ {r}
    /\ state' = "Authenticated"
    /\ rows' = [rows EXCEPT ![server] = r.bears.owner] /\ recent' = server
    /\ UNCHANGED <<server, account, tokens, waiting, refreshing, oidcVars, keyringVars, saved,
                   portalVars, methods, countVars, flow, historyVars>>

\* authorizeAndFinish() succeeds: what is held is saved under the account the
\* server names, and so is the server's row.
AuthorizeOk(r) ==
    /\ Replied(r) /\ r.kind = "authorize" /\ r.bears \in Pairs /\ r.bears.at = r.to
    /\ flying' = flying \ {r}
    /\ account' = r.bears.owner
    /\ Persist(tokens, r.bears.owner)
    /\ state' = "Authenticated"
    /\ rows' = [rows EXCEPT ![server] = r.bears.owner] /\ recent' = server
    /\ UNCHANGED <<server, tokens, waiting, refreshing, oidcVars, keyringVars, suspended, methods,
                   countVars, flow, historyVars>>

\* A kill inside that handler: the tokens are saved and the row is not.
AuthorizeKilled(r) ==
    /\ Replied(r) /\ r.kind = "authorize" /\ r.bears \in Pairs /\ r.bears.at = r.to
    /\ saved' = [saved EXCEPT ![server] = [tokens |-> tokens, account |-> r.bears.owner]]
    /\ Killed

\* The answers that change nothing here: content, and /logout.
OtherOk(r) ==
    /\ Replied(r)
    /\ r.kind \in {"api", "logout"}
    /\ flying' = flying \ {r}
    /\ UNCHANGED <<state, server, account, tokens, waiting, refreshing, oidcVars, keyringVars,
                   saved, serverRows, portalVars, methods, countVars, flow, historyVars>>

\* Any failure but a 401 that may be replayed.  A verified session that the
\* server does not know is forgotten; one it could not be asked about is kept.
ReplyFails(r) ==
    /\ Replied(r) /\ r.kind # "refresh"
    /\ flying' = flying \ {r}
    /\ \/ Failed({r}, state)
       \/ r.kind = "authorize" /\ state' = "NeedsLogin" /\ UNCHANGED <<oidc, tokens, saved>>
    /\ UNCHANGED <<server, account, waiting, refreshing, handoff, oidcTimer, browser, keyringVars,
                   serverRows, portalVars, methods, countVars, flow, historyVars>>

\* sendImpl(): a first 401 waits for a refresh, if there is something to refresh
\* with.
Unauthorized(r) ==
    /\ Replied(r)
    /\ r.kind # "refresh"
    /\ ~r.again /\ tokens # NoTokens
    /\ flying' = (flying \ {r}) \cup Renewal(PointedAt(server), r.flow, tokens)
    /\ waiting' = waiting \cup {r}
    /\ refreshing' = TRUE
    /\ UNCHANGED <<state, server, account, tokens, oidcVars, keyringVars, saved, serverRows,
                   portalVars, methods, countVars, flow, historyVars>>

\* Slip: a replay may be replayed.
ReplayFreely(r, pair) == [r EXCEPT !.bears = pair]

\* The same request with the new bearer; an exchange keeps its OpenID code.
Replay(r, pair) == [r EXCEPT !.bears = IF r.kind = "exchange" THEN @ ELSE pair, !.again = TRUE]

\* The waiters go on: requests are replayed, a restore is verified.
GoOn(r, pair) == IF r.kind = "restore" THEN Request("authorize", r.flow, server, pair)
                 ELSE Replay(r, pair)

RefreshOk(r) ==
    LET pair == [r.bears EXCEPT !.turn = 1 - @]
    IN  /\ Replied(r) /\ r.kind = "refresh" /\ r.bears \in Pairs /\ r.bears.at = r.to
        /\ r.to = server        \* the key is compared once more
        /\ tokens' = pair
        /\ Persist(pair, account)
        /\ refreshing' = FALSE /\ waiting' = {}
        /\ flying' = (flying \ {r}) \cup {GoOn(w, pair) : w \in waiting}
        /\ UNCHANGED <<state, server, account, oidcVars, keyringVars, serverRows, suspended, methods,
                       countVars, flow, historyVars>>

\* Refused, it ends the session; failing otherwise, only the waiters.
RefreshFails(r, refused) ==
    /\ Replied(r) /\ r.kind = "refresh"
    /\ flying' = flying \ {r}
    /\ refreshing' = FALSE /\ waiting' = {}
    /\ Failed(waiting, IF refused THEN "NeedsLogin" ELSE state)
    /\ UNCHANGED <<server, account, handoff, oidcTimer, browser, keyringVars, serverRows, portalVars,
                   methods, countVars, flow, historyVars>>

\* The signed-in application asks for content.
ApiCall ==
    /\ booted /\ state = "Authenticated"
    /\ calls < MaxCalls
    /\ calls' = calls + 1
    /\ flying' = flying \cup {Request("api", calls + 1, server, tokens)}
    /\ UNCHANGED <<state, server, account, tokens, waiting, refreshing, oidcVars, keyringVars, saved,
                   serverRows, portalVars, methods, booted, runs, flow, historyVars>>
-----------------------------------------------------------------------------

UserStep ==
    \/ \E s \in Servers : CheckServer(s) \/ RestoreSession(s)
    \/ LoginLocal
    \/ BeginOidc
    \/ CancelAuth
    \/ Logout

TimerStep == OidcTimeout \/ KeyringRetry \/ PortalAnswers

BrowserStep == \E page \in browser : \E code \in BOOLEAN : OauthCallback(page, code)

Answer(r) ==
    \/ StatusOk(r)
    \/ OpenidOk(r)
    \/ \E owner \in Accounts, named \in BOOLEAN : LoginOk(r, owner, named)
    \/ LoginUseless(r)
    \/ AuthorizeOk(r)
    \/ OtherOk(r)
    \/ ReplyFails(r)
    \/ Unauthorized(r)
    \/ RefreshOk(r)
    \/ \E refused \in BOOLEAN : RefreshFails(r, refused)

NetworkStep == \E r \in flying : Answer(r)

KillStep == Restart \/ \E r \in flying : AuthorizeKilled(r)

Next == Boot \/ KillStep \/ UserStep \/ TimerStep \/ BrowserStep \/ NetworkStep \/ ApiCall

Spec == Init /\ [][Next]_vars

\* Fairness: main() runs, timers expire, the portal answers or times out, and
\* what is in flight is answered (every request has a transfer timeout).
\* Nothing is assumed of the user, the browser, or what the answers are.
Fairness == WF_vars(Boot) /\ WF_vars(OidcTimeout) /\ WF_vars(KeyringRetry)
            /\ WF_vars(PortalAnswers) /\ WF_vars(NetworkStep)

FairSpec == Spec /\ Fairness
-----------------------------------------------------------------------------
\* TokenStore::refresh(): one refresh at a time, and whoever waits waits on it.
SingleFlight ==
    /\ refreshing <=> SomeKind(flying, {"refresh"})
    /\ \A q, r \in flying : q.kind = "refresh" /\ r.kind = "refresh" => q = r
    /\ waiting # {} => refreshing

\* The sign-in saved under a server's key is one that server issued: a late
\* login or refresh reply never lands under the key chosen since.
SavedTokensAreHome ==
    \A s \in Servers : saved[s] # NoBlob /\ saved[s].tokens # NoTokens => saved[s].tokens.at = s

\* authorizeAndFinish(): whoever is signed in holds tokens, and the next launch
\* can restore them: they are saved, newest rotation included, under the account
\* of the server's row.  Not claimed once the user has moved on with an earlier
\* attempt unfinished, or has come by other tokens while a refresh of earlier ones
\* was in flight (TokenStore.cpp:142 compares servers and not sign-ins when it is
\* answered), nor while the keyring has never opened.
SignedInIsRestorable ==
    state = "Authenticated" /\ ~overtaken =>
        /\ tokens # NoTokens
        /\ tokens.at = server /\ tokens.owner = account /\ account = rows[server]
        /\ unlocked => saved[server] = [tokens |-> tokens, account |-> account]

\* main.cpp:175 names the ways out of the signed-in state: sign-out and a
\* refused refresh (a launch that cannot unlock its tokens never gets in).
WaysOut == Logout \/ Killed \/ \E r \in flying : RefreshFails(r, TRUE)

StaysSignedIn == [][state = "Authenticated" /\ state' # "Authenticated" => WaysOut]_vars

\* The same, for a user who lets an attempt finish before the next.
SignedInUntilRefused ==
    [][state = "Authenticated" /\ state' # "Authenticated" /\ ~overtaken => WaysOut]_vars

\* A keyring retry is for the server the client points at: it never takes the
\* client back to one the user has left.
RetryIsForTheChosenServer == retry => restore = server

\* logout(), tst_authmanager.cpp:136: the local session is over and stays so
\* until the user begins a sign-in.
SignedOutStaysOut == signedOut => state # "Authenticated" /\ tokens = NoTokens

\* Liveness: no attempt spins for ever, and no call waits on a refresh for ever.
BusyEnds == Busy ~> ~Busy

Asked(n) == \E r \in flying \cup waiting : r.kind = "api" /\ r.flow = n

EveryCallAnswered == \A n \in 1 .. MaxCalls : Asked(n) ~> ~Asked(n)
=============================================================================
