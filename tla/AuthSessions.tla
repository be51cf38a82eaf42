----------------------------- MODULE AuthSessions -----------------------------
(***************************************************************************)
(* The sessions of one user of the console: the axios interceptors of      *)
(* services/api.ts and the provider of context/AuthContext.tsx in several  *)
(* tabs of a browser that share its local storage, against the token       *)
(* service of the backend (services/auth.py), whose steps are the calls to *)
(* Redis.                                                                  *)
(*                                                                         *)
(* A login or a rotation issues a pair of tokens, an access and a refresh  *)
(* token; pairs are numbered, 0 is none.                                   *)
(***************************************************************************)
EXTENDS Naturals, FiniteSets

CONSTANTS
    Tabs,
    Slots,      \* requests a tab may have in flight
    LoginLimit, \* LOGIN_RATE_LIMIT (5)
    MaxPairs,   \* bound: pairs issued
    MaxSeconds, \* bound: the clock
    MaxActs     \* bound: what the user does

ASSUME AuthSessionsAssumption ==
    /\ Tabs # {} /\ IsFiniteSet(Tabs) /\ Slots # {}
    /\ LoginLimit \in Nat /\ MaxPairs \in Nat /\ MaxSeconds \in Nat /\ MaxActs \in Nat

VARIABLES
    live,      \* auth:refresh:*, the refresh tokens that can be used
    index,     \* auth:sessions:*, the refresh tokens the user has
    black,     \* auth:bl:*, access tokens that were logged out
    expired,   \* access tokens past their 15 minutes
    iat,       \* iat[p]: the second pair p was issued in
    revokedAt, \* auth:revoke_all:*, a second, 0 if there is none
    seconds,   \* the server's clock
    attempts,  \* auth:rl:*, login attempts counted in the window
    storage,   \* the browser's local storage: pair and whether the user is kept
    shown,     \* shown[t]: tab t shows a signed-in user
    login,     \* login[t]: the login in progress
    rot,       \* rot[t]: refreshPromise, the rotation in progress
    req,       \* req[t][s]: the request in slot s
    mishap,    \* unusual events so far
    acts       \* what the user has done, up to MaxActs

server == <<live, index, black, revokedAt, iat, attempts>>
browser == <<storage, shown, login, rot, req>>
asVars == <<server, expired, seconds, browser, mishap, acts>>

Pairs == 0..MaxPairs
Issued == DOMAIN iat
NoRequest == [kind |-> "none", step |-> "idle", pair |-> 0, retried |-> FALSE]
NoRotation == [step |-> "idle", pair |-> 0, doomed |-> {}]
NoLogin == [step |-> "idle", pair |-> 0]

\* shared: two tabs rotated at once;  overlap: a logout and a rotation did;
\* lost: the answer of a rotation was not heard;  relogin: a login arrived while
\* a session was there or being ended;  unsent: a request did not reach the server;  abandoned: a tab was
\* reloaded while it waited for its logout.
MishapKinds == {"shared", "overlap", "lost", "relogin", "unsent", "abandoned"}

Act == acts < MaxActs /\ acts' = acts + 1
Rotating(t) == rot[t].step # "idle"

\* An access token passes get_token_payload.
Accepted(p) == p # 0 /\ p \notin expired \cup black /\ iat[p] > revokedAt

\* _issue_pair: both tokens, in one transaction of Redis.
IssuePair(p) ==
    /\ p \notin Issued /\ p = Cardinality(Issued) + 1 /\ p <= MaxPairs
    /\ iat' = [q \in Issued \cup {p} |-> IF q = p THEN seconds ELSE iat[q]]
    /\ live' = live \cup {p} /\ index' = index \cup {p}

Cleared == [pair |-> 0, user |-> FALSE]

-----------------------------------------------------------------------------
ASInit ==
    /\ live = {} /\ index = {} /\ black = {} /\ expired = {}
    /\ iat = [p \in {} |-> 0] /\ revokedAt = 0 /\ seconds = 1 /\ attempts = 0
    /\ storage = Cleared
    /\ shown = [t \in Tabs |-> FALSE] /\ login = [t \in Tabs |-> NoLogin]
    /\ rot = [t \in Tabs |-> NoRotation] /\ req = [t \in Tabs |-> [s \in Slots |-> NoRequest]]
    /\ mishap = {} /\ acts = 0

Tick ==
    /\ seconds < MaxSeconds /\ seconds' = seconds + 1
    /\ UNCHANGED <<server, expired, browser, mishap, acts>>

\* After 15 minutes; a rotated token outlasts the request it is fetched for,
\* whose timeout is 20 seconds.
InUse(p) ==
    \E t \in Tabs : \/ rot[t].step = "issued" /\ rot[t].pair = p
                    \/ \E s \in Slots : req[t][s].retried /\ req[t][s].pair = p

AccessExpires ==
    /\ \E p \in Issued \ expired : ~InUse(p) /\ expired' = expired \cup {p}
    /\ UNCHANGED <<server, seconds, browser, mishap, acts>>

WindowPasses ==
    /\ attempts # 0 /\ attempts' = 0
    /\ UNCHANGED <<live, index, black, revokedAt, iat, expired, seconds, browser, mishap, acts>>

-----------------------------------------------------------------------------
(* Login                                                                     *)

StartLogin(t) ==
    /\ Act /\ ~shown[t] /\ login[t] = NoLogin
    /\ \A s \in Slots : req[t][s] = NoRequest
    /\ login' = [login EXCEPT ![t] = [step |-> "check", pair |-> 0]]
    /\ UNCHANGED <<server, expired, seconds, storage, shown, rot, req, mishap>>

\* Mutant: one attempt more than the limit.
UnderLimitByOne == attempts <= LoginLimit

UnderLimit == attempts < LoginLimit

\* check_login_rate_limit reads the number of attempts, then adds its own.
CheckAttempts(t) ==
    /\ login[t].step = "check"
    /\ login' = [login EXCEPT ![t] = IF UnderLimit THEN [step |-> "count", pair |-> 0] ELSE NoLogin]
    /\ UNCHANGED <<server, expired, seconds, storage, shown, rot, req, mishap, acts>>

CountAttempt(t) ==
    /\ login[t].step = "count"
    /\ attempts' = attempts + 1
    /\ login' = [login EXCEPT ![t] = [step |-> "verify", pair |-> 0]]
    /\ UNCHANGED <<live, index, black, revokedAt, iat, expired, seconds,
                   storage, shown, rot, req, mishap, acts>>

\* The password is wrong, or a pair is issued.
VerifyPassword(t) ==
    /\ login[t].step = "verify"
    /\ \/ /\ login' = [login EXCEPT ![t] = NoLogin]
          /\ UNCHANGED <<live, index, iat>>
       \/ \E p \in Pairs :
            /\ IssuePair(p)
            /\ login' = [login EXCEPT ![t] = [step |-> "issued", pair |-> p]]
    /\ UNCHANGED <<black, revokedAt, attempts, expired, seconds, storage, shown, rot, req, mishap, acts>>

LoginArrives(t) ==
    /\ login[t].step = "issued"
    /\ storage' = [pair |-> login[t].pair, user |-> TRUE]
    /\ shown' = [shown EXCEPT ![t] = TRUE]
    /\ login' = [login EXCEPT ![t] = NoLogin]
    /\ mishap' = IF storage.pair # 0 \/ \E u \in Tabs : Rotating(u) \/ \E s \in Slots : req[u][s] # NoRequest
                 THEN mishap \cup {"relogin"} ELSE mishap
    /\ UNCHANGED <<server, expired, seconds, rot, req, acts>>

-----------------------------------------------------------------------------
(* Requests, the interceptors, logout                                        *)

Send(t, s, kind) ==
    /\ req[t][s] = NoRequest
    /\ req' = [req EXCEPT ![t][s] = [kind |-> kind, step |-> "sent", pair |-> storage.pair,
                                     retried |-> FALSE]]

CallApi(t, s) ==
    /\ Act /\ shown[t] /\ Send(t, s, "call")
    /\ UNCHANGED <<server, expired, seconds, storage, shown, login, rot, mishap>>

Logout(t, s) ==
    /\ Act /\ shown[t] /\ Send(t, s, "logout")
    /\ mishap' = IF \E u \in Tabs : Rotating(u) THEN mishap \cup {"overlap"} ELSE mishap
    /\ UNCHANGED <<server, expired, seconds, storage, shown, login, rot>>

\* A reload forgets what the tab waited for; checkAuth asks for the user if the
\* storage has one.  (Not while the server is at work on the tab's rotation.)
Reload(t) ==
    /\ Act /\ login[t] = NoLogin /\ rot[t].step \in {"idle", "issued", "failed"}
    /\ shown' = [shown EXCEPT ![t] = FALSE]
    /\ rot' = [rot EXCEPT ![t] = NoRotation]
    /\ \E s \in Slots :
         req' = [req EXCEPT ![t] = [r \in Slots |->
                   IF r = s /\ storage.pair # 0 /\ storage.user
                   THEN [kind |-> "me", step |-> "sent", pair |-> storage.pair, retried |-> FALSE]
                   ELSE NoRequest]]
    /\ mishap' = mishap \cup (IF rot[t].step = "issued" THEN {"lost"} ELSE {})
                        \cup (IF \E s \in Slots : req[t][s].kind = "logout" THEN {"abandoned"} ELSE {})
    /\ UNCHANGED <<server, expired, seconds, storage, login>>

\* Mutant: logout leaves the refresh token.
BlacklistOnly(t, s) ==
    /\ req[t][s].step = "sent"
    /\ LET p == req[t][s].pair
           ok == Accepted(p)
       IN  /\ req' = [req EXCEPT ![t][s].step = IF ok THEN "ok" ELSE "unauthorized"]
           /\ black' = IF ok /\ req[t][s].kind = "logout" THEN black \cup {p} ELSE black
    /\ UNCHANGED <<live, index, revokedAt, iat, attempts, expired, seconds, storage, shown,
                   login, rot, mishap, acts>>

\* The service's logout: the access token is blacklisted, its refresh token goes.
ServeRequest(t, s) ==
    /\ req[t][s].step = "sent"
    /\ LET p == req[t][s].pair
           ok == Accepted(p)
       IN  /\ req' = [req EXCEPT ![t][s].step = IF ok THEN "ok" ELSE "unauthorized"]
           /\ IF ok /\ req[t][s].kind = "logout"
              THEN /\ black' = black \cup {p}
                   /\ live' = live \ {p} /\ index' = index \ {p}
              ELSE UNCHANGED <<black, live, index>>
    /\ UNCHANGED <<revokedAt, iat, attempts, expired, seconds, storage, shown, login, rot, mishap, acts>>

RequestLost(t, s) ==
    /\ req[t][s].step = "sent"
    /\ req' = [req EXCEPT ![t][s].step = "failed"]
    /\ mishap' = mishap \cup {"unsent"}
    /\ UNCHANGED <<server, expired, seconds, storage, shown, login, rot, acts>>

\* Mutant: every 401 starts a rotation of its own.
JoinsNoRotation(t) == FALSE

\* refreshPromise: a rotation of this tab is under way.
JoinsRotation(t) == Rotating(t)

\* The response interceptor on a 401: wait for the tab's rotation, or start one
\* with the stored token; without a token the session is given up.
Unauthorized(t, s) ==
    /\ req[t][s].step = "unauthorized"
    /\ \/ /\ req[t][s].retried
          /\ req' = [req EXCEPT ![t][s].step = "failed"]
          /\ UNCHANGED <<storage, shown, rot, mishap>>
       \/ /\ ~req[t][s].retried /\ JoinsRotation(t)
          /\ req' = [req EXCEPT ![t][s].step = "waiting"]
          /\ UNCHANGED <<storage, shown, rot, mishap>>
       \/ /\ ~req[t][s].retried /\ ~JoinsRotation(t) /\ storage.pair # 0
          /\ req' = [req EXCEPT ![t][s].step = "waiting"]
          /\ rot' = [rot EXCEPT ![t] = [step |-> "sent", pair |-> storage.pair, doomed |-> {}]]
          /\ mishap' = mishap
               \cup (IF \E u \in Tabs \ {t} : Rotating(u) THEN {"shared"} ELSE {})
               \cup (IF \E u \in Tabs, r \in Slots :
                          req[u][r].kind = "logout" /\ <<u, r>> # <<t, s>>
                     THEN {"overlap"} ELSE {})
          /\ UNCHANGED <<storage, shown>>
       \/ /\ ~req[t][s].retried /\ ~JoinsRotation(t) /\ storage.pair = 0
          /\ req' = [req EXCEPT ![t][s].step = "failed"]
          /\ storage' = Cleared /\ shown' = [shown EXCEPT ![t] = FALSE]
          /\ UNCHANGED <<rot, mishap>>
    /\ UNCHANGED <<server, expired, seconds, login, acts>>

\* The caller goes on: logout clears everything whatever came of its call;
\* checkAuth shows the user or clears everything.
RequestEnds(t, s) ==
    /\ req[t][s].step \in {"ok", "failed"}
    /\ req' = [req EXCEPT ![t][s] = NoRequest]
    /\ CASE req[t][s].kind = "logout" ->
              storage' = Cleared /\ shown' = [shown EXCEPT ![t] = FALSE]
         [] req[t][s].kind = "me" /\ req[t][s].step = "ok" ->
              storage' = [pair |-> storage.pair, user |-> TRUE] /\ shown' = [shown EXCEPT ![t] = TRUE]
         [] req[t][s].kind = "me" /\ req[t][s].step = "failed" ->
              storage' = Cleared /\ shown' = [shown EXCEPT ![t] = FALSE]
         [] OTHER -> UNCHANGED <<storage, shown>>
    /\ UNCHANGED <<server, expired, seconds, login, rot, mishap, acts>>

-----------------------------------------------------------------------------
(* Rotation                                                                  *)

\* getdel of the refresh token: a token that is not there was used before.
ConsumeRefresh(t) ==
    /\ rot[t].step = "sent"
    /\ LET p == rot[t].pair
       IN  /\ live' = live \ {p} /\ index' = IF p \in live THEN index \ {p} ELSE index
           /\ rot' = [rot EXCEPT ![t].step = IF p \in live THEN "consumed" ELSE "reused"]
    /\ UNCHANGED <<black, revokedAt, iat, attempts, expired, seconds, storage, shown, login, req, mishap, acts>>

RotatePair(t) ==
    /\ rot[t].step = "consumed"
    /\ \E p \in Pairs :
         /\ IssuePair(p)
         /\ rot' = [rot EXCEPT ![t] = [@ EXCEPT !.step = "issued", !.pair = p]]
    /\ UNCHANGED <<black, revokedAt, attempts, expired, seconds, storage, shown, login, req, mishap, acts>>

\* revoke_all_sessions reads the user's tokens, then deletes those it read.
ReadSessions(t) ==
    /\ rot[t].step = "reused"
    /\ rot' = [rot EXCEPT ![t].step = "revoking", ![t].doomed = index]
    /\ UNCHANGED <<server, expired, seconds, storage, shown, login, req, mishap, acts>>

\* Mutant: only the refresh tokens are deleted.
RevokeRefreshOnly(t) ==
    /\ rot[t].step = "revoking"
    /\ live' = live \ rot[t].doomed /\ index' = {}
    /\ rot' = [rot EXCEPT ![t].step = "failed"]
    /\ UNCHANGED <<black, revokedAt, iat, attempts, expired, seconds,
                   storage, shown, login, req, mishap, acts>>

RevokeSessions(t) ==
    /\ rot[t].step = "revoking"
    /\ live' = live \ rot[t].doomed /\ index' = {}
    /\ revokedAt' = seconds
    /\ rot' = [rot EXCEPT ![t].step = "failed"]
    /\ UNCHANGED <<black, iat, attempts, expired, seconds, storage, shown, login, req, mishap, acts>>

\* Mutant: the new refresh token is not stored.
KeepOldRefresh(t) ==
    /\ rot[t].step = "issued"
    /\ rot' = [rot EXCEPT ![t] = NoRotation]
    /\ req' = [req EXCEPT ![t] = [s \in Slots |->
                 IF req[t][s].step = "waiting"
                 THEN [kind |-> req[t][s].kind, step |-> "sent", pair |-> rot[t].pair, retried |-> TRUE]
                 ELSE req[t][s]]]
    /\ UNCHANGED <<server, expired, seconds, storage, shown, login, mishap, acts>>

\* The requests of the tab that wait go out again with the stored token.
RotationArrives(t) ==
    /\ rot[t].step = "issued"
    /\ storage' = [storage EXCEPT !.pair = rot[t].pair]
    /\ rot' = [rot EXCEPT ![t] = NoRotation]
    /\ req' = [req EXCEPT ![t] = [s \in Slots |->
                 IF req[t][s].step = "waiting"
                 THEN [kind |-> req[t][s].kind, step |-> "sent", pair |-> rot[t].pair, retried |-> TRUE]
                 ELSE req[t][s]]]
    /\ UNCHANGED <<server, expired, seconds, shown, login, mishap, acts>>

\* The rotation was refused, or its answer was lost: the session is given up.
RotationFails(t) ==
    /\ rot[t].step \in {"failed", "issued"}
    /\ mishap' = IF rot[t].step = "issued" THEN mishap \cup {"lost"} ELSE mishap
    /\ rot' = [rot EXCEPT ![t] = NoRotation]
    /\ req' = [req EXCEPT ![t] = [s \in Slots |->
                 IF req[t][s].step = "waiting" THEN [req[t][s] EXCEPT !.step = "failed"]
                 ELSE req[t][s]]]
    /\ storage' = Cleared /\ shown' = [shown EXCEPT ![t] = FALSE]
    /\ UNCHANGED <<server, expired, seconds, login, acts>>

ASNext ==
    \/ Tick \/ AccessExpires \/ WindowPasses
    \/ \E t \in Tabs :
         \/ StartLogin(t) \/ CheckAttempts(t) \/ CountAttempt(t) \/ VerifyPassword(t)
         \/ LoginArrives(t) \/ Reload(t)
         \/ \E s \in Slots : \/ CallApi(t, s) \/ Logout(t, s) \/ ServeRequest(t, s)
                             \/ RequestLost(t, s) \/ Unauthorized(t, s) \/ RequestEnds(t, s)
         \/ ConsumeRefresh(t) \/ RotatePair(t) \/ ReadSessions(t) \/ RevokeSessions(t)
         \/ RotationArrives(t) \/ RotationFails(t)

ASSpec == ASInit /\ [][ASNext]_asVars

-----------------------------------------------------------------------------
(* Properties                                                                *)

\* The session state stays within the values its code produces.
AuthTypeOK ==
    /\ live \subseteq Issued /\ index \subseteq Issued /\ black \subseteq Issued
    /\ expired \subseteq Issued /\ Issued \subseteq 1..MaxPairs
    /\ \A p \in Issued : iat[p] \in 1..seconds
    /\ revokedAt \in 0..seconds /\ storage.pair \in Issued \cup {0}
    /\ mishap \subseteq MishapKinds

Waiting == \E t \in Tabs : \/ Rotating(t) \/ login[t] # NoLogin
                           \/ \E s \in Slots : req[t][s] # NoRequest

\* When the browser has signed out and nothing is in flight no refresh token is
\* left that could continue the session: logout finds the pair that is in use,
\* also when its own call had to rotate it first.
SignOutEndsSession ==
    ~Waiting /\ storage.pair = 0 /\ mishap = {} => live = {}

\* A tab that shows a user, with nothing in flight, has tokens its session can
\* go on with, unless another tab signed out.
ShownUserHasSession ==
    ~Waiting /\ mishap = {} =>
        \A t \in Tabs : shown[t] /\ storage.pair # 0 => storage.pair \in live

\* The console does not set off the theft alarm on its own user: all sessions
\* are revoked only after rotations of two tabs, or a logout and a rotation,
\* ran at once, an answer was lost, a login came on top of a session, or a tab
\* was reloaded during its logout.
NoFalseAlarm ==
    (\E t \in Tabs : rot[t].step = "reused") \/ revokedAt # 0
        => mishap \cap {"shared", "overlap", "lost", "relogin", "abandoned"} # {}

\* Once sessions are revoked every pair issued until then is dead to the API,
\* and its refresh token too unless it was issued while the revocation ran.
RevocationIsComplete ==
    [][\A t \in Tabs :
         rot[t].step = "revoking" /\ rot'[t].step = "failed" =>
             /\ \A p \in Issued : ~Accepted(p)'
             /\ live' \cap rot[t].doomed = {}]_asVars

\* However logins overlap, a window counts at most one attempt beyond the limit
\* for each further login that was being checked at the same time.
AttemptsBounded ==
    attempts + Cardinality({t \in Tabs : login[t].step = "count"})
        <= LoginLimit + Cardinality(Tabs) - 1 \/ attempts = 0
=============================================================================
