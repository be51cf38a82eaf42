------------------------------ MODULE AuthProofs ------------------------------
(***************************************************************************)
(* What holds of the sessions of AuthSessions for any number of tabs,      *)
(* requests and pairs of tokens.                                           *)
(*                                                                         *)
(* RevocationIsComplete rests on the server's clock: no pair is stamped    *)
(* with a later second than the present one.  AttemptsBounded counts the   *)
(* logins that were checked and have not yet been counted.  NoFalseAlarm,  *)
(* ShownUserHasSession and SignOutEndsSession need to know where each pair *)
(* is: TokenInv keeps the pairs of logins and rotations apart, CalmInv has *)
(* one rotation at a time, with a refresh token that lives, and QuietInv   *)
(* finds every refresh token that lives stored or about to be.             *)
(***************************************************************************)
EXTENDS AuthSessions, FiniteSetTheorems, TLAPS

-----------------------------------------------------------------------------
(* Revocation                                                                *)

StampsInv ==
    /\ seconds \in Nat /\ \A p \in Issued : iat[p] \in Nat /\ iat[p] <= seconds
    /\ rot = [t \in Tabs |-> rot[t]]

\* Nothing is issued and nothing rotates at the start.
LEMMA InitStamps == ASInit => StampsInv
BY DEF ASInit, StampsInv, Issued

\* A pair is stamped with the present second.
LEMMA IssueKeepsStamps ==
    ASSUME StampsInv, NEW p, IssuePair(p), UNCHANGED seconds
    PROVE  \A q \in Issued' : iat'[q] \in Nat /\ iat'[q] <= seconds'
BY DEF StampsInv, IssuePair, Issued

\* Each step keeps the stamps: the clock only advances, and pairs are issued now.
LEMMA StepKeepsStamps == ASSUME StampsInv, [ASNext]_asVars PROVE StampsInv'
<1>1. CASE UNCHANGED asVars
  BY <1>1 DEF asVars, server, browser, StampsInv, Issued
<1>2. CASE Tick
  BY <1>2 DEF Tick, server, browser, StampsInv, Issued
<1>3. CASE AccessExpires \/ WindowPasses
  BY <1>3 DEF AccessExpires, WindowPasses, server, browser, StampsInv, Issued
<1>4. ASSUME NEW t \in Tabs, \/ StartLogin(t) \/ CheckAttempts(t) \/ CountAttempt(t) \/ LoginArrives(t)
      PROVE  StampsInv'
  BY <1>4 DEF StartLogin, CheckAttempts, CountAttempt, LoginArrives, server, StampsInv, Issued
<1>5. ASSUME NEW t \in Tabs, VerifyPassword(t) PROVE StampsInv'
  <2>1. UNCHANGED <<rot, seconds>> /\ (UNCHANGED iat \/ \E p \in Pairs : IssuePair(p))
    BY <1>5 DEF VerifyPassword
  <2> QED
    BY <2>1, IssueKeepsStamps DEF StampsInv, Issued
<1>6. ASSUME NEW t \in Tabs, RotatePair(t) PROVE StampsInv'
  <2>1. UNCHANGED seconds /\ \E p \in Pairs : IssuePair(p)
    BY <1>6 DEF RotatePair
  <2>2. rot' = [u \in Tabs |-> rot'[u]]
    BY <1>6 DEF RotatePair, StampsInv
  <2> QED
    BY <2>1, <2>2, IssueKeepsStamps DEF StampsInv
<1>7. ASSUME NEW t \in Tabs,
             \/ Reload(t) \/ ConsumeRefresh(t) \/ ReadSessions(t) \/ RevokeSessions(t)
             \/ RotationArrives(t) \/ RotationFails(t) \/ \E s \in Slots : Unauthorized(t, s)
      PROVE  StampsInv'
  <2>1. UNCHANGED <<seconds, iat>>
    BY <1>7 DEF Reload, ConsumeRefresh, ReadSessions, RevokeSessions, RotationArrives,
       RotationFails, Unauthorized, server
  <2>2. rot' = [u \in Tabs |-> rot'[u]]
    BY <1>7 DEF Reload, ConsumeRefresh, ReadSessions, RevokeSessions, RotationArrives,
       RotationFails, Unauthorized, StampsInv
  <2> QED
    BY <2>1, <2>2 DEF StampsInv, Issued
<1>8. ASSUME NEW t \in Tabs, NEW s \in Slots,
             \/ CallApi(t, s) \/ Logout(t, s) \/ ServeRequest(t, s) \/ RequestLost(t, s) \/ RequestEnds(t, s)
      PROVE  StampsInv'
  BY <1>8 DEF CallApi, Logout, ServeRequest, RequestLost, RequestEnds, server, StampsInv, Issued
<1> QED
  BY <1>1, <1>2, <1>3, <1>4, <1>5, <1>6, <1>7, <1>8 DEF ASNext

\* A rotation that was revoking and has failed took the step that revokes.
LEMMA OnlyRevokeFails ==
    ASSUME StampsInv, ASNext, NEW t \in Tabs, rot[t].step = "revoking", rot'[t].step = "failed"
    PROVE  RevokeSessions(t)
<1>1. PICK u \in Tabs :
        \/ Reload(u) \/ ConsumeRefresh(u) \/ RotatePair(u) \/ ReadSessions(u) \/ RevokeSessions(u)
        \/ RotationArrives(u) \/ RotationFails(u) \/ \E s \in Slots : Unauthorized(u, s)
  BY DEF ASNext, Tick, AccessExpires, WindowPasses, StartLogin, CheckAttempts, CountAttempt,
     VerifyPassword, LoginArrives, CallApi, Logout, ServeRequest, RequestLost, RequestEnds, browser
<1>2. CASE u # t
  <2>1. rot'[t] = rot[t]
    BY <1>1, <1>2 DEF Reload, ConsumeRefresh, RotatePair, ReadSessions, RevokeSessions,
       RotationArrives, RotationFails, Unauthorized, StampsInv
  <2> QED
    BY SMTT(30), <2>1
<1>3. CASE u = t
  <2>1. ~ Reload(t) /\ ~ ConsumeRefresh(t) /\ ~ RotatePair(t) /\ ~ ReadSessions(t)
        /\ ~ RotationArrives(t) /\ ~ RotationFails(t)
    BY DEF Reload, ConsumeRefresh, RotatePair, ReadSessions, RotationArrives, RotationFails
  <2>2. ASSUME NEW s \in Slots, Unauthorized(t, s) PROVE rot'[t] = rot[t]
    BY <2>2 DEF Unauthorized, JoinsRotation, Rotating
  <2> QED
    BY <1>1, <1>3, <2>1, <2>2
<1> QED
  BY <1>2, <1>3

\* When the service revokes a user's sessions (services/auth.py revoke_all_sessions)
\* every access token issued until then is refused from that moment, and every
\* refresh token it read is gone, whatever logins and rotations run meanwhile.
THEOREM RevokedPairsAreDead == ASSpec => RevocationIsComplete
<1>1. ASInit => StampsInv
  BY InitStamps
<1>2. StampsInv /\ [ASNext]_asVars => StampsInv'
  BY StepKeepsStamps
<1>3. StampsInv /\ [ASNext]_asVars =>
        [\A t \in Tabs :
           rot[t].step = "revoking" /\ rot'[t].step = "failed" =>
               /\ \A p \in Issued : ~Accepted(p)'
               /\ live' \cap rot[t].doomed = {}]_asVars
  <2> SUFFICES ASSUME StampsInv, ASNext, NEW t \in Tabs,
                      rot[t].step = "revoking", rot'[t].step = "failed"
               PROVE  /\ \A p \in Issued : ~Accepted(p)'
                      /\ live' \cap rot[t].doomed = {}
    OBVIOUS
  <2>1. RevokeSessions(t)
    BY OnlyRevokeFails
  <2>2. revokedAt' = seconds /\ iat' = iat /\ live' = live \ rot[t].doomed
    BY <2>1 DEF RevokeSessions
  <2>3. \A p \in Issued : ~ (iat'[p] > revokedAt')
    BY <2>2 DEF StampsInv
  <2> QED
    BY <2>2, <2>3 DEF Accepted
<1> QED
  BY <1>1, <1>2, <1>3, PTL DEF ASSpec, RevocationIsComplete

-----------------------------------------------------------------------------
(* The rate limit of logins                                                  *)

Checked == {t \in Tabs : login[t].step = "count"}
LoginSteps == {"idle", "check", "count", "verify", "issued"}

\* With a limit of none no login passes the check.
LimitInv ==
    /\ login \in [Tabs -> [step: LoginSteps, pair: Pairs]]
    /\ attempts \in Nat
    /\ LoginLimit = 0 => attempts = 0 /\ Checked = {}
    /\ LoginLimit # 0 => attempts + Cardinality(Checked) <= LoginLimit + Cardinality(Tabs) - 1

\* The logins being checked are among the tabs.
LEMMA CheckedFinite ==
    ASSUME NEW C, C \subseteq Tabs
    PROVE  /\ IsFiniteSet(C) /\ Cardinality(C) \in Nat /\ Cardinality(C) <= Cardinality(Tabs)
           /\ Cardinality(Tabs) \in Nat \ {0}
BY FS_Subset, FS_CardinalityType, FS_EmptySet, AuthSessionsAssumption

\* No login is under way at the start.
LEMMA InitLimit == ASInit => LimitInv
<1> SUFFICES ASSUME ASInit PROVE LimitInv
  OBVIOUS
<1>1. Checked = {} /\ attempts = 0 /\ Cardinality({}) = 0
  BY FS_EmptySet DEF ASInit, Checked, NoLogin
<1>2. login \in [Tabs -> [step: LoginSteps, pair: Pairs]]
  BY AuthSessionsAssumption DEF ASInit, NoLogin, LoginSteps, Pairs
<1> QED
  BY <1>1, <1>2, CheckedFinite, AuthSessionsAssumption DEF LimitInv

\* A login that leaves the checked ones, or a window that passes, lowers the sum.
LEMMA FewerKeepLimit ==
    ASSUME LimitInv, login' \in [Tabs -> [step: LoginSteps, pair: Pairs]],
           Checked' \subseteq Checked, attempts' \in {0, attempts}
    PROVE  LimitInv'
<1>1. Cardinality(Checked') <= Cardinality(Checked)
  BY CheckedFinite, FS_Subset DEF Checked
<1>2. Cardinality(Checked') \in Nat /\ Cardinality(Checked) \in Nat /\ Cardinality(Tabs) \in Nat
  BY CheckedFinite DEF Checked
<1> QED
  BY <1>1, <1>2, AuthSessionsAssumption DEF LimitInv

\* A login goes from one step to another, neither of them the checked one.
LEMMA LoginKeepsLimit ==
    ASSUME LimitInv, NEW t \in Tabs, NEW step \in {"idle", "check", "issued"}, NEW p \in Pairs,
           login' = [login EXCEPT ![t] = [step |-> step, pair |-> p]], attempts' = attempts
    PROVE  LimitInv'
<1>1. login' \in [Tabs -> [step: LoginSteps, pair: Pairs]]
  BY DEF LimitInv, LoginSteps
<1>2. Checked' \subseteq Checked
  BY DEF Checked, LimitInv
<1> QED
  BY <1>1, <1>2, FewerKeepLimit

\* A login that passes the check is one of the tabs and saw attempts below the limit.
LEMMA CheckKeepsLimit == ASSUME LimitInv, NEW t \in Tabs, CheckAttempts(t) PROVE LimitInv'
<1>1. login' \in [Tabs -> [step: LoginSteps, pair: Pairs]] /\ attempts' = attempts
  BY AuthSessionsAssumption DEF CheckAttempts, LimitInv, LoginSteps, Pairs, NoLogin, server
<1>2. CASE UnderLimit
  <2>1. attempts < LoginLimit
    BY <1>2 DEF UnderLimit
  <2>2. Cardinality(Checked') \in Nat /\ Cardinality(Checked') <= Cardinality(Tabs)
        /\ Cardinality(Tabs) \in Nat
    BY CheckedFinite DEF Checked
  <2> QED
    BY <1>1, <2>1, <2>2, AuthSessionsAssumption DEF LimitInv
<1>3. CASE ~UnderLimit
  <2>1. login' = [login EXCEPT ![t] = NoLogin]
    BY <1>3 DEF CheckAttempts
  <2>2. Checked' \subseteq Checked
    BY <2>1 DEF Checked, LimitInv, NoLogin
  <2> QED
    BY <1>1, <2>2, FewerKeepLimit
<1> QED
  BY <1>2, <1>3

\* Counting an attempt takes its login out of the checked ones.
LEMMA CountKeepsLimit == ASSUME LimitInv, NEW t \in Tabs, CountAttempt(t) PROVE LimitInv'
<1>1. /\ login' = [login EXCEPT ![t] = [step |-> "verify", pair |-> 0]]
      /\ attempts' = attempts + 1 /\ t \in Checked
  BY DEF CountAttempt, Checked
<1>2. login' \in [Tabs -> [step: LoginSteps, pair: Pairs]]
  BY <1>1, AuthSessionsAssumption DEF LimitInv, LoginSteps, Pairs
<1>3. Checked' = Checked \ {t}
  BY <1>1 DEF Checked, LimitInv
<1>4. IsFiniteSet(Checked) /\ Cardinality(Checked) \in Nat /\ Cardinality(Tabs) \in Nat
  BY CheckedFinite DEF Checked
<1>5. Cardinality(Checked') = Cardinality(Checked) - 1
  BY <1>1, <1>3, <1>4, FS_RemoveElement
<1> QED
  BY <1>1, <1>2, <1>4, <1>5, AuthSessionsAssumption DEF LimitInv

\* Each step keeps the limit.
LEMMA StepKeepsLimit == ASSUME LimitInv, [ASNext]_asVars PROVE LimitInv'
<1>1. ASSUME UNCHANGED <<login, attempts>> PROVE LimitInv'
  <2>1. Checked' = Checked
    BY <1>1 DEF Checked
  <2> QED
    BY <1>1, <2>1 DEF LimitInv
<1>2. CASE UNCHANGED asVars
  BY <1>1, <1>2 DEF asVars, server, browser
<1>3. CASE Tick \/ AccessExpires
  BY <1>1, <1>3 DEF Tick, AccessExpires, server, browser
<1>4. CASE WindowPasses
  <2>1. login' = login /\ attempts' = 0
    BY <1>4 DEF WindowPasses, browser
  <2> QED
    BY <2>1, FewerKeepLimit DEF LimitInv, Checked
<1>5. ASSUME NEW t \in Tabs, StartLogin(t) \/ VerifyPassword(t) \/ LoginArrives(t) PROVE LimitInv'
  <2>1. 0 \in Pairs /\ attempts' = attempts
    BY <1>5, AuthSessionsAssumption DEF Pairs, StartLogin, VerifyPassword, LoginArrives, server
  <2>2. \/ login' = [login EXCEPT ![t] = [step |-> "check", pair |-> 0]]
        \/ login' = [login EXCEPT ![t] = [step |-> "idle", pair |-> 0]]
        \/ \E p \in Pairs : login' = [login EXCEPT ![t] = [step |-> "issued", pair |-> p]]
    BY <1>5 DEF StartLogin, VerifyPassword, LoginArrives, NoLogin
  <2> QED
    BY <2>1, <2>2, LoginKeepsLimit
<1>6. ASSUME NEW t \in Tabs, CheckAttempts(t) \/ CountAttempt(t) PROVE LimitInv'
  BY <1>6, CheckKeepsLimit, CountKeepsLimit
<1>7. ASSUME NEW t \in Tabs,
             \/ Reload(t) \/ ConsumeRefresh(t) \/ RotatePair(t) \/ ReadSessions(t)
             \/ RevokeSessions(t) \/ RotationArrives(t) \/ RotationFails(t)
      PROVE  LimitInv'
  BY <1>1, <1>7 DEF Reload, ConsumeRefresh, RotatePair, ReadSessions, RevokeSessions,
     RotationArrives, RotationFails, server
<1>8. ASSUME NEW t \in Tabs, NEW s \in Slots,
             \/ CallApi(t, s) \/ Logout(t, s) \/ ServeRequest(t, s) \/ RequestLost(t, s)
             \/ Unauthorized(t, s) \/ RequestEnds(t, s)
      PROVE  LimitInv'
  BY <1>1, <1>8 DEF CallApi, Logout, ServeRequest, RequestLost, Unauthorized, RequestEnds, server
<1> QED
  BY <1>2, <1>3, <1>4, <1>5, <1>6, <1>7, <1>8 DEF ASNext

\* However logins overlap (services/auth.py check_login_rate_limit reads the count
\* and then adds to it), a window counts at most one attempt beyond the limit for
\* each further login that was being checked at the same time.
THEOREM LoginLimitHolds == ASSpec => []AttemptsBounded
<1>1. ASInit => LimitInv
  BY InitLimit
<1>2. LimitInv /\ [ASNext]_asVars => LimitInv'
  BY StepKeepsLimit
<1>3. LimitInv => AttemptsBounded
  BY CheckedFinite DEF LimitInv, AttemptsBounded, Checked
<1> QED
  BY <1>1, <1>2, <1>3, PTL DEF ASSpec

-----------------------------------------------------------------------------
(* Which tokens are in whose hands                                           *)

RotationSteps == {"idle", "sent", "consumed", "reused", "issued", "revoking", "failed"}
Rotation == [step: RotationSteps, pair: Pairs, doomed: SUBSET Pairs]
Request == [kind: {"none", "call", "logout", "me"},
            step: {"idle", "sent", "ok", "unauthorized", "failed", "waiting"},
            pair: Pairs, retried: BOOLEAN]

TokenTypes ==
    /\ storage \in [pair: Pairs, user: BOOLEAN]
    /\ login \in [Tabs -> [step: LoginSteps, pair: Pairs]]
    /\ rot \in [Tabs -> Rotation]
    /\ req \in [Tabs -> [Slots -> Request]]
    /\ Issued \subseteq 1..MaxPairs
    /\ live \subseteq Issued /\ index \subseteq Issued /\ black \subseteq Issued /\ expired \subseteq Issued
    /\ seconds \in Nat \ {0} /\ \A p \in Issued : iat[p] \in Nat \ {0}

\* Only issued pairs are in use; an issued login is on its way with a pair of its
\* own.
Held == {storage.pair} \cup {rot[t].pair : t \in Tabs} \cup {req[ts[1]][ts[2]].pair : ts \in Tabs \X Slots}
PairsIssued == Held \subseteq Issued \cup {0}

LoginsApart ==
    \A t \in Tabs : login[t].step = "issued" =>
        /\ login[t].pair \in Issued \ Held /\ login[t].pair # 0
        /\ \A u \in Tabs : login[u].step = "issued" /\ login[u].pair = login[t].pair => u = t

\* A pair a rotation has fetched outlasts the requests sent again with it.
RotatedFresh ==
    \A t \in Tabs : /\ rot[t].step = "issued" => rot[t].pair \notin expired \cup {0}
                    /\ \A s \in Slots : req[t][s].retried => req[t][s].pair \notin expired \cup {0}

TokenInv == TokenTypes /\ PairsIssued /\ LoginsApart /\ RotatedFresh /\ black \cap live = {}

Troubles == {"shared", "overlap", "lost", "relogin", "abandoned"}
Calm == mishap \cap Troubles = {}
LoggedOut(t, s) == req[t][s].kind = "logout" /\ req[t][s].step = "ok"

OneRotation == \A t, u \in Tabs : Rotating(t) /\ Rotating(u) => t = u

RotationsSucceed ==
    \A t \in Tabs : /\ rot[t].step \in {"idle", "sent", "consumed", "issued"}
                    /\ rot[t].step \in {"sent", "issued"} => rot[t].pair \in live

\* A logout beside a rotation is the one that waits for it.
LogoutsWait ==
    \A t, u \in Tabs, s \in Slots :
        Rotating(t) /\ req[u][s].kind = "logout" => req[u][s].step = "waiting"

\* The stored refresh token can be used, unless it is being exchanged or was
\* logged out.
StoredLives ==
    \/ storage.pair \in live \cup {0}
    \/ \E t \in Tabs : rot[t].step \in {"consumed", "issued"}
    \/ \E t \in Tabs, s \in Slots : LoggedOut(t, s)

LoginsLive == \A t \in Tabs : login[t].step = "issued" => login[t].pair \in live

CalmInv ==
    Calm => /\ revokedAt = 0
            /\ OneRotation /\ RotationsSucceed /\ LogoutsWait /\ StoredLives /\ LoginsLive

SessionOver ==
    /\ \A t \in Tabs : ~Rotating(t)
    /\ storage.pair = 0 \/ \E t \in Tabs, s \in Slots : LoggedOut(t, s)

\* A request that makes its tab give up the session, or will.
GivesUp(t, s) ==
    \/ req[t][s].kind \in {"logout", "me"} /\ req[t][s].step = "failed"
    \/ req[t][s].retried /\ (req[t][s].step = "unauthorized" \/ req[t][s].pair \in black)

RotatesStored ==
    \A t \in Tabs : Rotating(t) =>
        /\ storage.pair # 0
        /\ rot[t].step = "sent" => rot[t].pair = storage.pair
        /\ rot[t].step \in {"consumed", "issued"} => storage.pair \notin live

GivenUpIsOver == \A t \in Tabs, s \in Slots : GivesUp(t, s) => SessionOver

LogoutsOfStored ==
    \A t \in Tabs, s \in Slots :
        /\ req[t][s].kind = "logout" /\ req[t][s].step \in {"sent", "ok"} =>
             storage.pair \in {0, req[t][s].pair}
        /\ LoggedOut(t, s) => req[t][s].pair \notin live

\* Every refresh token that can be used is stored, or about to be.
LiveIsHeld ==
    \A p \in live : \/ p = storage.pair
                    \/ \E t \in Tabs : login[t].step = "issued" /\ login[t].pair = p
                    \/ \E t \in Tabs : rot[t].step \in {"sent", "issued"} /\ rot[t].pair = p

QuietInv ==
    mishap = {} => RotatesStored /\ GivenUpIsOver /\ LogoutsOfStored /\ LiveIsHeld

-----------------------------------------------------------------------------
(* What the actions change                                                   *)

OtherRequests(t, s) == \A u \in Tabs, r \in Slots : u # t \/ r # s => req'[u][r] = req[u][r]
OtherRotations(t) == \A u \in Tabs : u # t => rot'[u] = rot[u]
OtherLogins(t) == \A u \in Tabs : u # t => login'[u] = login[u]

\* One request is another value afterwards.
LEMMA RequestBecomes ==
    ASSUME TokenTypes, NEW t \in Tabs, NEW s \in Slots, NEW q \in Request,
           req' = [req EXCEPT ![t][s] = q]
    PROVE  /\ req' \in [Tabs -> [Slots -> Request]]
           /\ req'[t][s] = q /\ OtherRequests(t, s)
<1> DEFINE f == [req[t] EXCEPT ![s] = q]
<1>1. f \in [Slots -> Request] /\ f[s] = q /\ \A r \in Slots : r # s => f[r] = req[t][r]
  BY DEF TokenTypes
<1>2. req' = [req EXCEPT ![t] = f]
  OBVIOUS
<1> HIDE DEF f
<1> QED
  BY <1>1, <1>2 DEF TokenTypes, OtherRequests

\* One request goes to another step.
LEMMA RequestSteps ==
    ASSUME TokenTypes, NEW t \in Tabs, NEW s \in Slots,
           NEW x \in {"sent", "ok", "unauthorized", "failed", "waiting"},
           req' = [req EXCEPT ![t][s].step = x]
    PROVE  /\ req' \in [Tabs -> [Slots -> Request]] /\ OtherRequests(t, s)
           /\ req'[t][s].kind = req[t][s].kind /\ req'[t][s].step = x
           /\ req'[t][s].pair = req[t][s].pair /\ req'[t][s].retried = req[t][s].retried
<1> DEFINE q == [kind |-> req[t][s].kind, step |-> x,
                 pair |-> req[t][s].pair, retried |-> req[t][s].retried]
<1>1. req[t][s] \in Request
  BY DEF TokenTypes
<1>2. [req[t][s] EXCEPT !.step = x] = q /\ q \in Request
  BY <1>1 DEF Request
<1>3. req' = [req EXCEPT ![t][s] = q]
  BY <1>2
<1> HIDE DEF q
<1>4. q \in Request
  BY <1>2
<1>5. /\ req' \in [Tabs -> [Slots -> Request]] /\ req'[t][s] = q /\ OtherRequests(t, s)
  BY <1>3, <1>4, RequestBecomes
<1> QED
  BY <1>5 DEF q

\* The waiting requests of a tab go to another value, the others stay.
LEMMA WaitingBecome ==
    ASSUME TokenTypes, NEW t \in Tabs, NEW f, req' = [req EXCEPT ![t] = f], f = [s \in Slots |-> f[s]],
           \A s \in Slots : f[s] \in Request /\ (req[t][s].step # "waiting" => f[s] = req[t][s])
    PROVE  /\ req' \in [Tabs -> [Slots -> Request]]
           /\ \A s \in Slots : req'[t][s] = f[s]
           /\ \A u \in Tabs, r \in Slots : u # t \/ req[u][r].step # "waiting" => req'[u][r] = req[u][r]
<1>1. f \in [Slots -> Request]
  OBVIOUS
<1>2. req' \in [Tabs -> [Slots -> Request]] /\ req'[t] = f /\ \A u \in Tabs : u # t => req'[u] = req[u]
  BY <1>1 DEF TokenTypes
<1> QED
  BY <1>2

\* The requests that waited for a rotation go out again with its pair.
LEMMA RetriedRequests ==
    ASSUME TokenTypes, NEW t \in Tabs, RotationArrives(t)
    PROVE  /\ req' \in [Tabs -> [Slots -> Request]]
           /\ \A s \in Slots : req[t][s].step = "waiting" =>
                /\ req'[t][s].kind = req[t][s].kind /\ req'[t][s].step = "sent"
                /\ req'[t][s].pair = rot[t].pair /\ req'[t][s].retried
           /\ \A u \in Tabs, r \in Slots : u # t \/ req[u][r].step # "waiting" => req'[u][r] = req[u][r]
<1> DEFINE p == rot[t].pair
           f == [s \in Slots |->
                   IF req[t][s].step = "waiting"
                   THEN [kind |-> req[t][s].kind, step |-> "sent", pair |-> p, retried |-> TRUE]
                   ELSE req[t][s]]
<1>1. p \in Pairs
  BY DEF TokenTypes, Rotation
<1>2. req' = [req EXCEPT ![t] = f]
  BY DEF RotationArrives
<1>3. ASSUME NEW s \in Slots
      PROVE  /\ f[s] \in Request /\ (req[t][s].step # "waiting" => f[s] = req[t][s])
             /\ req[t][s].step = "waiting" =>
                  /\ f[s].kind = req[t][s].kind /\ f[s].step = "sent"
                  /\ f[s].pair = p /\ f[s].retried
  <2>1. req[t][s] \in Request
    BY DEF TokenTypes
  <2>2. f[s] = IF req[t][s].step = "waiting"
               THEN [kind |-> req[t][s].kind, step |-> "sent", pair |-> p, retried |-> TRUE]
               ELSE req[t][s]
    OBVIOUS
  <2> HIDE DEF f, p
  <2> QED
    BY <1>1, <2>1, <2>2 DEF Request
<1>4. f = [s \in Slots |-> f[s]]
  OBVIOUS
<1> HIDE DEF f
<1>5. /\ req' \in [Tabs -> [Slots -> Request]]
      /\ \A s \in Slots : req'[t][s] = f[s]
      /\ \A u \in Tabs, r \in Slots : u # t \/ req[u][r].step # "waiting" => req'[u][r] = req[u][r]
  BY <1>2, <1>3, <1>4, WaitingBecome
<1> QED
  BY <1>3, <1>5

\* The requests that waited for a rotation that failed fail with it.
LEMMA FailedRequests ==
    ASSUME TokenTypes, NEW t \in Tabs, RotationFails(t)
    PROVE  /\ req' \in [Tabs -> [Slots -> Request]]
           /\ \A s \in Slots : req[t][s].step = "waiting" =>
                /\ req'[t][s].kind = req[t][s].kind /\ req'[t][s].step = "failed"
                /\ req'[t][s].pair = req[t][s].pair /\ req'[t][s].retried = req[t][s].retried
           /\ \A u \in Tabs, r \in Slots : u # t \/ req[u][r].step # "waiting" => req'[u][r] = req[u][r]
<1> DEFINE f == [s \in Slots |->
                   IF req[t][s].step = "waiting" THEN [req[t][s] EXCEPT !.step = "failed"]
                   ELSE req[t][s]]
<1>1. req' = [req EXCEPT ![t] = f]
  BY DEF RotationFails
<1>2. ASSUME NEW s \in Slots
      PROVE  /\ f[s] \in Request /\ (req[t][s].step # "waiting" => f[s] = req[t][s])
             /\ req[t][s].step = "waiting" =>
                  /\ f[s].kind = req[t][s].kind /\ f[s].step = "failed"
                  /\ f[s].pair = req[t][s].pair /\ f[s].retried = req[t][s].retried
  <2>1. req[t][s] \in Request
    BY DEF TokenTypes
  <2>2. [req[t][s] EXCEPT !.step = "failed"]
          = [kind |-> req[t][s].kind, step |-> "failed", pair |-> req[t][s].pair, retried |-> req[t][s].retried]
    BY <2>1 DEF Request
  <2>3. f[s] = IF req[t][s].step = "waiting"
               THEN [kind |-> req[t][s].kind, step |-> "failed", pair |-> req[t][s].pair,
                     retried |-> req[t][s].retried]
               ELSE req[t][s]
    BY <2>2
  <2> HIDE DEF f
  <2> QED
    BY <2>1, <2>3 DEF Request
<1>3. f = [s \in Slots |-> f[s]]
  OBVIOUS
<1> HIDE DEF f
<1>4. /\ req' \in [Tabs -> [Slots -> Request]]
      /\ \A s \in Slots : req'[t][s] = f[s]
      /\ \A u \in Tabs, r \in Slots : u # t \/ req[u][r].step # "waiting" => req'[u][r] = req[u][r]
  BY <1>1, <1>2, <1>3, WaitingBecome
<1> QED
  BY <1>2, <1>4

\* A reloaded tab has one request at most, the one that asks for its user.
LEMMA ReloadedRequests ==
    ASSUME TokenTypes, NEW t \in Tabs, Reload(t)
    PROVE  /\ req' \in [Tabs -> [Slots -> Request]]
           /\ \A r \in Slots : \/ req'[t][r] = NoRequest
                               \/ /\ storage.pair # 0
                                  /\ req'[t][r] = [kind |-> "me", step |-> "sent", pair |-> storage.pair,
                                                   retried |-> FALSE]
           /\ \A u \in Tabs, r \in Slots : u # t => req'[u][r] = req[u][r]
<1> DEFINE ask == [kind |-> "me", step |-> "sent", pair |-> storage.pair, retried |-> FALSE]
           f(s) == [r \in Slots |-> IF r = s /\ storage.pair # 0 /\ storage.user THEN ask ELSE NoRequest]
<1>1. PICK s \in Slots : req' = [req EXCEPT ![t] = f(s)]
  BY DEF Reload
<1>2. ask \in Request /\ NoRequest \in Request
  BY AuthSessionsAssumption DEF TokenTypes, Request, NoRequest, Pairs
<1>3. \A r \in Slots : \/ f(s)[r] = NoRequest
                       \/ storage.pair # 0 /\ f(s)[r] = ask
  OBVIOUS
<1>4. f(s) \in [Slots -> Request]
  BY <1>2
<1> HIDE DEF f
<1>5. req' \in [Tabs -> [Slots -> Request]] /\ req'[t] = f(s) /\ \A u \in Tabs : u # t => req'[u] = req[u]
  BY <1>1, <1>4 DEF TokenTypes
<1> QED
  BY <1>3, <1>5

\* A pair that is issued is a new one.
LEMMA IssuedIsNew ==
    ASSUME TokenTypes, NEW p, IssuePair(p)
    PROVE  /\ p \in Pairs \ {0} /\ p \notin Issued /\ p \in 1..MaxPairs
           /\ Issued' = Issued \cup {p} /\ live' = live \cup {p} /\ index' = index \cup {p}
           /\ iat'[p] = seconds /\ \A q \in Issued : iat'[q] = iat[q]
<1>1. IsFiniteSet(Issued)
  <2>1. IsFiniteSet(1..MaxPairs) /\ Issued \subseteq 1..MaxPairs
    BY FS_Interval, AuthSessionsAssumption DEF TokenTypes
  <2> QED
    BY <2>1, FS_Subset
<1>2. Cardinality(Issued) \in Nat
  BY <1>1, FS_CardinalityType
<1>3. p \notin Issued /\ p \in Nat \ {0} /\ p <= MaxPairs
  BY <1>2 DEF IssuePair
<1>4. p \in Pairs \ {0} /\ p \in 1..MaxPairs
  BY <1>3, AuthSessionsAssumption DEF Pairs
<1>5. Issued' = Issued \cup {p} /\ live' = live \cup {p} /\ index' = index \cup {p}
  BY DEF IssuePair, Issued
<1>6. iat'[p] = seconds /\ \A q \in Issued : iat'[q] = iat[q]
  BY <1>3 DEF IssuePair
<1> QED
  BY <1>3, <1>4, <1>5, <1>6

\* What is held, element by element.
LEMMA WhatIsHeld ==
    /\ storage.pair \in Held
    /\ \A t \in Tabs : rot[t].pair \in Held
    /\ \A t \in Tabs, s \in Slots : req[t][s].pair \in Held
    /\ \A p \in Held : \/ p = storage.pair \/ \E t \in Tabs : p = rot[t].pair
                       \/ \E t \in Tabs, s \in Slots : p = req[t][s].pair
<1>1. \A t \in Tabs, s \in Slots : req[t][s].pair \in Held
  <2> SUFFICES ASSUME NEW t \in Tabs, NEW s \in Slots PROVE req[t][s].pair \in Held
    OBVIOUS
  <2>1. <<t, s>> \in Tabs \X Slots /\ <<t, s>>[1] = t /\ <<t, s>>[2] = s
    OBVIOUS
  <2> QED
    BY <2>1 DEF Held
<1>2. \A ts \in Tabs \X Slots : ts[1] \in Tabs /\ ts[2] \in Slots
  OBVIOUS
<1> QED
  BY <1>1, <1>2 DEF Held

\* The same of the next state.
LEMMA WhatIsHeldNext ==
    \A p \in Held' : \/ p = storage'.pair \/ \E t \in Tabs : p = rot'[t].pair
                     \/ \E t \in Tabs, s \in Slots : p = req'[t][s].pair
<1>1. \A ts \in Tabs \X Slots : ts[1] \in Tabs /\ ts[2] \in Slots
  OBVIOUS
<1> QED
  BY <1>1 DEF Held

\* One rotation is another value afterwards.
LEMMA RotationBecomes ==
    ASSUME TokenTypes, NEW t \in Tabs, NEW q \in Rotation, rot' = [rot EXCEPT ![t] = q]
    PROVE  /\ rot' \in [Tabs -> Rotation] /\ rot'[t] = q /\ OtherRotations(t)
BY DEF TokenTypes, OtherRotations

\* One rotation goes to another step.
LEMMA RotationGoesOn ==
    ASSUME TokenTypes, NEW t \in Tabs, NEW x \in RotationSteps, rot' = [rot EXCEPT ![t].step = x]
    PROVE  /\ rot' \in [Tabs -> Rotation] /\ OtherRotations(t)
           /\ rot'[t].step = x /\ rot'[t].pair = rot[t].pair
<1> DEFINE q == [step |-> x, pair |-> rot[t].pair, doomed |-> rot[t].doomed]
<1>1. rot[t] \in Rotation
  BY DEF TokenTypes
<1>2. [rot[t] EXCEPT !.step = x] = q /\ q \in Rotation
  BY <1>1 DEF Rotation
<1>3. rot' = [rot EXCEPT ![t] = q]
  BY <1>2
<1> HIDE DEF q
<1>4. q \in Rotation
  BY <1>2
<1>5. /\ rot' \in [Tabs -> Rotation] /\ rot'[t] = q /\ OtherRotations(t)
  BY <1>3, <1>4, RotationBecomes
<1> QED
  BY <1>5 DEF q

\* A step that brings no pair into use but new ones, and no login, keeps the
\* pairs apart.
LEMMA NoForeignPair ==
    ASSUME TokenInv, Issued \subseteq Issued', Held' \subseteq Held \cup {0} \cup (Issued' \ Issued),
           \A t \in Tabs : login'[t].step = "issued" => login'[t] = login[t]
    PROVE  PairsIssued' /\ LoginsApart'
<1>1. PairsIssued'
  BY DEF TokenInv, PairsIssued
<1>2. LoginsApart'
  BY DEF TokenInv, LoginsApart
<1> QED
  BY <1>1, <1>2

-----------------------------------------------------------------------------
(* Steps of logins before they bring a pair                                  *)

LoginsBegin ==
    /\ UNCHANGED <<storage, rot, req, live, index, black, expired, iat, revokedAt, mishap>>
    /\ seconds' \in Nat \ {0}
    /\ login' \in [Tabs -> [step: LoginSteps, pair: Pairs]]
    /\ \A t \in Tabs : login'[t].step = "issued" \/ login[t].step = "issued" => login'[t] = login[t]

\* A login that is being checked disturbs none of the pairs.
LEMMA LoginsBeginKeepTokens == ASSUME TokenInv, LoginsBegin PROVE TokenInv'
<1>1. Issued' = Issued /\ Held' = Held
  BY DEF LoginsBegin, Issued, Held
<1>2. TokenTypes'
  BY <1>1 DEF TokenInv, TokenTypes, LoginsBegin
<1>3. PairsIssued' /\ LoginsApart'
  BY <1>1, NoForeignPair DEF LoginsBegin
<1>4. RotatedFresh' /\ black' \cap live' = {}
  BY DEF TokenInv, RotatedFresh, LoginsBegin
<1> QED
  BY <1>2, <1>3, <1>4 DEF TokenInv

LEMMA LoginsBeginKeepCalm == ASSUME CalmInv, LoginsBegin PROVE CalmInv'
<1>1. Calm' = Calm
  BY DEF LoginsBegin, Calm
<1>2. ASSUME Calm PROVE /\ revokedAt' = 0 /\ OneRotation' /\ RotationsSucceed' /\ LogoutsWait'
  BY <1>2 DEF CalmInv, LoginsBegin, OneRotation, RotationsSucceed, LogoutsWait, Rotating
<1>3. ASSUME Calm PROVE StoredLives' /\ LoginsLive'
  BY <1>3 DEF CalmInv, LoginsBegin, StoredLives, LoginsLive, LoggedOut
<1> QED
  BY <1>1, <1>2, <1>3 DEF CalmInv

LEMMA LoginsBeginKeepQuiet == ASSUME QuietInv, LoginsBegin PROVE QuietInv'
<1>1. mishap' = mishap
  BY DEF LoginsBegin
<1>2. ASSUME mishap = {} PROVE RotatesStored' /\ GivenUpIsOver' /\ LogoutsOfStored'
  BY <1>2 DEF QuietInv, LoginsBegin, RotatesStored, GivenUpIsOver, GivesUp, SessionOver,
     LogoutsOfStored, LoggedOut, Rotating
<1>3. ASSUME mishap = {} PROVE LiveIsHeld'
  BY <1>3 DEF QuietInv, LoginsBegin, LiveIsHeld
<1> QED
  BY <1>1, <1>2, <1>3 DEF QuietInv

\* The steps that are of this kind.
LEMMA LoginsBeginSteps ==
    ASSUME TokenTypes,
           \/ UNCHANGED asVars \/ Tick \/ WindowPasses
           \/ \E t \in Tabs : \/ StartLogin(t) \/ CheckAttempts(t) \/ CountAttempt(t)
                              \/ VerifyPassword(t) /\ login'[t].step # "issued"
    PROVE  LoginsBegin
<1>1. ASSUME UNCHANGED <<login, seconds>> PROVE seconds' \in Nat \ {0} /\
        /\ login' \in [Tabs -> [step: LoginSteps, pair: Pairs]]
        /\ \A t \in Tabs : login'[t].step = "issued" \/ login[t].step = "issued" => login'[t] = login[t]
  BY <1>1 DEF TokenTypes
<1>2. CASE UNCHANGED asVars
  BY <1>1, <1>2 DEF asVars, server, browser, LoginsBegin
<1>3. CASE Tick
  BY <1>3 DEF Tick, server, browser, LoginsBegin, TokenTypes
<1>4. CASE WindowPasses
  BY <1>1, <1>4 DEF WindowPasses, browser, LoginsBegin
<1>5. ASSUME NEW t \in Tabs,
             \/ StartLogin(t) \/ CheckAttempts(t) \/ CountAttempt(t)
             \/ VerifyPassword(t) /\ login'[t].step # "issued"
      PROVE  LoginsBegin
  <2>1. PICK x \in {"idle", "check", "count", "verify"} :
          login' = [login EXCEPT ![t] = [step |-> x, pair |-> 0]]
    <3>1. CASE VerifyPassword(t) /\ login'[t].step # "issued"
      <4>1. login' = [login EXCEPT ![t] = NoLogin]
        BY <3>1 DEF VerifyPassword, TokenTypes
      <4> QED
        BY <4>1 DEF NoLogin
    <3>2. CASE CheckAttempts(t)
      BY <3>2 DEF CheckAttempts, NoLogin
    <3>3. CASE StartLogin(t) \/ CountAttempt(t)
      BY <3>3 DEF StartLogin, CountAttempt
    <3> QED
      BY <1>5, <3>1, <3>2, <3>3
  <2>2. login[t].step # "issued"
    BY <1>5 DEF StartLogin, CheckAttempts, CountAttempt, VerifyPassword, NoLogin
  <2>3. /\ login' \in [Tabs -> [step: LoginSteps, pair: Pairs]]
        /\ \A u \in Tabs : login'[u].step = "issued" \/ login[u].step = "issued" => login'[u] = login[u]
    BY <2>1, <2>2, AuthSessionsAssumption DEF TokenTypes, LoginSteps, Pairs
  <2>4. UNCHANGED <<storage, rot, req, live, index, black, expired, iat, revokedAt, mishap>>
        /\ seconds' = seconds
    <3>1. CASE VerifyPassword(t) /\ login'[t].step # "issued"
      <4>1. UNCHANGED <<live, index, iat>>
        BY <3>1 DEF VerifyPassword, TokenTypes
      <4> QED
        BY <3>1, <4>1 DEF VerifyPassword
    <3>2. CASE StartLogin(t) \/ CheckAttempts(t) \/ CountAttempt(t)
      BY <3>2 DEF StartLogin, CheckAttempts, CountAttempt, server
    <3> QED
      BY <1>5, <3>1, <3>2
  <2> QED
    BY <2>3, <2>4 DEF LoginsBegin, TokenTypes
<1> QED
  BY <1>2, <1>3, <1>4, <1>5

-----------------------------------------------------------------------------
(* TokenInv: which pairs are in use                                          *)

\* Nothing is held at the start.
LEMMA InitTokens == ASInit => TokenInv
<1> SUFFICES ASSUME ASInit PROVE TokenInv
  OBVIOUS
<1>1. Issued = {} /\ 0 \in Pairs
  BY AuthSessionsAssumption DEF ASInit, Issued, Pairs
<1>2. TokenTypes
  BY <1>1 DEF ASInit, TokenTypes, Cleared, NoLogin, NoRotation, NoRequest, LoginSteps,
     RotationSteps, Rotation, Request
<1>3. PairsIssued
  BY <1>1, WhatIsHeld DEF ASInit, PairsIssued, Cleared, NoRotation, NoRequest
<1>4. LoginsApart /\ RotatedFresh /\ black \cap live = {}
  BY DEF ASInit, LoginsApart, RotatedFresh, NoLogin, NoRotation, NoRequest
<1> QED
  BY <1>2, <1>3, <1>4 DEF TokenInv

\* Only a token that nobody waits for expires.
LEMMA ExpiryKeepsTokens == ASSUME TokenInv, AccessExpires PROVE TokenInv'
<1>1. /\ UNCHANGED <<storage, login, rot, req, live, index, black, iat, seconds>>
      /\ \E p \in Issued \ expired : ~InUse(p) /\ expired' = expired \cup {p}
  BY DEF AccessExpires, server, browser
<1>2. Issued' = Issued /\ Held' = Held
  BY <1>1 DEF Issued, Held
<1>3. TokenTypes'
  BY <1>1, <1>2 DEF TokenInv, TokenTypes
<1>4. PairsIssued' /\ LoginsApart'
  BY <1>1, <1>2, NoForeignPair
<1>5. RotatedFresh' /\ black' \cap live' = {}
  BY <1>1 DEF TokenInv, RotatedFresh, InUse
<1> QED
  BY <1>3, <1>4, <1>5 DEF TokenInv

\* A login that is served gets a pair nobody holds.
LEMMA ServedLoginKeepsTokens ==
    ASSUME TokenInv, NEW t \in Tabs, VerifyPassword(t), login'[t].step = "issued"
    PROVE  /\ TokenInv'
           /\ UNCHANGED <<storage, rot, req, black, expired, revokedAt, seconds, mishap>>
           /\ OtherLogins(t) /\ login'[t].pair \notin live /\ live' = live \cup {login'[t].pair}
           /\ login[t].step # "issued"
<1>1. PICK p \in Pairs : IssuePair(p) /\ login' = [login EXCEPT ![t] = [step |-> "issued", pair |-> p]]
  BY DEF VerifyPassword, NoLogin, TokenInv, TokenTypes
<1>2. /\ p \in Pairs \ {0} /\ p \notin Issued /\ p \in 1..MaxPairs
      /\ Issued' = Issued \cup {p} /\ live' = live \cup {p} /\ index' = index \cup {p}
      /\ iat'[p] = seconds /\ \A q \in Issued : iat'[q] = iat[q]
  BY <1>1, IssuedIsNew DEF TokenInv
<1>3. UNCHANGED <<storage, rot, req, black, expired, revokedAt, seconds, mishap>> /\ Held' = Held
  BY DEF VerifyPassword, Held
<1>4. /\ login' \in [Tabs -> [step: LoginSteps, pair: Pairs]] /\ OtherLogins(t)
      /\ login'[t].step = "issued" /\ login'[t].pair = p
  BY <1>1, <1>2 DEF TokenInv, TokenTypes, LoginSteps, OtherLogins
<1>5. TokenTypes'
  BY <1>2, <1>3, <1>4 DEF TokenInv, TokenTypes
<1>6. PairsIssued'
  BY <1>2, <1>3 DEF TokenInv, PairsIssued
<1>7. LoginsApart'
  BY <1>2, <1>3, <1>4 DEF TokenInv, LoginsApart, OtherLogins, PairsIssued
<1>8. RotatedFresh'
  BY <1>3 DEF TokenInv, RotatedFresh
<1>9. black' \cap live' = {} /\ p \notin live
  BY <1>2, <1>3 DEF TokenInv, TokenTypes
<1>10. login[t].step # "issued"
  BY DEF VerifyPassword
<1> QED
  BY <1>2, <1>3, <1>4, <1>5, <1>6, <1>7, <1>8, <1>9, <1>10 DEF TokenInv

\* Its pair goes to the storage.
LEMMA ArrivalKeepsTokens == ASSUME TokenInv, NEW t \in Tabs, LoginArrives(t) PROVE TokenInv'
<1> DEFINE p == login[t].pair
<1>1. /\ UNCHANGED <<rot, req, live, index, black, expired, iat, seconds>>
      /\ storage' = [pair |-> p, user |-> TRUE] /\ login' = [login EXCEPT ![t] = NoLogin]
      /\ login[t].step = "issued"
  BY DEF LoginArrives, server
<1>2. p \in Issued \ Held /\ p # 0 /\ p \in Pairs
  BY <1>1 DEF TokenInv, LoginsApart, TokenTypes
<1>3. /\ login' \in [Tabs -> [step: LoginSteps, pair: Pairs]] /\ OtherLogins(t)
      /\ login'[t].step = "idle"
  BY <1>1, AuthSessionsAssumption DEF TokenInv, TokenTypes, LoginSteps, OtherLogins, NoLogin, Pairs
<1>4. Issued' = Issued /\ Held' \subseteq Held \cup {p}
  BY <1>1 DEF Issued, Held
<1>5. TokenTypes'
  BY <1>1, <1>2, <1>3, <1>4 DEF TokenInv, TokenTypes
<1>6. PairsIssued'
  BY <1>2, <1>4 DEF TokenInv, PairsIssued
<1>7. LoginsApart'
  BY <1>1, <1>2, <1>3, <1>4 DEF TokenInv, LoginsApart, OtherLogins
<1>8. RotatedFresh' /\ black' \cap live' = {}
  BY <1>1 DEF TokenInv, RotatedFresh
<1> QED
  BY <1>5, <1>6, <1>7, <1>8 DEF TokenInv


\* A step that issues nothing hands round the pairs that are held.
LEMMA HandingRoundKeepsTokens ==
    ASSUME TokenInv, UNCHANGED <<login, expired, iat, seconds>>,
           live' \subseteq live, index' \subseteq index, black' \subseteq Issued, black' \cap live' = {},
           storage' \in [pair: Held \cup {0}, user: BOOLEAN],
           rot' \in [Tabs -> Rotation], \A u \in Tabs : rot'[u].pair \in Held \cup {0},
           req' \in [Tabs -> [Slots -> Request]],
           \A u \in Tabs, r \in Slots : req'[u][r].pair \in Held \cup {0},
           RotatedFresh'
    PROVE  TokenInv'
<1>1. Issued' = Issued /\ Held \subseteq Pairs
  BY AuthSessionsAssumption DEF Issued, TokenInv, TokenTypes, PairsIssued, Pairs
<1>2. TokenTypes'
  <2>1. storage' \in [pair: Pairs, user: BOOLEAN]
    <3>1. Held \cup {0} \subseteq Pairs
      BY <1>1, AuthSessionsAssumption DEF Pairs
    <3> QED
      BY <3>1
  <2> QED
    BY <1>1, <2>1 DEF TokenInv, TokenTypes
<1>3. Held' \subseteq Held \cup {0}
  BY WhatIsHeldNext
<1>4. PairsIssued' /\ LoginsApart'
  BY <1>1, <1>3, NoForeignPair
<1> QED
  BY <1>2, <1>4 DEF TokenInv

\* What the step of one request changes.
LEMMA SendChanges ==
    ASSUME TokenTypes, NEW t \in Tabs, NEW s \in Slots, NEW k \in {"call", "logout"}, Send(t, s, k)
    PROVE  /\ req' \in [Tabs -> [Slots -> Request]] /\ OtherRequests(t, s)
           /\ req[t][s] = NoRequest
           /\ req'[t][s] = [kind |-> k, step |-> "sent", pair |-> storage.pair, retried |-> FALSE]
<1> DEFINE q == [kind |-> k, step |-> "sent", pair |-> storage.pair, retried |-> FALSE]
<1>1. q \in Request
  BY DEF TokenTypes, Request
<1>2. req[t][s] = NoRequest /\ req' = [req EXCEPT ![t][s] = q]
  BY DEF Send
<1> HIDE DEF q
<1>3. req' \in [Tabs -> [Slots -> Request]] /\ req'[t][s] = q /\ OtherRequests(t, s)
  BY <1>1, <1>2, RequestBecomes
<1> QED
  BY <1>2, <1>3 DEF q

LEMMA ServeChanges ==
    ASSUME TokenTypes, NEW t \in Tabs, NEW s \in Slots, ServeRequest(t, s)
    PROVE  /\ req' \in [Tabs -> [Slots -> Request]] /\ OtherRequests(t, s)
           /\ req'[t][s].kind = req[t][s].kind /\ req'[t][s].pair = req[t][s].pair
           /\ req'[t][s].retried = req[t][s].retried
           /\ req'[t][s].step = IF Accepted(req[t][s].pair) THEN "ok" ELSE "unauthorized"
           /\ IF Accepted(req[t][s].pair) /\ req[t][s].kind = "logout"
              THEN /\ black' = black \cup {req[t][s].pair}
                   /\ live' = live \ {req[t][s].pair} /\ index' = index \ {req[t][s].pair}
              ELSE UNCHANGED <<black, live, index>>
           /\ UNCHANGED <<revokedAt, iat, expired, seconds, storage, login, rot, mishap>>
<1>1. PICK x \in {"ok", "unauthorized"} :
        /\ req' = [req EXCEPT ![t][s].step = x]
        /\ x = IF Accepted(req[t][s].pair) THEN "ok" ELSE "unauthorized"
  BY DEF ServeRequest
<1>2. req' = [req EXCEPT ![t][s].step = x] /\ x \in {"sent", "ok", "unauthorized", "failed", "waiting"}
  BY <1>1
<1>3. /\ req' \in [Tabs -> [Slots -> Request]] /\ OtherRequests(t, s)
      /\ req'[t][s].kind = req[t][s].kind /\ req'[t][s].pair = req[t][s].pair
      /\ req'[t][s].retried = req[t][s].retried
      /\ req'[t][s].step = x
  BY <1>2, RequestSteps
<1> QED
  BY <1>1, <1>3 DEF ServeRequest

LEMMA UnauthorizedChanges ==
    ASSUME TokenTypes, NEW t \in Tabs, NEW s \in Slots, Unauthorized(t, s)
    PROVE  /\ req' \in [Tabs -> [Slots -> Request]] /\ OtherRequests(t, s)
           /\ req'[t][s].kind = req[t][s].kind /\ req'[t][s].pair = req[t][s].pair
           /\ req'[t][s].retried = req[t][s].retried /\ req[t][s].step = "unauthorized"
           /\ \/ req[t][s].retried /\ req'[t][s].step = "failed" /\ UNCHANGED <<storage, rot, mishap>>
              \/ Rotating(t) /\ ~ req[t][s].retried /\ req'[t][s].step = "waiting"
                 /\ UNCHANGED <<storage, rot, mishap>>
              \/ /\ ~Rotating(t) /\ storage.pair # 0 /\ ~ req[t][s].retried /\ req'[t][s].step = "waiting"
                 /\ rot' \in [Tabs -> Rotation] /\ OtherRotations(t)
                 /\ rot'[t] = [step |-> "sent", pair |-> storage.pair, doomed |-> {}]
                 /\ storage' = storage /\ mishap \subseteq mishap'
                 /\ "shared" \notin mishap' => \A u \in Tabs : ~Rotating(u)
                 /\ "overlap" \notin mishap' =>
                      \A u \in Tabs, r \in Slots : req[u][r].kind = "logout" => u = t /\ r = s
              \/ ~Rotating(t) /\ storage.pair = 0 /\ req'[t][s].step = "failed" /\ ~ req[t][s].retried
                 /\ storage' = Cleared /\ UNCHANGED <<rot, mishap>>
           /\ UNCHANGED <<live, index, black, revokedAt, iat, expired, seconds, login>>
<1>1. /\ req[t][s].step = "unauthorized"
      /\ UNCHANGED <<live, index, black, revokedAt, iat, expired, seconds, login>>
  BY DEF Unauthorized, server
<1>2. ASSUME NEW x \in {"failed", "waiting"}, req' = [req EXCEPT ![t][s].step = x]
      PROVE  /\ req' \in [Tabs -> [Slots -> Request]] /\ OtherRequests(t, s)
             /\ req'[t][s].kind = req[t][s].kind /\ req'[t][s].step = x
             /\ req'[t][s].pair = req[t][s].pair /\ req'[t][s].retried = req[t][s].retried
  BY ZenonT(60), <1>2, RequestSteps
<1>3. CASE req[t][s].retried /\ req' = [req EXCEPT ![t][s].step = "failed"]
           /\ UNCHANGED <<storage, rot, mishap>>
  BY <1>1, <1>2, <1>3
<1>4. CASE ~ req[t][s].retried /\ Rotating(t) /\ req' = [req EXCEPT ![t][s].step = "waiting"]
           /\ UNCHANGED <<storage, rot, mishap>>
  BY <1>1, <1>2, <1>4
<1>5. CASE /\ ~ req[t][s].retried /\ ~Rotating(t) /\ storage.pair # 0
           /\ req' = [req EXCEPT ![t][s].step = "waiting"] /\ storage' = storage
           /\ rot' = [rot EXCEPT ![t] = [step |-> "sent", pair |-> storage.pair, doomed |-> {}]]
           /\ mishap' = mishap
               \cup (IF \E u \in Tabs \ {t} : Rotating(u) THEN {"shared"} ELSE {})
               \cup (IF \E u \in Tabs, r \in Slots :
                          req[u][r].kind = "logout" /\ <<u, r>> # <<t, s>>
                     THEN {"overlap"} ELSE {})
  <2>1. [step |-> "sent", pair |-> storage.pair, doomed |-> {}] \in Rotation
    BY DEF TokenTypes, Rotation, RotationSteps
  <2>2. /\ rot' \in [Tabs -> Rotation] /\ OtherRotations(t)
        /\ rot'[t] = [step |-> "sent", pair |-> storage.pair, doomed |-> {}]
    BY <1>5, <2>1, RotationBecomes
  <2>3. "shared" \notin mishap' => \A u \in Tabs : ~Rotating(u)
    BY <1>5
  <2>4. "overlap" \notin mishap' => \A u \in Tabs, r \in Slots : req[u][r].kind = "logout" => u = t /\ r = s
    BY <1>5
  <2>5. mishap \subseteq mishap' /\ storage' = storage
    BY <1>5
  <2> HIDE DEF Rotating
  <2> QED
    BY <1>1, <1>2, <1>5, <2>2, <2>3, <2>4, <2>5
<1>6. CASE ~ req[t][s].retried /\ ~Rotating(t) /\ storage.pair = 0 /\ UNCHANGED <<rot, mishap>>
           /\ req' = [req EXCEPT ![t][s].step = "failed"] /\ storage' = Cleared
  BY <1>1, <1>2, <1>6
<1> QED
  BY <1>3, <1>4, <1>5, <1>6 DEF Unauthorized, JoinsRotation

\* The caller of a logout, and a start-up that failed, clear the storage.
LEMMA EndChanges ==
    ASSUME TokenTypes, NEW t \in Tabs, NEW s \in Slots, RequestEnds(t, s)
    PROVE  /\ req' \in [Tabs -> [Slots -> Request]] /\ OtherRequests(t, s)
           /\ req[t][s].step \in {"ok", "failed"} /\ req'[t][s] = NoRequest
           /\ storage' \in [pair: {0, storage.pair}, user: BOOLEAN]
           /\ IF req[t][s].kind = "logout" \/ (req[t][s].kind = "me" /\ req[t][s].step = "failed")
              THEN storage'.pair = 0 ELSE storage'.pair = storage.pair
           /\ UNCHANGED <<live, index, black, revokedAt, iat, expired, seconds, login, rot, mishap>>
<1>1. NoRequest \in Request
  BY AuthSessionsAssumption DEF NoRequest, Request, Pairs
<1>2. req' \in [Tabs -> [Slots -> Request]] /\ req'[t][s] = NoRequest /\ OtherRequests(t, s)
  BY <1>1, RequestBecomes DEF RequestEnds
<1>3. storage \in [pair: {0, storage.pair}, user: BOOLEAN]
  BY DEF TokenTypes
<1>4. \/ /\ req[t][s].kind = "logout" \/ (req[t][s].kind = "me" /\ req[t][s].step = "failed")
         /\ storage' = Cleared
      \/ /\ ~(req[t][s].kind = "logout" \/ (req[t][s].kind = "me" /\ req[t][s].step = "failed"))
         /\ storage' = [pair |-> storage.pair, user |-> TRUE] \/ storage' = storage
  <2>1. CASE req[t][s].kind = "logout"
    BY <2>1 DEF RequestEnds
  <2>2. CASE req[t][s].kind = "me"
    BY <2>2 DEF RequestEnds
  <2>3. CASE req[t][s].kind \notin {"logout", "me"}
    BY <2>3 DEF RequestEnds
  <2> QED
    BY <2>1, <2>2, <2>3
<1> DEFINE clears == req[t][s].kind = "logout" \/ (req[t][s].kind = "me" /\ req[t][s].step = "failed")
<1>5. storage' \in [pair: {0, storage.pair}, user: BOOLEAN]
      /\ IF clears THEN storage'.pair = 0 ELSE storage'.pair = storage.pair
  <2>1. CASE clears /\ storage' = Cleared
    BY <2>1 DEF Cleared
  <2>2. CASE ~clears /\ storage' = [pair |-> storage.pair, user |-> TRUE]
    BY <2>2
  <2>3. CASE ~clears /\ storage' = storage
    BY <1>3, <2>3
  <2> QED
    BY <1>4, <2>1, <2>2, <2>3
<1>6. /\ req[t][s].step \in {"ok", "failed"}
      /\ UNCHANGED <<live, index, black, revokedAt, iat, expired, seconds, login, rot, mishap>>
  BY DEF RequestEnds, server
<1> QED
  BY <1>2, <1>5, <1>6

\* The pair of a rotation that has none.
LEMMA NoRotationIsOne == NoRotation \in Rotation
BY AuthSessionsAssumption DEF NoRotation, Rotation, RotationSteps, Pairs

LEMMA ConsumeChanges ==
    ASSUME TokenTypes, NEW t \in Tabs, ConsumeRefresh(t)
    PROVE  /\ rot' \in [Tabs -> Rotation] /\ OtherRotations(t)
           /\ rot[t].step = "sent" /\ rot'[t].pair = rot[t].pair
           /\ rot'[t].step = IF rot[t].pair \in live THEN "consumed" ELSE "reused"
           /\ live' = live \ {rot[t].pair} /\ index' \subseteq index
           /\ UNCHANGED <<black, revokedAt, iat, expired, seconds, storage, login, req, mishap>>
<1>1. PICK x \in {"consumed", "reused"} :
        /\ rot' = [rot EXCEPT ![t].step = x]
        /\ x = IF rot[t].pair \in live THEN "consumed" ELSE "reused"
  BY DEF ConsumeRefresh
<1>2. rot' = [rot EXCEPT ![t].step = x] /\ x \in RotationSteps
  BY <1>1 DEF RotationSteps
<1>3. /\ rot' \in [Tabs -> Rotation] /\ OtherRotations(t)
      /\ rot'[t].step = x /\ rot'[t].pair = rot[t].pair
  BY <1>2, RotationGoesOn
<1>4. live' = live \ {rot[t].pair} /\ index' \subseteq index /\ rot[t].step = "sent"
  BY DEF ConsumeRefresh
<1>5. UNCHANGED <<black, revokedAt, iat, expired, seconds, storage, login, req, mishap>>
  BY DEF ConsumeRefresh
<1> QED
  BY <1>1, <1>3, <1>4, <1>5

LEMMA RotatePairChanges ==
    ASSUME TokenTypes, NEW t \in Tabs, RotatePair(t)
    PROVE  /\ rot' \in [Tabs -> Rotation] /\ OtherRotations(t)
           /\ rot[t].step = "consumed" /\ rot'[t].step = "issued" /\ IssuePair(rot'[t].pair)
           /\ UNCHANGED <<black, revokedAt, expired, seconds, storage, login, req, mishap>>
<1>1. PICK p \in Pairs : IssuePair(p) /\ rot' = [rot EXCEPT ![t] = [@ EXCEPT !.step = "issued", !.pair = p]]
  BY DEF RotatePair
<1> DEFINE q == [rot[t] EXCEPT !.step = "issued", !.pair = p]
<1>2. rot[t] \in Rotation
  BY DEF TokenTypes
<1>3. q \in Rotation
  BY <1>2 DEF Rotation, RotationSteps
<1>4. q.step = "issued" /\ q.pair = p
  BY <1>2 DEF Rotation
<1>5. rot' = [rot EXCEPT ![t] = q]
  BY <1>1
<1> HIDE DEF q
<1>6. rot' \in [Tabs -> Rotation] /\ rot'[t] = q /\ OtherRotations(t)
  BY <1>3, <1>5, RotationBecomes
<1>7. rot'[t].step = "issued" /\ rot'[t].pair = p
  BY <1>4, <1>6
<1>8. /\ rot[t].step = "consumed"
      /\ UNCHANGED <<black, revokedAt, expired, seconds, storage, login, req, mishap>>
  BY DEF RotatePair
<1> QED
  BY <1>1, <1>6, <1>7, <1>8

LEMMA ReadChanges ==
    ASSUME TokenTypes, NEW t \in Tabs, ReadSessions(t)
    PROVE  /\ rot' \in [Tabs -> Rotation] /\ OtherRotations(t)
           /\ rot[t].step = "reused" /\ rot'[t].step = "revoking" /\ rot'[t].pair = rot[t].pair
           /\ UNCHANGED <<live, index, black, revokedAt, iat, expired, seconds, storage, login, req, mishap>>
<1> DEFINE q == [[rot[t] EXCEPT !.step = "revoking"] EXCEPT !.doomed = index]
<1>1. rot[t] \in Rotation /\ index \subseteq Pairs
  BY AuthSessionsAssumption DEF TokenTypes, Pairs
<1>2. q \in Rotation
  BY <1>1 DEF Rotation, RotationSteps
<1>3. q.step = "revoking" /\ q.pair = rot[t].pair
  BY <1>1 DEF Rotation
<1>4. rot' = [rot EXCEPT ![t] = q]
  BY DEF ReadSessions, TokenTypes
<1> HIDE DEF q
<1>5. rot' \in [Tabs -> Rotation] /\ rot'[t] = q /\ OtherRotations(t)
  BY <1>2, <1>4, RotationBecomes
<1>6. rot'[t].step = "revoking" /\ rot'[t].pair = rot[t].pair
  BY <1>3, <1>5
<1> QED
  BY <1>5, <1>6 DEF ReadSessions, server

LEMMA RevokeChanges ==
    ASSUME TokenTypes, NEW t \in Tabs, RevokeSessions(t)
    PROVE  /\ rot' \in [Tabs -> Rotation] /\ OtherRotations(t)
           /\ rot[t].step = "revoking" /\ rot'[t].step = "failed" /\ rot'[t].pair = rot[t].pair
           /\ live' \subseteq live /\ index' = {}
           /\ UNCHANGED <<black, iat, expired, seconds, storage, login, req, mishap>>
<1>1. rot' = [rot EXCEPT ![t].step = "failed"] /\ "failed" \in RotationSteps
  BY DEF RevokeSessions, RotationSteps
<1>2. /\ rot' \in [Tabs -> Rotation] /\ OtherRotations(t)
      /\ rot'[t].step = "failed" /\ rot'[t].pair = rot[t].pair
  BY <1>1, RotationGoesOn
<1> QED
  BY <1>2 DEF RevokeSessions

\* A rotation that is over, however it ended.
LEMMA RotationEnds ==
    ASSUME TokenTypes, NEW t \in Tabs, RotationArrives(t) \/ RotationFails(t) \/ Reload(t)
    PROVE  /\ rot' \in [Tabs -> Rotation] /\ OtherRotations(t) /\ rot'[t] = NoRotation
           /\ UNCHANGED <<live, index, black, revokedAt, iat, expired, seconds, login>>
           /\ RotationArrives(t) =>
                storage' = [pair |-> rot[t].pair, user |-> storage.user] /\ mishap' = mishap
           /\ RotationFails(t) => storage' = Cleared
           /\ Reload(t) => storage' = storage
<1>1. rot' = [rot EXCEPT ![t] = NoRotation]
  BY DEF RotationArrives, RotationFails, Reload
<1>2. rot' \in [Tabs -> Rotation] /\ OtherRotations(t) /\ rot'[t] = NoRotation
  BY <1>1, NoRotationIsOne, RotationBecomes
<1>3. UNCHANGED <<live, index, black, revokedAt, iat, expired, seconds, login>>
  BY DEF RotationArrives, RotationFails, Reload, server
<1>4. RotationArrives(t) => storage' = [pair |-> rot[t].pair, user |-> storage.user] /\ mishap' = mishap
  <2>1. storage = [pair |-> storage.pair, user |-> storage.user]
    BY DEF TokenTypes
  <2> QED
    BY <2>1 DEF RotationArrives
<1>5. /\ RotationFails(t) => storage' = Cleared
      /\ Reload(t) => storage' = storage
  BY DEF RotationFails, Reload
<1> QED
  BY <1>2, <1>3, <1>4, <1>5

\* No request, and no end of a rotation, issues a pair or lets one expire.
LEMMA RequestsKeepTokens ==
    ASSUME TokenInv, NEW t \in Tabs, NEW s \in Slots,
           \/ CallApi(t, s) \/ Logout(t, s) \/ ServeRequest(t, s) \/ RequestLost(t, s)
           \/ Unauthorized(t, s) \/ RequestEnds(t, s)
    PROVE  TokenInv'
<1>1. /\ TokenTypes /\ storage \in [pair: Held \cup {0}, user: BOOLEAN] /\ rot \in [Tabs -> Rotation]
      /\ \A u \in Tabs : rot[u].pair \in Held
      /\ \A u \in Tabs, r \in Slots : req[u][r].pair \in Held
  BY WhatIsHeld DEF TokenInv, TokenTypes
<1>2. ASSUME UNCHANGED <<login, rot, expired, iat, seconds>>,
             live' \subseteq live, index' \subseteq index, black' \subseteq Issued, black' \cap live' = {},
             storage' \in [pair: {0, storage.pair}, user: BOOLEAN],
             req' \in [Tabs -> [Slots -> Request]], OtherRequests(t, s),
             req'[t][s].pair \in {0, storage.pair, req[t][s].pair},
             req'[t][s].retried => req[t][s].retried /\ req'[t][s].pair = req[t][s].pair
      PROVE  TokenInv'
  <2>1. storage' \in [pair: Held \cup {0}, user: BOOLEAN] /\ storage.pair \in Held
    BY <1>2, WhatIsHeld
  <2>2. \A u \in Tabs, r \in Slots : req'[u][r].pair \in Held \cup {0}
    BY <1>1, <1>2, <2>1 DEF OtherRequests
  <2>3. RotatedFresh'
    BY <1>2 DEF TokenInv, RotatedFresh, OtherRequests
  <2> QED
    BY <1>1, <1>2, <2>1, <2>2, <2>3, HandingRoundKeepsTokens
<1>3. CASE CallApi(t, s) \/ Logout(t, s)
  <2>1. PICK k \in {"call", "logout"} : Send(t, s, k)
    BY <1>3 DEF CallApi, Logout
  <2>2. /\ req' \in [Tabs -> [Slots -> Request]] /\ OtherRequests(t, s)
        /\ req'[t][s].pair = storage.pair /\ ~ req'[t][s].retried
    BY <1>1, <2>1, SendChanges
  <2>3. UNCHANGED <<login, rot, expired, iat, seconds, live, index, black, storage>>
    BY <1>3 DEF CallApi, Logout, server
  <2> QED
    BY <1>1, <1>2, <2>2, <2>3 DEF TokenInv, TokenTypes
<1>4. CASE ServeRequest(t, s)
  <2>1. req[t][s].pair \in Held
    BY <1>1
  <2>2. Accepted(req[t][s].pair) => req[t][s].pair \in Issued
    BY <2>1 DEF Accepted, TokenInv, PairsIssued
  <2>3. /\ req' \in [Tabs -> [Slots -> Request]] /\ OtherRequests(t, s)
        /\ req'[t][s].pair = req[t][s].pair /\ req'[t][s].retried = req[t][s].retried
        /\ UNCHANGED <<iat, expired, seconds, storage, login, rot>>
    BY <1>1, <1>4, ServeChanges
  <2>4. /\ live' \subseteq live /\ index' \subseteq index /\ black' \subseteq Issued
        /\ black' \cap live' = {}
    <3>1. CASE UNCHANGED <<black, live, index>>
      BY <3>1 DEF TokenInv, TokenTypes
    <3>2. CASE /\ Accepted(req[t][s].pair) /\ black' = black \cup {req[t][s].pair}
               /\ live' = live \ {req[t][s].pair} /\ index' = index \ {req[t][s].pair}
      BY <2>2, <3>2 DEF TokenInv, TokenTypes
    <3> QED
      BY <1>1, <1>4, <3>1, <3>2, ServeChanges
  <2>5. storage' \in [pair: {0, storage.pair}, user: BOOLEAN]
    BY <1>1, <2>3 DEF TokenTypes
  <2> QED
    BY <1>2, <2>3, <2>4, <2>5
<1>5. CASE RequestLost(t, s)
  <2>1. /\ UNCHANGED <<login, rot, expired, iat, seconds, live, index, black, storage>>
        /\ req' = [req EXCEPT ![t][s].step = "failed"]
    BY <1>5 DEF RequestLost, server
  <2> QED
    BY <1>1, <1>2, <2>1, RequestSteps DEF TokenInv, TokenTypes
<1>6. CASE RequestEnds(t, s)
  <2>1. req'[t][s].pair = 0 /\ ~ req'[t][s].retried
    BY <1>1, <1>6, EndChanges DEF NoRequest
  <2> QED
    BY <1>1, <1>2, <1>6, <2>1, EndChanges DEF TokenInv, TokenTypes
<1>7. CASE Unauthorized(t, s)
  <2>1. /\ UNCHANGED <<login, expired, iat, seconds, live, index, black>>
        /\ req' \in [Tabs -> [Slots -> Request]]
        /\ \A u \in Tabs, r \in Slots : req'[u][r].pair = req[u][r].pair /\ req'[u][r].retried = req[u][r].retried
    BY SMTT(30), <1>1, <1>7, UnauthorizedChanges DEF OtherRequests
  <2>2. /\ storage' \in [pair: Held \cup {0}, user: BOOLEAN] /\ rot' \in [Tabs -> Rotation]
        /\ \A u \in Tabs : \/ rot'[u] = rot[u]
                           \/ rot'[u].step = "sent" /\ rot'[u].pair = storage.pair
    <3>1. CASE UNCHANGED <<storage, rot>>
      BY <1>1, <3>1
    <3>2. CASE storage' = Cleared /\ rot' = rot
      BY <1>1, <3>2 DEF Cleared
    <3>3. CASE /\ rot' \in [Tabs -> Rotation] /\ OtherRotations(t) /\ storage' = storage
               /\ rot'[t] = [step |-> "sent", pair |-> storage.pair, doomed |-> {}]
      BY <1>1, <3>3 DEF OtherRotations
    <3> QED
      BY <1>1, <1>7, <3>1, <3>2, <3>3, UnauthorizedChanges
  <2>3. \A u \in Tabs : rot'[u].pair \in Held \cup {0}
    BY <1>1, <2>2, WhatIsHeld
  <2>4. RotatedFresh'
    <3>1. \A u \in Tabs : rot'[u].step = "issued" => rot'[u].pair \notin expired' \cup {0}
      BY <2>1, <2>2 DEF TokenInv, RotatedFresh
    <3>2. \A u \in Tabs, r \in Slots : req'[u][r].retried => req'[u][r].pair \notin expired' \cup {0}
      BY <2>1 DEF TokenInv, RotatedFresh
    <3> QED
      BY <3>1, <3>2 DEF RotatedFresh
  <2>5. /\ \A u \in Tabs, r \in Slots : req'[u][r].pair \in Held \cup {0}
        /\ black' \subseteq Issued /\ black' \cap live' = {}
    BY <1>1, <2>1 DEF TokenInv, TokenTypes
  <2> QED
    BY <2>1, <2>2, <2>3, <2>4, <2>5, HandingRoundKeepsTokens
<1> QED
  BY <1>3, <1>4, <1>5, <1>6, <1>7

LEMMA RotationsKeepTokens ==
    ASSUME TokenInv, NEW t \in Tabs,
           \/ ConsumeRefresh(t) \/ ReadSessions(t) \/ RevokeSessions(t)
           \/ RotationArrives(t) \/ RotationFails(t) \/ Reload(t)
    PROVE  TokenInv'
<1>1. /\ TokenTypes /\ storage \in [pair: Held \cup {0}, user: BOOLEAN] /\ 0 \in Pairs
      /\ \A u \in Tabs : rot[u].pair \in Held
      /\ \A u \in Tabs, r \in Slots : req[u][r].pair \in Held
  BY WhatIsHeld, AuthSessionsAssumption DEF TokenInv, TokenTypes, Pairs
<1>2. CASE ConsumeRefresh(t) \/ ReadSessions(t) \/ RevokeSessions(t)
  <2>1. /\ UNCHANGED <<login, expired, iat, seconds, black, storage, req>>
        /\ live' \subseteq live /\ index' \subseteq index
        /\ rot' \in [Tabs -> Rotation] /\ OtherRotations(t)
        /\ rot'[t].pair = rot[t].pair /\ rot'[t].step # "issued"
    BY <1>1, <1>2, ConsumeChanges, ReadChanges, RevokeChanges
  <2>2. RotatedFresh'
    BY <2>1 DEF TokenInv, RotatedFresh, OtherRotations
  <2>3. \A u \in Tabs : rot'[u].pair \in Held \cup {0}
    BY <1>1, <2>1 DEF OtherRotations
  <2>4. /\ \A u \in Tabs, r \in Slots : req'[u][r].pair \in Held \cup {0}
        /\ black' \subseteq Issued /\ black' \cap live' = {} /\ req' \in [Tabs -> [Slots -> Request]]
    BY <1>1, <2>1 DEF TokenInv, TokenTypes
  <2> QED
    BY <1>1, <2>1, <2>2, <2>3, <2>4, HandingRoundKeepsTokens
<1>3. CASE RotationArrives(t) \/ RotationFails(t) \/ Reload(t)
  <2>1. /\ UNCHANGED <<login, expired, iat, seconds, live, index, black>>
        /\ rot' \in [Tabs -> Rotation] /\ OtherRotations(t) /\ rot'[t] = NoRotation
    BY <1>1, <1>3, RotationEnds
  <2>2. \A u \in Tabs : rot'[u].pair \in Held \cup {0} /\ (rot'[u].step = "issued" => rot'[u] = rot[u])
    BY <1>1, <2>1 DEF OtherRotations, NoRotation
  <2>3. storage' \in [pair: Held \cup {0}, user: BOOLEAN]
    <3>1. CASE RotationArrives(t)
      BY <1>1, <3>1, RotationEnds
    <3>2. CASE RotationFails(t)
      BY <3>2 DEF RotationFails, Cleared
    <3>3. CASE Reload(t)
      BY <1>1, <3>3, RotationEnds
    <3> QED
      BY <1>3, <3>1, <3>2, <3>3
  <2>4. /\ req' \in [Tabs -> [Slots -> Request]]
        /\ \A u \in Tabs, r \in Slots :
             /\ req'[u][r].pair \in Held \cup {0}
             /\ req'[u][r].retried => req'[u][r].pair \notin expired \cup {0}
    <3>1. \A u \in Tabs, r \in Slots : req[u][r].retried => req[u][r].pair \notin expired \cup {0}
      BY DEF TokenInv, RotatedFresh
    <3>2. CASE RotationArrives(t)
      <4>1. rot[t].pair \notin expired \cup {0} /\ rot[t].pair \in Held
        BY <1>1, <3>2 DEF RotationArrives, TokenInv, RotatedFresh
      <4> QED
        BY <1>1, <3>1, <3>2, <4>1, RetriedRequests
    <3>3. CASE RotationFails(t)
      BY <1>1, <3>1, <3>3, FailedRequests
    <3>4. CASE Reload(t)
      BY <1>1, <3>1, <3>4, ReloadedRequests, WhatIsHeld DEF NoRequest
    <3> QED
      BY <1>3, <3>2, <3>3, <3>4
  <2>5. RotatedFresh'
    BY <2>1, <2>2, <2>4 DEF TokenInv, RotatedFresh
  <2>6. black' \subseteq Issued /\ black' \cap live' = {}
    BY <2>1 DEF TokenInv, TokenTypes
  <2> QED
    BY <2>1, <2>2, <2>3, <2>4, <2>5, <2>6, HandingRoundKeepsTokens
<1> QED
  BY <1>2, <1>3

\* A rotation that is served gets a pair nobody holds.
LEMMA ServedRotationKeepsTokens ==
    ASSUME TokenInv, NEW t \in Tabs, RotatePair(t)
    PROVE  TokenInv' /\ rot'[t].pair \notin Held \cup {0} /\ live' = live \cup {rot'[t].pair}
<1> DEFINE p == rot'[t].pair
<1>1. /\ rot' \in [Tabs -> Rotation] /\ OtherRotations(t)
      /\ rot[t].step = "consumed" /\ rot'[t].step = "issued" /\ IssuePair(p)
      /\ UNCHANGED <<black, revokedAt, expired, seconds, storage, login, req, mishap>>
  BY RotatePairChanges DEF TokenInv
<1>2. /\ p \in Pairs \ {0} /\ p \notin Issued /\ p \in 1..MaxPairs
      /\ Issued' = Issued \cup {p} /\ live' = live \cup {p} /\ index' = index \cup {p}
      /\ iat'[p] = seconds /\ \A q \in Issued : iat'[q] = iat[q]
  BY <1>1, IssuedIsNew DEF TokenInv
<1> HIDE DEF p
<1>3. TokenTypes'
  BY <1>1, <1>2 DEF TokenInv, TokenTypes
<1>4. /\ \A u \in Tabs : rot'[u].pair \in Held \cup {p}
      /\ \A u \in Tabs, r \in Slots : req'[u][r].pair \in Held
      /\ storage'.pair \in Held
  BY <1>1, WhatIsHeld DEF OtherRotations, p
<1>5. Held' \subseteq Held \cup {p}
  BY <1>4, WhatIsHeldNext
<1>6. PairsIssued' /\ LoginsApart'
  BY <1>1, <1>2, <1>5, NoForeignPair
<1>7. p \notin expired \cup {0} /\ p \notin Held
  BY <1>2 DEF TokenInv, TokenTypes, PairsIssued
<1>8. RotatedFresh'
  BY <1>1, <1>7 DEF TokenInv, RotatedFresh, OtherRotations, p
<1>9. black' \cap live' = {}
  BY <1>1, <1>2 DEF TokenInv, TokenTypes
<1> QED
  BY <1>2, <1>3, <1>6, <1>7, <1>8, <1>9 DEF TokenInv, p

\* Each step keeps the pairs apart.
LEMMA StepKeepsTokens == ASSUME TokenInv, [ASNext]_asVars PROVE TokenInv'
<1>1. ASSUME NEW t \in Tabs, VerifyPassword(t) PROVE TokenInv'
  BY <1>1, ServedLoginKeepsTokens, LoginsBeginSteps, LoginsBeginKeepTokens DEF TokenInv
<1>2. ASSUME \/ UNCHANGED asVars \/ Tick \/ WindowPasses
             \/ \E t \in Tabs : StartLogin(t) \/ CheckAttempts(t) \/ CountAttempt(t)
      PROVE  TokenInv'
  BY <1>2, LoginsBeginSteps, LoginsBeginKeepTokens DEF TokenInv
<1> QED
  BY <1>1, <1>2, ExpiryKeepsTokens, ArrivalKeepsTokens, RequestsKeepTokens, RotationsKeepTokens,
     ServedRotationKeepsTokens DEF ASNext

-----------------------------------------------------------------------------
(* CalmInv: without a mishap the rotations succeed                           *)

CalmParts ==
    revokedAt = 0 /\ OneRotation /\ RotationsSucceed /\ LogoutsWait /\ StoredLives /\ LoginsLive

\* Unusual events are not forgotten.
LEMMA MishapsStay == ASSUME [ASNext]_asVars PROVE mishap \subseteq mishap' /\ (Calm' => Calm)
<1>1. mishap \subseteq mishap'
  <2>1. CASE UNCHANGED asVars \/ Tick \/ AccessExpires \/ WindowPasses
    BY <2>1 DEF asVars, Tick, AccessExpires, WindowPasses
  <2>2. ASSUME NEW t \in Tabs,
               \/ StartLogin(t) \/ CheckAttempts(t) \/ CountAttempt(t) \/ VerifyPassword(t)
               \/ LoginArrives(t) \/ Reload(t)
        PROVE  mishap \subseteq mishap'
    BY <2>2 DEF StartLogin, CheckAttempts, CountAttempt, VerifyPassword, LoginArrives, Reload
  <2>3. ASSUME NEW t \in Tabs, NEW s \in Slots,
               \/ CallApi(t, s) \/ Logout(t, s) \/ ServeRequest(t, s)
               \/ RequestLost(t, s) \/ Unauthorized(t, s) \/ RequestEnds(t, s)
        PROVE  mishap \subseteq mishap'
    BY <2>3 DEF CallApi, Logout, ServeRequest, RequestLost, Unauthorized, RequestEnds
  <2>4. ASSUME NEW t \in Tabs,
               \/ ConsumeRefresh(t) \/ RotatePair(t) \/ ReadSessions(t) \/ RevokeSessions(t)
               \/ RotationArrives(t) \/ RotationFails(t)
        PROVE  mishap \subseteq mishap'
    BY <2>4 DEF ConsumeRefresh, RotatePair, ReadSessions, RevokeSessions, RotationArrives, RotationFails
  <2> QED
    BY <2>1, <2>2, <2>3, <2>4 DEF ASNext
<1> QED
  BY <1>1 DEF Calm

\* Nothing is rotated at the start.
LEMMA InitCalm == ASInit => CalmInv
BY DEF ASInit, CalmInv, OneRotation, RotationsSucceed, LogoutsWait, StoredLives, LoginsLive,
   Rotating, NoRotation, NoLogin, Cleared

\* A pair of a login is not in use by anything else.
LEMMA ArrivalKeepsCalm ==
    ASSUME TokenInv, CalmParts, Calm', NEW t \in Tabs, LoginArrives(t) PROVE CalmParts'
<1>1. /\ UNCHANGED <<rot, req, live, revokedAt>>
      /\ storage' = [pair |-> login[t].pair, user |-> TRUE] /\ login' = [login EXCEPT ![t] = NoLogin]
      /\ login[t].step = "issued"
  BY DEF LoginArrives, server
<1>2. storage'.pair \in live
  BY <1>1 DEF CalmParts, LoginsLive
<1>3. LoginsLive'
  BY <1>1 DEF CalmParts, LoginsLive, NoLogin, TokenInv, TokenTypes
<1>4. OneRotation' /\ RotationsSucceed' /\ LogoutsWait'
  BY <1>1 DEF CalmParts, OneRotation, RotationsSucceed, LogoutsWait, Rotating
<1>5. StoredLives'
  BY <1>1, <1>2 DEF StoredLives
<1> QED
  BY <1>1, <1>3, <1>4, <1>5 DEF CalmParts

LEMMA ServedLoginKeepsCalm ==
    ASSUME TokenInv, CalmParts, NEW t \in Tabs, VerifyPassword(t), login'[t].step = "issued"
    PROVE  CalmParts'
<1>1. /\ UNCHANGED <<storage, rot, req, revokedAt>>
      /\ OtherLogins(t) /\ live' = live \cup {login'[t].pair}
  BY ServedLoginKeepsTokens
<1>2. OneRotation' /\ RotationsSucceed' /\ LogoutsWait'
  BY <1>1 DEF CalmParts, OneRotation, RotationsSucceed, LogoutsWait, Rotating
<1>3. StoredLives'
  BY <1>1 DEF CalmParts, StoredLives, LoggedOut
<1>4. LoginsLive'
  BY <1>1 DEF CalmParts, LoginsLive, OtherLogins
<1> QED
  BY <1>1, <1>2, <1>3, <1>4 DEF CalmParts

\* A request is sent; a logout only while no tab rotates.
LEMMA SendKeepsCalm ==
    ASSUME TokenInv, CalmParts, Calm', NEW t \in Tabs, NEW s \in Slots, CallApi(t, s) \/ Logout(t, s)
    PROVE  CalmParts'
<1>1. PICK k \in {"call", "logout"} :
        /\ Send(t, s, k)
        /\ k = "logout" => \A u \in Tabs : ~Rotating(u)
  BY DEF CallApi, Logout, Calm, Troubles
<1>2. /\ OtherRequests(t, s) /\ req[t][s] = NoRequest
      /\ req'[t][s] = [kind |-> k, step |-> "sent", pair |-> storage.pair, retried |-> FALSE]
  BY <1>1, SendChanges DEF TokenInv
<1>3. UNCHANGED <<live, revokedAt, storage, login, rot>>
  BY DEF CallApi, Logout, server
<1>4. OneRotation' /\ RotationsSucceed' /\ LoginsLive'
  BY <1>3 DEF CalmParts, OneRotation, RotationsSucceed, LoginsLive, Rotating
<1>5. LogoutsWait'
  BY <1>1, <1>2, <1>3 DEF CalmParts, LogoutsWait, Rotating, OtherRequests
<1>6. \A u \in Tabs, r \in Slots : LoggedOut(u, r) => LoggedOut(u, r)'
  BY <1>2 DEF LoggedOut, OtherRequests, NoRequest
<1>7. StoredLives'
  BY <1>3, <1>6 DEF CalmParts, StoredLives
<1> QED
  BY <1>3, <1>4, <1>5, <1>7 DEF CalmParts

\* A logout that is served ends the stored pair, and no rotation needs it.
LEMMA ServeKeepsCalm ==
    ASSUME TokenInv, CalmParts, NEW t \in Tabs, NEW s \in Slots, ServeRequest(t, s)
    PROVE  CalmParts'
<1> DEFINE p == req[t][s].pair
<1>1. /\ OtherRequests(t, s) /\ req'[t][s].kind = req[t][s].kind
      /\ req'[t][s].step \in {"ok", "unauthorized"}
      /\ UNCHANGED <<revokedAt, storage, login, rot>> /\ req[t][s].step = "sent"
      /\ \/ live' = live
         \/ live' = live \ {p} /\ req[t][s].kind = "logout" /\ req'[t][s].step = "ok"
  <2>1. /\ OtherRequests(t, s) /\ req'[t][s].kind = req[t][s].kind
        /\ UNCHANGED <<revokedAt, storage, login, rot>>
        /\ req'[t][s].step = IF Accepted(p) THEN "ok" ELSE "unauthorized"
        /\ IF Accepted(p) /\ req[t][s].kind = "logout" THEN live' = live \ {p} ELSE live' = live
    BY ServeChanges DEF TokenInv
  <2>2. req[t][s].step = "sent"
    BY DEF ServeRequest
  <2> QED
    BY <2>1, <2>2
<1>2. LogoutsWait'
  BY <1>1 DEF CalmParts, LogoutsWait, Rotating, OtherRequests
<1>3. \A u \in Tabs, r \in Slots : LoggedOut(u, r) => LoggedOut(u, r)'
  BY <1>1 DEF LoggedOut, OtherRequests
<1>4. LoginsLive'
  BY <1>1, WhatIsHeld DEF CalmParts, LoginsLive, TokenInv, LoginsApart
<1>5. OneRotation' /\ RotationsSucceed'
  <2>1. OneRotation'
    BY <1>1 DEF CalmParts, OneRotation, Rotating
  <2>2. CASE live' = live
    BY <1>1, <2>1, <2>2 DEF CalmParts, RotationsSucceed
  <2>3. CASE req[t][s].kind = "logout"
    <3>1. \A u \in Tabs : ~Rotating(u)
      BY <1>1, <2>3 DEF CalmParts, LogoutsWait
    <3> QED
      BY <1>1, <2>1, <3>1 DEF RotationsSucceed, Rotating
  <2> QED
    BY <1>1, <2>1, <2>2, <2>3
<1>6. StoredLives'
  <2>1. CASE live' = live
    BY <1>1, <1>3, <2>1 DEF CalmParts, StoredLives
  <2>2. CASE req[t][s].kind = "logout" /\ req'[t][s].step = "ok"
    BY <1>1, <2>2 DEF StoredLives, LoggedOut
  <2> QED
    BY <1>1, <2>1, <2>2
<1> QED
  BY <1>1, <1>2, <1>4, <1>5, <1>6 DEF CalmParts

LEMMA LossKeepsCalm ==
    ASSUME TokenInv, CalmParts, NEW t \in Tabs, NEW s \in Slots, RequestLost(t, s)
    PROVE  CalmParts'
<1>1. /\ UNCHANGED <<live, revokedAt, storage, login, rot>> /\ req[t][s].step = "sent"
      /\ req' = [req EXCEPT ![t][s].step = "failed"]
  BY DEF RequestLost, server
<1>2. OtherRequests(t, s) /\ req'[t][s].kind = req[t][s].kind /\ req'[t][s].step = "failed"
  BY <1>1, RequestSteps DEF TokenInv
<1>3. OneRotation' /\ RotationsSucceed' /\ LoginsLive'
  BY <1>1 DEF CalmParts, OneRotation, RotationsSucceed, LoginsLive, Rotating
<1>4. LogoutsWait'
  BY <1>1, <1>2 DEF CalmParts, LogoutsWait, Rotating, OtherRequests
<1>5. \A u \in Tabs, r \in Slots : LoggedOut(u, r) => LoggedOut(u, r)'
  BY <1>1, <1>2 DEF LoggedOut, OtherRequests
<1>6. StoredLives'
  BY <1>1, <1>5 DEF CalmParts, StoredLives
<1> QED
  BY <1>1, <1>3, <1>4, <1>6 DEF CalmParts

\* A rotation starts alone, with the stored pair, which lives.
LEMMA UnauthorizedKeepsCalm ==
    ASSUME TokenInv, CalmParts, Calm', NEW t \in Tabs, NEW s \in Slots, Unauthorized(t, s)
    PROVE  CalmParts'
<1>1. /\ OtherRequests(t, s) /\ req'[t][s].kind = req[t][s].kind /\ req[t][s].step = "unauthorized"
      /\ UNCHANGED <<live, revokedAt, login>>
  BY UnauthorizedChanges DEF TokenInv
<1>2. LoginsLive'
  BY <1>1 DEF CalmParts, LoginsLive
<1>3. \A u \in Tabs, r \in Slots : LoggedOut(u, r) => LoggedOut(u, r)'
  BY <1>1 DEF LoggedOut, OtherRequests
<1>4. CASE rot' = rot
  <2>1. \/ storage'.pair = storage.pair \/ storage'.pair = 0
    BY <1>4, UnauthorizedChanges DEF TokenInv, Cleared
  <2>2. OneRotation' /\ RotationsSucceed'
    BY <1>1, <1>4 DEF CalmParts, OneRotation, RotationsSucceed, Rotating
  <2>3. LogoutsWait'
    BY <1>1, <1>4 DEF CalmParts, LogoutsWait, Rotating, OtherRequests
  <2>4. StoredLives'
    BY <1>1, <1>3, <1>4, <2>1 DEF CalmParts, StoredLives
  <2> QED
    BY <1>1, <1>2, <2>2, <2>3, <2>4 DEF CalmParts
<1>5. CASE rot' # rot
  <2>1. /\ storage.pair # 0 /\ req'[t][s].step = "waiting" /\ storage' = storage
        /\ rot' \in [Tabs -> Rotation] /\ OtherRotations(t)
        /\ rot'[t] = [step |-> "sent", pair |-> storage.pair, doomed |-> {}]
        /\ "shared" \notin mishap' => \A u \in Tabs : ~Rotating(u)
        /\ "overlap" \notin mishap' => \A u \in Tabs, r \in Slots : req[u][r].kind = "logout" => u = t /\ r = s
    BY <1>5, UnauthorizedChanges DEF TokenInv
  <2>2. /\ \A u \in Tabs : ~Rotating(u)
        /\ \A u \in Tabs, r \in Slots : req[u][r].kind = "logout" => u = t /\ r = s
    BY <2>1 DEF Calm, Troubles
  <2>3. storage.pair \in live
    BY <1>1, <2>1, <2>2 DEF CalmParts, StoredLives, LoggedOut, Rotating
  <2>4. /\ rot'[t].step = "sent" /\ rot'[t].pair = storage.pair
        /\ \A u \in Tabs : u # t => rot'[u].step = "idle"
    BY <2>1, <2>2 DEF OtherRotations, Rotating
  <2>5. OneRotation' /\ RotationsSucceed'
    BY <1>1, <2>3, <2>4 DEF OneRotation, RotationsSucceed, Rotating
  <2>6. LogoutsWait'
    BY <1>1, <2>1, <2>2 DEF LogoutsWait, OtherRequests
  <2>7. StoredLives'
    BY <1>1, <2>1, <2>3 DEF StoredLives
  <2> QED
    BY <1>1, <1>2, <2>5, <2>6, <2>7 DEF CalmParts
<1> QED
  BY <1>4, <1>5

LEMMA EndKeepsCalm ==
    ASSUME TokenInv, CalmParts, NEW t \in Tabs, NEW s \in Slots, RequestEnds(t, s)
    PROVE  CalmParts'
<1>1. /\ OtherRequests(t, s) /\ req'[t][s] = NoRequest
      /\ IF req[t][s].kind = "logout" \/ (req[t][s].kind = "me" /\ req[t][s].step = "failed")
         THEN storage'.pair = 0 ELSE storage'.pair = storage.pair
      /\ UNCHANGED <<live, revokedAt, login, rot>>
  BY EndChanges DEF TokenInv
<1>2. OneRotation' /\ RotationsSucceed' /\ LoginsLive'
  BY <1>1 DEF CalmParts, OneRotation, RotationsSucceed, LoginsLive, Rotating
<1>3. LogoutsWait'
  BY <1>1 DEF CalmParts, LogoutsWait, Rotating, OtherRequests, NoRequest
<1>4. StoredLives'
  <2>1. CASE storage'.pair = 0
    BY <2>1 DEF StoredLives
  <2>2. CASE storage'.pair = storage.pair /\ req[t][s].kind # "logout"
    <3>1. \A u \in Tabs, r \in Slots : LoggedOut(u, r) => LoggedOut(u, r)'
      BY <1>1, <2>2 DEF LoggedOut, OtherRequests
    <3> QED
      BY <1>1, <2>2, <3>1 DEF CalmParts, StoredLives
  <2> QED
    BY <1>1, <2>1, <2>2
<1> QED
  BY <1>1, <1>2, <1>3, <1>4 DEF CalmParts

\* The refresh token of a rotation is there when the service takes it.
LEMMA ConsumeKeepsCalm ==
    ASSUME TokenInv, CalmParts, NEW t \in Tabs, ConsumeRefresh(t)
    PROVE  CalmParts' /\ rot'[t].step = "consumed"
<1>1. /\ rot[t].step = "sent" /\ rot[t].pair \in live /\ OtherRotations(t)
      /\ rot'[t].step = "consumed" /\ live' = live \ {rot[t].pair}
      /\ UNCHANGED <<revokedAt, storage, login, req>>
  BY ConsumeChanges DEF TokenInv, CalmParts, RotationsSucceed
<1>2. \A u \in Tabs : u # t => rot[u].step = "idle" /\ rot'[u].step = "idle"
  BY <1>1 DEF CalmParts, OneRotation, Rotating, OtherRotations
<1>3. OneRotation' /\ RotationsSucceed'
  BY <1>1, <1>2 DEF OneRotation, RotationsSucceed, Rotating
<1>4. LogoutsWait'
  BY <1>1, <1>2 DEF CalmParts, LogoutsWait, Rotating
<1>5. LoginsLive'
  BY <1>1, WhatIsHeld DEF CalmParts, LoginsLive, TokenInv, LoginsApart
<1>6. StoredLives'
  BY <1>1 DEF StoredLives
<1> QED
  BY <1>1, <1>3, <1>4, <1>5, <1>6 DEF CalmParts

LEMMA RotatePairKeepsCalm ==
    ASSUME TokenInv, CalmParts, NEW t \in Tabs, RotatePair(t)
    PROVE  CalmParts'
<1>1. /\ OtherRotations(t) /\ rot[t].step = "consumed" /\ rot'[t].step = "issued"
      /\ live' = live \cup {rot'[t].pair}
      /\ UNCHANGED <<storage, login, req>> /\ revokedAt' = revokedAt
  BY RotatePairChanges, ServedRotationKeepsTokens DEF TokenInv, RotatePair
<1>2. \A u \in Tabs : u # t => rot[u].step = "idle" /\ rot'[u].step = "idle"
  BY <1>1 DEF CalmParts, OneRotation, Rotating, OtherRotations
<1>3. OneRotation' /\ RotationsSucceed'
  BY <1>1, <1>2 DEF OneRotation, RotationsSucceed, Rotating
<1>4. LogoutsWait'
  BY <1>1, <1>2 DEF CalmParts, LogoutsWait, Rotating
<1>5. LoginsLive' /\ StoredLives'
  BY <1>1 DEF CalmParts, LoginsLive, StoredLives
<1> QED
  BY <1>1, <1>3, <1>4, <1>5 DEF CalmParts

\* The fetched pair goes to the storage and lives.
LEMMA RotationArrivesKeepsCalm ==
    ASSUME TokenInv, CalmParts, NEW t \in Tabs, RotationArrives(t)
    PROVE  CalmParts'
<1>1. /\ OtherRotations(t) /\ rot'[t] = NoRotation /\ rot[t].step = "issued" /\ rot[t].pair \in live
      /\ storage' = [pair |-> rot[t].pair, user |-> storage.user]
      /\ UNCHANGED <<live, revokedAt, login>>
  BY RotationEnds DEF TokenInv, CalmParts, RotationsSucceed, RotationArrives
<1>2. \A u \in Tabs : rot'[u].step = "idle"
  BY <1>1 DEF CalmParts, OneRotation, Rotating, OtherRotations, NoRotation
<1>3. OneRotation' /\ RotationsSucceed' /\ LogoutsWait'
  BY <1>2 DEF OneRotation, RotationsSucceed, LogoutsWait, Rotating
<1>4. LoginsLive' /\ StoredLives'
  BY <1>1 DEF CalmParts, LoginsLive, StoredLives
<1> QED
  BY <1>1, <1>3, <1>4 DEF CalmParts

LEMMA ReloadKeepsCalm ==
    ASSUME TokenInv, CalmParts, Calm', NEW t \in Tabs, Reload(t)
    PROVE  CalmParts'
<1>1. /\ rot[t].step \in {"idle", "issued", "failed"}
      /\ "lost" \notin mishap' => rot[t].step # "issued"
      /\ "abandoned" \notin mishap' => \A s \in Slots : req[t][s].kind # "logout"
  BY DEF Reload
<1>2. rot[t].step = "idle" /\ \A s \in Slots : req[t][s].kind # "logout"
  BY <1>1 DEF Calm, Troubles, CalmParts, RotationsSucceed
<1>3. /\ OtherRotations(t) /\ rot'[t] = NoRotation
      /\ UNCHANGED <<live, revokedAt, login, storage>>
  BY RotationEnds DEF TokenInv
<1>4. \A u \in Tabs : rot'[u].step = rot[u].step /\ (rot[u].step # "idle" => rot'[u] = rot[u])
  BY <1>2, <1>3 DEF OtherRotations, NoRotation
<1>5. /\ \A r \in Slots : req'[t][r].kind # "logout"
      /\ \A u \in Tabs, r \in Slots : u # t => req'[u][r] = req[u][r]
  BY ReloadedRequests DEF TokenInv, NoRequest
<1>6. OneRotation' /\ RotationsSucceed' /\ LoginsLive'
  BY <1>3, <1>4 DEF CalmParts, OneRotation, RotationsSucceed, LoginsLive, Rotating
<1>7. LogoutsWait'
  BY <1>4, <1>5 DEF CalmParts, LogoutsWait, Rotating
<1>8. \A u \in Tabs, r \in Slots : LoggedOut(u, r) => LoggedOut(u, r)'
  BY <1>2, <1>5 DEF LoggedOut
<1>9. StoredLives'
  BY <1>3, <1>4, <1>8 DEF CalmParts, StoredLives
<1> QED
  BY <1>3, <1>6, <1>7, <1>9 DEF CalmParts

\* Each step keeps the calm.
LEMMA StepKeepsCalm == ASSUME TokenInv, CalmInv, [ASNext]_asVars PROVE CalmInv'
<1> SUFFICES ASSUME Calm' PROVE CalmParts'
  BY DEF CalmInv, CalmParts
<1>1. CalmParts /\ Calm
  BY MishapsStay DEF CalmInv, CalmParts
<1>2. LoginsBegin => CalmParts'
  BY LoginsBeginKeepCalm DEF CalmInv, CalmParts
<1>3. ASSUME NEW t \in Tabs, VerifyPassword(t) PROVE CalmParts'
  BY <1>1, <1>2, <1>3, LoginsBeginSteps, ServedLoginKeepsCalm DEF TokenInv
<1>4. ASSUME \/ UNCHANGED asVars \/ Tick \/ WindowPasses
             \/ \E t \in Tabs : StartLogin(t) \/ CheckAttempts(t) \/ CountAttempt(t)
      PROVE  CalmParts'
  BY <1>2, <1>4, LoginsBeginSteps DEF TokenInv
<1>5. CASE AccessExpires
  <2>1. UNCHANGED <<live, revokedAt, storage, login, rot, req>>
    BY <1>5 DEF AccessExpires, server, browser
  <2>2. OneRotation' /\ RotationsSucceed' /\ LoginsLive'
    BY <1>1, <2>1 DEF CalmParts, OneRotation, RotationsSucceed, LoginsLive, Rotating
  <2>3. LogoutsWait' /\ StoredLives'
    BY <1>1, <2>1 DEF CalmParts, LogoutsWait, StoredLives, LoggedOut, Rotating
  <2> QED
    BY <1>1, <2>1, <2>2, <2>3 DEF CalmParts
<1>6. ASSUME NEW t \in Tabs, LoginArrives(t) \/ Reload(t) PROVE CalmParts'
  BY <1>1, <1>6, ArrivalKeepsCalm, ReloadKeepsCalm
<1>7. ASSUME NEW t \in Tabs, NEW s \in Slots,
             \/ CallApi(t, s) \/ Logout(t, s) \/ ServeRequest(t, s) \/ RequestLost(t, s)
             \/ Unauthorized(t, s) \/ RequestEnds(t, s)
      PROVE  CalmParts'
  BY <1>1, <1>7, SendKeepsCalm, ServeKeepsCalm, LossKeepsCalm, UnauthorizedKeepsCalm, EndKeepsCalm
<1>8. ASSUME NEW t \in Tabs, ConsumeRefresh(t) \/ RotatePair(t) \/ RotationArrives(t) PROVE CalmParts'
  BY <1>1, <1>8, ConsumeKeepsCalm, RotatePairKeepsCalm, RotationArrivesKeepsCalm
<1>9. ASSUME NEW t \in Tabs, ReadSessions(t) \/ RevokeSessions(t) \/ RotationFails(t) PROVE FALSE
  <2>1. rot[t].step \in {"idle", "sent", "consumed", "issued"}
    BY <1>1 DEF CalmParts, RotationsSucceed
  <2>2. rot[t].step = "issued" /\ "lost" \in mishap'
    BY <1>9, <2>1 DEF ReadSessions, RevokeSessions, RotationFails
  <2> QED
    BY <2>2 DEF Calm, Troubles
<1> QED
  BY <1>3, <1>4, <1>5, <1>6, <1>7, <1>8, <1>9 DEF ASNext

\* The console does not set off the theft alarm on its own user (services/api.ts,
\* auth.py rotate_refresh): however many tabs and requests there are, sessions are
\* revoked only after one of the listed mishaps.
THEOREM AlarmsHaveACause == ASSpec => []NoFalseAlarm
<1>1. ASInit => TokenInv /\ CalmInv
  BY InitTokens, InitCalm
<1>2. TokenInv /\ CalmInv /\ [ASNext]_asVars => TokenInv' /\ CalmInv'
  BY StepKeepsTokens, StepKeepsCalm
<1>3. CalmInv => NoFalseAlarm
  BY DEF CalmInv, Calm, Troubles, RotationsSucceed, NoFalseAlarm
<1> QED
  BY <1>1, <1>2, <1>3, PTL DEF ASSpec

\* A tab that shows a user can go on (context/AuthContext.tsx): with nothing in
\* flight and no mishap the stored refresh token is one the service accepts.
THEOREM UsersHaveSessions == ASSpec => []ShownUserHasSession
<1>1. ASInit => TokenInv /\ CalmInv
  BY InitTokens, InitCalm
<1>2. TokenInv /\ CalmInv /\ [ASNext]_asVars => TokenInv' /\ CalmInv'
  BY StepKeepsTokens, StepKeepsCalm
<1>3. CalmInv => ShownUserHasSession
  <2> SUFFICES ASSUME CalmInv, ~Waiting, mishap = {}, storage.pair # 0 PROVE storage.pair \in live
    BY DEF ShownUserHasSession
  <2>1. StoredLives
    BY DEF CalmInv, Calm
  <2> QED
    BY <2>1 DEF StoredLives, Waiting, Rotating, LoggedOut, NoRequest
<1> QED
  BY <1>1, <1>2, <1>3, PTL DEF ASSpec

-----------------------------------------------------------------------------
(* QuietInv: who signs out leaves no session behind                          *)

QuietParts == RotatesStored /\ GivenUpIsOver /\ LogoutsOfStored /\ LiveIsHeld

LEMMA InitQuiet == ASInit => QuietInv
BY DEF ASInit, QuietInv, RotatesStored, GivenUpIsOver, LogoutsOfStored, LiveIsHeld, GivesUp,
   LoggedOut, Rotating, NoRotation, NoRequest

\* A session that is over stays over while the rotations rest and the logouts do
\* not end.
LEMMA OverStays ==
    ASSUME SessionOver, UNCHANGED rot, storage'.pair \in {0, storage.pair},
           \A u \in Tabs, r \in Slots : LoggedOut(u, r) => LoggedOut(u, r)'
    PROVE  SessionOver'
BY DEF SessionOver, Rotating

\* The token of a session that is over is not one the service accepts.
LEMMA OverIsDead ==
    ASSUME TokenInv, QuietParts, SessionOver PROVE storage.pair \notin live
<1>1. 0 \notin live
  BY DEF TokenInv, TokenTypes
<1> QED
  BY <1>1 DEF SessionOver, QuietParts, LogoutsOfStored, LoggedOut

LEMMA ServedLoginKeepsQuiet ==
    ASSUME TokenInv, QuietParts, NEW t \in Tabs, VerifyPassword(t), login'[t].step = "issued"
    PROVE  QuietParts'
<1> DEFINE p == login'[t].pair
<1>1. /\ UNCHANGED <<storage, rot, req, black>> /\ OtherLogins(t) /\ live' = live \cup {p}
      /\ login[t].step # "issued" /\ LoginsApart'
  BY ServedLoginKeepsTokens DEF TokenInv
<1>2. Held' = Held
  BY <1>1 DEF Held
<1>3. p \notin Held
  BY <1>1, <1>2 DEF LoginsApart
<1> HIDE DEF p
<1>4. RotatesStored'
  BY <1>1, <1>3, WhatIsHeld DEF QuietParts, RotatesStored, Rotating
<1>5. GivenUpIsOver'
  BY <1>1 DEF QuietParts, GivenUpIsOver, GivesUp, SessionOver, LoggedOut, Rotating
<1>6. LogoutsOfStored'
  BY <1>1, <1>3, WhatIsHeld DEF QuietParts, LogoutsOfStored, LoggedOut
<1>7. LiveIsHeld'
  BY <1>1 DEF QuietParts, LiveIsHeld, OtherLogins, p
<1> QED
  BY <1>4, <1>5, <1>6, <1>7 DEF QuietParts

\* A login that arrives finds nothing in flight and nothing stored.
LEMMA ArrivalKeepsQuiet ==
    ASSUME TokenInv, QuietParts, mishap' = {}, NEW t \in Tabs, LoginArrives(t) PROVE QuietParts'
<1>1. /\ UNCHANGED <<rot, req, live, black>>
      /\ storage' = [pair |-> login[t].pair, user |-> TRUE] /\ login' = [login EXCEPT ![t] = NoLogin]
      /\ storage.pair = 0 /\ \A u \in Tabs : ~Rotating(u) /\ \A s \in Slots : req[u][s] = NoRequest
  BY DEF LoginArrives, server
<1>2. RotatesStored'
  BY <1>1 DEF RotatesStored, Rotating
<1>3. GivenUpIsOver' /\ LogoutsOfStored'
  BY <1>1 DEF GivenUpIsOver, GivesUp, LogoutsOfStored, LoggedOut, NoRequest
<1>4. LiveIsHeld'
  <2>1. 0 \notin live
    BY DEF TokenInv, TokenTypes
  <2>2. \A p \in live : \E u \in Tabs : login[u].step = "issued" /\ login[u].pair = p
    BY <1>1, <2>1 DEF QuietParts, LiveIsHeld, Rotating
  <2>3. \A u \in Tabs : u # t => login'[u] = login[u]
    BY <1>1 DEF TokenInv, TokenTypes
  <2> QED
    BY <1>1, <2>2, <2>3 DEF LiveIsHeld
<1> QED
  BY <1>2, <1>3, <1>4 DEF QuietParts

LEMMA SendKeepsQuiet ==
    ASSUME TokenInv, QuietParts, NEW t \in Tabs, NEW s \in Slots, CallApi(t, s) \/ Logout(t, s)
    PROVE  QuietParts'
<1>1. PICK k \in {"call", "logout"} : Send(t, s, k)
  BY DEF CallApi, Logout
<1>2. /\ OtherRequests(t, s) /\ req[t][s] = NoRequest
      /\ req'[t][s] = [kind |-> k, step |-> "sent", pair |-> storage.pair, retried |-> FALSE]
  BY <1>1, SendChanges DEF TokenInv
<1>3. UNCHANGED <<live, black, storage, login, rot>>
  BY DEF CallApi, Logout, server
<1>4. RotatesStored' /\ LiveIsHeld'
  BY <1>3 DEF QuietParts, RotatesStored, LiveIsHeld, Rotating
<1>5. \A u \in Tabs, r \in Slots : LoggedOut(u, r) => LoggedOut(u, r)'
  BY <1>2 DEF LoggedOut, OtherRequests, NoRequest
<1>6. \A u \in Tabs, r \in Slots : GivesUp(u, r)' => GivesUp(u, r)
  BY <1>2, <1>3 DEF GivesUp, OtherRequests
<1>7. GivenUpIsOver'
  BY <1>3, <1>5, <1>6, OverStays DEF QuietParts, GivenUpIsOver
<1>8. LogoutsOfStored'
  BY <1>2, <1>3 DEF QuietParts, LogoutsOfStored, LoggedOut, OtherRequests
<1> QED
  BY <1>4, <1>7, <1>8 DEF QuietParts

\* A request sent again is refused only after a logout.
LEMMA ServeKeepsQuiet ==
    ASSUME TokenInv, CalmParts, QuietParts, NEW t \in Tabs, NEW s \in Slots, ServeRequest(t, s)
    PROVE  QuietParts'
<1> DEFINE p == req[t][s].pair
<1>1. /\ OtherRequests(t, s) /\ req'[t][s].kind = req[t][s].kind /\ req'[t][s].pair = p
      /\ req'[t][s].retried = req[t][s].retried
      /\ UNCHANGED <<storage, login, rot>>
      /\ req'[t][s].step = IF Accepted(p) THEN "ok" ELSE "unauthorized"
      /\ IF Accepted(p) /\ req[t][s].kind = "logout"
         THEN live' = live \ {p} ELSE live' = live /\ black' = black
  BY ServeChanges DEF TokenInv
<1>2. req[t][s].step = "sent"
  BY DEF ServeRequest
<1>3. RotatesStored' /\ LiveIsHeld'
  BY <1>1 DEF QuietParts, RotatesStored, LiveIsHeld, Rotating
<1>4. LogoutsOfStored'
  BY <1>1, <1>2 DEF QuietParts, LogoutsOfStored, LoggedOut, OtherRequests
<1>5. GivenUpIsOver'
  <2>1. CASE Accepted(p) /\ req[t][s].kind = "logout"
    <3>1. \A u \in Tabs : ~Rotating(u)
      BY <1>2, <2>1 DEF CalmParts, LogoutsWait
    <3>2. LoggedOut(t, s)'
      BY <1>1, <2>1 DEF LoggedOut
    <3>3. SessionOver'
      BY <1>1, <3>1, <3>2 DEF SessionOver, Rotating
    <3> QED
      BY <3>3 DEF GivenUpIsOver
  <2>2. CASE ~(Accepted(p) /\ req[t][s].kind = "logout")
    <3>1. black' = black
      BY <1>1, <2>2
    <3>2. \A u \in Tabs, r \in Slots : LoggedOut(u, r) => LoggedOut(u, r)'
      BY <1>1, <1>2 DEF LoggedOut, OtherRequests
    <3>3. GivesUp(t, s)' => GivesUp(t, s)
      <4> SUFFICES ASSUME GivesUp(t, s)' PROVE req[t][s].retried /\ p \in black
        BY DEF GivesUp
      <4>1. req[t][s].retried /\ (req'[t][s].step = "unauthorized" \/ p \in black)
        BY <1>1, <3>1 DEF GivesUp
      <4>2. p \notin expired \cup {0} /\ p \in Issued
        BY <4>1, WhatIsHeld DEF TokenInv, RotatedFresh, PairsIssued
      <4>3. iat[p] > revokedAt
        <5>1. iat[p] \in Nat \ {0}
          BY <4>2 DEF TokenInv, TokenTypes
        <5>2. revokedAt = 0
          BY DEF CalmParts
        <5> QED
          BY <5>1, <5>2
      <4>4. Accepted(p) \/ p \in black
        BY <4>2, <4>3 DEF Accepted
      <4> QED
        BY <1>1, <4>1, <4>4
    <3>4. \A u \in Tabs, r \in Slots : GivesUp(u, r)' => GivesUp(u, r)
      BY <1>1, <3>1, <3>3 DEF GivesUp, OtherRequests
    <3> QED
      BY <1>1, <3>2, <3>4, OverStays DEF QuietParts, GivenUpIsOver
  <2> QED
    BY <2>1, <2>2
<1> QED
  BY <1>3, <1>4, <1>5 DEF QuietParts

\* Nobody has given up when a rotation starts; without a token nothing rotates.
LEMMA UnauthorizedKeepsQuiet ==
    ASSUME TokenInv, CalmParts, QuietParts, mishap' = {},
           NEW t \in Tabs, NEW s \in Slots, Unauthorized(t, s)
    PROVE  QuietParts'
<1>1. /\ OtherRequests(t, s) /\ req'[t][s].kind = req[t][s].kind /\ req[t][s].step = "unauthorized"
      /\ req'[t][s].pair = req[t][s].pair /\ req'[t][s].retried = req[t][s].retried
      /\ req'[t][s].step \in {"waiting", "failed"}
      /\ UNCHANGED <<live, black, login>>
  BY UnauthorizedChanges DEF TokenInv
<1>2. \A u \in Tabs, r \in Slots : LoggedOut(u, r) => LoggedOut(u, r)'
  BY <1>1 DEF LoggedOut, OtherRequests
<1>3. \A u \in Tabs, r \in Slots : u # t \/ r # s => (GivesUp(u, r)' <=> GivesUp(u, r))
  BY <1>1 DEF GivesUp, OtherRequests
<1>4. ASSUME storage'.pair \in {0, storage.pair} PROVE LogoutsOfStored'
  BY <1>1, <1>4 DEF QuietParts, LogoutsOfStored, LoggedOut, OtherRequests
<1>5. CASE req[t][s].retried /\ req'[t][s].step = "failed" /\ UNCHANGED <<storage, rot>>
  <2>1. RotatesStored' /\ LiveIsHeld' /\ LogoutsOfStored'
    BY <1>1, <1>4, <1>5 DEF QuietParts, RotatesStored, LiveIsHeld, Rotating
  <2>2. SessionOver
    BY <1>1, <1>5 DEF QuietParts, GivenUpIsOver, GivesUp
  <2>3. GivenUpIsOver'
    BY <1>2, <1>5, <2>2, OverStays DEF GivenUpIsOver
  <2> QED
    BY <2>1, <2>3 DEF QuietParts
<1>6. CASE ~ req[t][s].retried /\ req'[t][s].step = "waiting" /\ UNCHANGED <<storage, rot>>
  <2>1. RotatesStored' /\ LiveIsHeld' /\ LogoutsOfStored'
    BY <1>1, <1>4, <1>6 DEF QuietParts, RotatesStored, LiveIsHeld, Rotating
  <2>2. \A u \in Tabs, r \in Slots : GivesUp(u, r)' => GivesUp(u, r)
    BY <1>1, <1>3, <1>6 DEF GivesUp
  <2>3. GivenUpIsOver'
    BY <1>2, <1>6, <2>2, OverStays DEF QuietParts, GivenUpIsOver
  <2> QED
    BY <2>1, <2>3 DEF QuietParts
<1>7. CASE /\ storage.pair # 0 /\ ~ req[t][s].retried /\ req'[t][s].step = "waiting"
           /\ rot' \in [Tabs -> Rotation] /\ OtherRotations(t) /\ storage' = storage
           /\ rot'[t] = [step |-> "sent", pair |-> storage.pair, doomed |-> {}]
           /\ "shared" \notin mishap' => \A u \in Tabs : ~Rotating(u)
           /\ "overlap" \notin mishap' =>
                \A u \in Tabs, r \in Slots : req[u][r].kind = "logout" => u = t /\ r = s
  <2>1. /\ \A u \in Tabs : ~Rotating(u)
        /\ \A u \in Tabs, r \in Slots : req[u][r].kind = "logout" => u = t /\ r = s
    BY <1>7
  <2>2. \A u \in Tabs : u # t => rot'[u].step = "idle"
    BY <1>7, <2>1 DEF OtherRotations, Rotating
  <2>3. RotatesStored' /\ LogoutsOfStored'
    BY <1>4, <1>7, <2>2 DEF RotatesStored, Rotating
  <2>4. LiveIsHeld'
    BY <1>1, <1>7, <2>1 DEF QuietParts, LiveIsHeld, Rotating
  <2>5. ~SessionOver
    BY <1>1, <1>7, <2>1 DEF SessionOver, LoggedOut
  <2>6. \A u \in Tabs, r \in Slots : ~GivesUp(u, r)
    BY <2>5 DEF QuietParts, GivenUpIsOver
  <2>7. \A u \in Tabs, r \in Slots : ~GivesUp(u, r)'
    BY <1>1, <1>3, <1>7, <2>6 DEF GivesUp
  <2>8. GivenUpIsOver'
    BY <2>7 DEF GivenUpIsOver
  <2> QED
    BY <2>3, <2>4, <2>8 DEF QuietParts
<1>8. CASE storage.pair = 0 /\ storage' = Cleared /\ rot' = rot
  <2>1. storage'.pair = 0 /\ \A u \in Tabs : ~Rotating(u)
    BY <1>8 DEF Cleared, QuietParts, RotatesStored
  <2>2. SessionOver'
    BY <1>8, <2>1 DEF SessionOver, Rotating
  <2>3. RotatesStored' /\ LogoutsOfStored' /\ GivenUpIsOver'
    BY <1>4, <1>8, <2>1, <2>2 DEF RotatesStored, GivenUpIsOver, Rotating
  <2>4. LiveIsHeld'
    BY <1>1, <1>8, <2>1 DEF QuietParts, LiveIsHeld
  <2> QED
    BY <2>3, <2>4 DEF QuietParts
<1>9. TokenTypes
  BY DEF TokenInv
<1>10. \/ req[t][s].retried /\ req'[t][s].step = "failed" /\ UNCHANGED <<storage, rot>>
       \/ ~ req[t][s].retried /\ req'[t][s].step = "waiting" /\ UNCHANGED <<storage, rot>>
       \/ /\ storage.pair # 0 /\ ~ req[t][s].retried /\ req'[t][s].step = "waiting"
          /\ rot' \in [Tabs -> Rotation] /\ OtherRotations(t) /\ storage' = storage
          /\ rot'[t] = [step |-> "sent", pair |-> storage.pair, doomed |-> {}]
          /\ "shared" \notin mishap' => \A u \in Tabs : ~Rotating(u)
          /\ "overlap" \notin mishap' =>
               \A u \in Tabs, r \in Slots : req[u][r].kind = "logout" => u = t /\ r = s
       \/ storage.pair = 0 /\ storage' = Cleared /\ rot' = rot
  BY ZenonT(60), <1>9, UnauthorizedChanges
<1> QED
  BY <1>5, <1>6, <1>7, <1>8, <1>10

\* Whoever clears the storage does so when the session is over.
LEMMA EndKeepsQuiet ==
    ASSUME TokenInv, CalmParts, QuietParts, NEW t \in Tabs, NEW s \in Slots, RequestEnds(t, s)
    PROVE  QuietParts'
<1> DEFINE clears == req[t][s].kind = "logout" \/ (req[t][s].kind = "me" /\ req[t][s].step = "failed")
<1>1. /\ OtherRequests(t, s) /\ req'[t][s] = NoRequest /\ req[t][s].step \in {"ok", "failed"}
      /\ IF clears THEN storage'.pair = 0 ELSE storage'.pair = storage.pair
      /\ UNCHANGED <<live, black, login, rot>>
  BY EndChanges DEF TokenInv
<1>2. LogoutsOfStored'
  BY <1>1 DEF QuietParts, LogoutsOfStored, LoggedOut, OtherRequests, NoRequest
<1>3. CASE clears
  <2>1. SessionOver
    <3>1. CASE LoggedOut(t, s)
      BY <3>1 DEF SessionOver, LoggedOut, CalmParts, LogoutsWait
    <3>2. CASE GivesUp(t, s)
      BY <3>2 DEF QuietParts, GivenUpIsOver
    <3> QED
      BY <1>1, <1>3, <3>1, <3>2 DEF LoggedOut, GivesUp
  <2>2. storage.pair \notin live
    BY <2>1, OverIsDead
  <2>3. SessionOver' /\ \A u \in Tabs : ~Rotating(u)'
    BY <1>1, <1>3, <2>1 DEF SessionOver, Rotating
  <2>4. RotatesStored' /\ GivenUpIsOver'
    BY <2>3 DEF RotatesStored, GivenUpIsOver
  <2>5. LiveIsHeld'
    BY <1>1, <2>2 DEF QuietParts, LiveIsHeld
  <2> QED
    BY <1>2, <2>4, <2>5 DEF QuietParts
<1>4. CASE ~clears
  <2>1. \A u \in Tabs, r \in Slots : LoggedOut(u, r) => LoggedOut(u, r)'
    BY <1>1, <1>4 DEF LoggedOut, OtherRequests
  <2>2. \A u \in Tabs, r \in Slots : GivesUp(u, r)' => GivesUp(u, r)
    BY <1>1 DEF GivesUp, OtherRequests, NoRequest
  <2>3. GivenUpIsOver'
    BY <1>1, <1>4, <2>1, <2>2, OverStays DEF QuietParts, GivenUpIsOver
  <2>4. RotatesStored' /\ LiveIsHeld'
    BY <1>1, <1>4 DEF QuietParts, RotatesStored, LiveIsHeld, Rotating
  <2> QED
    BY <1>2, <2>3, <2>4 DEF QuietParts
<1> QED
  BY <1>3, <1>4

\* The rotation takes the stored token, and puts another in its place.
LEMMA ConsumeKeepsQuiet ==
    ASSUME TokenInv, CalmParts, QuietParts, NEW t \in Tabs, ConsumeRefresh(t)
    PROVE  QuietParts'
<1>1. /\ rot[t].step = "sent" /\ OtherRotations(t) /\ rot'[t].pair = rot[t].pair
      /\ rot'[t].step = "consumed" /\ live' = live \ {rot[t].pair}
      /\ UNCHANGED <<storage, login, req, black>>
  BY ConsumeChanges, ConsumeKeepsCalm DEF TokenInv
<1>2. /\ \A u \in Tabs : u # t => rot[u].step = "idle" /\ rot'[u].step = "idle"
      /\ Rotating(t) /\ rot[t].pair = storage.pair /\ storage.pair # 0
  BY <1>1 DEF CalmParts, OneRotation, Rotating, OtherRotations, QuietParts, RotatesStored
<1>3. RotatesStored'
  BY <1>1, <1>2 DEF RotatesStored, Rotating
<1>4. GivenUpIsOver'
  BY <1>1, <1>2 DEF QuietParts, GivenUpIsOver, GivesUp, SessionOver
<1>5. LogoutsOfStored'
  BY <1>1 DEF QuietParts, LogoutsOfStored, LoggedOut
<1>6. LiveIsHeld'
  BY <1>1, <1>2 DEF QuietParts, LiveIsHeld
<1> QED
  BY <1>3, <1>4, <1>5, <1>6 DEF QuietParts

LEMMA RotatePairKeepsQuiet ==
    ASSUME TokenInv, CalmParts, QuietParts, NEW t \in Tabs, RotatePair(t)
    PROVE  QuietParts'
<1>1. /\ OtherRotations(t) /\ rot[t].step = "consumed" /\ rot'[t].step = "issued"
      /\ live' = live \cup {rot'[t].pair} /\ rot'[t].pair \notin Held \cup {0}
      /\ UNCHANGED <<storage, login, req, black>>
  BY RotatePairChanges, ServedRotationKeepsTokens DEF TokenInv
<1>2. /\ \A u \in Tabs : u # t => rot[u].step = "idle" /\ rot'[u].step = "idle"
      /\ Rotating(t) /\ storage.pair \notin live /\ storage.pair # 0
  BY <1>1 DEF CalmParts, OneRotation, Rotating, OtherRotations, QuietParts, RotatesStored
<1>3. RotatesStored'
  BY <1>1, <1>2, WhatIsHeld DEF RotatesStored, Rotating
<1>4. GivenUpIsOver'
  BY <1>1, <1>2 DEF QuietParts, GivenUpIsOver, GivesUp, SessionOver
<1>5. LogoutsOfStored'
  BY <1>1, WhatIsHeld DEF QuietParts, LogoutsOfStored, LoggedOut
<1>6. LiveIsHeld'
  BY <1>1, <1>2 DEF QuietParts, LiveIsHeld
<1> QED
  BY <1>3, <1>4, <1>5, <1>6 DEF QuietParts

LEMMA RotationArrivesKeepsQuiet ==
    ASSUME TokenInv, CalmParts, QuietParts, NEW t \in Tabs, RotationArrives(t)
    PROVE  QuietParts'
<1>1. /\ OtherRotations(t) /\ rot'[t] = NoRotation /\ rot[t].step = "issued" /\ rot[t].pair \in live
      /\ storage' = [pair |-> rot[t].pair, user |-> storage.user]
      /\ UNCHANGED <<live, login, black>>
  BY RotationEnds DEF TokenInv, CalmParts, RotationsSucceed, RotationArrives
<1>2. /\ \A s \in Slots : req[t][s].step = "waiting" =>
           /\ req'[t][s].kind = req[t][s].kind /\ req'[t][s].step = "sent"
           /\ req'[t][s].pair = rot[t].pair
      /\ \A u \in Tabs, r \in Slots : u # t \/ req[u][r].step # "waiting" => req'[u][r] = req[u][r]
  BY RetriedRequests DEF TokenInv
<1>3. /\ \A u \in Tabs : u # t => rot[u].step = "idle" /\ rot'[u].step = "idle"
      /\ rot'[t].step = "idle" /\ Rotating(t) /\ storage.pair \notin live
  BY <1>1 DEF CalmParts, OneRotation, Rotating, OtherRotations, QuietParts, RotatesStored, NoRotation
<1>4. RotatesStored'
  BY <1>3 DEF RotatesStored, Rotating
<1>5. GivenUpIsOver'
  <2>1. \A u \in Tabs, r \in Slots : ~GivesUp(u, r)
    BY <1>3 DEF QuietParts, GivenUpIsOver, SessionOver
  <2>2. rot[t].pair \notin black
    BY <1>1 DEF TokenInv
  <2>3. \A u \in Tabs, r \in Slots : ~GivesUp(u, r)'
    BY <1>1, <1>2, <2>1, <2>2 DEF GivesUp
  <2> QED
    BY <2>3 DEF GivenUpIsOver
<1>6. LogoutsOfStored'
  <2>1. \A u \in Tabs, r \in Slots : req[u][r].kind = "logout" => req[u][r].step = "waiting"
    BY <1>3 DEF CalmParts, LogoutsWait
  <2> QED
    BY <1>1, <1>2, <2>1 DEF LogoutsOfStored, LoggedOut
<1>7. LiveIsHeld'
  BY <1>1, <1>3 DEF QuietParts, LiveIsHeld
<1> QED
  BY <1>4, <1>5, <1>6, <1>7 DEF QuietParts

LEMMA ReloadKeepsQuiet ==
    ASSUME TokenInv, CalmParts, QuietParts, mishap' = {}, NEW t \in Tabs, Reload(t)
    PROVE  QuietParts'
<1>1. /\ rot[t].step \in {"idle", "issued", "failed"}
      /\ "lost" \notin mishap' => rot[t].step # "issued"
      /\ "abandoned" \notin mishap' => \A s \in Slots : req[t][s].kind # "logout"
  BY DEF Reload
<1>2. rot[t].step = "idle" /\ \A s \in Slots : req[t][s].kind # "logout"
  BY <1>1 DEF CalmParts, RotationsSucceed
<1>3. /\ OtherRotations(t) /\ rot'[t] = NoRotation
      /\ UNCHANGED <<live, black, login, storage>>
  BY RotationEnds DEF TokenInv
<1>4. \A u \in Tabs : rot'[u].step = rot[u].step /\ (rot[u].step # "idle" => rot'[u] = rot[u])
  BY <1>2, <1>3 DEF OtherRotations, NoRotation
<1>5. /\ \A r \in Slots : /\ req'[t][r].kind # "logout" /\ req'[t][r].step # "failed"
                          /\ ~ req'[t][r].retried
      /\ \A u \in Tabs, r \in Slots : u # t => req'[u][r] = req[u][r]
  BY ReloadedRequests DEF TokenInv, NoRequest
<1>6. RotatesStored' /\ LiveIsHeld'
  BY <1>3, <1>4 DEF QuietParts, RotatesStored, LiveIsHeld, Rotating
<1>7. LogoutsOfStored'
  BY <1>3, <1>5 DEF QuietParts, LogoutsOfStored, LoggedOut
<1>8. \A u \in Tabs, r \in Slots : /\ GivesUp(u, r)' => GivesUp(u, r)
                                   /\ LoggedOut(u, r) => LoggedOut(u, r)'
  BY <1>2, <1>3, <1>5 DEF GivesUp, LoggedOut
<1>9. SessionOver => SessionOver'
  BY <1>3, <1>4, <1>8 DEF SessionOver, Rotating
<1>10. GivenUpIsOver'
  BY <1>8, <1>9 DEF QuietParts, GivenUpIsOver
<1> QED
  BY <1>6, <1>7, <1>10 DEF QuietParts

\* Each step keeps the quiet.
LEMMA StepKeepsQuiet == ASSUME TokenInv, CalmInv, QuietInv, [ASNext]_asVars PROVE QuietInv'
<1> SUFFICES ASSUME mishap' = {} PROVE QuietParts'
  BY DEF QuietInv, QuietParts
<1>1. CalmParts /\ QuietParts
  BY MishapsStay DEF CalmInv, CalmParts, QuietInv, QuietParts, Calm
<1>2. LoginsBegin => QuietParts'
  BY LoginsBeginKeepQuiet DEF QuietInv, QuietParts
<1>3. ASSUME NEW t \in Tabs, VerifyPassword(t) PROVE QuietParts'
  BY <1>1, <1>2, <1>3, LoginsBeginSteps, ServedLoginKeepsQuiet DEF TokenInv
<1>4. ASSUME \/ UNCHANGED asVars \/ Tick \/ WindowPasses
             \/ \E t \in Tabs : StartLogin(t) \/ CheckAttempts(t) \/ CountAttempt(t)
      PROVE  QuietParts'
  BY <1>2, <1>4, LoginsBeginSteps DEF TokenInv
<1>5. CASE AccessExpires
  <2>1. UNCHANGED <<live, black, storage, login, rot, req>>
    BY <1>5 DEF AccessExpires, server, browser
  <2>2. RotatesStored' /\ LiveIsHeld'
    BY <1>1, <2>1 DEF QuietParts, RotatesStored, LiveIsHeld, Rotating
  <2>3. GivenUpIsOver' /\ LogoutsOfStored'
    BY <1>1, <2>1 DEF QuietParts, GivenUpIsOver, GivesUp, SessionOver, LogoutsOfStored, LoggedOut, Rotating
  <2> QED
    BY <2>2, <2>3 DEF QuietParts
<1>6. ASSUME NEW t \in Tabs, LoginArrives(t) \/ Reload(t) PROVE QuietParts'
  BY <1>1, <1>6, ArrivalKeepsQuiet, ReloadKeepsQuiet
<1>7. ASSUME NEW t \in Tabs, NEW s \in Slots,
             \/ CallApi(t, s) \/ Logout(t, s) \/ ServeRequest(t, s)
             \/ Unauthorized(t, s) \/ RequestEnds(t, s)
      PROVE  QuietParts'
  BY <1>1, <1>7, SendKeepsQuiet, ServeKeepsQuiet, UnauthorizedKeepsQuiet, EndKeepsQuiet
<1>8. ASSUME NEW t \in Tabs, ConsumeRefresh(t) \/ RotatePair(t) \/ RotationArrives(t) PROVE QuietParts'
  BY <1>1, <1>8, ConsumeKeepsQuiet, RotatePairKeepsQuiet, RotationArrivesKeepsQuiet
<1>9. ASSUME NEW t \in Tabs,
             \/ ReadSessions(t) \/ RevokeSessions(t) \/ RotationFails(t)
             \/ \E s \in Slots : RequestLost(t, s)
      PROVE  FALSE
  <2>1. rot[t].step \in {"idle", "sent", "consumed", "issued"}
    BY <1>1 DEF CalmParts, RotationsSucceed
  <2> QED
    BY <1>9, <2>1 DEF ReadSessions, RevokeSessions, RotationFails, RequestLost
<1> QED
  BY <1>3, <1>4, <1>5, <1>6, <1>7, <1>8, <1>9 DEF ASNext

\* Who signs out ends the session (services/auth.py logout, services/api.ts): when
\* the browser holds no token, nothing is in flight and nothing went wrong, the
\* service has no refresh token left that would go on with it.
THEOREM SignedOutIsOver == ASSpec => []SignOutEndsSession
<1>1. ASInit => TokenInv /\ CalmInv /\ QuietInv
  BY InitTokens, InitCalm, InitQuiet
<1>2. TokenInv /\ CalmInv /\ QuietInv /\ [ASNext]_asVars => TokenInv' /\ CalmInv' /\ QuietInv'
  BY StepKeepsTokens, StepKeepsCalm, StepKeepsQuiet
<1>3. TokenInv /\ QuietInv => SignOutEndsSession
  <2> SUFFICES ASSUME TokenInv, QuietInv, ~Waiting, storage.pair = 0, mishap = {} PROVE live = {}
    BY DEF SignOutEndsSession
  <2>1. LiveIsHeld /\ 0 \notin live
    BY DEF QuietInv, TokenInv, TokenTypes
  <2> QED
    BY <2>1 DEF LiveIsHeld, Waiting, Rotating, NoLogin
<1> QED
  BY <1>1, <1>2, <1>3, PTL DEF ASSpec

=============================================================================
