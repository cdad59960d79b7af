---------------------------- MODULE AuthManager ----------------------------
(***************************************************************************)
(* The authentication manager (auth/manager.go), with the three methods.   *)
(* Users, and the keys of the identity server, have a version: Users[v]    *)
(* are the users of the v-th configuration, and a token signed with key k  *)
(* is good while k is among the keys. The servers that are asked are       *)
(* external.                                                               *)
(***************************************************************************)
EXTENDS Integers, Sequences

CONSTANTS
    Requests,          \* callers of Authenticate, each of which asks once
    Asked,             \* what a request may ask: records [action, path, user, pass, ip, verify,
                       \* key, claims]
    Users,             \* a sequence of sets of [user, pass, ips, permissions]
    Exclude,           \* HTTPExclude and JWTExclude
    Everywhere,        \* a permission without path
    MaxKeys, MaxHours  \* how often the keys change; how long it lasts

VARIABLES
    method,
    users,             \* m.InternalUsers, by version
    keys,              \* version of the keys that the identity server has now
    hours,             \* the clock; keys are fetched again after one hour
    mutex,             \* who holds m.mutex for writing
    jwtKeyFunc, jwksLastRefresh,
    step, asks, now,   \* each request: where it is, what it asks, when it began
    got,               \* the version with which it is decided, or that the GET has brought
    due,               \* the version that it must not be older than
    latest             \* the versions at the last ReloadInternalUsers or RefreshJWTJWKS

requestVars == <<step, asks, now, got, due>>
vars == <<method, users, keys, hours, mutex, jwtKeyFunc, jwksLastRefresh, requestVars, latest>>

Free == "free"
FreeIsNobody == Free \notin Requests
Never == -1
HasPath == {"publish", "read", "playback"}

Init ==
    /\ method \in {"internal", "http", "jwt"}
    /\ users = 1 /\ keys = 1 /\ hours = 0 /\ latest = 1
    /\ mutex = Free /\ jwtKeyFunc = 0 /\ jwksLastRefresh = Never
    /\ step = [q \in Requests |-> "idle"]
    /\ asks = [q \in Requests |-> CHOOSE r \in Asked : TRUE]
    /\ now = [q \in Requests |-> 0]
    /\ got = [q \in Requests |-> 0] /\ due = [q \in Requests |-> 0]

-----------------------------------------------------------------------------
(* The path of a permission is the set of names it matches.                *)
matchesPermission(permissions, r) ==
    \E p \in permissions :
        /\ p.action = r.action
        /\ r.action \in HasPath => p.path = Everywhere \/ r.path \in p.path

authenticateWithUser(r, u) ==
    /\ u.ips # {} => r.ip \in u.ips
    /\ matchesPermission(u.permissions, r)
    /\ u.user # "any" =>
          IF r.verify # "none" THEN r.verify = "good" ELSE u.user = r.user /\ u.pass = r.pass

(* The token: its signature, then its claims.                              *)
ParseWithClaims(r, v) ==
    /\ r.key # 0                                      \* a token is provided
    /\ r.key = v
    /\ matchesPermission(r.claims, r)

-----------------------------------------------------------------------------
Becomes(q, where) == step' = [step EXCEPT ![q] = where]
Decide(q, accepted) == Becomes(q, IF accepted THEN "accepted" ELSE "refused")
Fixed == <<method, users, keys, hours, latest>>
JWKS == <<mutex, jwtKeyFunc, jwksLastRefresh>>

(* Authenticate, up to the mutex or to the request to the server.          *)
Authenticate(q) ==
    /\ step[q] = "idle"
    /\ \E r \in Asked :
        /\ asks' = [asks EXCEPT ![q] = r]
        /\ IF method # "internal" /\ matchesPermission(Exclude, r)
           THEN Becomes(q, "accepted") /\ got' = [got EXCEPT ![q] = keys]
           ELSE Becomes(q, method) /\ UNCHANGED got
    /\ now' = [now EXCEPT ![q] = hours]
    /\ due' = [due EXCEPT ![q] = latest]
    /\ UNCHANGED <<Fixed, JWKS>>

(* authenticateInternal, which reads under the mutex.                      *)
authenticateInternal(q) ==
    /\ step[q] = "internal" /\ mutex = Free
    /\ got' = [got EXCEPT ![q] = users]
    /\ Decide(q, \E u \in Users[users] : authenticateWithUser(asks[q], u))
    /\ UNCHANGED <<Fixed, JWKS, asks, now, due>>

(* authenticateHTTP: the server decides, or cannot be reached. The request *)
(* has no timeout: it may never end.                                       *)
authenticateHTTP(q) ==
    /\ step[q] = "http"
    /\ got' = [got EXCEPT ![q] = keys]
    /\ \E accepted \in BOOLEAN : Decide(q, accepted)
    /\ UNCHANGED <<Fixed, JWKS, asks, now, due>>

(* pullJWTJWKS: the keys are good for an hour, by the time before the      *)
(* mutex.                                                                  *)
Lock(q) ==
    /\ step[q] = "jwt" /\ mutex = Free
    /\ IF jwksLastRefresh = Never \/ now[q] - jwksLastRefresh >= 1
       THEN Becomes(q, "pulling") /\ mutex' = q /\ UNCHANGED got
       ELSE Becomes(q, "parsing") /\ got' = [got EXCEPT ![q] = jwtKeyFunc] /\ UNCHANGED mutex
    /\ UNCHANGED <<Fixed, jwtKeyFunc, jwksLastRefresh, asks, now, due>>

(* The identity server answers, with the keys of this moment.              *)
ServerAnswers(q) ==
    /\ step[q] = "pulling"
    /\ Becomes(q, "decoding") /\ got' = [got EXCEPT ![q] = keys]
    /\ UNCHANGED <<Fixed, JWKS, asks, now, due>>

(* The answer arrives; or the GET fails, and with it the request, whatever *)
(* keys there are.                                                         *)
StoreKeys(q) ==
    /\ step[q] = "decoding"
    /\ jwtKeyFunc' = got[q] /\ jwksLastRefresh' = now[q]
    /\ mutex' = Free
    /\ Becomes(q, "parsing")
    /\ UNCHANGED <<Fixed, asks, now, got, due>>
PullFails(q) ==
    /\ step[q] \in {"pulling", "decoding"}
    /\ mutex' = Free
    /\ Becomes(q, "refused")
    /\ UNCHANGED <<Fixed, jwtKeyFunc, jwksLastRefresh, asks, now, got, due>>

authenticateJWT(q) ==
    /\ step[q] = "parsing"
    /\ Decide(q, ParseWithClaims(asks[q], got[q]))
    /\ UNCHANGED <<Fixed, JWKS, asks, now, got, due>>

-----------------------------------------------------------------------------
(* ReloadInternalUsers, of the core.                                       *)
ReloadInternalUsers ==
    /\ method = "internal" /\ mutex = Free /\ users < Len(Users)
    /\ users' = users + 1 /\ latest' = users + 1
    /\ UNCHANGED <<method, keys, hours, JWKS, requestVars>>

Refresh == jwksLastRefresh' = Never /\ latest' = keys
           /\ UNCHANGED <<method, users, keys, hours, mutex, jwtKeyFunc, requestVars>>
RefreshJWTJWKS_Unlocked == method = "jwt" /\ Refresh
(* RefreshJWTJWKS, of the Control API.                                     *)
RefreshJWTJWKS == method = "jwt" /\ mutex = Free /\ Refresh

ChangeKeys ==
    /\ method = "jwt" /\ keys < MaxKeys /\ keys' = keys + 1
    /\ UNCHANGED <<method, users, hours, JWKS, requestVars, latest>>
Tick ==
    /\ method = "jwt" /\ hours < MaxHours /\ hours' = hours + 1
    /\ UNCHANGED <<method, users, keys, JWKS, requestVars, latest>>

Goes(q) ==
    \/ authenticateInternal(q) \/ Lock(q) \/ ServerAnswers(q) \/ StoreKeys(q) \/ PullFails(q)
    \/ authenticateJWT(q)

Next ==
    \/ \E q \in Requests : Authenticate(q) \/ authenticateHTTP(q) \/ Goes(q)
    \/ ReloadInternalUsers \/ RefreshJWTJWKS \/ ChangeKeys \/ Tick

-----------------------------------------------------------------------------
TypeOK ==
    /\ method \in {"internal", "http", "jwt"}
    /\ users \in 1..Len(Users)
    /\ keys \in 1..MaxKeys /\ latest \in 1..(IF method = "jwt" THEN keys ELSE users) /\ hours \in 0..MaxHours
    /\ jwksLastRefresh \in Never..hours
    /\ step \in [Requests -> {"idle", "internal", "http", "jwt", "pulling", "decoding", "parsing",
                              "accepted", "refused"}]
    /\ asks \in [Requests -> Asked]
    /\ now \in [Requests -> 0..hours]
    /\ mutex # Free => mutex \in Requests /\ step[mutex] \in {"pulling", "decoding"}

(* What was withdrawn is: a request that begins after ReloadInternalUsers  *)
(* or RefreshJWTJWKS has returned is not accepted with users or keys from  *)
(* before, whatever was being fetched then (auth/manager.go:242-294).      *)
WithdrawnIsRefused == \A q \in Requests : step[q] = "accepted" => got[q] >= due[q]

(* Whoever waits for the mutex, while another asks the identity server,    *)
(* gets an answer; not so who asks the server of the method "http".        *)
IsAuthenticating(q) == step[q] \notin {"idle", "http", "accepted", "refused"}
=============================================================================
