------------------------------ MODULE Support ------------------------------
(***************************************************************************)
(* What the servers, the paths and the core rest on: a peer connection     *)
(* with its owner, which is a WHIP client or a session of the WebRTC       *)
(* server; the authentication; the watcher of the configuration file; the  *)
(* external commands. They share nothing; which one it is, is chosen in    *)
(* the beginning.                                                          *)
(***************************************************************************)
EXTENDS Integers, Sequences

CONSTANTS
    MaxTracks, MaxCandidates, MaxLosses,                             \* PeerConnection
    Requests, Asked, Users, Exclude, Everywhere, MaxKeys, MaxHours,  \* AuthManager
    MinInterval, MaxTime, MaxChanges,                                \* ConfWatcher
    MaxRounds                                                        \* Commands

VARIABLES
    kind,                                                            \* which part
    publish, described, negotiated, ctxDone, run, state, changes, reports, connected, failed,
    closed, gatheringDone, dead, candidates, offering, coming, offered, incoming, reading,
    receivers,                                                       \* PeerConnection
    told, owner, inner, session, legible, onPath,                    \* its owners
    method, users, keys, hours, mutex, jwtKeyFunc, jwksLastRefresh, step, asks, now, got, due,
    latest,                                                          \* AuthManager
    time, link, target, written, whole, changedAt, events, watcher, lastCalled, current, previous,
    terminate, core, loaded,                                         \* ConfWatcher
    hook, command, onEnd, active, rounds, cmds, wg, pool             \* Commands

Whip == INSTANCE WHIPClient WITH MaxChanges <- MaxLosses
Session == INSTANCE WebRTCPeer WITH MaxChanges <- MaxLosses

Auth == INSTANCE AuthManager

ASSUME AuthAssumption == Auth!FreeIsNobody /\ Asked # {} /\ Len(Users) \in Nat \ {0}

Watch == INSTANCE ConfWatcher

Cmd == INSTANCE Commands

(* minInterval is a second; the others are bounds for TLC.                 *)
ASSUME BoundsAssumption ==
    /\ {MaxTracks, MaxCandidates, MaxLosses, MaxHours, MaxTime, MaxRounds} \subseteq Nat
    /\ {MinInterval, MaxChanges, MaxKeys} \subseteq Nat \ {0}

peerVars == <<publish, described, negotiated, ctxDone, run, state, changes, reports, connected,
              failed, closed, gatheringDone, dead, candidates, offering, coming, offered, incoming,
              reading, receivers, told, owner>>
whipVars == <<inner, session, legible>>
authVars == <<method, users, keys, hours, mutex, jwtKeyFunc, jwksLastRefresh, step, asks, now, got,
              due, latest>>
watchVars == <<time, link, target, written, whole, changedAt, events, watcher, lastCalled, current,
               previous, terminate, core, loaded>>
cmdVars == <<hook, command, onEnd, active, rounds, cmds, wg, pool>>
vars == <<kind, peerVars, whipVars, onPath, authVars, watchVars, cmdVars>>

(* What one part has and another does not is left alone.                   *)
NotPeer == UNCHANGED <<kind, authVars, watchVars, cmdVars>>
IsWhip == kind = "whip" /\ NotPeer /\ UNCHANGED onPath
IsSession == kind = "session" /\ NotPeer /\ UNCHANGED whipVars
NoPeer == UNCHANGED <<kind, peerVars, whipVars, onPath>>
IsAuth == kind = "auth" /\ NoPeer /\ UNCHANGED <<watchVars, cmdVars>>
IsWatch == kind = "watch" /\ NoPeer /\ UNCHANGED <<authVars, cmdVars>>
IsCmd == kind = "cmd" /\ NoPeer /\ UNCHANGED <<authVars, watchVars>>

NoPeerYet ==
    /\ publish = 0 /\ described = 0 /\ negotiated = 0 /\ ctxDone = 0 /\ run = 0 /\ state = 0
    /\ changes = 0 /\ reports = 0 /\ connected = 0 /\ failed = 0 /\ closed = 0
    /\ gatheringDone = 0 /\ dead = 0 /\ candidates = 0 /\ offering = 0 /\ coming = 0
    /\ offered = 0 /\ incoming = 0 /\ reading = 0 /\ receivers = 0 /\ told = 0 /\ owner = 0
NoWhip == inner = 0 /\ session = 0 /\ legible = 0
NoAuth ==
    /\ method = 0 /\ users = 0 /\ keys = 0 /\ hours = 0 /\ mutex = 0 /\ jwtKeyFunc = 0
    /\ jwksLastRefresh = 0 /\ step = 0 /\ asks = 0 /\ now = 0 /\ got = 0 /\ due = 0 /\ latest = 0
NoWatch ==
    /\ time = 0 /\ link = 0 /\ target = 0 /\ written = 0 /\ whole = 0 /\ changedAt = 0
    /\ events = 0 /\ watcher = 0 /\ lastCalled = 0 /\ current = 0 /\ previous = 0
    /\ terminate = 0 /\ core = 0 /\ loaded = 0
NoCmd ==
    /\ hook = 0 /\ command = 0 /\ onEnd = 0 /\ active = 0 /\ rounds = 0 /\ cmds = 0 /\ wg = 0
    /\ pool = 0

Init ==
    \/ kind = "whip" /\ Whip!Init /\ onPath = 0 /\ NoAuth /\ NoWatch /\ NoCmd
    \/ kind = "session" /\ Session!Init /\ NoWhip /\ NoAuth /\ NoWatch /\ NoCmd
    \/ kind = "auth" /\ Auth!Init /\ NoPeerYet /\ NoWhip /\ onPath = 0 /\ NoWatch /\ NoCmd
    \/ kind = "watch" /\ Watch!Init /\ NoPeerYet /\ NoWhip /\ onPath = 0 /\ NoAuth /\ NoCmd
    \/ kind = "cmd" /\ Cmd!Init /\ NoPeerYet /\ NoWhip /\ onPath = 0 /\ NoAuth /\ NoWatch

Next ==
    \/ IsWhip /\ Whip!Next
    \/ IsSession /\ Session!Next
    \/ IsAuth /\ Auth!Next
    \/ IsWatch /\ Watch!Next
    \/ IsCmd /\ Cmd!Next

-----------------------------------------------------------------------------
(* Fairness. A goroutine goes on as long as it can, timers fire, the       *)
(* library ends what reads from a connection that is closed, and a command *)
(* that has SIGINT, or was started at the end of a hook, exits. The HTTP   *)
(* requests of a WHIP client and the GET of the keys have a timeout        *)
(* (readTimeout or writeTimeout, neither of which may be zero); the POST of*)
(* authenticateHTTP has none, and no fairness: it may never end. Each part *)
(* can do only so much of this on its own, so that one condition is enough:*)
(* nothing of it can go on for ever at the cost of the rest.               *)
Goes ==
    \/ IsWhip /\ (Whip!Owner \/ Whip!Inner \/ Whip!LoopTimeout
                  \/ (Whip!Goroutines /\ UNCHANGED <<told, owner, whipVars>>))
    \/ IsSession /\ (Session!Owner \/ (Session!Goroutines /\ UNCHANGED <<told, owner, onPath>>))
    \/ IsAuth /\ \E q \in Requests : Auth!Goes(q)
    \/ IsWatch /\ Watch!Goes
    \/ IsCmd /\ (Cmd!PoolReturns \/ \E c \in 1..Len(cmds) : Cmd!Goes(c))

Spec == Init /\ [][Next]_vars /\ WF_vars(Goes)

-----------------------------------------------------------------------------
TypeOK ==
    /\ kind = "whip" => Whip!TypeOK
    /\ kind = "session" => Session!TypeOK
    /\ kind = "auth" => Auth!TypeOK
    /\ kind = "watch" => Watch!TypeOK
    /\ kind = "cmd" => Cmd!TypeOK

(* Who was told to end, and says that it has, has left nothing behind: no  *)
(* channel that is closed twice, no connection that is open and from which *)
(* tracks could be read, no session on another server that it knows of and *)
(* has not asked to delete, no process (peer_connection.go:412-436,        *)
(* whip/client.go:69-84 and 301-319, pool.go:16-19).                       *)
EndedIsQuiet ==
    /\ kind = "whip" => Whip!GoneIsGone
    /\ kind = "session" => Session!GoneIsGone
    /\ kind = "cmd" => Cmd!PoolIsQuiet

(* What was replaced is not used any more: keys and users after the call   *)
(* that replaces them has returned, the configuration after a change of    *)
(* its file was noticed (auth/manager.go:242-294, confwatcher.go:75-113).  *)
NothingStale ==
    /\ kind = "auth" => Auth!WithdrawnIsRefused
    /\ kind = "watch" => Watch!ChangesAreSeen

Pending ==
    \/ kind = "whip" /\ (Whip!IsLeaving \/ Whip!IsClosing)
    \/ kind = "session" /\ (Session!IsLeaving \/ Session!IsClosing)
    \/ kind = "auth" /\ \E q \in Requests : Auth!IsAuthenticating(q)
    \/ kind = "watch" /\ Watch!IsPending
    \/ kind = "cmd" /\ Cmd!IsClosing

(* Whoever is told to end, or asked, does or answers: Client.Initialize    *)
(* and Run with their context done, PeerConnection.Close, the functions of *)
(* a session, the goroutines that read tracks, Authenticate when it does   *)
(* not ask an HTTP server, ConfWatcher.Close, Cmd.Close and Pool.Close.    *)
Ends == Pending ~> ~Pending
=============================================================================
