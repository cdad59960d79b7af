------------------------------ MODULE HLSServer ------------------------------
(***************************************************************************)
(* The HLS server (servers/hls): muxers are the clients of the path. One   *)
(* is made when an HTTP request asks for it, or when the path becomes      *)
(* ready if everything is remuxed always; it leaves when it is not used    *)
(* any more, or when the path is not ready any more.                       *)
(***************************************************************************)
EXTENDS PathSide

CONSTANT Requests   \* HTTP requests

OnDemand == conf = 2    \* the two configurations differ in sourceOnDemand

VARIABLES
    srv,        \* "starting", "open", "cancelled", "ended" (run is over), "closed"
    closing,    \* somebody waits in Server.Close
    always,     \* Server.AlwaysRemux
    online,     \* the path is ready
    event,      \* what the path manager is telling the server
    entry,      \* Server.muxers: the muxer of the path, or None
    pc,         \* where the goroutine of a muxer is, "none" when it has ended
    ctx,        \* whose context is done
    auto,       \* muxers without a remote address
    used,       \* muxers that got a request since they last looked
    req,        \* where an HTTP request is
    target,     \* the muxer a request is about
    bare        \* history: why a path that is ready has no muxer of its own

serverVars == <<srv, closing, always, online, event, entry, bare>>
muxerVars == <<pc, ctx, auto, used>>
httpVars == <<req, target>>
vars == <<serverVars, muxerVars, httpVars, sideVars>>

Init ==
    /\ srv = "starting" /\ closing = FALSE /\ always \in BOOLEAN
    /\ online \in BOOLEAN /\ event = "none" /\ entry = None /\ bare = FALSE
    /\ pc = [m \in Clients |-> "none"] /\ ctx = [m \in Clients |-> FALSE]
    /\ auto = {} /\ used = {}
    /\ req = [r \in Requests |-> "none"] /\ target = [r \in Requests |-> None]
    /\ readers = {} /\ held = {} /\ publisher = None /\ conf \in {1, 2}

Goto(m, there) == pc' = [pc EXCEPT ![m] = there]
Cancel(set) == ctx' = [m \in Clients |-> ctx[m] \/ (m \in set /\ pc[m] # "none")]
LoopRuns == srv \in {"open", "cancelled"}

-----------------------------------------------------------------------------
(* Server.                                                                 *)

(* createMuxer, muxer.initialize: a muxer without a name for the model     *)
(* yet.                                                                    *)
CreateMuxer(m, automatic) ==
    /\ pc[m] = "none" /\ \A r \in Requests : target[r] # m
    /\ entry' = m
    /\ Goto(m, "asking")
    /\ ctx' = [ctx EXCEPT ![m] = srv = "cancelled"]
    /\ auto' = IF automatic THEN auto \cup {m} ELSE auto \ {m}
    /\ used' = IF automatic THEN used ELSE used \cup {m}

Remuxed(m) ==
    IF always /\ ~OnDemand /\ entry = None
    THEN CreateMuxer(m, TRUE)
    ELSE UNCHANGED <<entry, muxerVars>>

(* run: SetHLSServer gives the paths that are ready.                       *)
Start(m) ==
    /\ srv = "starting"
    /\ srv' = "open"
    /\ IF online THEN Remuxed(m) ELSE UNCHANGED <<entry, muxerVars>>
    /\ UNCHANGED <<closing, always, online, event, bare, httpVars, sideVars>>

TakePathReady(m) ==
    /\ LoopRuns /\ event = "ready"
    /\ event' = "none"
    /\ Remuxed(m)
    /\ bare' = (always /\ ~OnDemand /\ entry # None)
    /\ UNCHANGED <<srv, closing, always, online, httpVars, sideVars>>

(* A muxer that was made for a client ends by itself.                      *)
TakePathNotReady ==
    /\ LoopRuns /\ event = "notReady"
    /\ event' = "none"
    /\ IF entry \in auto
       THEN entry' = None /\ Cancel({entry})
       ELSE UNCHANGED <<entry, ctx>>
    /\ UNCHANGED <<srv, closing, always, online, bare, pc, auto, used, httpVars, sideVars>>

(* PathReady and PathNotReady give up once the server ends.                *)
EventTerminated ==
    /\ srv \in {"cancelled", "ended", "closed"} /\ event # "none"
    /\ event' = "none"
    /\ UNCHANGED <<srv, closing, always, online, entry, bare, muxerVars, httpVars, sideVars>>

(* chGetMuxer, once FindPathConf has told whether the source is on demand: *)
(* the muxer there is, an error, or a new one.                             *)
GetMuxer(r, m) ==
    /\ LoopRuns /\ req[r] \in {"asking", "askingOnDemand"}
    /\ \/ /\ entry # None
          /\ req' = [req EXCEPT ![r] = "waiting"] /\ target' = [target EXCEPT ![r] = entry]
          /\ used' = used \cup ({entry} \ auto)
          /\ UNCHANGED <<entry, pc, ctx, auto>>
       \/ /\ entry = None /\ always /\ req[r] = "asking"
          /\ req' = [req EXCEPT ![r] = "none"]
          /\ UNCHANGED <<entry, muxerVars, target>>
       \/ /\ entry = None /\ (always => req[r] = "askingOnDemand")
          /\ CreateMuxer(m, FALSE)
          /\ req' = [req EXCEPT ![r] = "waiting"] /\ target' = [target EXCEPT ![r] = m]
    /\ UNCHANGED <<srv, closing, always, online, event, bare, sideVars>>

(* run, when the context is done: httpServer.close shuts the listeners and *)
(* leaves the handlers to what they wait for.                              *)
SeeContextDone ==
    /\ srv = "cancelled"
    /\ srv' = "ended"
    /\ UNCHANGED <<closing, always, online, event, entry, bare, muxerVars, httpVars, sideVars>>

(* The context of the server is the parent of those of the muxers.         *)
Close ==
    /\ srv = "open" /\ ~closing
    /\ closing' = TRUE /\ srv' = "cancelled"
    /\ Cancel(Clients)
    /\ UNCHANGED <<always, online, event, entry, bare, pc, auto, used, httpVars, sideVars>>

CloseReturns ==
    /\ closing /\ srv = "ended" /\ \A m \in Clients : pc[m] = "none"
    /\ srv' = "closed"
    /\ UNCHANGED <<closing, always, online, event, entry, bare, muxerVars, httpVars, sideVars>>

-----------------------------------------------------------------------------
(* httpServer.onRequest: a request for a file of a stream.                 *)
OnRequest(r) ==
    /\ srv = "open" /\ req[r] = "none"
    /\ req' = [req EXCEPT ![r] = IF OnDemand THEN "askingOnDemand" ELSE "asking"]
    /\ UNCHANGED <<serverVars, muxerVars, target, sideVars>>

Answer(r) ==
    /\ req' = [req EXCEPT ![r] = "none"] /\ target' = [target EXCEPT ![r] = None]
    /\ UNCHANGED <<serverVars, muxerVars, sideVars>>

(* getMuxer, muxer.getInstance: the context is done.                       *)
RequestTerminated(r) ==
    /\ \/ req[r] \in {"asking", "askingOnDemand"} /\ srv # "open"
       \/ req[r] = "waiting" /\ (ctx[target[r]] \/ pc[target[r]] = "none")
    /\ Answer(r)

(* muxer.runInner gives its instance, or nil, to getInstance.              *)
GetInstance(r) ==
    /\ req[r] = "waiting" /\ pc[target[r]] \in {"remuxing", "recreating"}
    /\ Answer(r)

-----------------------------------------------------------------------------
(* muxer.                                                                  *)
Step(m, from, there) ==
    /\ pc[m] = from
    /\ Goto(m, there)
    /\ bare' = (bare \/ (m \in auto /\ there = "over" /\ ~ctx[m]))
    /\ UNCHANGED <<srv, closing, always, online, event, entry, auto, used, httpVars>>

(* runInner: AddReader; run: the context is cancelled when it fails.       *)
AddReader(m) ==
    \/ \E from \in {"asking", "held"} :
          \/ online /\ Step(m, from, "admitted") /\ AdmitReader(m) /\ UNCHANGED ctx
          \/ Step(m, from, "over") /\ RefuseReader(m) /\ Cancel({m})

WaitOnHold(m) == ~online /\ OnDemand /\ Step(m, "asking", "held") /\ HoldReader(m) /\ UNCHANGED ctx

(* runInner: the first instance; a muxer that nobody asked for tries       *)
(* again.                                                                  *)
StartInstance(m) ==
    /\ \/ Step(m, "admitted", "remuxing")
       \/ m \in auto /\ Step(m, "admitted", "recreating")
       \/ Step(m, "admitted", "leaving")
    /\ UNCHANGED <<ctx, sideVars>>

(* instanceError.                                                          *)
InstanceFails(m) ==
    /\ Step(m, "remuxing", IF m \in auto THEN "recreating" ELSE "leaving")
    /\ UNCHANGED <<ctx, sideVars>>

(* recreateTimer.                                                          *)
Recreate(m) == Step(m, "recreating", "remuxing") /\ UNCHANGED <<ctx, sideVars>>

(* activityCheckTimer.                                                     *)
CheckActivity(m) ==
    /\ m \notin auto /\ pc[m] = "remuxing"
    /\ used' = used \ {m}
    /\ Goto(m, IF m \in used THEN "remuxing" ELSE "leaving")
    /\ UNCHANGED <<serverVars, ctx, auto, httpVars, sideVars>>

Terminated(m) ==
    /\ ctx[m]
    /\ Step(m, "remuxing", "leaving") \/ Step(m, "recreating", "leaving")
    /\ UNCHANGED <<ctx, sideVars>>

(* The deferred RemoveReader, and ctxCancel.                               *)
LeavePath(m) == Step(m, "leaving", "over") /\ RemoveReader(m) /\ Cancel({m})

CloseMuxer_AnyMuxer(m) ==
    /\ pc[m] = "over"
    /\ \/ LoopRuns /\ entry' = None
       \/ srv # "open" /\ UNCHANGED entry
    /\ Goto(m, "none")
    /\ ctx' = [ctx EXCEPT ![m] = FALSE]
    /\ auto' = auto \ {m} /\ used' = used \ {m}
    /\ UNCHANGED <<srv, closing, always, online, event, bare, httpVars, sideVars>>

(* closeMuxer: the map may have another muxer by now, and the server may   *)
(* end.                                                                    *)
CloseMuxer(m) ==
    /\ pc[m] = "over"
    /\ \/ LoopRuns /\ entry' = IF entry = m THEN None ELSE entry
       \/ srv # "open" /\ UNCHANGED entry
    /\ Goto(m, "none")
    /\ ctx' = [ctx EXCEPT ![m] = FALSE]
    /\ auto' = auto \ {m} /\ used' = used \ {m}
    /\ UNCHANGED <<srv, closing, always, online, event, bare, httpVars, sideVars>>

-----------------------------------------------------------------------------
(* The path: setReady and setNotReady tell the path manager, which tells   *)
(* the server, if there is one, before it does anything else.              *)
Tell(what) ==
    /\ event = "none"
    /\ event' = IF srv \in {"open", "cancelled"} THEN what ELSE "none"

SetReady ==
    /\ ~online /\ Tell("ready")
    /\ online' = TRUE
    /\ UNCHANGED <<srv, closing, always, entry, bare, muxerVars, httpVars, sideVars>>

SetNotReady ==
    /\ online /\ Tell("notReady")
    /\ online' = FALSE
    /\ bare' = FALSE
    /\ readers' = {} /\ Cancel(readers)
    /\ UNCHANGED <<srv, closing, always, entry, pc, auto, used, httpVars, held, publisher, conf>>

(* A path with another sourceOnDemand is a new path. Bound: this happens   *)
(* once, in the direction that makes a difference.                         *)
Reload ==
    /\ OnDemand /\ ~online /\ held = {} /\ event = "none"
    /\ ChangeConf
    /\ UNCHANGED <<serverVars, muxerVars, httpVars>>

-----------------------------------------------------------------------------
MuxerRun(m) ==
    \/ AddReader(m) \/ StartInstance(m) \/ Recreate(m) \/ CheckActivity(m)
    \/ LeavePath(m) \/ CloseMuxer(m)

TakeEvent ==
    \/ \E m \in Clients : Start(m) \/ TakePathReady(m)
    \/ TakePathNotReady
    \/ EventTerminated

HTTPEnds(r) ==
    (\E m \in Clients : GetMuxer(r, m)) \/ RequestTerminated(r) \/ GetInstance(r)

Next ==
    \/ TakeEvent \/ SeeContextDone \/ Close \/ CloseReturns
    \/ \E r \in Requests : OnRequest(r) \/ HTTPEnds(r)
    \/ \E m \in Clients : MuxerRun(m) \/ Terminated(m) \/ WaitOnHold(m) \/ InstanceFails(m)
    \/ SetReady \/ SetNotReady \/ Reload

Spec == Init /\ [][Next]_vars

-----------------------------------------------------------------------------
TypeOK ==
    /\ srv \in {"starting", "open", "cancelled", "ended", "closed"}
    /\ {closing, always, online, bare} \subseteq BOOLEAN
    /\ event \in {"none", "ready", "notReady"}
    /\ entry \in Clients \cup {None}
    /\ pc \in [Clients -> {"none", "asking", "held", "admitted", "remuxing", "recreating",
                           "leaving", "over"}]
    /\ ctx \in [Clients -> BOOLEAN]
    /\ auto \subseteq Clients /\ used \subseteq Clients
    /\ req \in [Requests -> {"none", "asking", "askingOnDemand", "waiting"}]
    /\ target \in [Requests -> Clients \cup {None}]
    /\ SideTypeOK

(* The path counts a muxer as a reader, or has it on hold, only as long as *)
(* its goroutine is there to leave, and one that remuxes and was not told  *)
(* to end is a reader (servers/hls/muxer.go:117-135).                      *)
NoGhosts ==
    \A m \in Clients :
        /\ m \in readers => pc[m] \in {"admitted", "remuxing", "recreating", "leaving"}
        /\ m \in held <=> pc[m] = "held"
        /\ pc[m] \in {"admitted", "remuxing", "recreating"} /\ ~ctx[m] => m \in readers

(* The map has the one muxer of the path that was not told to end, and     *)
(* none that is gone (servers/hls/server.go:178-221): no request is sent   *)
(* to a muxer that is not there, and no muxer runs unseen. With            *)
(* alwaysRemux a path that is ready has a muxer, unless the path refused   *)
(* it or the muxer of a client was in its place.                           *)
ListIsTrue ==
    /\ entry # None => pc[entry] # "none" \/ srv \in {"cancelled", "ended", "closed"}
    /\ \A m \in Clients : pc[m] # "none" /\ ~ctx[m] => m = entry
    /\ entry \in auto /\ srv = "open" => online \/ event # "none" \/ ctx[entry]
    /\ srv = "open" /\ always /\ online /\ ~OnDemand /\ event = "none" => entry # None \/ bare

ClosedIsEmpty ==
    srv = "closed" => readers \cup held = {} /\ \A m \in Clients : pc[m] = "none"
=============================================================================
