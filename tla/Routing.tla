------------------------------- MODULE Routing -------------------------------
(***************************************************************************)
(* The path manager with its paths, and one path in more detail, where     *)
(* they must get out of waiting for one another and get through faults.    *)
(* Which part it is, is chosen in the beginning:                           *)
(*   "reloads"  the manager, configurations of every kind, a publisher;    *)
(*   "readers"  the manager, one path with a source that reads from other  *)
(*              paths, a publisher and a reader;                           *)
(*   "demand"   a path whose stream is pulled, or published on demand;     *)
(*   "faults"   any path, whose stream may fail to initialize.             *)
(* Of the parts that are not chosen, the state stays as in the beginning.  *)
(***************************************************************************)
EXTENDS MCPathManager

CONSTANTS p1, p2, r1, r2, r3, d1, recA, recB

VARIABLES
    kind,                                                          \* which part
    phase, conf, source, stream, onNotReadyHook, recorder, forwarders, pubs,
    readers, describeRequestsOnHold, readerAddRequestsOnHold, rdrs,
    onDemandStaticSourceState, onDemandPublisherState, origNodeStaticSourceState,
    timers, handler, onUnDemandHook                                \* those of Path

C == INSTANCE PathConfs

P == INSTANCE Path WITH
    Publishers <- {p1, p2}, Readers <- {r1, r2, r3}, Describers <- {d1},
    Confs <- C!AllConfs, InitializeMayFail <- TRUE

(* "none" and the other sources of a path are no clients, nor formats.     *)
ASSUME DistinctAssumption ==
    /\ "none" \notin {recA, recB}
    /\ {p1, p2} \cap (P!Handlers \cup {"none", "redirect"}) = {}

pathVars ==
    <<phase, conf, source, stream, onNotReadyHook, recorder, forwarders, pubs,
      readers, describeRequestsOnHold, readerAddRequestsOnHold, rdrs,
      onDemandStaticSourceState, onDemandPublisherState, origNodeStaticSourceState,
      timers, handler, onUnDemandHook>>
routingVars == <<kind, vars, pathVars>>

IsManager == kind \in {"reloads", "readers"} /\ UNCHANGED <<kind, pathVars>>
IsPath == kind \in {"demand", "faults"} /\ UNCHANGED <<kind, vars>>

(* What the environment does in each part.                                 *)
Environment ==
    /\ kind = "reloads" => asking' = {} /\ \A c \in Readers : client'[c].at = "idle"
    /\ kind = "readers" => newPaths' \in SimulcastConfs /\ ~hlsServer'
    /\ kind = "demand" => conf' \in C!WaitingConfs /\ stream' # "broken" /\ rdrs'[r3] = "idle"

RoutingInit ==
    /\ Init /\ P!Init
    /\ kind \in {"reloads", "demand", "faults"} \/ (kind = "readers" /\ newPaths \in SimulcastConfs)
    /\ kind \in {"reloads", "readers"} => conf = CHOOSE c \in C!PublisherConfs : TRUE
    /\ kind \in {"demand", "faults"} =>
          /\ newPaths = (AllOthers :> Plain(1))
          /\ kind = "demand" => conf \in C!WaitingConfs

RoutingNext ==
    /\ \/ IsManager /\ Next
       \/ IsPath /\ P!Next
    /\ Environment

(* A goroutine that can go on does, and a select serves each case that     *)
(* keeps coming up; an armed timer fires; who was told to close leaves.    *)
(* All of it is weaker than the fairness of PathManager and Path.          *)
RoutingSpec ==
    /\ RoutingInit /\ [][RoutingNext]_routingVars
    /\ WF_routingVars(\/ IsManager /\ Reloading
                      \/ IsPath /\ (P!TimerFires \/ P!Teardown))
    /\ WF_routingVars(\/ IsManager /\ \E c \in Clients : Terminated(c)
                      \/ IsPath /\ \E r \in {r1, r2} : rdrs[r] = "closing" /\ P!RemoveReader(r))
    /\ \A p \in Paths :
          /\ WF_routingVars(IsManager /\ (GiveUpTelling(p) \/ GiveUpClosing(p) \/ Teardown(p) \/ Forget(p)))
          /\ SF_routingVars(IsManager /\ SeeContextDone(p))

-----------------------------------------------------------------------------
(* Whatever comes after stream.Initialize failed, or after the handler of  *)
(* an origin node was exchanged for a publisher's stream, the path and its *)
(* readers agree, timers and sources are those of the state of demand, and *)
(* a path that ends leaves nothing behind (path.go:222-267, 524, 754-805). *)
SurvivesFaults == P!ReadersAgree /\ P!DemandAgrees /\ P!DoneIsClean

(* The source of a path asks the manager, which waits for that path: that  *)
(* they do not get out of it is the subject of PathWaitEnds.               *)
Pending ==
    \/ IsBlocked /\ asking = {}
    \/ kind = "demand" /\ (P!SomebodyIsHeld \/ P!SourceIsUnused)

(* Neither a reload nor the end of the server waits for ever for a path;   *)
(* who is put on hold for a source that the server pulls is answered; and  *)
(* a source on demand that nobody reads is stopped in the end: every way   *)
(* to lose the last reader, or to gain none, leads to a close timer        *)
(* (path_manager.go:269-273, 472-497, path.go:359-390, 595-609, 693-752).  *)
Ends == Pending ~> ~Pending
=============================================================================
