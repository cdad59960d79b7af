---------------------------- MODULE StaticSource ----------------------------
(***************************************************************************)
(* The handler of a static source (internal/staticsources/handler.go): the *)
(* goroutine between a path, which starts it, stops it and waits for it,   *)
(* and the source it keeps running, itself a goroutine per attempt.        *)
(*                                                                         *)
(* Every channel is unbuffered: a send and its receive are one step, in    *)
(* which both goroutines move.  Of the path there is only what concerns    *)
(* the handler; Path models the rest and takes this module's events for    *)
(* granted.                                                                *)
(***************************************************************************)
EXTENDS Naturals

CONSTANTS
    Runs,       \* identities for the calls of instance.Run that are in progress
    MaxConf     \* bound: how many times the configuration is reloaded

ASSUME MaxConfAssumption == MaxConf \in Nat

CONSTANT
    None        \* no call of Run

ASSUME NoneAssumption == None \notin Runs

VARIABLES
    onDemand,       \* whether the path starts the source on demand
    path,           \* the goroutine of the path: "serving", "stopping" while it
                    \* waits for the handler, "closed" once its context is done,
                    \* "closing" while it then waits, and "gone"
    view,           \* the source as the path knows it: "off", "connecting", "ready"
    ctxDone,        \* s.ctx is cancelled
    loop,           \* the goroutine of the handler: "off" (done is closed), "select",
                    \* "setReady" or "setNotReady" while it hands that over to the
                    \* path, "ending" while it waits for runErr
    asking,         \* whose request is being handed over
    recreating,     \* the retry timer is armed
    current,        \* the call that runCtx belongs to
    run,            \* what each call of instance.Run is doing
    cancelled,      \* the calls whose runCtx is cancelled
    pathConf,       \* pa.conf
    handlerConf,    \* s.Conf
    runConf,        \* the configuration that each call goes by
    toHandler,      \* goroutines of ReloadConf that wait for the handler
    toRun           \* goroutines of the handler that wait for the instance

pathVars == <<path, view, ctxDone>>
loopVars == <<loop, asking, recreating, current>>
confVars == <<pathConf, handlerConf, runConf, toHandler, toRun>>
vars == <<onDemand, pathVars, loopVars, run, cancelled, confVars>>

(* "asked" waits for the answer to SetReady, "told" for that to            *)
(* SetNotReady; "returned" waits for runErr to be received.                *)
RunStates == {"none", "starting", "connecting", "setReady", "asked",
              "streaming", "setNotReady", "told", "returned"}

(* A goroutine carries a configuration until it is received; "over" when   *)
(* the context it selects on is done, and it may end or deliver all the    *)
(* same.                                                                   *)
Carriers == [conf : 0..MaxConf, over : BOOLEAN]

Over(carriers) == {[c EXCEPT !.over = TRUE] : c \in carriers}

Alive(r) == run[r] # "none"

Become(r, state) == run' = [run EXCEPT ![r] = state]

-----------------------------------------------------------------------------
(* A source that is not on demand is started before the path serves        *)
(* anyone.                                                                 *)
Init ==
    /\ \/ /\ onDemand = TRUE
          /\ view = "off" /\ loop = "off"
          /\ current = None
          /\ run = [r \in Runs |-> "none"]
       \/ /\ onDemand = FALSE
          /\ view = "connecting" /\ loop = "select"
          /\ current \in Runs
          /\ run = [r \in Runs |-> IF r = current THEN "starting" ELSE "none"]
    /\ path = "serving"
    /\ ctxDone = FALSE
    /\ asking = None
    /\ recreating = FALSE
    /\ cancelled = {}
    /\ pathConf = 0 /\ handlerConf = 0
    /\ runConf = [r \in Runs |-> 0]
    /\ toHandler = {} /\ toRun = {}

-----------------------------------------------------------------------------
(* The path.                                                               *)

Recreate(r) ==
    /\ run[r] = "none"
    /\ Become(r, "starting")
    /\ current' = r
    /\ cancelled' = cancelled \ {r}
    /\ recreating' = FALSE

(* Start, and what the goroutine does before its first select.  The reload *)
(* goroutines of an earlier cycle are still there; those for the instance  *)
(* had a channel of their own.                                             *)
Start(r) ==
    /\ path = "serving"
    /\ view = "off"
    /\ view' = "connecting"
    /\ ctxDone' = FALSE
    /\ loop' = "select"
    /\ Recreate(r)
    /\ UNCHANGED <<onDemand, path, asking, confVars>>

(* The first half of Stop.                                                 *)
CancelCtx ==
    /\ view' = "off"
    /\ ctxDone' = TRUE
    /\ toHandler' = Over(toHandler)

Stop_NotAwaited ==
    /\ path = "serving"
    /\ onDemand
    /\ view # "off"
    /\ CancelCtx
    /\ UNCHANGED <<onDemand, path, loopVars, run, cancelled,
                   pathConf, handlerConf, runConf, toRun>>

(* A timer of the path stops a source that is on demand.                   *)
Stop ==
    /\ path = "serving"
    /\ onDemand
    /\ view # "off"
    /\ CancelCtx
    /\ path' = "stopping"
    /\ UNCHANGED <<onDemand, loopVars, run, cancelled,
                   pathConf, handlerConf, runConf, toRun>>

(* The second half: <-s.done.                                              *)
StopReturns ==
    /\ loop = "off"
    /\ \/ path = "stopping" /\ path' = "serving"
       \/ path = "closing" /\ path' = "gone"
    /\ UNCHANGED <<onDemand, view, ctxDone, loopVars, run, cancelled, confVars>>

(* The path is destroyed: its context is cancelled first, then its source, *)
(* if it is running, is stopped.                                           *)
ClosePath ==
    /\ path = "serving"
    /\ path' = "closed"
    /\ UNCHANGED <<onDemand, view, ctxDone, loopVars, run, cancelled, confVars>>

CloseSource ==
    /\ path = "closed"
    /\ IF view = "off"
       THEN path' = "gone" /\ UNCHANGED <<view, ctxDone, toHandler>>
       ELSE path' = "closing" /\ CancelCtx
    /\ UNCHANGED <<onDemand, loopVars, run, cancelled, pathConf, handlerConf, runConf, toRun>>

(* A handler that is not running is not told.                              *)
ReloadConf ==
    /\ path = "serving"
    /\ pathConf < MaxConf
    /\ pathConf' = pathConf + 1
    /\ toHandler' = IF view = "off" THEN toHandler
                    ELSE toHandler \cup {[conf |-> pathConf + 1, over |-> FALSE]}
    /\ UNCHANGED <<onDemand, pathVars, loopVars, run, cancelled, handlerConf, runConf, toRun>>

AcceptSetReady_StateForView ==
    /\ path = "serving"
    /\ loop = "setReady"
    /\ view' = "streaming"
    /\ Become(asking, "streaming")
    /\ loop' = "select"
    /\ asking' = None
    /\ UNCHANGED <<onDemand, path, ctxDone, recreating, current, cancelled, confVars>>

(* doSourceStaticSetReady.  It may fail to set up the stream.              *)
AcceptSetReady ==
    /\ path = "serving"
    /\ loop = "setReady"
    /\ \/ view' = "ready" /\ Become(asking, "streaming")
       \/ UNCHANGED view  /\ Become(asking, "returned")
    /\ loop' = "select"
    /\ asking' = None
    /\ UNCHANGED <<onDemand, path, ctxDone, recreating, current, cancelled, confVars>>

(* doSourceStaticSetNotReady: the answer comes before the stop, for which  *)
(* the path waits.                                                         *)
AcceptSetNotReady ==
    /\ path = "serving"
    /\ loop = "setNotReady"
    /\ Become(asking, "returned")
    /\ loop' = "select"
    /\ asking' = None
    /\ IF onDemand
       THEN path' = "stopping" /\ CancelCtx
       ELSE view' = "connecting" /\ UNCHANGED <<path, ctxDone, toHandler>>
    /\ UNCHANGED <<onDemand, recreating, current, cancelled,
                   pathConf, handlerConf, runConf, toRun>>

-----------------------------------------------------------------------------
(* The goroutine of the handler.                                           *)

TakeSetReady(r) ==
    /\ loop = "select" /\ run[r] = "setReady"
    /\ loop' = "setReady" /\ asking' = r
    /\ Become(r, "asked")
    /\ UNCHANGED <<onDemand, pathVars, recreating, current, cancelled, confVars>>

TakeSetNotReady(r) ==
    /\ loop = "select" /\ run[r] = "setNotReady"
    /\ loop' = "setNotReady" /\ asking' = r
    /\ Become(r, "told")
    /\ UNCHANGED <<onDemand, pathVars, recreating, current, cancelled, confVars>>

GiveUpHandingOver_PathOnly ==
    /\ loop \in {"setReady", "setNotReady"}
    /\ path \in {"closed", "closing"}
    /\ Become(asking, "returned")
    /\ loop' = "select" /\ asking' = None
    /\ UNCHANGED <<onDemand, pathVars, recreating, current, cancelled, confVars>>

(* The path does not take it: it waits for the handler, or is done.        *)
GiveUpHandingOver ==
    /\ loop \in {"setReady", "setNotReady"}
    /\ ctxDone \/ path \in {"closed", "closing"}
    /\ Become(asking, "returned")
    /\ loop' = "select" /\ asking' = None
    /\ UNCHANGED <<onDemand, pathVars, recreating, current, cancelled, confVars>>

RunFailed(r) ==
    /\ loop = "select" /\ run[r] = "returned"
    /\ Become(r, "none")
    /\ cancelled' = cancelled \cup {current}
    /\ toRun' = Over(toRun)
    /\ recreating' = TRUE
    /\ UNCHANGED <<onDemand, pathVars, loop, asking, current,
                   pathConf, handlerConf, runConf, toHandler>>

RecreateTimer_NotDisarmed(r) ==
    /\ loop = "select" /\ recreating
    /\ run[r] = "none"
    /\ Become(r, "starting")
    /\ current' = r
    /\ cancelled' = cancelled \ {r}
    /\ UNCHANGED <<onDemand, pathVars, loop, asking, recreating, confVars>>

RecreateTimer(r) ==
    /\ loop = "select" /\ recreating
    /\ Recreate(r)
    /\ UNCHANGED <<onDemand, pathVars, loop, asking, confVars>>

TakeConf(c) ==
    /\ loop = "select" /\ c \in toHandler
    /\ toHandler' = toHandler \ {c}
    /\ handlerConf' = c.conf
    /\ toRun' = IF recreating THEN toRun
                ELSE toRun \cup {[conf |-> c.conf, over |-> FALSE]}
    /\ UNCHANGED <<onDemand, pathVars, loopVars, run, cancelled, pathConf, runConf>>

(* The context is done: the instance, if there is one, is told to return.  *)
End ==
    /\ loop = "select" /\ ctxDone
    /\ cancelled' = IF recreating THEN cancelled ELSE cancelled \cup {current}
    /\ toRun' = Over(toRun)
    /\ loop' = IF recreating THEN "off" ELSE "ending"
    /\ UNCHANGED <<onDemand, pathVars, asking, recreating, current, run,
                   pathConf, handlerConf, runConf, toHandler>>

(* The last result.  The goroutines that still carry a configuration to    *)
(* the instance can only end: nobody else reads their channel.             *)
RunEnded(r) ==
    /\ loop = "ending" /\ run[r] = "returned"
    /\ Become(r, "none")
    /\ loop' = "off"
    /\ toRun' = {}
    /\ UNCHANGED <<onDemand, pathVars, asking, recreating, current, cancelled,
                   pathConf, handlerConf, runConf, toHandler>>

-----------------------------------------------------------------------------
(* The goroutines of the instance.  A source may fail at any moment, and   *)
(* it may or may not have noticed that its context is done.                *)

Move(r, from, to) ==
    /\ run[r] = from
    /\ Become(r, to)
    /\ UNCHANGED <<onDemand, pathVars, loopVars, cancelled, confVars>>

(* s.Conf is read in the new goroutine.                                    *)
RunStarts(r) ==
    /\ run[r] = "starting"
    /\ Become(r, "connecting")
    /\ runConf' = [runConf EXCEPT ![r] = handlerConf]
    /\ UNCHANGED <<onDemand, pathVars, loopVars, cancelled,
                   pathConf, handlerConf, toHandler, toRun>>

RunConnects(r)  == Move(r, "connecting", "setReady")
RunFails(r)     == Move(r, "connecting", "returned")

RunStopsStreaming_Silently(r) == Move(r, "streaming", "returned")
RunStopsStreaming(r) == Move(r, "streaming", "setNotReady")

(* SetReady and SetNotReady give up when the handler is being stopped.     *)
NotHeard(r) ==
    /\ ctxDone
    /\ Move(r, "setReady", "returned") \/ Move(r, "setNotReady", "returned")

RunTakesConf(r, c) ==
    /\ run[r] \in {"connecting", "streaming"}
    /\ c \in toRun
    /\ toRun' = toRun \ {c}
    /\ runConf' = [runConf EXCEPT ![r] = c.conf]
    /\ UNCHANGED <<onDemand, pathVars, loopVars, run, cancelled,
                   pathConf, handlerConf, toHandler>>

CarrierEnds(c) ==
    /\ c.over
    /\ \/ c \in toHandler /\ toHandler' = toHandler \ {c} /\ UNCHANGED toRun
       \/ c \in toRun /\ toRun' = toRun \ {c} /\ UNCHANGED toHandler
    /\ UNCHANGED <<onDemand, pathVars, loopVars, run, cancelled,
                   pathConf, handlerConf, runConf>>

-----------------------------------------------------------------------------
Path == Stop \/ StopReturns \/ ClosePath \/ CloseSource \/ ReloadConf
        \/ (\E r \in Runs : Start(r))

HandingOver == AcceptSetReady \/ AcceptSetNotReady \/ GiveUpHandingOver

Loop(r) == RunFailed(r) \/ RecreateTimer(r) \/ RunEnded(r)
           \/ TakeSetReady(r) \/ TakeSetNotReady(r)

Instance(r) == RunStarts(r) \/ RunConnects(r) \/ RunFails(r) \/ RunStopsStreaming(r)
               \/ NotHeard(r)

Next ==
    \/ Path
    \/ HandingOver
    \/ End
    \/ \E r \in Runs : Loop(r) \/ Instance(r)
    \/ \E c \in Carriers : TakeConf(c) \/ CarrierEnds(c) \/ (\E r \in Runs : RunTakesConf(r, c))

Spec == Init /\ [][Next]_vars

(* Goroutines that can go on do.  The select of the handler serves every   *)
(* case that stays ready: Go picks among them at random.  A call whose     *)
(* context is done returns, as every source does; one whose context is not *)
(* may stream for ever, but not connect for ever: its timeouts see to      *)
(* that.                                                                   *)
Fairness ==
    /\ WF_vars(StopReturns)
    /\ WF_vars(CloseSource)
    /\ WF_vars(HandingOver)
    /\ SF_vars(End)
    /\ \A r \in Runs :
          /\ SF_vars(RunFailed(r))
          /\ SF_vars(TakeSetReady(r))
          /\ SF_vars(TakeSetNotReady(r))
          /\ WF_vars(RunEnded(r))
          /\ WF_vars(RunStarts(r))
          /\ WF_vars(RunConnects(r) \/ RunFails(r))
          /\ WF_vars(NotHeard(r))
          /\ WF_vars(r \in cancelled /\ RunStopsStreaming(r))
    /\ SF_vars(\E r \in Runs : RecreateTimer(r))
    /\ \A c \in Carriers : WF_vars(CarrierEnds(c))

FairSpec == Spec /\ Fairness

-----------------------------------------------------------------------------
(* Properties.                                                             *)

(* Every variable holds a value of its kind.                               *)
TypeOK ==
    /\ onDemand \in BOOLEAN
    /\ path \in {"serving", "stopping", "closed", "closing", "gone"}
    /\ view \in {"off", "connecting", "ready"}
    /\ ctxDone \in BOOLEAN
    /\ loop \in {"off", "select", "setReady", "setNotReady", "ending"}
    /\ asking \in Runs \cup {None}
    /\ recreating \in BOOLEAN
    /\ current \in Runs \cup {None}
    /\ run \in [Runs -> RunStates]
    /\ cancelled \subseteq Runs
    /\ pathConf \in 0..MaxConf
    /\ handlerConf \in 0..MaxConf
    /\ runConf \in [Runs -> 0..MaxConf]
    /\ toHandler \subseteq Carriers
    /\ toRun \subseteq Carriers

(* A source is never run twice at once, through every failure, retry, stop *)
(* and restart: two calls of Run on the one instance would contend for its *)
(* connection and for the path (handler.go:237-303).                       *)
OneRun == \A r, s \in Runs : Alive(r) /\ Alive(s) => r = s

(* Once Stop has returned nothing of the source is left running, so that   *)
(* it can be started again (handler.go:217-230).                           *)
StoppedIsQuiet ==
    view = "off" /\ path \in {"serving", "closed", "gone"} =>
        loop = "off" /\ \A r \in Runs : ~Alive(r)

(* Neither a retry nor a start after a stop meets an earlier call of Run.  *)
RunsNeverMeet == OneRun /\ StoppedIsQuiet

(* What the path sees of its source: it is connecting when it was started, *)
(* ready only after that, and once stopped nothing is heard of it until it *)
(* is started again.  path.go takes this for granted when it runs the      *)
(* hooks of a stream, and so does Path (path.go:929-966).                  *)
Promise == INSTANCE SourcePromise
KeepsPromise == Promise!Spec

(* The path says that its source is ready exactly while a call of Run      *)
(* streams, or is about to tell it otherwise: no failure goes unnoticed,   *)
(* and no call tells it twice (handler.go:327-352).                        *)
ReadyMeansStreaming ==
    path = "serving" /\ view # "off" =>
        (view = "ready" <=>
            \E r \in Runs : run[r] \in {"streaming", "setNotReady", "told"} /\ r \notin cancelled)

(* Stop returns: the path is not blocked for ever by the source it stops,  *)
(* even when the source talks to it at that moment (path.go:450-455,       *)
(* 929-966).                                                               *)
StopEnds == path \in {"stopping", "closing"} ~> path \in {"serving", "gone"}

(* A source that failed is tried again until it is stopped                 *)
(* (handler.go:265-270, 292-294).                                          *)
FailedRunRetried == (view # "off" /\ \A r \in Runs : ~Alive(r)) ~> (view = "off" \/ \E r \in Runs : Alive(r))

(* Neither of the two waits for the other, nor for a source that is gone.  *)
GoesOn == StopEnds /\ FailedRunRetried

(* "Changes are detected and applied without disconnecting existing        *)
(* clients, whenever it's possible" (docs/2-usage/04-configuration.md:17): *)
(* once no change is on its way, the source has the configuration of its   *)
(* path.                                                                   *)
ChangesApplied ==
    path = "serving" /\ view # "off" /\ toHandler = {} => handlerConf = pathConf
=============================================================================
