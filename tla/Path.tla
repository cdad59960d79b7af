-------------------------------- MODULE Path --------------------------------
(***************************************************************************)
(* One path: the meeting point of whoever provides a stream and whoever    *)
(* reads it (internal/core/path.go).  All of its state is owned by one     *)
(* goroutine, path.run, which serves one request, source event or expired  *)
(* timer at a time; each of those handlers is one action here, its closing *)
(* shouldClose() test included.                                            *)
(*                                                                         *)
(* A request that the code only answers, changing nothing, is a stuttering *)
(* step: a second publisher when overriding is off, a describe or a reader *)
(* that is refused while the path stays open, APIPathsGet.                 *)
(***************************************************************************)
EXTENDS Naturals, Sequences, FiniteSets

CONSTANTS
    Publishers,         \* clients that may publish
    Readers,            \* clients (and muxers) that may read
    Describers,         \* clients that ask for the description of the stream
    Confs,              \* the configurations the path may be given
    InitializeMayFail   \* whether stream.Initialize may return an error

None == "none"

Handlers == {"static", "orig"}

ConfFields ==
    {"source", "sourceOnDemand", "runOnDemand", "origNode", "overridePublisher",
     "regexp", "fallback", "runOnReady", "maxReaders", "record", "recordPath", "forward"}

(* What conf.Path.validate accepts.  An origin node is configured for      *)
(* paths that are otherwise published to, as bin/mmx_edge.yml does.        *)
ConfOK(c) ==
    /\ DOMAIN c = ConfFields
    /\ c.source \in {"publisher", "redirect", "static"}
    /\ \A f \in ConfFields \ {"source", "maxReaders", "recordPath"} : c[f] \in BOOLEAN
    /\ c.maxReaders \in Nat
    /\ c.recordPath # None
    /\ c.source = "static" /\ c.regexp => c.sourceOnDemand
    /\ c.sourceOnDemand => c.source # "publisher"
    /\ c.runOnDemand => c.source = "publisher"
    /\ c.origNode => c.source = "publisher"

ASSUME ConfsAssumption == \A c \in Confs : ConfOK(c)

ASSUME ClientsAssumption ==
    /\ IsFiniteSet(Readers)
    /\ Publishers \cap (Handlers \cup {"none", "redirect"}) = {}

ASSUME InitializeAssumption == InitializeMayFail \in BOOLEAN

VARIABLES
    phase,                      \* "run", "teardown", "done", or "panic": the process died
    conf,                       \* pa.conf
    source,                     \* pa.source
    stream,                     \* pa.stream; "broken" when Initialize failed half-way
    onNotReadyHook,             \* "nil", "armed", or "fired": called and never replaced
    onUnDemandHook,             \* pa.onUnDemandHook # nil
    recorder,                   \* the path format of pa.recorder, or "none"
    forwarders,                 \* pa.forwarderManager: "none", "idle", "running", "stopped"
    readers,                    \* pa.readers
    describeRequestsOnHold,     \* who waits for a description
    readerAddRequestsOnHold,    \* who waits to be added, in order of arrival
    onDemandStaticSourceState,
    onDemandPublisherState,
    origNodeStaticSourceState,
    timers,                     \* the timers that are armed
    handler,                    \* the static source handlers: "off", "connecting", "ready"
    pubs,                       \* what each publisher is doing, by its own account
    rdrs                        \* what each reader is doing, by its own account

sourceVars == <<source, stream, onNotReadyHook, recorder, forwarders, pubs>>
clientVars == <<readers, describeRequestsOnHold, readerAddRequestsOnHold, rdrs>>
demandVars == <<onDemandStaticSourceState, onDemandPublisherState,
                origNodeStaticSourceState, timers, handler, onUnDemandHook>>
vars == <<phase, conf, sourceVars, clientVars, demandVars>>

DemandStates == {"initial", "waitingReady", "ready", "closing"}
Timers == {"staticReady", "staticClose", "publisherReady", "publisherClose",
           "origReady", "origClose"}

-----------------------------------------------------------------------------
(* Configuration predicates.                                               *)

HasStaticSource(c)         == c.source = "static"
HasOnDemandStaticSource(c) == HasStaticSource(c) /\ c.sourceOnDemand
HasOnDemandPublisher(c)    == c.runOnDemand
HasOrigNode(c)             == c.origNode

(* A running path takes a new configuration only when nothing but these    *)
(* fields changes; otherwise the path manager recreates it.                *)
CanBeUpdated(old, new) ==
    \A f \in ConfFields \ {"regexp", "record", "recordPath"} : old[f] = new[f]

-----------------------------------------------------------------------------
(* Parts of handlers.                                                      *)

ShouldClose ==
    /\ conf.regexp
    /\ source = None
    /\ readers = {}
    /\ describeRequestsOnHold = {}
    /\ readerAddRequestsOnHold = <<>>
    /\ origNodeStaticSourceState = "initial"

(* A definition named ..._X is what the one after it would be with the     *)
(* mistake X in the code: the run that checks a property fails with it.    *)

CheckShouldClose_Forgotten == phase' = phase

(* The test that follows a handler in the loop of runInner.                *)
CheckShouldClose == phase' = IF ShouldClose' THEN "teardown" ELSE "run"

Held == {readerAddRequestsOnHold[i] : i \in DOMAIN readerAddRequestsOnHold}

(* Those of a queue who get in, in order of arrival, past present readers. *)
Admitted(queue, present) ==
    {queue[i] : i \in {j \in DOMAIN queue :
        conf.maxReaders = 0 \/ Cardinality(present) + j <= conf.maxReaders}}

(* Calling the not-ready hook dies on a nil function, and, the second      *)
(* time, on closing a command that is already closed.                      *)
NotReadyHookDies ==
    onNotReadyHook = "nil" \/ (onNotReadyHook = "fired" /\ conf.runOnReady)

Crash == /\ phase' = "panic"
         /\ UNCHANGED <<conf, sourceVars, clientVars, demandVars>>

(* The publisher or handler that owned the stream loses it, and every      *)
(* reader is removed and told to close.                                    *)
SetNotReady ==
    /\ stream' = None
    /\ recorder' = None
    /\ onNotReadyHook' = "fired"
    /\ forwarders' = IF forwarders = None THEN None ELSE "stopped"
    /\ readers' = {}
    /\ rdrs' = [r \in Readers |-> IF r \in readers THEN "closing" ELSE rdrs[r]]

(* setReady and consumeOnHoldRequests over the readers that are there: who *)
(* is left on hold and which hook is set are parameters.                   *)
StreamUp(present, holds, hook) ==
    LET admitted == Admitted(readerAddRequestsOnHold, present) IN
    /\ stream' = "live"
    /\ recorder' = IF conf.record THEN conf.recordPath ELSE None
    /\ onNotReadyHook' = hook
    /\ readers' = present \cup admitted
    /\ describeRequestsOnHold' = holds
    /\ readerAddRequestsOnHold' = <<>>
    /\ rdrs' = [r \in Readers |->
                   IF r \in admitted THEN "reading"
                   ELSE IF r \in Held THEN "idle"
                   ELSE IF r \in readers \ present THEN "closing" ELSE rdrs[r]]

StreamIsUp_HookNotSet(present) == StreamUp(present, {}, onNotReadyHook)

(* All that the stream's coming up brings with it.                         *)
StreamIsUp(present) == StreamUp(present, {}, "armed")

(* A forwarder that was stopped stays so: its context is cancelled for     *)
(* good.                                                                   *)
StartForwarders == IF forwarders = "idle" THEN "running" ELSE forwarders

(* Everyone on hold is sent an error.                                      *)
RejectOnHold ==
    /\ describeRequestsOnHold' = {}
    /\ readerAddRequestsOnHold' = <<>>
    /\ rdrs' = [r \in Readers |-> IF r \in Held THEN "idle" ELSE rdrs[r]]

WantedState_HoldsServedFirst(someone) == "closing"
WantedState_TimerForState(someone) == IF someone THEN "ready" ELSE "staticClose"
(* After ScheduleClose, the first reader admitted makes the source wanted. *)
WantedState(someone) == IF someone THEN "ready" ELSE "closing"
WantedTimers(armed, ready, close, someone) ==
    (armed \ {ready, close}) \cup IF someone THEN {} ELSE {close}

-----------------------------------------------------------------------------
Init ==
    /\ conf \in Confs
    /\ phase = "run"
    /\ source = IF conf.source = "publisher" THEN None ELSE conf.source
    /\ stream = None
    /\ onNotReadyHook = "nil"
    /\ onUnDemandHook = FALSE
    /\ recorder = None
    /\ forwarders = IF conf.forward THEN "idle" ELSE None
    /\ readers = {}
    /\ describeRequestsOnHold = {}
    /\ readerAddRequestsOnHold = <<>>
    /\ onDemandStaticSourceState = "initial"
    /\ onDemandPublisherState = "initial"
    /\ origNodeStaticSourceState = "initial"
    /\ timers = {}
    /\ handler = [h \in Handlers |->
                     IF h = "static" /\ HasStaticSource(conf) /\ ~conf.sourceOnDemand
                     THEN "connecting" ELSE "off"]
    /\ pubs = [p \in Publishers |-> "idle"]
    /\ rdrs = [r \in Readers |-> "idle"]

-----------------------------------------------------------------------------
(* Starting and stopping a source on demand.                               *)

OnDemandStaticSourceStart ==
    /\ handler' = [handler EXCEPT !["static"] = "connecting"]
    /\ timers' = timers \cup {"staticReady"}
    /\ onDemandStaticSourceState' = "waitingReady"
    /\ UNCHANGED <<source, onDemandPublisherState, origNodeStaticSourceState, onUnDemandHook>>

OnDemandPublisherStart ==
    /\ onUnDemandHook' = TRUE
    /\ timers' = timers \cup {"publisherReady"}
    /\ onDemandPublisherState' = "waitingReady"
    /\ UNCHANGED <<source, onDemandStaticSourceState, origNodeStaticSourceState, handler>>

OrigNodeStaticSourceStart ==
    /\ source' = "orig"
    /\ handler' = [handler EXCEPT !["orig"] = "connecting"]
    /\ timers' = timers \cup {"origReady"}
    /\ origNodeStaticSourceState' = "waitingReady"
    /\ UNCHANGED <<onDemandStaticSourceState, onDemandPublisherState, onUnDemandHook>>

OnDemandStaticSourceStop_TimerLeft ==
    /\ handler' = [handler EXCEPT !["static"] = "off"]
    /\ timers' = timers \ {"staticReady"}
    /\ onDemandStaticSourceState' = "initial"
    /\ UNCHANGED <<source, onDemandPublisherState, origNodeStaticSourceState, onUnDemandHook>>

OnDemandStaticSourceStop ==
    /\ handler' = [handler EXCEPT !["static"] = "off"]
    /\ timers' = timers \ {"staticReady", "staticClose"}
    /\ onDemandStaticSourceState' = "initial"
    /\ UNCHANGED <<source, onDemandPublisherState, origNodeStaticSourceState, onUnDemandHook>>

OnDemandPublisherStop ==
    /\ onUnDemandHook' = FALSE
    /\ timers' = timers \ {"publisherReady", "publisherClose"}
    /\ onDemandPublisherState' = "initial"
    /\ UNCHANGED <<source, onDemandStaticSourceState, origNodeStaticSourceState, handler>>

OrigNodeStaticSourceStop_TimerLeft ==
    /\ source' = None
    /\ handler' = [handler EXCEPT !["orig"] = "off"]
    /\ timers' = timers \ {"origReady"}
    /\ origNodeStaticSourceState' = "initial"
    /\ UNCHANGED <<onDemandStaticSourceState, onDemandPublisherState, onUnDemandHook>>

(* Unlike the others it takes the handler out of the path: the stream it   *)
(* was feeding, if any, stays.                                             *)
OrigNodeStaticSourceStop ==
    /\ source' = None
    /\ handler' = [handler EXCEPT !["orig"] = "off"]
    /\ timers' = timers \ {"origReady", "origClose"}
    /\ origNodeStaticSourceState' = "initial"
    /\ UNCHANGED <<onDemandStaticSourceState, onDemandPublisherState, onUnDemandHook>>

(* A request that has to wait starts the source, unless it is started.     *)
StaticSourceWaits == HasOnDemandStaticSource(conf) /\ onDemandStaticSourceState = "initial"
PublisherWaits == HasOnDemandPublisher(conf) /\ onDemandPublisherState = "initial"
OrigNodeWaits ==
    HasOrigNode(conf) /\ ~HasOnDemandPublisher(conf) /\ origNodeStaticSourceState = "initial"

DemandSource ==
    \/ StaticSourceWaits /\ OnDemandStaticSourceStart
    \/ PublisherWaits /\ OnDemandPublisherStart
    \/ OrigNodeWaits /\ OrigNodeStaticSourceStart
    \/ /\ ~(StaticSourceWaits \/ PublisherWaits \/ OrigNodeWaits)
       /\ UNCHANGED <<source, demandVars>>

-----------------------------------------------------------------------------
(* Requests of readers.                                                    *)

Describe(d) ==
    /\ phase = "run"
    /\ d \notin describeRequestsOnHold
    /\ IF /\ source # "redirect"
          /\ stream = None
          /\ HasOnDemandStaticSource(conf) \/ HasOnDemandPublisher(conf)
       THEN /\ describeRequestsOnHold' = describeRequestsOnHold \cup {d}
            /\ DemandSource
       ELSE UNCHANGED <<describeRequestsOnHold, source, demandVars>>
    /\ UNCHANGED <<conf, stream, onNotReadyHook, recorder, forwarders, pubs,
                   readers, readerAddRequestsOnHold, rdrs>>
    /\ CheckShouldClose

(* addReaderPost for a reader that finds room.                             *)
AdmitReader(r) ==
    /\ phase = "run"
    /\ rdrs[r] = "idle"
    /\ stream # None
    /\ conf.maxReaders = 0 \/ Cardinality(readers) < conf.maxReaders
    /\ readers' = readers \cup {r}
    /\ rdrs' = [rdrs EXCEPT ![r] = "reading"]
    /\ IF HasOnDemandStaticSource(conf) /\ onDemandStaticSourceState = "closing"
       THEN /\ onDemandStaticSourceState' = "ready"
            /\ timers' = timers \ {"staticClose"}
            /\ UNCHANGED onDemandPublisherState
       ELSE IF HasOnDemandPublisher(conf) /\ onDemandPublisherState = "closing"
       THEN /\ onDemandPublisherState' = "ready"
            /\ timers' = timers \ {"publisherClose"}
            /\ UNCHANGED onDemandStaticSourceState
       ELSE UNCHANGED <<onDemandStaticSourceState, onDemandPublisherState, timers>>
    /\ UNCHANGED <<conf, sourceVars, describeRequestsOnHold, readerAddRequestsOnHold,
                   origNodeStaticSourceState, handler, onUnDemandHook>>
    /\ CheckShouldClose

HoldReader(r) ==
    /\ phase = "run"
    /\ rdrs[r] = "idle"
    /\ stream = None
    /\ \/ HasOnDemandStaticSource(conf)
       \/ HasOnDemandPublisher(conf)
       \/ HasOrigNode(conf)
    /\ readerAddRequestsOnHold' = Append(readerAddRequestsOnHold, r)
    /\ rdrs' = [rdrs EXCEPT ![r] = "held"]
    /\ DemandSource
    /\ UNCHANGED <<conf, stream, onNotReadyHook, recorder, forwarders, pubs,
                   readers, describeRequestsOnHold>>
    /\ CheckShouldClose

(* No stream and nothing to wait for, or no room: the answer is an error,  *)
(* but the path may find that it is of no use.                             *)
RefuseReader(r) ==
    /\ phase = "run"
    /\ rdrs[r] = "idle"
    /\ IF stream = None
       THEN ~(\/ HasOnDemandStaticSource(conf)
              \/ HasOnDemandPublisher(conf)
              \/ HasOrigNode(conf))
       ELSE conf.maxReaders # 0 /\ Cardinality(readers) >= conf.maxReaders
    /\ UNCHANGED <<conf, sourceVars, clientVars, demandVars>>
    /\ CheckShouldClose

(* doRemoveReader, called by a reader that leaves and by one that was told *)
(* to close: then it is no longer in readers.                              *)
RemoveReader(r) ==
    /\ phase = "run"
    /\ rdrs[r] \in {"reading", "closing"}
    /\ rdrs' = [rdrs EXCEPT ![r] = "idle"]
    /\ readers' = readers \ {r}
    /\ IF /\ readers' = {}
          /\ HasOnDemandStaticSource(conf)
          /\ onDemandStaticSourceState = "ready"
       THEN /\ onDemandStaticSourceState' = "closing"
            /\ timers' = timers \cup {"staticClose"}
            /\ UNCHANGED <<onDemandPublisherState, origNodeStaticSourceState>>
       ELSE IF /\ readers' = {}
               /\ HasOnDemandPublisher(conf)
               /\ onDemandPublisherState = "ready"
       THEN /\ onDemandPublisherState' = "closing"
            /\ timers' = timers \cup {"publisherClose"}
            /\ UNCHANGED <<onDemandStaticSourceState, origNodeStaticSourceState>>
       ELSE IF /\ readers' = {}
               /\ HasOrigNode(conf) /\ ~HasOnDemandPublisher(conf)
               /\ origNodeStaticSourceState = "ready"
       THEN /\ origNodeStaticSourceState' = "closing"
            /\ timers' = timers \cup {"origClose"}
            /\ UNCHANGED <<onDemandStaticSourceState, onDemandPublisherState>>
       ELSE UNCHANGED <<onDemandStaticSourceState, onDemandPublisherState,
                        origNodeStaticSourceState, timers>>
    /\ UNCHANGED <<phase, conf, sourceVars, describeRequestsOnHold,
                   readerAddRequestsOnHold, handler, onUnDemandHook>>

-----------------------------------------------------------------------------
(* Requests of publishers.                                                 *)

(* With overridePublisher the newcomer replaces whoever publishes.  When   *)
(* the stream comes from an origin node the source is not a publisher and  *)
(* the type assertion kills the process.                                   *)
MayPublish(p) ==
    /\ phase = "run"
    /\ pubs[p] = "idle"
    /\ conf.source = "publisher"
    /\ source = None \/ conf.overridePublisher

ReadersLeft_All == readers

(* The readers that are left once the publisher being replaced is removed. *)
ReadersLeft == IF source # None /\ stream # None THEN {} ELSE readers

AddPublisher(p) ==
    /\ MayPublish(p)
    /\ source \notin Handlers
    /\ StreamIsUp(ReadersLeft)
    /\ source' = p
    /\ pubs' = [q \in Publishers |-> IF q = p THEN "publishing"
                                     ELSE IF q = source THEN "closing" ELSE pubs[q]]
    /\ forwarders' = IF source # None /\ forwarders # None
                     THEN "stopped" ELSE StartForwarders
    /\ IF HasOnDemandPublisher(conf) /\ onDemandPublisherState # "initial"
       THEN LET wanted == readers' # ReadersLeft IN
            /\ onDemandPublisherState' = WantedState(wanted)
            /\ timers' = WantedTimers(timers, "publisherReady", "publisherClose", wanted)
       ELSE UNCHANGED <<onDemandPublisherState, timers>>
    /\ UNCHANGED <<phase, conf, onDemandStaticSourceState, origNodeStaticSourceState,
                   handler, onUnDemandHook>>

(* stream.Initialize fails: the publisher is turned away, but pa.stream is *)
(* set already and the hook is still that of an earlier stream.            *)
AddPublisherFails(p) ==
    /\ InitializeMayFail
    /\ MayPublish(p)
    /\ source \notin Handlers
    /\ source' = None
    /\ stream' = "broken"
    /\ readers' = ReadersLeft
    /\ rdrs' = [r \in Readers |-> IF r \in readers \ ReadersLeft THEN "closing" ELSE rdrs[r]]
    /\ pubs' = [q \in Publishers |-> IF q = source THEN "closing" ELSE pubs[q]]
    /\ IF source # None
       THEN /\ onNotReadyHook' = "fired"
            /\ recorder' = None
            /\ forwarders' = IF forwarders = None THEN None ELSE "stopped"
       ELSE UNCHANGED <<onNotReadyHook, recorder, forwarders>>
    /\ UNCHANGED <<phase, conf, describeRequestsOnHold, readerAddRequestsOnHold, demandVars>>

AddPublisherCrashes(p) ==
    /\ MayPublish(p)
    /\ source \in Handlers
    /\ Crash

RemovePublisher_Anyone(p) ==
    /\ phase = "run"
    /\ pubs[p] \in {"publishing", "closing"}
    /\ pubs' = [pubs EXCEPT ![p] = "idle"]
    /\ source' = None
    /\ SetNotReady
    /\ UNCHANGED <<conf, describeRequestsOnHold, readerAddRequestsOnHold, demandVars>>
    /\ CheckShouldClose

(* Only the current publisher takes the stream down with it: one that was  *)
(* replaced is no longer the source when it gets here.                     *)
RemovePublisher(p) ==
    /\ phase = "run"
    /\ pubs[p] \in {"publishing", "closing"}
    /\ pubs' = [pubs EXCEPT ![p] = "idle"]
    /\ IF source = p
       THEN /\ source' = None
            /\ SetNotReady
       ELSE UNCHANGED <<source, stream, onNotReadyHook, recorder, forwarders, readers, rdrs>>
    /\ UNCHANGED <<conf, describeRequestsOnHold, readerAddRequestsOnHold, demandVars>>
    /\ CheckShouldClose

-----------------------------------------------------------------------------
(* Events of the static source handlers.  A handler calls SetNotReady only *)
(* after a SetReady that was accepted; while it is off its events are      *)
(* dropped, its context being done.                                        *)

SourceStaticSetReady(h) ==
    /\ phase = "run"
    /\ handler[h] = "connecting"
    /\ handler' = [handler EXCEPT ![h] = "ready"]
    /\ StreamIsUp(readers)
    /\ forwarders' = StartForwarders
    /\ LET wanted == readers' # readers IN
       IF HasOnDemandStaticSource(conf)
       THEN /\ onDemandStaticSourceState' = WantedState(wanted)
            /\ timers' = WantedTimers(timers, "staticReady", "staticClose", wanted)
            /\ UNCHANGED origNodeStaticSourceState
       ELSE IF HasOrigNode(conf)
       THEN /\ origNodeStaticSourceState' = "ready"
            /\ timers' = timers \ {"origReady"}
            /\ UNCHANGED onDemandStaticSourceState
       ELSE UNCHANGED <<onDemandStaticSourceState, origNodeStaticSourceState, timers>>
    /\ UNCHANGED <<phase, conf, source, pubs, onDemandPublisherState, onUnDemandHook>>

SourceStaticSetReadyFails(h) ==
    /\ InitializeMayFail
    /\ phase = "run"
    /\ handler[h] = "connecting"
    /\ stream' = "broken"
    /\ UNCHANGED <<phase, conf, source, onNotReadyHook, recorder, forwarders, pubs,
                   clientVars, demandVars>>

(* The source failed.  One on demand is stopped, and whoever waits for it  *)
(* asks again; one that is always on tries again after a pause.            *)
SourceStaticSetNotReady(h) ==
    /\ phase = "run"
    /\ handler[h] = "ready"
    /\ SetNotReady
    /\ \/ /\ HasOnDemandStaticSource(conf)
          /\ OnDemandStaticSourceStop
       \/ /\ HasOrigNode(conf)
          /\ OrigNodeStaticSourceStop
       \/ /\ ~HasOnDemandStaticSource(conf)
          /\ ~HasOrigNode(conf)
          /\ handler' = [handler EXCEPT ![h] = "connecting"]
          /\ UNCHANGED <<source, onDemandStaticSourceState, onDemandPublisherState,
                         origNodeStaticSourceState, timers, onUnDemandHook>>
    /\ UNCHANGED <<conf, pubs, describeRequestsOnHold, readerAddRequestsOnHold>>
    /\ CheckShouldClose

-----------------------------------------------------------------------------
(* Timers.  An armed timer fires at any moment.                            *)

OnDemandStaticSourceReadyTimer ==
    /\ phase = "run"
    /\ "staticReady" \in timers
    /\ RejectOnHold
    /\ OnDemandStaticSourceStop
    /\ UNCHANGED <<conf, stream, onNotReadyHook, recorder, forwarders, pubs, readers>>
    /\ CheckShouldClose

OnDemandStaticSourceCloseTimer ==
    /\ phase = "run"
    /\ "staticClose" \in timers
    /\ SetNotReady
    /\ OnDemandStaticSourceStop
    /\ UNCHANGED <<conf, pubs, describeRequestsOnHold, readerAddRequestsOnHold>>
    /\ CheckShouldClose

OnDemandPublisherReadyTimer ==
    /\ phase = "run"
    /\ "publisherReady" \in timers
    /\ RejectOnHold
    /\ OnDemandPublisherStop
    /\ UNCHANGED <<conf, stream, onNotReadyHook, recorder, forwarders, pubs, readers>>
    /\ CheckShouldClose

(* The one timer that is not followed by the shouldClose() test.  It does  *)
(* not answer those on hold.                                               *)
OnDemandPublisherCloseTimer ==
    /\ phase = "run"
    /\ "publisherClose" \in timers
    /\ OnDemandPublisherStop
    /\ UNCHANGED <<phase, conf, stream, onNotReadyHook, recorder, forwarders, pubs, clientVars>>

(* Those who wait for a description are not answered: none ever waits for  *)
(* an origin node.                                                         *)
OrigNodeStaticSourceReadyTimer ==
    /\ phase = "run"
    /\ "origReady" \in timers
    /\ readerAddRequestsOnHold' = <<>>
    /\ rdrs' = [r \in Readers |-> IF r \in Held THEN "idle" ELSE rdrs[r]]
    /\ OrigNodeStaticSourceStop
    /\ UNCHANGED <<conf, stream, onNotReadyHook, recorder, forwarders, pubs, readers,
                   describeRequestsOnHold>>
    /\ CheckShouldClose

OrigNodeStaticSourceCloseTimer ==
    /\ phase = "run"
    /\ "origClose" \in timers
    /\ OrigNodeStaticSourceStop
    /\ UNCHANGED <<conf, stream, onNotReadyHook, recorder, forwarders, pubs, clientVars>>
    /\ CheckShouldClose

-----------------------------------------------------------------------------
(* Configuration reload and the end of the path.                           *)

ReloadConf_PathIgnored(c) ==
    /\ phase = "run"
    /\ c # conf
    /\ CanBeUpdated(conf, c)
    /\ conf' = c
    /\ LET kept == IF c.record # conf.record THEN None ELSE recorder IN
       recorder' = IF c.record /\ stream # None /\ kept = None THEN c.recordPath ELSE kept
    /\ UNCHANGED <<phase, source, stream, onNotReadyHook, forwarders, pubs,
                   clientVars, demandVars>>

(* A recorder whose settings changed is closed, and one is started when    *)
(* the new configuration records and none is left.                         *)
ReloadConf(c) ==
    /\ phase = "run"
    /\ c # conf
    /\ CanBeUpdated(conf, c)
    /\ conf' = c
    /\ LET kept == IF <<c.record, c.recordPath>> # <<conf.record, conf.recordPath>>
                   THEN None ELSE recorder IN
       recorder' = IF c.record /\ stream # None /\ kept = None THEN c.recordPath ELSE kept
    /\ UNCHANGED <<phase, source, stream, onNotReadyHook, forwarders, pubs,
                   clientVars, demandVars>>

(* The path manager closes the path: its context is cancelled.             *)
Terminate ==
    /\ phase = "run"
    /\ phase' = "teardown"
    /\ UNCHANGED <<conf, sourceVars, clientVars, demandVars>>

CloseSource_OnDemandOnly ==
    /\ handler' = [h \in Handlers |->
                      IF source = h /\ onDemandStaticSourceState # "initial"
                      THEN "off" ELSE handler[h]]
    /\ pubs' = [p \in Publishers |-> IF p = source THEN "closing" ELSE pubs[p]]

(* The source that run leaves behind is closed, unless it is on demand and *)
(* stopped already.                                                        *)
CloseSource ==
    /\ handler' = [h \in Handlers |->
                      IF /\ source = h
                         /\ ~conf.sourceOnDemand \/ onDemandStaticSourceState # "initial"
                      THEN "off" ELSE handler[h]]
    /\ pubs' = [p \in Publishers |-> IF p = source THEN "closing" ELSE pubs[p]]

(* What run does once runInner has returned.  The origin node timers are   *)
(* not stopped.                                                            *)
Teardown ==
    /\ phase = "teardown"
    /\ IF stream # None /\ NotReadyHookDies
       THEN Crash
       ELSE /\ phase' = "done"
            /\ timers' = timers \cap {"origReady", "origClose"}
            /\ describeRequestsOnHold' = {}
            /\ readerAddRequestsOnHold' = <<>>
            /\ readers' = IF stream = None THEN readers ELSE {}
            /\ rdrs' = [r \in Readers |->
                          IF r \in Held THEN "idle"
                          ELSE IF stream # None /\ r \in readers THEN "closing" ELSE rdrs[r]]
            /\ IF stream # None
               THEN /\ stream' = None
                    /\ recorder' = None
                    /\ onNotReadyHook' = "fired"
               ELSE UNCHANGED <<stream, recorder, onNotReadyHook>>
            /\ forwarders' = IF forwarders = None THEN None ELSE "stopped"
            /\ CloseSource
            /\ onUnDemandHook' = FALSE
            /\ UNCHANGED <<conf, source, onDemandStaticSourceState,
                           onDemandPublisherState, origNodeStaticSourceState>>

(* Once the context is done RemoveReader and RemovePublisher just return.  *)
ReaderGone(r) ==
    /\ phase = "done"
    /\ rdrs[r] = "closing"
    /\ rdrs' = [rdrs EXCEPT ![r] = "idle"]
    /\ UNCHANGED <<phase, conf, sourceVars, demandVars,
                   readers, describeRequestsOnHold, readerAddRequestsOnHold>>

PublisherGone(p) ==
    /\ phase = "done"
    /\ pubs[p] = "closing"
    /\ pubs' = [pubs EXCEPT ![p] = "idle"]
    /\ UNCHANGED <<phase, conf, source, stream, onNotReadyHook, recorder, forwarders,
                   clientVars, demandVars>>

-----------------------------------------------------------------------------
TimerFires ==
    \/ OnDemandStaticSourceReadyTimer
    \/ OnDemandStaticSourceCloseTimer
    \/ OnDemandPublisherReadyTimer
    \/ OnDemandPublisherCloseTimer
    \/ OrigNodeStaticSourceReadyTimer
    \/ OrigNodeStaticSourceCloseTimer

(* The steps that every kind of path takes, and those that need an origin  *)
(* node or a stream.Initialize that fails.                                 *)
RegularNext ==
    \/ \E d \in Describers : Describe(d)
    \/ \E r \in Readers :
          AdmitReader(r) \/ HoldReader(r) \/ RefuseReader(r) \/ RemoveReader(r) \/ ReaderGone(r)
    \/ \E p \in Publishers : AddPublisher(p) \/ RemovePublisher(p) \/ PublisherGone(p)
    \/ \E h \in Handlers : SourceStaticSetReady(h) \/ SourceStaticSetNotReady(h)
    \/ OnDemandStaticSourceReadyTimer \/ OnDemandStaticSourceCloseTimer
    \/ OnDemandPublisherReadyTimer \/ OnDemandPublisherCloseTimer
    \/ \E c \in Confs : ReloadConf(c)
    \/ Terminate
    \/ Teardown

SpecialNext ==
    \/ \E p \in Publishers : AddPublisherFails(p) \/ AddPublisherCrashes(p)
    \/ \E h \in Handlers : SourceStaticSetReadyFails(h)
    \/ OrigNodeStaticSourceReadyTimer \/ OrigNodeStaticSourceCloseTimer

Next == RegularNext \/ SpecialNext

Spec == Init /\ [][Next]_vars

(* An armed timer fires and is served: select picks among its ready cases  *)
(* at random.  The path goroutine finishes what it began, and a client     *)
(* that was told to close leaves.  Nobody else has to do anything.         *)
Fairness ==
    /\ WF_vars(OnDemandStaticSourceReadyTimer)
    /\ WF_vars(OnDemandStaticSourceCloseTimer)
    /\ WF_vars(OnDemandPublisherReadyTimer)
    /\ WF_vars(OnDemandPublisherCloseTimer)
    /\ WF_vars(OrigNodeStaticSourceReadyTimer)
    /\ WF_vars(OrigNodeStaticSourceCloseTimer)
    /\ WF_vars(Teardown)
    /\ \A r \in Readers : WF_vars(rdrs[r] = "closing" /\ (RemoveReader(r) \/ ReaderGone(r)))

FairSpec == Spec /\ Fairness

-----------------------------------------------------------------------------
(* Properties.                                                             *)

(* Every variable holds a value of its kind.                               *)
TypeOK ==
    /\ phase \in {"run", "teardown", "done", "panic"}
    /\ conf \in Confs
    /\ source \in Publishers \cup Handlers \cup {"none", "redirect"}
    /\ stream \in {"none", "live", "broken"}
    /\ onNotReadyHook \in {"nil", "armed", "fired"}
    /\ onUnDemandHook \in BOOLEAN
    /\ recorder = None \/ \E c \in Confs : recorder = c.recordPath
    /\ forwarders \in {"none", "idle", "running", "stopped"}
    /\ readers \subseteq Readers
    /\ describeRequestsOnHold \subseteq Describers
    /\ readerAddRequestsOnHold \in Seq(Readers)
    /\ onDemandStaticSourceState \in DemandStates
    /\ onDemandPublisherState \in DemandStates
    /\ origNodeStaticSourceState \in DemandStates
    /\ timers \subseteq Timers
    /\ handler \in [Handlers -> {"off", "connecting", "ready"}]
    /\ pubs \in [Publishers -> {"idle", "publishing", "closing"}]
    /\ rdrs \in [Readers -> {"idle", "held", "reading", "closing"}]

(* The path and its readers agree on who reads and who waits, through      *)
(* every hold, kick and refusal; nobody waits twice, and nobody reads from *)
(* a path that has no stream (path.go:807-831, 888-922).                   *)
ReadersAgree ==
    /\ \A r \in Readers : rdrs[r] = "reading" <=> r \in readers
    /\ \A r \in Readers : rdrs[r] = "held" <=> r \in Held
    /\ \A i, j \in DOMAIN readerAddRequestsOnHold :
          readerAddRequestsOnHold[i] = readerAddRequestsOnHold[j] => i = j
    /\ readers # {} => stream # None

(* A publisher that has not been told to close is the one source of the    *)
(* path and has a live stream: a late RemovePublisher of one that was      *)
(* replaced does not disturb its successor (path.go:502-554).              *)
PublishersAgree ==
    phase \in {"run", "teardown"} =>
        \A p \in Publishers :
            pubs[p] = "publishing" <=> source = p /\ stream = "live"

(* A source that is on demand has its start timer armed exactly while it   *)
(* is awaited and its close timer exactly while it is closing: no timer of *)
(* an earlier cycle is ever left to fire into a later one                  *)
(* (path.go:693-752).                                                      *)
TimersFollowStates ==
    phase \in {"run", "teardown"} =>
        /\ "staticReady" \in timers <=> onDemandStaticSourceState = "waitingReady"
        /\ "staticClose" \in timers <=> onDemandStaticSourceState = "closing"
        /\ "publisherReady" \in timers <=> onDemandPublisherState = "waitingReady"
        /\ "publisherClose" \in timers <=> onDemandPublisherState = "closing"
        /\ "origReady" \in timers <=> origNodeStaticSourceState = "waitingReady"
        /\ "origClose" \in timers <=> origNodeStaticSourceState = "closing"

(* A handler runs exactly when the state of its demand says so, and the    *)
(* runOnDemand command likewise: Handler.Start on a running handler and    *)
(* Stop on a stopped one panic, a nil hook too                             *)
(* (staticsources/handler.go:195-230, path.go:742-752).                    *)
SourcesFollowDemand ==
    phase \in {"run", "teardown"} =>
        /\ HasOnDemandStaticSource(conf) =>
              (handler["static"] = "off" <=> onDemandStaticSourceState = "initial")
        /\ HasStaticSource(conf) /\ ~conf.sourceOnDemand => handler["static"] # "off"
        /\ handler["orig"] = "off" <=> origNodeStaticSourceState = "initial"
        /\ onUnDemandHook <=> onDemandPublisherState # "initial"

(* Timers, handlers and commands are those of the state of demand, over    *)
(* any number of cycles of demand (path.go:693-752).                       *)
DemandAgrees == TimersFollowStates /\ SourcesFollowDemand

(* The close timer of a static source or of a runOnDemand command only     *)
(* runs while nobody reads: it never takes the stream from a reader        *)
(* (path.go:595-609, 904-916).                                             *)
ClosingMeansUnused ==
    phase = "run" =>
        (onDemandStaticSourceState = "closing" \/ onDemandPublisherState = "closing"
            => readers = {})

(* While the stream is there nobody is on hold: whoever arrived before it  *)
(* was answered when it came up (path.go:793-805).                         *)
HeldMeansNotReady ==
    stream = "live" => describeRequestsOnHold = {} /\ readerAddRequestsOnHold = <<>>

(* The path and its clients are of one mind: nobody is read, fed or kept   *)
(* waiting by one side without the other's knowing.                        *)
ClientsAgree == ReadersAgree /\ PublishersAgree /\ HeldMeansNotReady

(* While the stream is there it is recorded exactly if the configuration   *)
(* in force says so, to the path that it says, over any sequence of        *)
(* reloads and of streams (path.go:396-421, 770-772, 822-825).             *)
RecorderFollowsConf ==
    phase \in {"run", "teardown"} =>
        recorder = IF stream = "live" /\ conf.record THEN conf.recordPath ELSE None

(* No sequence of requests, events and timers kills the process.           *)
NoPanic == phase # "panic"

(* A destroyed path leaves nobody waiting or reading, and nothing running  *)
(* (path.go:222-267).                                                      *)
DoneIsClean ==
    phase = "done" =>
        /\ \A r \in Readers : rdrs[r] \in {"idle", "closing"}
        /\ \A p \in Publishers : pubs[p] # "publishing"
        /\ describeRequestsOnHold = {}
        /\ \A h \in Handlers : handler[h] = "off"
        /\ stream = None /\ recorder = None /\ ~onUnDemandHook /\ forwarders # "running"

(* The path keeps the promise that PathPromise makes to its readers,       *)
(* however its sources come and go: it implements that specification.      *)
Promise == INSTANCE PathPromise WITH
    Sources <- Publishers \cup Handlers,
    media <- IF stream = "live" THEN source ELSE None,
    status <- rdrs

KeepsPromise == Promise!Spec

(* A path made by a regular expression goes away with the last thing that  *)
(* used it, in the same step (path.go:269-357, 684-691).                   *)
IdlePathCloses ==
    [][~ShouldClose /\ ShouldClose' /\ conf' = conf => phase' # "run"]_vars

(* Somebody is on hold for a source that the server pulls                  *)
(* (path.go:359-390).                                                      *)
SomebodyIsHeld ==
    ~HasOnDemandPublisher(conf) /\ (Held # {} \/ describeRequestsOnHold # {})

(* An on-demand source is up that nobody reads (path.go:595-609, 693-752). *)
SourceIsUnused ==
    /\ phase = "run"
    /\ readers = {}
    /\ \/ onDemandStaticSourceState # "initial"
       \/ onDemandPublisherState # "initial"

-----------------------------------------------------------------------------
(* What the documentation says and the code does not do.                   *)

(* "Readers will be put on hold until the runOnDemand command starts       *)
(* publishing or until this amount of time has passed" (mediamtx.yml:683). *)
RunOnDemandReadersAnswered ==
    \A r \in Readers : rdrs[r] = "held" /\ HasOnDemandPublisher(conf) ~> rdrs[r] # "held"

(* "Allow another client to disconnect the current publisher and publish   *)
(* in its place" (mediamtx.yml:523): an attempt to do so never kills the   *)
(* server (path.go:517-526).                                               *)
OverrideReplacesSource == [][phase' = "panic" => phase = "panic" \/ phase = "teardown"]_vars
=============================================================================
