-------------------------------- MODULE Core --------------------------------
(***************************************************************************)
(* The core of the server (internal/core/core.go): the goroutine that      *)
(* creates the resources of the server and, upon a change of the           *)
(* configuration, closes and creates again those that it concerns; and the *)
(* Control API (internal/api), itself one of them, whose handlers hand     *)
(* changes to it.                                                          *)
(*                                                                         *)
(* A configuration is the set of edits that make it differ from one in     *)
(* which every resource is enabled. An edit changes one group of settings  *)
(* that the code always treats alike, and may disable resources by doing   *)
(* so.                                                                     *)
(*                                                                         *)
(* A handler does not change the configuration in place: it clones it,     *)
(* which puts some lists in order, and validates the clone, which may      *)
(* change it once more (conf/conf.go:502, 745-763).                        *)
(*                                                                         *)
(* A request reaches its critical section while its API exists. What a     *)
(* handler still does after handing over its configuration is left out.    *)
(***************************************************************************)
EXTENDS Naturals

CONSTANTS
    Edits,          \* changes that can be made to the configuration
    PathsOnly,      \* those of them that change nothing but the paths
    MaxEntries,     \* how often the list of ICE servers may be found longer
    Handlers        \* requests to the API that are in progress at a time

Servers == {"rtsp", "rtsps", "rtmp", "rtmps", "hls", "webrtc", "srt"}

Resources == {"logger", "authManager", "metrics", "pprof", "recordCleaner", "playback",
              "pathManager", "api"} \cup Servers

(* The settings of one resource have its name; the others are shared.      *)
Groups == Resources \cup
    {"users", "readTimeout", "writeTimeout", "paths", "rtspAddress", "rtspEncryption",
     "rtspCommon", "multicast", "srtp", "rtmpEncryption", "runOnConnect", "writeQueueSize",
     "udpReadBufferSize", "udpMaxPayloadSize", "rtspUDPReadBufferSize", "webrtcICEServers"}

Timeouts == {"readTimeout", "writeTimeout"}

(* The settings of the paths; "recordCleaner" is their recordDeleteAfter,  *)
(* as far as it tells whether there is a cleaner at all.                   *)
PathSettings == {"paths", "recordCleaner"}

Switchable == {"metrics", "pprof", "recordCleaner", "playback", "hls", "webrtc", "srt", "api"}

(* The groups with a list that is written in order when it is cloned:      *)
(* trusted proxies, authentication methods.                                *)
WithLists == {"metrics", "pprof", "playback", "hls", "webrtc", "api", "rtspCommon"}

Disables ==
    [settings : Groups, disables : {{}}]
    \cup {[settings |-> r, disables |-> {r}] : r \in Switchable}
    \cup [settings : {"rtspEncryption"}, disables : {{"rtsp"}, {"rtsps"}}]
    \cup [settings : {"rtspCommon"}, disables : {{"rtsp", "rtsps"}}]
    \cup [settings : {"rtmpEncryption"}, disables : {{"rtmp"}, {"rtmps"}, {"rtmp", "rtmps"}}]

(* orderOnly: nothing but the order of a list is another.                  *)
Change(c, only) == [settings |-> c.settings, disables |-> c.disables, orderOnly |-> only]

AllChanges ==
    {Change(c, FALSE) : c \in Disables}
    \cup [settings : WithLists, disables : {{}}, orderOnly : {TRUE}]

(* The entries of webrtcICEServers2 that come from webrtcICEServers, once  *)
(* for each time that the configuration was validated.                     *)
Entries == 1 .. MaxEntries

ASSUME ConstantsAssumption ==
    /\ MaxEntries \in Nat
    /\ PathsOnly \cup Entries \subseteq Edits
    /\ PathsOnly \cap Entries = {}

(* What the edits may do together.                                         *)
Combinations ==
    LET Plain(s) == [settings |-> s, disables |-> {}, orderOnly |-> FALSE]
    IN  {[e \in Edits |-> IF e \in Entries THEN Plain("webrtcICEServers2")
                          ELSE IF e \in PathsOnly THEN Plain("paths") ELSE f[e]] :
            f \in [Edits \ (PathsOnly \cup Entries) -> AllChanges]}

VARIABLES
    change,     \* what each edit does
    core,       \* the goroutine of the core: "select", "api", "closing", "creating", "stopped"
    ending,     \* p.ctx has been cancelled: newConf is nil
    conf,       \* p.conf
    newConf,    \* the configuration being applied
    calledByAPI,
    toClose,    \* the resources that closeResources has still to close
    live,       \* the resources that exist
    given,      \* the settings that each of them was given
    outdated,   \* <<r, s>> when r has not the s that exists
    apiConf,    \* api.Conf
    handler,    \* a handler of the API: "idle", "sending" its configuration, or doing
                \* so "locked", holding the mutex of the API that exists
    sent        \* the configuration that it sends

coreVars == <<core, ending, conf, newConf, calledByAPI, toClose>>
resourceVars == <<live, given, outdated>>
apiVars == <<apiConf, handler, sent>>
vars == <<change, coreVars, resourceVars, apiVars>>

Confs == SUBSET Edits

EditsOf(groups) == {e \in Edits : change[e].settings \in groups}

Disabled(c) == UNION {change[e].disables : e \in c}

IsSet(c, setting) == EditsOf({setting}) \cap c # {}

(* Every other setting of a clone is as in c.                              *)
Clone(c) == {e \in c : ~change[e].orderOnly}

(* A configuration c that was validated when its list had these entries.   *)
Validated(c, entries) ==
    c \cap Entries =
        IF IsSet(c, "webrtcICEServers")
        THEN {i \in Entries : i = 1 \/ i - 1 \in entries}
        ELSE entries

(* Conf.Load.                                                              *)
Loaded == {c \in Confs : Validated(c, {})}
-----------------------------------------------------------------------------
(* What createResources passes to a resource: settings, which              *)
(* closeResources may pass on when they change, and other resources.       *)

Passed(r) == CASE
       r = "authManager" -> {"authManager", "readTimeout", "users"}
    [] r \in {"metrics", "pprof", "hls"} -> {r} \cup Timeouts
    [] r = "api" -> {"api"} \cup Timeouts
    [] r = "recordCleaner" -> PathSettings
    [] r = "playback" -> {"playback"} \cup Timeouts \cup PathSettings
    [] r = "pathManager" -> {"logger", "rtspAddress", "writeQueueSize", "udpReadBufferSize",
                             "udpMaxPayloadSize", "rtspEncryption"} \cup Timeouts \cup PathSettings
    [] r = "rtsp" -> {"rtsp", "rtspEncryption", "rtspCommon", "rtspAddress", "udpReadBufferSize",
                      "rtspUDPReadBufferSize", "writeQueueSize", "multicast", "runOnConnect"} \cup Timeouts
    [] r = "rtsps" -> {"rtsps", "rtspEncryption", "rtspCommon", "rtspAddress", "udpReadBufferSize",
                       "rtspUDPReadBufferSize", "writeQueueSize", "multicast", "srtp",
                       "runOnConnect"} \cup Timeouts
    [] r \in {"rtmp", "rtmps"} -> {r, "rtmpEncryption", "rtspAddress", "runOnConnect"} \cup Timeouts
    [] r = "webrtc" -> {"webrtc", "webrtcICEServers2", "udpReadBufferSize"} \cup Timeouts
    [] r = "srt" -> {"srt", "rtspAddress", "udpMaxPayloadSize", "runOnConnect"} \cup Timeouts
    [] OTHER -> {r}

Reloadable(r) == CASE
       r = "authManager" -> {"users"}
    [] r \in {"recordCleaner", "playback", "pathManager"} -> PathSettings
    [] OTHER -> {}

Uses(r) == CASE
       r \in {"metrics", "pprof", "playback"} -> {"authManager"}
    [] r = "pathManager" -> {"authManager", "metrics"}
    [] r \in Servers -> {"metrics", "pathManager"}
    [] r = "api" -> {"authManager", "pathManager"} \cup Servers
    [] OTHER -> {}
-----------------------------------------------------------------------------
(* What closeResources closes when the configuration becomes n. Disabling  *)
(* or enabling a resource changes its settings.                            *)

Differs(n, groups) == \E e \in EditsOf(groups) : e \in conf <=> e \notin n

closeLogger(n) == Differs(n, {"logger"})

closeAuthManager(n) == Differs(n, {"authManager", "readTimeout"})

closeMetrics(n) == Differs(n, {"metrics"} \cup Timeouts) \/ closeAuthManager(n) \/ closeLogger(n)

closePPROF(n) == Differs(n, {"pprof"} \cup Timeouts) \/ closeAuthManager(n) \/ closeLogger(n)

closeRecorderCleaner(n) == Differs(n, {"recordCleaner"}) \/ closeLogger(n)

closePlaybackServer(n) ==
    Differs(n, {"playback"} \cup Timeouts) \/ closeAuthManager(n) \/ closeLogger(n)

(* Mutant: a change of the paths restarts the path manager.                *)
closePathManager_OnPaths(n) ==
    Differs(n, {"logger", "rtspAddress", "writeQueueSize", "udpReadBufferSize", "paths",
                "udpMaxPayloadSize", "rtspEncryption"} \cup Timeouts) \/ closeMetrics(n)

closePathManager(n) ==
    \/ Differs(n, {"logger", "rtspAddress", "writeQueueSize", "udpReadBufferSize",
                   "udpMaxPayloadSize", "rtspEncryption"} \cup Timeouts)
    \/ closeMetrics(n) \/ closeAuthManager(n) \/ closeLogger(n)

(* rtspUDPReadBufferSize is a pointer, and what is compared is where it    *)
(* points to: n is never the object that conf is.                          *)
BufferSizeDiffers(n) == IsSet(conf, "rtspUDPReadBufferSize") \/ IsSet(n, "rtspUDPReadBufferSize")

closeRTSPServer(n) ==
    \/ Differs(n, {"rtsp", "rtspEncryption", "rtspAddress", "rtspCommon", "udpReadBufferSize",
                   "writeQueueSize", "multicast", "runOnConnect"} \cup Timeouts)
    \/ BufferSizeDiffers(n)
    \/ closeMetrics(n) \/ closePathManager(n) \/ closeLogger(n)

closeRTSPSServer(n) ==
    \/ Differs(n, {"rtsps", "rtspEncryption", "rtspAddress", "rtspCommon", "udpReadBufferSize",
                   "writeQueueSize", "runOnConnect"} \cup Timeouts)
    \/ BufferSizeDiffers(n)
    \/ closeMetrics(n) \/ closePathManager(n) \/ closeLogger(n)

closeRTMPServer(n) ==
    \/ Differs(n, {"rtmp", "rtmpEncryption", "rtspAddress", "runOnConnect"} \cup Timeouts)
    \/ closeMetrics(n) \/ closePathManager(n) \/ closeLogger(n)

closeRTMPSServer(n) ==
    \/ Differs(n, {"rtmps", "rtmpEncryption", "rtspAddress", "runOnConnect"} \cup Timeouts)
    \/ closeMetrics(n) \/ closePathManager(n) \/ closeLogger(n)

(* Mutant: the path manager that the HLS server uses is forgotten.         *)
closeHLSServer_PathManagerForgotten(n) ==
    Differs(n, {"hls"} \cup Timeouts) \/ closeMetrics(n) \/ closeLogger(n)

closeHLSServer(n) ==
    Differs(n, {"hls"} \cup Timeouts) \/ closePathManager(n) \/ closeMetrics(n) \/ closeLogger(n)

closeWebRTCServer(n) ==
    \/ Differs(n, {"webrtc", "webrtcICEServers2", "udpReadBufferSize"} \cup Timeouts)
    \/ closeMetrics(n) \/ closePathManager(n) \/ closeLogger(n)

(* Mutant: a setting that is passed is not compared.                       *)
closeSRTServer_HooksForgotten(n) ==
    \/ Differs(n, {"srt", "rtspAddress", "udpMaxPayloadSize"} \cup Timeouts)
    \/ closePathManager(n) \/ closeLogger(n)

closeSRTServer(n) ==
    \/ Differs(n, {"srt", "rtspAddress", "udpMaxPayloadSize", "runOnConnect"} \cup Timeouts)
    \/ closePathManager(n) \/ closeLogger(n)

closeAPI(n) ==
    \/ Differs(n, {"api"} \cup Timeouts)
    \/ closeAuthManager(n) \/ closePathManager(n) \/ closeLogger(n)
    \/ closeRTSPServer(n) \/ closeRTSPSServer(n) \/ closeRTMPServer(n)
    \/ closeHLSServer(n) \/ closeWebRTCServer(n) \/ closeSRTServer(n)

Closes(r, n) == CASE
       r = "logger" -> closeLogger(n)
    [] r = "authManager" -> closeAuthManager(n)
    [] r = "metrics" -> closeMetrics(n)
    [] r = "pprof" -> closePPROF(n)
    [] r = "recordCleaner" -> closeRecorderCleaner(n)
    [] r = "playback" -> closePlaybackServer(n)
    [] r = "pathManager" -> closePathManager(n)
    [] r = "rtsp" -> closeRTSPServer(n)
    [] r = "rtsps" -> closeRTSPSServer(n)
    [] r = "rtmp" -> closeRTMPServer(n)
    [] r = "rtmps" -> closeRTMPSServer(n)
    [] r = "hls" -> closeHLSServer(n)
    [] r = "webrtc" -> closeWebRTCServer(n)
    [] r = "srt" -> closeSRTServer(n)
    [] r = "api" -> closeAPI(n)
-----------------------------------------------------------------------------
(* The order in which createResources creates, and in the reverse of which *)
(* closeResources closes.                                                  *)
Position ==
    [logger |-> 1, authManager |-> 2, metrics |-> 3, pprof |-> 4, recordCleaner |-> 5,
     playback |-> 6, pathManager |-> 7, rtsp |-> 8, rtsps |-> 9, rtmp |-> 10, rtmps |-> 11,
     hls |-> 12, webrtc |-> 13, srt |-> 14, api |-> 15]

Missing == Resources \ (Disabled(conf) \cup live)

(* What r keeps of the resources that changed around it.                   *)
OutdatedWithout(r) ==
    {p \in outdated : p[1] # r} \cup {<<u, r>> : u \in {v \in live \ {r} : r \in Uses(v)}}

OutdatedWith(r) ==
    outdated \cup {<<u, r>> : u \in {v \in live : r \in Uses(v)}}
             \cup {<<r, s>> : s \in Uses(r) \cap Missing}

(* New has created everything, and run starts.                             *)
Init ==
    /\ change \in Combinations
    /\ core = "select"
    /\ ending = FALSE
    /\ conf \in Loaded
    /\ newConf = conf
    /\ calledByAPI = FALSE
    /\ toClose = {}
    /\ live = Resources \ Disabled(conf)
    /\ given = [r \in Resources |-> conf \cap EditsOf(Passed(r))]
    /\ outdated = {}
    /\ apiConf = conf
    /\ handler = [h \in Handlers |-> "idle"]
    /\ sent = [h \in Handlers |-> conf]
-----------------------------------------------------------------------------
(* The handlers of the API. Each computes its configuration from that of   *)
(* the API, under the mutex.                                               *)

Unlocked == \A h \in Handlers : handler[h] # "locked"

Accept(h, c, groups, state) ==
    /\ "api" \in live
    /\ Unlocked
    /\ handler[h] = "idle"
    /\ \A e \in Edits \ (EditsOf(groups) \cup Entries) : e \in c <=> e \in Clone(apiConf)
    /\ IsSet(c, "webrtcICEServers") => MaxEntries \notin apiConf
    /\ apiConf' = c
    /\ handler' = [handler EXCEPT ![h] = state]
    /\ sent' = [sent EXCEPT ![h] = c]
    /\ UNCHANGED <<change, coreVars, resourceVars>>

(* The configuration is sent in a goroutine of its own. The patch may      *)
(* replace the list of ICE servers.                                        *)
onConfigGlobalPatch(h, c) ==
    /\ Accept(h, c, Groups \ PathSettings, "sending")
    /\ Validated(c, apiConf \cap Entries) \/ Validated(c, {})

(* The mutex is held until the core has taken the configuration.           *)
onConfigPaths(h, c) ==
    /\ Accept(h, c, PathSettings, "locked")
    /\ Validated(c, apiConf \cap Entries)

(* p.ctx is done, and with it APIConfigSet.                                *)
GiveUpSending(h) ==
    /\ ending
    /\ handler[h] # "idle"
    /\ handler' = [handler EXCEPT ![h] = "idle"]
    /\ UNCHANGED <<change, coreVars, resourceVars, apiConf, sent>>
-----------------------------------------------------------------------------
(* The core.                                                               *)

(* closeResources passes on what can be changed in place before it closes  *)
(* anything.                                                               *)
ReloadedInPlace(n) ==
    [r \in Resources |->
        LET es == EditsOf(Reloadable(r))
        IN  IF r \in live /\ ~Closes(r, n) THEN (given[r] \ es) \cup (n \cap es) ELSE given[r]]

StartReload(n, byAPI) ==
    /\ core = "select"
    /\ core' = "api"
    /\ newConf' = n
    /\ calledByAPI' = byAPI
    /\ toClose' = {r \in live : Closes(r, n)}
    /\ given' = ReloadedInPlace(n)
    /\ UNCHANGED <<change, ending, conf, live, outdated>>

FileChanged(n) == StartReload(n, FALSE) /\ UNCHANGED apiVars

TakeConf(h) ==
    /\ handler[h] # "idle"
    /\ StartReload(sent[h], TRUE)
    /\ handler' = [handler EXCEPT ![h] = "idle"]
    /\ UNCHANGED <<apiConf, sent>>

Ends(resources) ==
    /\ ending' = TRUE
    /\ toClose' = resources
    /\ live' = resources
    /\ core' = "api"
    /\ UNCHANGED <<change, conf, newConf, calledByAPI, given, outdated, apiVars>>

(* An interrupt, Close, or a file that does not load.                      *)
Shutdown == core = "select" /\ Ends(live)

(* Mutant: a resource is closed and not set to nil where it was scheduled. *)
Remove_StillToClose(r) ==
    /\ live' = live \ {r}
    /\ outdated' = OutdatedWithout(r)
    /\ UNCHANGED <<change, ending, conf, newConf, calledByAPI, toClose, given, apiConf, sent>>

Remove(r) ==
    /\ live' = live \ {r}
    /\ toClose' = toClose \ {r}
    /\ outdated' = OutdatedWithout(r)
    /\ UNCHANGED <<change, ending, conf, newConf, calledByAPI, given, apiConf, sent>>

(* Mutant: closing the API waits for its handlers.                         *)
CloseAPI_WaitsForHandlers ==
    /\ core = "api"
    /\ "api" \in toClose
    /\ \A h \in Handlers : handler[h] = "idle"
    /\ Remove("api")
    /\ core' = "closing"
    /\ UNCHANGED handler

(* Closing the API does not wait for its handlers. Nobody else will ask    *)
(* for the mutex of one that is closed.                                    *)
CloseAPI ==
    /\ core = "api"
    /\ "api" \in toClose
    /\ Remove("api")
    /\ core' = "closing"
    /\ handler' = [h \in Handlers |-> IF handler[h] = "locked" THEN "sending" ELSE handler[h]]

(* api.ReloadConf, which takes the mutex.                                  *)
ReloadAPI ==
    /\ core = "api"
    /\ "api" \in live \ toClose
    /\ ~calledByAPI
    /\ Unlocked
    /\ apiConf' = newConf
    /\ core' = "closing"
    /\ UNCHANGED <<change, ending, conf, newConf, calledByAPI, toClose, resourceVars, handler, sent>>

KeepAPI ==
    /\ core = "api"
    /\ "api" \notin toClose
    /\ calledByAPI \/ "api" \notin live
    /\ core' = "closing"
    /\ UNCHANGED <<change, ending, conf, newConf, calledByAPI, toClose, resourceVars, apiVars>>

Close(r) ==
    /\ core = "closing"
    /\ r \in toClose
    /\ \A q \in toClose : Position[q] <= Position[r]
    /\ Remove(r)
    /\ UNCHANGED <<core, handler>>

AllClosed ==
    /\ core = "closing"
    /\ toClose = {}
    /\ IF ending
       THEN core' = "stopped" /\ UNCHANGED conf
       ELSE core' = "creating" /\ conf' = newConf
    /\ UNCHANGED <<change, ending, newConf, calledByAPI, toClose, resourceVars, apiVars>>

IsNext(r) == r \in Missing /\ \A q \in Missing : Position[r] <= Position[q]

Create(r) ==
    /\ core = "creating"
    /\ IsNext(r)
    /\ live' = live \cup {r}
    /\ given' = [given EXCEPT ![r] = conf \cap EditsOf(Passed(r))]
    /\ outdated' = OutdatedWith(r)
    /\ apiConf' = IF r = "api" THEN conf ELSE apiConf
    /\ UNCHANGED <<change, coreVars, handler, sent>>

(* The logger of before is put back, and everything is closed.             *)
CreateFails(r) ==
    /\ core = "creating"
    /\ IsNext(r)
    /\ r \notin {"authManager", "recordCleaner", "pathManager"}
    /\ Ends(live \cup {"logger"})

AllCreated ==
    /\ core = "creating"
    /\ Missing = {}
    /\ core' = "select"
    /\ UNCHANGED <<change, ending, conf, newConf, calledByAPI, toClose, resourceVars, apiVars>>

CoreSteps ==
    \/ CloseAPI \/ ReloadAPI \/ KeepAPI \/ AllClosed \/ AllCreated
    \/ \E r \in Resources : Close(r) \/ Create(r)

Next ==
    \/ CoreSteps
    \/ Shutdown
    \/ \E n \in Loaded : FileChanged(n)
    \/ \E r \in Resources : CreateFails(r)
    \/ \E h \in Handlers : TakeConf(h) \/ GiveUpSending(h)
    \/ \E h \in Handlers, c \in Confs : onConfigGlobalPatch(h, c) \/ onConfigPaths(h, c)

Spec == Init /\ [][Next]_vars

(* The goroutines go on, and a select does not for ever prefer another     *)
(* case.                                                                   *)
FairSpec ==
    /\ Spec
    /\ WF_vars(CoreSteps)
    /\ \A h \in Handlers : SF_vars(TakeConf(h)) /\ WF_vars(GiveUpSending(h))
-----------------------------------------------------------------------------
(* Properties.                                                             *)

(* Every variable holds a value of its kind, and only what exists is still *)
(* to be closed or outdated.                                               *)
TypeOK ==
    /\ change \in Combinations
    /\ core \in {"select", "api", "closing", "creating", "stopped"}
    /\ ending \in BOOLEAN /\ calledByAPI \in BOOLEAN
    /\ {conf, newConf, apiConf} \subseteq Confs
    /\ toClose \subseteq live /\ live \subseteq Resources
    /\ given \in [Resources -> Confs]
    /\ outdated \subseteq live \X Resources
    /\ handler \in [Handlers -> {"idle", "sending", "locked"}]
    /\ sent \in [Handlers -> Confs]

(* closeAPI does not look at closeRTMPSServer: the API may be left with an *)
(* RTMPS server that is closed.                                            *)
Overlooked == {<<"api", "rtmps">>}

(* Of what createResources passes to the RTSPS server, closeResources does *)
(* not compare these.                                                      *)
Uncompared(r) == IF r = "rtsps" THEN {"srtp", "multicast"} ELSE {}

(* No resource is ever left with another one that has been closed, not     *)
(* even while a reload, a shutdown or one that fails is in progress:       *)
(* closing one closes whoever uses it, before, and nothing is created      *)
(* before what it uses (closeResources, createResources).                  *)
UsersFollow == outdated \subseteq Overlooked

(* When the core is waiting for the next change, the resources that exist  *)
(* are those that the configuration enables, each with the settings of it, *)
(* whether it was created again, reloaded in place or left alone.          *)
SettingsApplied ==
    core = "select" =>
        /\ live = Resources \ Disabled(conf)
        /\ \A r \in live : \A e \in EditsOf(Passed(r) \ Uncompared(r)) : e \in given[r] <=> e \in conf

(* The settings that r and all that it is created from cannot do without   *)
(* being created again, and those that decide whether r exists.            *)
Reach(r) == LET direct == {r} \cup Uses(r)
                below == direct \cup UNION {Uses(s) : s \in direct}
                all == below \cup UNION {Uses(s) : s \in below}
            IN  {r, "logger"} \cup UNION {Passed(s) \ Reloadable(s) : s \in all}

(* A setting of r, or of what it is created from, has changed that cannot  *)
(* be passed on in place; the order of a list only counts in the file.     *)
Asked(r, n) ==
    \E e \in EditsOf(Reach(r)) \ Entries :
        (calledByAPI => ~change[e].orderOnly) /\ (e \in conf <=> e \notin n)

(* What restarts r without being asked to: rtspUDPReadBufferSize, compared *)
(* by pointer; the list of ICE servers, made longer by each change that    *)
(* goes through the API; a list that the clone has in another order.       *)
Unasked(r, n) ==
    \/ r \in {"rtsp", "rtsps", "api"} /\ BufferSizeDiffers(n)
    \/ r \in {"webrtc", "api"} /\ Differs(n, {"webrtcICEServers2"})
    \/ calledByAPI /\ \E e \in EditsOf(Reach(r)) : change[e].orderOnly /\ (e \in conf <=> e \notin n)

(* A reload disconnects no client without need, but for those: it only     *)
(* closes a resource when a setting of it, or of what it is created from,  *)
(* has changed and cannot be passed on in place.                           *)
NoNeedlessRestart ==
    [][\A r \in live \ live' : ending \/ Asked(r, newConf) \/ Unasked(r, newConf)]_vars

(* A handler of the API that hands over a configuration is not left        *)
(* waiting, by reloads, by the restart of the API or by the end of the     *)
(* server, unless a handler holds the mutex.                               *)
SendingEnds ==
    \A h \in Handlers : handler[h] = "sending" ~> (handler[h] # "sending" \/ ~Unlocked)

(* "Changes are detected and applied without disconnecting existing        *)
(* clients" (docs/2-usage/04-configuration.md): a reload that was started  *)
(* ends.                                                                   *)
ReloadEnds == core = "api" ~> core \in {"select", "stopped"}
=============================================================================
