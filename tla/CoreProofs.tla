----------------------------- MODULE CoreProofs -----------------------------
(* Proofs about Core, for every set of edits and whatever they change.       *)
EXTENDS Core, TLAPS

(* When the resource a setting was passed to goes by c.                      *)
Fits(r, c) == \A e \in EditsOf(Passed(r) \ Uncompared(r)) : e \in given[r] <=> e \in c

(* What holds in each phase of a reload: between two of them everything is   *)
(* there and up to date.                                                     *)
IdleInv == core = "select" =>
    /\ live = Resources \ Disabled(conf)
    /\ \A r \in live : Fits(r, conf)

(* While resources are closed, what remains fits the new configuration, and  *)
(* uses nothing that goes or has still to come.                              *)
ClosingInv == core \in {"api", "closing"} =>
    /\ \A u \in live \ toClose : \A r \in Uses(u) \cap toClose : <<u, r>> \in Overlooked
    /\ ~ending => \A u \in live \ toClose :
        /\ Fits(u, newConf)
        /\ u \notin Disabled(newConf)
        /\ \A r \in Uses(u) \ (Disabled(newConf) \cup live) : <<u, r>> \in Overlooked

(* While resources are created, those there use nothing that has still to    *)
(* come.                                                                     *)
CreatingInv == core = "creating" =>
    \A u \in live :
        /\ Fits(u, conf)
        /\ u \notin Disabled(conf)
        /\ \A r \in Uses(u) \ (Disabled(conf) \cup live) : <<u, r>> \in Overlooked

IInv == TypeOK /\ UsersFollow /\ IdleInv /\ ClosingInv /\ CreatingInv
-----------------------------------------------------------------------------
(* The tables of the module: what is used is a resource created before, and  *)
(* another one than what the API overlooks closes whoever uses it.           *)

(* What a resource uses is a resource.                                      *)
LEMMA UsesResources == \A u \in Resources : Uses(u) \subseteq Resources
BY DEF Uses, Resources, Servers

(* Positions are numbers.                                                   *)
LEMMA PositionType == \A r \in Resources : Position[r] \in Nat
BY DEF Position, Resources, Servers

(* What a resource uses is created before it.                               *)
LEMMA UsedBefore == \A u \in Resources : \A r \in Uses(u) : Position[r] < Position[u]
BY DEF Position, Resources, Servers, Uses

(* Which condition is whose.                                                *)
LEMMA ClosesByName ==
    ASSUME NEW n
    PROVE  /\ Closes("logger", n) <=> closeLogger(n)
           /\ Closes("authManager", n) <=> closeAuthManager(n)
           /\ Closes("metrics", n) <=> closeMetrics(n)
           /\ Closes("pprof", n) <=> closePPROF(n)
           /\ Closes("recordCleaner", n) <=> closeRecorderCleaner(n)
           /\ Closes("playback", n) <=> closePlaybackServer(n)
           /\ Closes("pathManager", n) <=> closePathManager(n)
           /\ Closes("rtsp", n) <=> closeRTSPServer(n)
           /\ Closes("rtsps", n) <=> closeRTSPSServer(n)
           /\ Closes("rtmp", n) <=> closeRTMPServer(n)
           /\ Closes("rtmps", n) <=> closeRTMPSServer(n)
           /\ Closes("hls", n) <=> closeHLSServer(n)
           /\ Closes("webrtc", n) <=> closeWebRTCServer(n)
           /\ Closes("srt", n) <=> closeSRTServer(n)
           /\ Closes("api", n) <=> closeAPI(n)
BY DEF Closes

(* Whoever uses what is closed is closed, but for what is overlooked.       *)
LEMMA UsersAreClosed ==
    ASSUME NEW n, NEW u \in Resources, NEW r \in Uses(u), <<u, r>> \notin Overlooked,
           Closes(r, n)
    PROVE  Closes(u, n)
<1>1. CASE u \in {"metrics", "pprof", "playback"}
  BY <1>1, ClosesByName DEF Uses, closeMetrics, closePPROF, closePlaybackServer, Servers
<1>2. CASE u = "pathManager"
  BY <1>2, ClosesByName DEF Uses, closePathManager, Servers
<1>3. CASE u \in Servers
  <2>1. r = "metrics" \/ r = "pathManager"
    BY <1>3 DEF Uses, Servers
  <2>2. closePathManager(n)  \/ closeMetrics(n)
    BY <2>1, ClosesByName
  <2>3. closePathManager(n)
    BY <2>2 DEF closePathManager
  <2> QED
    BY <1>3, <2>3, ClosesByName DEF Servers, closeRTSPServer, closeRTSPSServer, closeRTMPServer,
       closeRTMPSServer, closeHLSServer, closeWebRTCServer, closeSRTServer
<1>4. CASE u = "api"
  <2>1. r \in {"authManager", "pathManager", "rtsp", "rtsps", "rtmp", "hls", "webrtc", "srt"}
    BY <1>4 DEF Uses, Servers, Overlooked
  <2> QED
    BY <1>4, <2>1, ClosesByName DEF closeAPI
<1>5. CASE u \in {"logger", "authManager", "recordCleaner"}
  BY <1>5 DEF Uses, Servers
<1> QED
  BY <1>1, <1>2, <1>3, <1>4, <1>5 DEF Resources

(* A change of a setting that a resource was given, and cannot be told of,   *)
(* closes it.                                                                *)
LEMMA ChangeIsSeen ==
    ASSUME NEW n, NEW G, NEW e \in Edits, change[e].settings \in G, e \in conf <=> e \notin n
    PROVE  Differs(n, G)
BY DEF Differs, EditsOf

(* The size of the buffer differs as well, whatever it is compared by.      *)
LEMMA BufferSizeIsSeen ==
    ASSUME NEW n, NEW e \in Edits, change[e].settings = "rtspUDPReadBufferSize",
           e \in conf <=> e \notin n
    PROVE  BufferSizeDiffers(n)
BY DEF BufferSizeDiffers, IsSet, EditsOf

(* What an edit does is one of the changes.                                 *)
LEMMA ChangesAre ==
    ASSUME TypeOK, NEW e \in Edits
    PROVE  /\ e \notin Entries => change[e] \in AllChanges
           /\ e \in Entries => change[e] = [settings |-> "webrtcICEServers2", disables |-> {},
                                           orderOnly |-> FALSE]
<1>1. PICK f \in [Edits \ (PathsOnly \cup Entries) -> AllChanges] :
        change = [x \in Edits |->
            IF x \in Entries THEN [settings |-> "webrtcICEServers2", disables |-> {},
                                   orderOnly |-> FALSE]
            ELSE IF x \in PathsOnly THEN [settings |-> "paths", disables |-> {}, orderOnly |-> FALSE]
            ELSE f[x]]
  BY DEF TypeOK, Combinations
<1>2. [settings |-> "paths", disables |-> {}, orderOnly |-> FALSE] \in AllChanges
  <2>1. [settings |-> "paths", disables |-> {}] \in Disables
    BY DEF Disables, Groups
  <2>2. Change([settings |-> "paths", disables |-> {}], FALSE)
            = [settings |-> "paths", disables |-> {}, orderOnly |-> FALSE]
    BY DEF Change
  <2> QED
    BY <2>1, <2>2 DEF AllChanges
<1> QED
  BY <1>1, <1>2

(* So every setting that was passed and not in place closes.                *)
LEMMA ChangesClose ==
    ASSUME NEW n, NEW r \in Resources, NEW e \in Edits,
           change[e].settings \in (Passed(r) \ Uncompared(r)) \ Reloadable(r),
           e \in conf <=> e \notin n
    PROVE  Closes(r, n)
<1> DEFINE s == change[e].settings
<1>0. \A G : s \in G => Differs(n, G)
  BY ChangeIsSeen
<1> HIDE DEF s
<1>s. s \in Passed(r) /\ s \notin Uncompared(r) /\ s \notin Reloadable(r)
  BY DEF s
<1>1. CASE r = "logger"
  BY <1>0, <1>s, <1>1, ClosesByName DEF Passed, closeLogger
<1>2. CASE r = "authManager"
  <2>1. s \in {"authManager", "readTimeout"}
    BY <1>s, <1>2 DEF Passed, Reloadable
  <2> QED BY <1>0, <1>2, <2>1, ClosesByName DEF closeAuthManager
<1>3. CASE r \in {"metrics", "pprof", "hls", "api"}
  <2>1. s \in {r} \cup Timeouts
    BY <1>s, <1>3 DEF Passed
  <2> QED
    BY <1>0, <1>3, <2>1, ClosesByName DEF closeMetrics, closePPROF, closeHLSServer, closeAPI
<1>4. CASE r = "recordCleaner"
  BY <1>s, <1>4 DEF Passed, Reloadable
<1>5. CASE r = "playback"
  <2>1. s \in {"playback"} \cup Timeouts
    BY <1>s, <1>5 DEF Passed, Reloadable
  <2> QED BY <1>0, <1>5, <2>1, ClosesByName DEF closePlaybackServer
<1>6. CASE r = "pathManager"
  <2>1. s \in {"logger", "rtspAddress", "writeQueueSize", "udpReadBufferSize",
               "udpMaxPayloadSize", "rtspEncryption"} \cup Timeouts
    BY <1>s, <1>6 DEF Passed, Reloadable
  <2> QED BY <1>0, <1>6, <2>1, ClosesByName DEF closePathManager
<1>7. CASE r = "rtsp"
  <2>1. s \in {"rtsp", "rtspEncryption", "rtspAddress", "rtspCommon", "udpReadBufferSize",
               "writeQueueSize", "multicast", "runOnConnect"} \cup Timeouts
        \/ s = "rtspUDPReadBufferSize"
    BY <1>s, <1>7 DEF Passed
  <2>2. s = "rtspUDPReadBufferSize" => BufferSizeDiffers(n)
    BY BufferSizeIsSeen DEF s
  <2> QED BY <1>0, <1>7, <2>1, <2>2, ClosesByName DEF closeRTSPServer
<1>8. CASE r = "rtsps"
  <2>1. s \in {"rtsps", "rtspEncryption", "rtspAddress", "rtspCommon", "udpReadBufferSize",
               "writeQueueSize", "runOnConnect"} \cup Timeouts
        \/ s = "rtspUDPReadBufferSize"
    BY <1>s, <1>8 DEF Passed, Uncompared
  <2>2. s = "rtspUDPReadBufferSize" => BufferSizeDiffers(n)
    BY BufferSizeIsSeen DEF s
  <2> QED BY <1>0, <1>8, <2>1, <2>2, ClosesByName DEF closeRTSPSServer
<1>9. CASE r \in {"rtmp", "rtmps"}
  <2>1. s \in {r, "rtmpEncryption", "rtspAddress", "runOnConnect"} \cup Timeouts
    BY <1>s, <1>9 DEF Passed
  <2> QED BY <1>0, <1>9, <2>1, ClosesByName DEF closeRTMPServer, closeRTMPSServer
<1>10. CASE r = "webrtc"
  <2>1. s \in {"webrtc", "webrtcICEServers2", "udpReadBufferSize"} \cup Timeouts
    BY <1>s, <1>10 DEF Passed
  <2> QED BY <1>0, <1>10, <2>1, ClosesByName DEF closeWebRTCServer
<1>11. CASE r = "srt"
  <2>1. s \in {"srt", "rtspAddress", "udpMaxPayloadSize", "runOnConnect"} \cup Timeouts
    BY <1>s, <1>11 DEF Passed
  <2> QED BY <1>0, <1>11, <2>1, ClosesByName DEF closeSRTServer
<1> QED
  BY <1>1, <1>2, <1>3, <1>4, <1>5, <1>6, <1>7, <1>8, <1>9, <1>10, <1>11 DEF Resources, Servers

(* So does a change that disables or enables it.                             *)
LEMMA SwitchesClose ==
    ASSUME NEW n, NEW r, NEW e \in Edits, change[e] \in AllChanges, r \in change[e].disables,
           e \in conf <=> e \notin n
    PROVE  Closes(r, n)
<1> DEFINE c == change[e]
<1>0. \A G : c.settings \in G => Differs(n, G)
  BY ChangeIsSeen
<1> HIDE DEF c
<1>s. c \in AllChanges /\ r \in c.disables
  BY DEF c
<1>1. CASE r \in Switchable /\ c.settings = r
  BY <1>0, <1>1, ClosesByName DEF Switchable, closeMetrics, closePPROF, closeRecorderCleaner,
     closePlaybackServer, closeHLSServer, closeWebRTCServer, closeSRTServer, closeAPI
<1>2. CASE r \in {"rtsp", "rtsps"} /\ c.settings \in {"rtspEncryption", "rtspCommon"}
  BY <1>0, <1>2, ClosesByName DEF closeRTSPServer, closeRTSPSServer
<1>3. CASE r \in {"rtmp", "rtmps"} /\ c.settings = "rtmpEncryption"
  BY <1>0, <1>3, ClosesByName DEF closeRTMPServer, closeRTMPSServer
<1>4. PICK d \in Disables : d.settings = c.settings /\ d.disables = c.disables
  <2>1. CASE c \in [settings : WithLists, disables : {{}}, orderOnly : {TRUE}]
    BY <1>s, <2>1
  <2>2. CASE \E d \in Disables : c = Change(d, FALSE)
    BY <2>2 DEF Change
  <2> QED
    BY <1>s, <2>1, <2>2 DEF AllChanges
<1> QED
  BY <1>s, <1>1, <1>2, <1>3, <1>4 DEF Disables
-----------------------------------------------------------------------------
(* Everything is there in the beginning.                                    *)
LEMMA InitInv == Init => IInv
<1> SUFFICES ASSUME Init PROVE IInv
  OBVIOUS
<1>1. TypeOK
  <2>0. conf \in Confs
    BY DEF Init, Loaded
  <2>1. given \in [Resources -> Confs]
    BY <2>0 DEF Init, Confs
  <2>2. handler \in [Handlers -> {"idle", "sending", "locked"}] /\ sent \in [Handlers -> Confs]
    BY <2>0 DEF Init
  <2> QED
    BY <2>0, <2>1, <2>2 DEF Init, TypeOK
<1>2. IdleInv
  BY DEF Init, IdleInv, Fits, EditsOf, Loaded, Confs
<1>3. UsersFollow
  BY DEF Init, UsersFollow
<1>4. ClosingInv /\ CreatingInv
  BY DEF Init, ClosingInv, CreatingInv
<1> QED
  BY <1>1, <1>2, <1>3, <1>4 DEF IInv

(* The handlers of the API touch nothing of the core.                        *)
LEMMA HandlerStep ==
    ASSUME IInv, UNCHANGED <<change, coreVars, resourceVars>>,
           apiConf' \in Confs, sent' \in [Handlers -> Confs],
           handler' \in [Handlers -> {"idle", "sending", "locked"}]
    PROVE  IInv'
<1>1. TypeOK'
  BY DEF IInv, TypeOK, coreVars, resourceVars, Confs
<1>2. UsersFollow' /\ IdleInv' /\ ClosingInv' /\ CreatingInv'
  BY DEF IInv, UsersFollow, IdleInv, ClosingInv, CreatingInv, coreVars, resourceVars, Fits,
     EditsOf, Disabled
<1> QED
  BY <1>1, <1>2 DEF IInv

(* What a reload leaves alone fits the new configuration already, or is told *)
(* of it; and what uses something that changes does not stay.                *)
LEMMA ReloadStep ==
    ASSUME IInv, NEW n \in Confs, NEW b \in BOOLEAN, StartReload(n, b),
           apiConf' \in Confs, sent' \in [Handlers -> Confs],
           handler' \in [Handlers -> {"idle", "sending", "locked"}]
    PROVE  IInv'
<1> USE DEF StartReload
<1>1. TypeOK'
  <2>1. given' \in [Resources -> Confs]
    BY DEF ReloadedInPlace, IInv, TypeOK, Confs
  <2> QED
    BY <2>1 DEF IInv, TypeOK, Confs
<1>2. UsersFollow' /\ IdleInv' /\ CreatingInv'
  BY DEF IInv, UsersFollow, IdleInv, CreatingInv
<1>3. ASSUME NEW u \in live, ~Closes(u, n) PROVE Fits(u, n)'
  <2> SUFFICES ASSUME NEW e \in Edits, change[e].settings \in Passed(u) \ Uncompared(u)
               PROVE  e \in given'[u] <=> e \in n
    BY DEF Fits, EditsOf
  <2>1. u \in Resources /\ (e \in given[u] <=> e \in conf)
    BY DEF IInv, TypeOK, IdleInv, Fits, EditsOf
  <2>2. given'[u] = (given[u] \ EditsOf(Reloadable(u))) \cup (n \cap EditsOf(Reloadable(u)))
    BY <1>3, <2>1 DEF ReloadedInPlace
  <2>3. CASE e \in EditsOf(Reloadable(u))
    BY <2>2, <2>3
  <2>4. CASE e \notin EditsOf(Reloadable(u))
    <3>1. ~(e \in conf <=> e \notin n)
      BY <1>3, <2>1, <2>4, ChangesClose DEF EditsOf
    <3> QED BY <2>1, <2>2, <2>4, <3>1
  <2> QED BY <2>3, <2>4
<1>4. ASSUME NEW e \in Edits, e \in conf <=> e \notin n, NEW r \in change[e].disables
      PROVE  Closes(r, n)
  BY <1>4, SwitchesClose, ChangesAre DEF IInv
<1>5. ASSUME NEW u \in live, ~Closes(u, n) PROVE u \notin Disabled(n)
  <2>1. u \notin Disabled(conf)
    BY DEF IInv, IdleInv
  <2> QED
    BY <1>4, <1>5, <2>1 DEF Disabled, IInv, TypeOK, Confs
<1>6. ASSUME NEW u \in live, ~Closes(u, n), NEW r \in Uses(u) \ (Disabled(n) \cup live)
      PROVE  <<u, r>> \in Overlooked
  <2>1. r \in Disabled(conf)
    BY UsesResources DEF IInv, IdleInv, TypeOK
  <2>2. Closes(r, n)
    BY <1>4, <1>6, <2>1 DEF Disabled, IInv, TypeOK, Confs
  <2> QED
    BY <1>6, <2>2, UsersAreClosed DEF IInv, TypeOK
<1>7. ASSUME NEW u \in live, ~Closes(u, n), NEW r \in Uses(u), r \in toClose'
      PROVE  <<u, r>> \in Overlooked
  BY <1>7, UsersAreClosed DEF IInv, TypeOK
<1>8. ClosingInv'
  <2>1. Disabled(n)' = Disabled(n)
    BY DEF Disabled
  <2>2. live' \ toClose' = {u \in live : ~Closes(u, n)}
    OBVIOUS
  <2> QED
    BY <1>3, <1>5, <1>6, <1>7, <2>1, <2>2 DEF ClosingInv
<1> QED
  BY <1>1, <1>2, <1>8 DEF IInv

(* Whatever was created, everything is closed in the end.                    *)
LEMMA EndsStep ==
    ASSUME IInv, NEW resources \in SUBSET Resources, live \subseteq resources, Ends(resources)
    PROVE  IInv'
<1> USE DEF Ends
<1>1. TypeOK'
  BY DEF IInv, TypeOK, apiVars
<1>2. UsersFollow' /\ IdleInv' /\ ClosingInv' /\ CreatingInv'
  BY DEF IInv, UsersFollow, IdleInv, ClosingInv, CreatingInv
<1> QED
  BY <1>1, <1>2 DEF IInv

(* Resources are closed after all that use them.                             *)
LEMMA RemoveStep ==
    ASSUME IInv, core \in {"api", "closing"}, NEW r \in toClose, Remove(r), core' = "closing",
           \A q \in toClose : r \notin Uses(q),
           handler' \in [Handlers -> {"idle", "sending", "locked"}]
    PROVE  IInv'
<1> USE DEF Remove
<1>1. TypeOK'
  <2>1. outdated' \subseteq live' \X Resources
    BY DEF OutdatedWithout, IInv, TypeOK
  <2> QED
    BY <2>1 DEF IInv, TypeOK
<1>2. UsersFollow'
  <2>1. ASSUME NEW u \in live \ {r}, r \in Uses(u) PROVE <<u, r>> \in Overlooked
    BY <2>1 DEF IInv, ClosingInv
  <2> QED
    BY <2>1 DEF OutdatedWithout, UsersFollow, IInv
<1>3. ClosingInv'
  <2>1. live' \ toClose' = live \ toClose
    BY DEF IInv, TypeOK
  <2>2. \A u : Fits(u, newConf)' <=> Fits(u, newConf)
    BY DEF Fits, EditsOf
  <2>3. Disabled(newConf)' = Disabled(newConf)
    BY DEF Disabled
  <2>4. \A u \in live \ toClose : \A q \in Uses(u) \cap toClose : <<u, q>> \in Overlooked
    BY DEF IInv, ClosingInv
  <2> QED
    BY <2>1, <2>2, <2>3, <2>4 DEF IInv, ClosingInv
<1>4. IdleInv' /\ CreatingInv'
  BY DEF IdleInv, CreatingInv
<1> QED
  BY <1>1, <1>2, <1>3, <1>4 DEF IInv

(* The steps in which the core closes.                                       *)
LEMMA ClosingStep ==
    ASSUME IInv, CloseAPI \/ ReloadAPI \/ KeepAPI \/ AllClosed \/ (\E r \in Resources : Close(r))
    PROVE  IInv'
<1>1. CASE CloseAPI
  <2>1. \A q \in toClose : "api" \notin Uses(q)
    BY DEF Uses, Servers
  <2> QED
    BY <1>1, <2>1, RemoveStep DEF CloseAPI, IInv, TypeOK
<1>2. CASE ReloadAPI \/ KeepAPI
  <2> USE <1>2 DEF ReloadAPI, KeepAPI, resourceVars, apiVars
  <2>1. TypeOK'
    BY DEF IInv, TypeOK
  <2>2. UsersFollow' /\ IdleInv' /\ ClosingInv' /\ CreatingInv'
    BY DEF IInv, UsersFollow, IdleInv, ClosingInv, CreatingInv, Fits, EditsOf, Disabled
  <2> QED
    BY <2>1, <2>2 DEF IInv
<1>3. CASE AllClosed
  <2> USE <1>3 DEF AllClosed, resourceVars, apiVars
  <2>1. TypeOK'
    BY DEF IInv, TypeOK
  <2>2. UsersFollow' /\ IdleInv' /\ ClosingInv'
    BY DEF IInv, UsersFollow, IdleInv, ClosingInv
  <2>3. CreatingInv'
    <3> SUFFICES ASSUME core' = "creating" PROVE CreatingInv'
      BY DEF CreatingInv
    <3>1. ~ending /\ conf' = newConf /\ live' = live /\ live = live \ toClose
      OBVIOUS
    <3>2. \A u \in live :
            /\ Fits(u, newConf)
            /\ u \notin Disabled(newConf)
            /\ \A r \in Uses(u) \ (Disabled(newConf) \cup live) : <<u, r>> \in Overlooked
      BY <3>1 DEF IInv, ClosingInv
    <3>3. Disabled(conf)' = Disabled(newConf) /\ \A u : Fits(u, conf)' <=> Fits(u, newConf)
      BY <3>1 DEF Disabled, Fits, EditsOf
    <3> QED
      BY <3>1, <3>2, <3>3 DEF CreatingInv
  <2> QED
    BY <2>1, <2>2, <2>3 DEF IInv
<1>4. ASSUME NEW r \in Resources, Close(r) PROVE IInv'
  <2>1. ASSUME NEW q \in toClose, r \in Uses(q) PROVE FALSE
    <3>1. q \in Resources /\ Position[q] <= Position[r] /\ Position[r] < Position[q]
      BY <1>4, <2>1, UsedBefore DEF Close, IInv, TypeOK
    <3> QED
      BY <3>1, PositionType
  <2> QED
    BY <1>4, <2>1, RemoveStep DEF Close, IInv, TypeOK
<1> QED
  BY <1>1, <1>2, <1>3, <1>4

(* Resources are created after all that they use.                            *)
LEMMA CreateStep ==
    ASSUME IInv, NEW r \in Resources, Create(r)
    PROVE  IInv'
<1> USE DEF Create
<1>1. r \notin live /\ r \notin Disabled(conf)
  BY DEF IsNext, Missing
<1>2. \A s \in Uses(r) : s \notin Missing
  <2> SUFFICES ASSUME NEW s \in Uses(r), s \in Missing PROVE FALSE
    OBVIOUS
  <2>1. s \in Resources /\ Position[r] <= Position[s] /\ Position[s] < Position[r]
    BY UsedBefore, UsesResources DEF IsNext
  <2> QED
    BY <2>1, PositionType
<1>3. TypeOK'
  <2>1. given' \in [Resources -> Confs] /\ apiConf' \in Confs
    BY DEF IInv, TypeOK, Confs
  <2>2. outdated' \subseteq live' \X Resources
    BY UsesResources DEF OutdatedWith, IInv, TypeOK
  <2> QED
    BY <2>1, <2>2 DEF IInv, TypeOK, coreVars, Confs
<1>4. UsersFollow'
  <2>1. ASSUME NEW u \in live, r \in Uses(u) PROVE <<u, r>> \in Overlooked
    BY <1>1, <2>1 DEF IInv, CreatingInv
  <2> QED
    BY <1>2, <2>1 DEF OutdatedWith, UsersFollow, IInv
<1>5. CreatingInv'
  <2>1. Disabled(conf)' = Disabled(conf)
    BY DEF Disabled, coreVars
  <2>2. ASSUME NEW u \in live
        PROVE /\ Fits(u, conf)'
              /\ u \notin Disabled(conf)
              /\ \A s \in Uses(u) \ (Disabled(conf) \cup live') : <<u, s>> \in Overlooked
    <3>1. u # r /\ given'[u] = given[u]
      BY <1>1 DEF IInv, TypeOK
    <3>2. Fits(u, conf)' <=> Fits(u, conf)
      BY <3>1 DEF Fits, EditsOf, coreVars
    <3> QED
      BY <3>2 DEF IInv, CreatingInv
  <2>3. Fits(r, conf)'
    <3>1. given'[r] = conf \cap EditsOf(Passed(r))
      BY DEF IInv, TypeOK
    <3> QED
      BY <3>1 DEF Fits, EditsOf, coreVars
  <2>4. \A s \in Uses(r) \ (Disabled(conf) \cup live') : FALSE
    BY <1>2, UsesResources DEF Missing
  <2> QED
    BY <1>1, <2>1, <2>2, <2>3, <2>4 DEF CreatingInv
<1>6. IdleInv' /\ ClosingInv'
  BY DEF IdleInv, ClosingInv, coreVars
<1> QED
  BY <1>3, <1>4, <1>5, <1>6 DEF IInv

(* Nothing is missing when the core waits for the next change again.         *)
LEMMA CreatedStep ==
    ASSUME IInv, AllCreated
    PROVE  IInv'
<1> USE DEF AllCreated, resourceVars, apiVars
<1>1. TypeOK'
  BY DEF IInv, TypeOK
<1>2. UsersFollow' /\ ClosingInv' /\ CreatingInv'
  BY DEF IInv, UsersFollow, ClosingInv, CreatingInv
<1>3. IdleInv'
  <2>1. live = Resources \ Disabled(conf)
    BY DEF Missing, IInv, TypeOK, CreatingInv
  <2>2. \A u \in live : Fits(u, conf)
    BY DEF IInv, CreatingInv
  <2> QED
    BY <2>1, <2>2 DEF IdleInv, Fits, EditsOf, Disabled
<1> QED
  BY <1>1, <1>2, <1>3 DEF IInv

(* No step breaks the invariant.                                            *)
LEMMA StepInv == IInv /\ [Next]_vars => IInv'
<1> SUFFICES ASSUME IInv, [Next]_vars PROVE IInv'
  OBVIOUS
<1> USE DEF IInv, TypeOK
<1>1. CASE CoreSteps
  BY <1>1, ClosingStep, CreateStep, CreatedStep DEF CoreSteps
<1>2. CASE Shutdown
  BY <1>2, EndsStep DEF Shutdown
<1>3. ASSUME NEW n \in Loaded, FileChanged(n) PROVE IInv'
  BY <1>3, ReloadStep DEF FileChanged, apiVars, Confs, Loaded
<1>4. ASSUME NEW r \in Resources, CreateFails(r) PROVE IInv'
  <2>1. live \cup {"logger"} \in SUBSET Resources
    BY DEF Resources
  <2> QED
    BY <1>4, <2>1, EndsStep DEF CreateFails
<1>5. ASSUME NEW h \in Handlers, TakeConf(h) PROVE IInv'
  <2>1. sent[h] \in Confs /\ UNCHANGED <<apiConf, sent>> /\ StartReload(sent[h], TRUE)
    BY <1>5 DEF TakeConf
  <2>2. handler' \in [Handlers -> {"idle", "sending", "locked"}]
    BY <1>5 DEF TakeConf
  <2>3. apiConf \in Confs
    BY DEF Confs
  <2> QED
    BY <2>1, <2>2, <2>3, ReloadStep
<1>6. ASSUME NEW h \in Handlers, GiveUpSending(h) PROVE IInv'
  <2>1. apiConf \in Confs
    BY DEF Confs
  <2> QED
    BY <1>6, <2>1, HandlerStep DEF GiveUpSending
<1>7. ASSUME NEW h \in Handlers, NEW c \in Confs, onConfigGlobalPatch(h, c) \/ onConfigPaths(h, c)
      PROVE  IInv'
  BY <1>7, HandlerStep DEF onConfigGlobalPatch, onConfigPaths, Accept
<1>8. CASE UNCHANGED vars
  <2>1. apiConf \in Confs
    BY DEF Confs
  <2> QED
    BY <1>8, <2>1, HandlerStep DEF vars, apiVars
<1> QED
  BY <1>1, <1>2, <1>3, <1>4, <1>5, <1>6, <1>7, <1>8 DEF Next

(* It always holds.                                                         *)
LEMMA InvAlways == Spec => []IInv
BY InitInv, StepInv, PTL DEF Spec
-----------------------------------------------------------------------------
(* What r is created from, directly or not.                                  *)
Below(r) == LET direct == {r} \cup Uses(r)
                below == direct \cup UNION {Uses(s) : s \in direct}
            IN  below \cup UNION {Uses(s) : s \in below}

(* Reach has of all of them what cannot be passed on in place.               *)
LEMMA ReachHas ==
    ASSUME NEW r
    PROVE  /\ r \in Reach(r) /\ "logger" \in Reach(r)
           /\ \A s \in Below(r) : Passed(s) \ Reloadable(s) \subseteq Reach(r)
BY DEF Reach, Below

(* What differs in some settings differs in more of them.                    *)
LEMMA DiffersMore ==
    ASSUME NEW n, NEW G, NEW H, G \subseteq H, Differs(n, G)
    PROVE  Differs(n, H)
BY DEF Differs, EditsOf

(* What the conditions compare of the resources that others use is what      *)
(* these are given.                                                          *)
LEMMA UsedCloses ==
    ASSUME NEW n, NEW r
    PROVE  /\ closeLogger(n) => Differs(n, Reach(r))
           /\ "authManager" \in Below(r) /\ closeAuthManager(n) => Differs(n, Reach(r))
           /\ {"authManager", "metrics"} \subseteq Below(r) /\ closeMetrics(n)
                 => Differs(n, Reach(r))
           /\ {"authManager", "metrics", "pathManager"} \subseteq Below(r) /\ closePathManager(n)
                 => Differs(n, Reach(r))
<1>1. closeLogger(n) => Differs(n, Reach(r))
  <2>1. {"logger"} \subseteq Reach(r)
    BY ReachHas
  <2> QED
    BY <2>1, DiffersMore DEF closeLogger
<1>2. "authManager" \in Below(r) /\ closeAuthManager(n) => Differs(n, Reach(r))
  <2>1. Passed("authManager") \ Reloadable("authManager") = {"authManager", "readTimeout"}
    BY DEF Passed, Reloadable
  <2>2. "authManager" \in Below(r) => {"authManager", "readTimeout"} \subseteq Reach(r)
    BY <2>1, ReachHas
  <2> QED
    BY <2>2, DiffersMore DEF closeAuthManager
<1>3. {"authManager", "metrics"} \subseteq Below(r) /\ closeMetrics(n) => Differs(n, Reach(r))
  <2>1. Passed("metrics") \ Reloadable("metrics") = {"metrics"} \cup Timeouts
    BY DEF Passed, Reloadable
  <2>2. "metrics" \in Below(r) => {"metrics"} \cup Timeouts \subseteq Reach(r)
    BY <2>1, ReachHas
  <2> QED
    BY <1>1, <1>2, <2>2, DiffersMore DEF closeMetrics
<1>4. {"authManager", "metrics", "pathManager"} \subseteq Below(r) /\ closePathManager(n)
         => Differs(n, Reach(r))
  <2> DEFINE compared == {"logger", "rtspAddress", "writeQueueSize", "udpReadBufferSize",
                          "udpMaxPayloadSize", "rtspEncryption"} \cup Timeouts
  <2>1. compared \subseteq Passed("pathManager") \ Reloadable("pathManager")
    BY DEF Passed, Reloadable, PathSettings, Timeouts
  <2>2. "pathManager" \in Below(r) => compared \subseteq Reach(r)
    BY <2>1, ReachHas
  <2>3. "pathManager" \in Below(r) /\ Differs(n, compared) => Differs(n, Reach(r))
    BY <2>2, DiffersMore
  <2> QED
    BY <1>1, <1>2, <1>3, <2>3 DEF closePathManager
<1> QED
  BY <1>1, <1>2, <1>3, <1>4

(* A server is closed for a setting of its own, or of what it uses, or for   *)
(* the size of the buffer that is compared by pointer.                       *)
LEMMA ServerCloses ==
    ASSUME NEW n, NEW s \in Servers, NEW r,
           {"authManager", "metrics", "pathManager", s} \subseteq Below(r), Closes(s, n)
    PROVE  Differs(n, Reach(r)) \/ (s \in {"rtsp", "rtsps"} /\ BufferSizeDiffers(n))
<1>1. closeLogger(n) \/ closeMetrics(n) \/ closePathManager(n) => Differs(n, Reach(r))
  BY UsedCloses
<1>2. ASSUME NEW G, Differs(n, G), G \subseteq Passed(s)
      PROVE  Differs(n, Reach(r))
  <2>1. Reloadable(s) = {}
    BY DEF Reloadable, Servers
  <2>2. G \subseteq Reach(r)
    BY <1>2, <2>1, ReachHas
  <2> QED
    BY <1>2, <2>2, DiffersMore
<1>3. CASE s = "rtsp"
  BY <1>1, <1>2, <1>3, ClosesByName DEF closeRTSPServer, Passed
<1>4. CASE s = "rtsps"
  <2> DEFINE compared == {"rtsps", "rtspEncryption", "rtspAddress", "rtspCommon",
                          "udpReadBufferSize", "writeQueueSize", "runOnConnect"} \cup Timeouts
  <2>1. compared \subseteq Passed(s)
    BY <1>4 DEF Passed
  <2>2. Differs(n, compared) => Differs(n, Reach(r))
    BY <1>2, <2>1
  <2> QED
    BY <1>1, <1>4, <2>2, ClosesByName DEF closeRTSPSServer
<1>5. CASE s \in {"rtmp", "rtmps"}
  BY <1>1, <1>2, <1>5, ClosesByName DEF closeRTMPServer, closeRTMPSServer, Passed
<1>6. CASE s = "hls"
  BY <1>1, <1>2, <1>6, ClosesByName DEF closeHLSServer, Passed
<1>7. CASE s \in {"webrtc", "srt"}
  BY <1>1, <1>2, <1>7, ClosesByName DEF closeWebRTCServer, closeSRTServer, Passed
<1> QED
  BY <1>3, <1>4, <1>5, <1>6, <1>7 DEF Servers

(* Whatever closes a resource is a change that it, or what it is created     *)
(* from, cannot be told of, or the size of that buffer.                      *)
LEMMA ClosesWithNeed ==
    ASSUME NEW n, NEW r \in Resources, Closes(r, n)
    PROVE  \/ Differs(n, Reach(r))
           \/ r \in {"rtsp", "rtsps", "api"} /\ BufferSizeDiffers(n)
<1>1. /\ r \in Below(r) /\ Uses(r) \subseteq Below(r)
      /\ \A s \in Uses(r) : Uses(s) \subseteq Below(r)
  BY DEF Below
<1>2. Uses("pathManager") = {"authManager", "metrics"}
  BY DEF Uses, Servers
<1>3. ASSUME NEW G, Differs(n, G), G \subseteq Passed(r) \ Reloadable(r)
      PROVE  Differs(n, Reach(r))
  <2>1. G \subseteq Reach(r)
    BY <1>1, <1>3, ReachHas
  <2> QED
    BY <1>3, <2>1, DiffersMore
<1>4. CASE r = "logger"
  BY <1>4, ClosesByName, UsedCloses
<1>5. CASE r = "authManager"
  BY <1>1, <1>5, ClosesByName, UsedCloses
<1>6. CASE r \in {"metrics", "pprof"}
  <2>1. "authManager" \in Below(r) /\ {r} \cup Timeouts \subseteq Passed(r) \ Reloadable(r)
    BY <1>1, <1>6 DEF Uses, Servers, Passed, Reloadable
  <2> QED
    BY <1>3, <1>6, <2>1, ClosesByName, UsedCloses DEF closeMetrics, closePPROF
<1>7. CASE r = "recordCleaner"
  <2>1. {"recordCleaner"} \subseteq Reach(r)
    BY <1>7, ReachHas
  <2> QED
    BY <1>7, <2>1, ClosesByName, UsedCloses, DiffersMore DEF closeRecorderCleaner
<1>8. CASE r = "playback"
  <2>1. /\ "authManager" \in Below(r)
        /\ {"playback"} \cup Timeouts \subseteq Passed(r) \ Reloadable(r)
    BY <1>1, <1>8 DEF Uses, Servers, Passed, Reloadable, PathSettings, Timeouts
  <2> QED
    BY <1>3, <1>8, <2>1, ClosesByName, UsedCloses DEF closePlaybackServer
<1>9. CASE r = "pathManager"
  <2>1. {"authManager", "metrics", "pathManager"} \subseteq Below(r)
    BY <1>1, <1>2, <1>9
  <2> QED
    BY <1>9, <2>1, ClosesByName, UsedCloses
<1>10. CASE r \in Servers
  <2>1. Uses(r) = {"metrics", "pathManager"}
    BY <1>10 DEF Uses, Servers
  <2>2. {"authManager", "metrics", "pathManager", r} \subseteq Below(r)
    BY <1>1, <1>2, <2>1
  <2> QED
    BY <1>10, <2>2, ServerCloses
<1>11. CASE r = "api"
  <2>1. Uses(r) = {"authManager", "pathManager"} \cup Servers
    BY <1>11 DEF Uses, Servers
  <2>2. {"authManager", "metrics", "pathManager"} \cup Servers \subseteq Below(r)
    BY <1>1, <1>2, <2>1
  <2>3. \A s \in Servers : Closes(s, n) => Differs(n, Reach(r)) \/ BufferSizeDiffers(n)
    BY <2>2, ServerCloses
  <2>4. Differs(n, {"api"} \cup Timeouts) => Differs(n, Reach(r))
    <3>1. {"api"} \cup Timeouts \subseteq Passed(r) \ Reloadable(r)
      BY <1>11 DEF Passed, Reloadable
    <3> QED
      BY <1>3, <3>1
  <2>5. closeAuthManager(n) \/ closePathManager(n) \/ closeLogger(n) => Differs(n, Reach(r))
    BY <2>2, UsedCloses
  <2> QED
    BY <1>11, <2>3, <2>4, <2>5, ClosesByName DEF closeAPI, Servers
<1> QED
  BY <1>4, <1>5, <1>6, <1>7, <1>8, <1>9, <1>10, <1>11 DEF Resources

(* Only the WebRTC server, and with it the API, is given the list of ICE     *)
(* servers.                                                                  *)
LEMMA ListReaches ==
    ASSUME NEW r \in Resources, "webrtcICEServers2" \in Reach(r)
    PROVE  r \in {"webrtc", "api"}
<1>1. \A s : "webrtcICEServers2" \in Passed(s) => s \in {"webrtc", "webrtcICEServers2"}
  BY DEF Passed, PathSettings, Timeouts
<1>2. "webrtcICEServers2" \notin Resources
  BY DEF Resources, Servers
<1>3. \A u \in Resources : ("webrtc" \in Uses(u) => u = "api") /\ "api" \notin Uses(u)
  BY DEF Uses, Servers
<1>4. Below(r) \subseteq Resources
  BY UsesResources DEF Below
<1>5. PICK s \in Below(r) : "webrtcICEServers2" \in Passed(s)
  BY <1>2 DEF Reach, Below
<1>6. s = "webrtc"
  BY <1>1, <1>2, <1>4, <1>5
<1> QED
  BY <1>3, <1>5, <1>6, UsesResources DEF Below

(* A reload closes what a change in its beginning made it close: the         *)
(* configuration of before is in force until everything is closed.           *)
NeedInv ==
    core \in {"api", "closing"} /\ ~ending =>
        \A r \in toClose : Asked(r, newConf) \/ Unasked(r, newConf)

(* No step breaks it.                                                        *)
LEMMA NeedStep == TypeOK /\ NeedInv /\ [Next]_vars => NeedInv'
<1> SUFFICES ASSUME TypeOK, NeedInv, [Next]_vars PROVE NeedInv'
  OBVIOUS
<1>0. ASSUME NEW r, UNCHANGED <<change, conf, newConf, calledByAPI>>
      PROVE  /\ Asked(r, newConf) => Asked(r, newConf)'
             /\ Unasked(r, newConf) => Unasked(r, newConf)'
  <2>1. \A G : EditsOf(G)' = EditsOf(G)
    BY <1>0 DEF EditsOf
  <2>2. BufferSizeDiffers(newConf) => BufferSizeDiffers(newConf)'
    BY <1>0, <2>1 DEF BufferSizeDiffers, IsSet
  <2>3. Differs(newConf, {"webrtcICEServers2"}) => Differs(newConf, {"webrtcICEServers2"})'
    BY <1>0, <2>1 DEF Differs
  <2>4. Asked(r, newConf) => Asked(r, newConf)'
    BY <1>0, <2>1 DEF Asked
  <2> QED
    BY <1>0, <2>1, <2>2, <2>3, <2>4 DEF Unasked
<1>1. ASSUME NEW n, NEW b, StartReload(n, b) PROVE NeedInv'
  <2> SUFFICES ASSUME NEW r \in toClose' PROVE Asked(r, newConf)' \/ Unasked(r, newConf)'
    BY DEF NeedInv
  <2>0. r \in Resources /\ Closes(r, n) /\ UNCHANGED <<change, conf>> /\ newConf' = n
    BY <1>1 DEF StartReload, TypeOK
  <2>1. \A G : EditsOf(G)' = EditsOf(G)
    BY <2>0 DEF EditsOf
  <2>2. CASE r \in {"rtsp", "rtsps", "api"} /\ BufferSizeDiffers(n)
    <3>1. BufferSizeDiffers(newConf)'
      BY <2>0, <2>1, <2>2 DEF BufferSizeDiffers, IsSet
    <3> QED
      BY <2>2, <3>1 DEF Unasked
  <2>3. CASE Differs(n, Reach(r))
    <3>1. PICK e \in EditsOf(Reach(r)) : e \in conf <=> e \notin n
      BY <2>3 DEF Differs
    <3>2. e \in Edits /\ change[e].settings \in Reach(r) /\ e \in EditsOf(Reach(r))'
      BY <2>1 DEF EditsOf
    <3>3. e \in conf' <=> e \notin newConf'
      BY <2>0, <3>1
    <3>4. CASE e \in Entries
      <4>1. change[e].settings = "webrtcICEServers2"
        BY <3>2, <3>4, ChangesAre
      <4>2. Differs(newConf, {"webrtcICEServers2"})'
        BY <2>0, <3>2, <3>3, <4>1 DEF Differs, EditsOf
      <4> QED
        BY <2>0, <3>2, <4>1, <4>2, ListReaches DEF Unasked
    <3>5. CASE e \notin Entries /\ (calledByAPI' => ~change'[e].orderOnly)
      BY <3>2, <3>3, <3>5 DEF Asked
    <3>6. CASE calledByAPI' /\ change'[e].orderOnly
      BY <3>2, <3>3, <3>6 DEF Unasked
    <3> QED
      BY <3>4, <3>5, <3>6
  <2> QED
    BY <2>0, <2>2, <2>3, ClosesWithNeed
<1>2. CASE UNCHANGED <<change, ending, conf, newConf, calledByAPI>> /\ toClose' \subseteq toClose
           /\ (core' \in {"api", "closing"} => core \in {"api", "closing"})
  BY <1>0, <1>2 DEF NeedInv
<1>3. CASE CloseAPI \/ ReloadAPI \/ KeepAPI \/ AllClosed \/ AllCreated
           \/ \E r \in Resources : Close(r) \/ Create(r)
  <2>1. CASE CloseAPI \/ \E r \in Resources : Close(r)
    BY <1>2, <2>1 DEF CloseAPI, Close, Remove
  <2>2. CASE ReloadAPI \/ KeepAPI \/ \E r \in Resources : Create(r)
    BY <1>2, <2>2 DEF ReloadAPI, KeepAPI, Create, coreVars
  <2>3. CASE AllClosed \/ AllCreated
    BY <2>3 DEF AllClosed, AllCreated, NeedInv
  <2> QED
    BY <1>3, <2>1, <2>2, <2>3
<1>4. CASE Shutdown \/ \E r \in Resources : CreateFails(r)
  BY <1>4 DEF Shutdown, CreateFails, Ends, NeedInv
<1>5. CASE (\E n \in Loaded : FileChanged(n)) \/ \E h \in Handlers : TakeConf(h)
  BY <1>1, <1>5 DEF FileChanged, TakeConf
<1>6. CASE \/ \E h \in Handlers : GiveUpSending(h)
           \/ \E h \in Handlers, c \in Confs : onConfigGlobalPatch(h, c) \/ onConfigPaths(h, c)
           \/ UNCHANGED vars
  BY <1>2, <1>6 DEF GiveUpSending, onConfigGlobalPatch, onConfigPaths, Accept, vars, coreVars
<1> QED
  BY <1>3, <1>4, <1>5, <1>6 DEF Next, CoreSteps

-----------------------------------------------------------------------------
(* The types hold whatever the edits are and change.                         *)
THEOREM TypeCorrect == Spec => []TypeOK
<1>1. IInv => TypeOK
  BY DEF IInv
<1> QED
  BY <1>1, InvAlways, PTL

(* Nobody is left with a resource that has been closed, but for the API with *)
(* its RTMPS server (closeResources, core.go:699-1029).                      *)
THEOREM UsersAlwaysFollow == Spec => []UsersFollow
<1>1. IInv => UsersFollow
  BY DEF IInv
<1> QED
  BY <1>1, InvAlways, PTL

(* Whatever changes together, once it is applied every resource that is      *)
(* enabled is there and has the settings in force (core.go:1031-1049).       *)
THEOREM SettingsAlwaysApplied == Spec => []SettingsApplied
<1>1. IInv => SettingsApplied
  BY DEF IInv, IdleInv, SettingsApplied, Fits
<1> QED
  BY <1>1, InvAlways, PTL

(* A reload closes no resource, and so disconnects no client of it, unless a *)
(* setting changed that it, or what it was created from, cannot be told of   *)
(* in place, or for one of the three reasons that nobody asked for: a buffer *)
(* size compared by pointer, a list of ICE servers that every change through *)
(* the API makes longer, a list that a clone puts in order (closeResources,  *)
(* core.go:699-998; Conf.Clone and Validate, conf.go:502, 745).              *)
THEOREM NeverNeedless == Spec => NoNeedlessRestart
<1>1. Init => NeedInv
  BY DEF Init, NeedInv
<1>2. Spec => []NeedInv
  <2>1. IInv => TypeOK
    BY DEF IInv
  <2> QED
    BY <1>1, <2>1, InvAlways, NeedStep, PTL DEF Spec
<1>3. ASSUME TypeOK, NeedInv, [Next]_vars, NEW r \in live \ live'
      PROVE  ending \/ Asked(r, newConf) \/ Unasked(r, newConf)
  <2>1. core \in {"api", "closing"} /\ r \in toClose
    <3>1. CASE CloseAPI \/ \E q \in Resources : Close(q)
      BY <1>3, <3>1 DEF CloseAPI, Close, Remove
    <3>2. CASE AllClosed \/ AllCreated \/ ReloadAPI \/ KeepAPI \/ \E q \in Resources : Create(q)
      BY <1>3, <3>2 DEF AllClosed, AllCreated, ReloadAPI, KeepAPI, Create, resourceVars
    <3>3. CASE Shutdown \/ \E q \in Resources : CreateFails(q)
      BY <1>3, <3>3 DEF Shutdown, CreateFails, Ends
    <3>4. CASE \/ \E n \in Loaded : FileChanged(n)
               \/ \E h \in Handlers : TakeConf(h) \/ GiveUpSending(h)
      BY <1>3, <3>4 DEF FileChanged, TakeConf, StartReload, GiveUpSending, resourceVars
    <3>5. CASE \/ \E h \in Handlers, c \in Confs :
                     onConfigGlobalPatch(h, c) \/ onConfigPaths(h, c)
               \/ UNCHANGED vars
      BY <1>3, <3>5 DEF onConfigGlobalPatch, onConfigPaths, Accept, vars, resourceVars
    <3> QED
      BY <1>3, <3>1, <3>2, <3>3, <3>4, <3>5 DEF Next, CoreSteps
  <2> QED
    BY <1>3, <2>1 DEF NeedInv
<1>4. TypeOK /\ NeedInv /\ [Next]_vars =>
         [\A r \in live \ live' : ending \/ Asked(r, newConf) \/ Unasked(r, newConf)]_vars
  BY <1>3
<1>5. IInv => TypeOK
  BY DEF IInv
<1> QED
  BY <1>2, <1>4, <1>5, InvAlways, PTL DEF Spec, NoNeedlessRestart
=============================================================================
