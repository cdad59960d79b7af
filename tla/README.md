# Verification of mmx

TLA+ models of mmx, a media server written in Go: how paths come and go, who
publishes to them and reads from them, how sources are started, retried and
stopped, how changes of the configuration are applied while clients are connected,
what the protocol servers do with their clients, and what becomes of the media: the
way from writer to reader, the recording and what is played back of it. TLC checks
the models on small instances; for the properties of the control part TLAPS checks
proofs that hold for every value of the constants.

Contents:

1. [The system](#the-system)
2. [Modules](#modules)
3. [Runs](#runs)
4. [Proofs](#proofs)
5. [Where documentation and code disagree](#where-documentation-and-code-disagree)
6. [What is not modelled](#what-is-not-modelled)
7. [Plan](#plan)

Source locations are relative to `src/`; a file named without a directory is in
`internal/core`.

## The system

### Components

| component | state | operations | talks to |
|---|---|---|---|
| core (`core.go`) | the configuration, one pointer per resource | create all, close and create what a change concerns, shut down | every resource; file watcher and Control API over channels |
| path manager (`path_manager.go`) | the path configurations, the map of paths with a ready flag each, the HLS server | route a request to a path (creating it), be told of ready / not ready / closing, reload, shut down | paths, HLS server, core, servers |
| path (`path.go`) | source, stream, readers, requests on hold, three on-demand automata with two timers each, recorder, forwarders, hooks | describe, add and remove a reader or a publisher, source ready or not, timers, reload, teardown | path manager, static source handlers, clients |
| static source handler (`staticsources/handler.go`) | context, retry timer, the run in progress | start, stop, reload, hand SetReady and SetNotReady over to the path | path, source instance |
| static sources (`staticsources/*`) | a connection | Run until the context is done or an error | handler, stream |
| RTMP, SRT, WebRTC servers (`servers/*`) | the map of connections or sessions, a goroutine per client | accept, publish, read, kick, list, close; HTTP requests of WebRTC | path manager, path |
| RTSP server (`servers/rtsp`) | connections and sessions under a mutex | the handlers of the library, kick, list, close | path manager, path |
| HLS server (`servers/hls`) | a muxer per path, with its instances | path ready / not ready, request, close a muxer, close | path manager, path |
| stream (`stream/`) | the readers, a ring buffer and a goroutine per reader | write a unit, add and remove a reader | publishers, readers |
| forwarders (`forwarder/`) | a manager per path, a goroutine per target | start and stop with the stream, retry | path, stream |
| recorder (`recorder/`) | an instance at a time; tracks, part and segment of the format | write a unit, switch part and segment, restart, close | stream, files |
| record store, cleaner, playback (`recordstore/`, `recordcleaner/`, `playback/`) | segments on disk | find, delete, list, seek and mux | files |
| WebRTC peer connection, WHIP client (`protocols/webrtc`, `protocols/whip`) | states, candidates, tracks; one request at a time | negotiate, wait, gather, close | sources, forwarders, WebRTC sessions |
| authentication (`auth/`) | users, keys of an identity server under a mutex | authenticate, refresh the keys, replace the users | servers, API, core |
| configuration watcher (`confwatcher/`) | the file as it was last seen | tell of a change, close | core |
| hooks, external commands (`hooks/`, `externalcmd/`) | running commands and the pool that counts them | start, restart, stop, wait for all | path, sessions, core |
| Control API (`api/`) | a copy of the configuration under a mutex | change it, list, kick | core, path manager, servers |
| configuration (`conf/`) | data | load, validate | core |
| protocol helpers, codec processors (`protocols/*`, `codecprocessor`, `ntpestimator`, ...) | data | convert | servers, sources, stream |
| logger, metrics, pprof | none of interest | write, serve | core |

`PROJECT.json` lists the components with their source files.

### Who runs where

Core, path manager, each path and each static source handler are goroutines that
own their state and `select` over unbuffered channels. A request is a struct with
a response channel; the sender waits for the answer or for the context of the
receiver. So within a component there are no races; what can go wrong lies
between components: who waits for whom, what the other one knows of one's state,
and what happens to a message whose receiver is about to end. Three calls leave
this scheme in the core and the paths, and go through a fresh goroutine without an order:
the reload of a path (`path_manager.go:253`), that of a source (`staticsources/handler.go:313`)
and a patch of the global configuration (`api/api_config_global.go:44`).

The RTMP, SRT, WebRTC and HLS servers follow the scheme, with a goroutine per client that
calls the path manager and is told to end by its context; the RTSP server, the stream, the
authentication, the forwarders and the peer connection share state under a mutex instead,
with callbacks of a library in goroutines of its own. A recorder is called back by the
goroutine of its reader; playback reads the same files at any time.

### What is hard, and what should hold

* **path**: demand, failures, publishers, reloads and timers arrive in any order.
  Nobody may stay on hold while there is a stream, nor be forgotten; a timer must
  not outlive its cycle; handlers, hooks and commands must be started and stopped
  alternately, because they panic otherwise; a source that is needed must not be
  taken away; a destroyed path must leave nothing behind.
* **static source handler**: stop, retry and the end of a run race; path and
  handler block on one another. There must never be two runs, `Stop` must return
  and return only when the run has, the path must know when its source fails.
* **path manager**: paths close on their own while a reload destroys, keeps or
  updates them. Serving paths and the map must agree, two sources of one path
  must not overlap, the HLS server must know the ready paths, and manager and
  path must not wait for each other for ever.
* **core**: what has to be closed for a change is computed by fifteen conditions
  written by hand. No resource may be left with a pointer to one that was
  replaced, no setting may be lost, nothing may be restarted without need (it is, for
  three reasons that the property names), and core and API must not wait for one another.
* **servers**: a client is kicked, displaced, or its server closed, in any step of its
  goroutine and while its request is on hold. It must never stay in the path once it is
  gone, nor be in the path without being listed, and what it is listed as doing it must be doing,
  as soon as it has had the time to say so; `Close` must return.
* **stream and forwarders**: readers leave while writers write and queues are full; a
  forwarder is started in a goroutine that may come after it was stopped, and connects, reads and
  says so in steps, between any two of which the path may stop it.
* **recorder and playback**: two formats, fourteen codecs and tracks with timelines of their own
  meet steps of the clock, failures of the file system and crashes. What is played back
  and listed must be what was recorded, at its time.
* **peer connection and WHIP client**: handlers of the library come in any order and while the
  owner gives up. Nothing may be closed twice or stay blocked, and the other server must be asked to
  delete its session.
* **authentication, watcher, commands**: a key, a user or a configuration that was replaced
  must not be used; no process may outlive the pool.

The full list, each hazard with its line and the properties about it, is under
"hazards" in `PROJECT.json`.

## Modules

| module | of | what it is |
|---|---|---|
| `Path`, `MCPath`, `PathConfs` | `path.go` | one path with its clients, sources and timers; an instance and configurations for TLC |
| `PathPromise` | | what a path promises its readers; `Path` implements it |
| `StaticSource` | `staticsources/handler.go` | the handler, its runs, and what the path does with it |
| `SourcePromise` | | the order of events a path sees of its source; `StaticSource` implements it |
| `PathManager`, `MCPathManager` | `path_manager.go` | the manager with several paths that block on it; configurations for TLC |
| `Routing` | `path_manager.go`, `path.go` | manager and paths, and one path under faults, for TLC: who waits for whom |
| `Core` | `core.go`, `api/api_config_*.go` | the core's reloads, with the handlers of the API |
| `PathSide` | `path_manager.go`, `path.go` | the path as a server's client knows it |
| `ConnServer` | `servers/{rtmp,srt,webrtc}` | what the three servers with a goroutine per client share |
| `RTMPServer`, `SRTServer`, `WebRTCServer` | `servers/*` | each of them, on top of it |
| `RTSPServer`, `HLSServer` | `servers/rtsp`, `servers/hls` | the other two |
| `Servers` | | any of the five with a path |
| `Stream` | `stream/` | a stream, its writers and its readers |
| `StreamPromise` | | what a stream promises its readers; `Stream` implements it |
| `Forwarder` | `forwarder/` | a forwarder of either protocol and the path that starts and stops it |
| `RecordCodecs`, `RecordFMP4`, `RecordMPEGTS` | `recorder/format_*` | the two formats as functions on their state: codecs, parts, segments |
| `RecordStore`, `Playback` | `recordstore/`, `playback/` | conversions of time, names of segments, search, seeking, muxers, list |
| `Recording` | `recorder/`, `recordcleaner/` | a recorder with its disk, the cleaner and the playback server |
| `Media`, `MCMedia` | | any of recorder, stream and forwarder; an instance for TLC |
| `PeerConnection`, `WHIPClient`, `WebRTCPeer` | `protocols/webrtc`, `protocols/whip`, `servers/webrtc/session.go` | the peer connection and its two kinds of owner |
| `AuthManager` | `auth/manager.go` | the three methods of authentication |
| `ConfWatcher` | `confwatcher/` | the watcher and the core that loads what it finds |
| `Commands` | `externalcmd/`, `hooks/` | the pool, the commands and the hooks that start them |
| `Support`, `MCSupport` | | any of the last four groups; an instance for TLC |
| `PathProofs`, `RoutingProofs`, `StaticSourceProofs`, `PathManagerProofs`, `CoreProofs`, `ServersProofs`, `MediaProofs`, `SupportProofs` | | the theorems |

The modules join where one takes for granted what another shows. `Path` has of a
handler only the events that `SourcePromise` allows, and `StaticSource` shows that
the handler, with its goroutines, allows no others. `PathManager` has of a path
only whether it has a stream and when it talks to the manager. `Core` has of the
path manager, as of every resource, only that it exists and what it was given.
`Path` lets a client ask to be removed exactly once and after it was added; that the five
servers do so, whenever they are interrupted, is `NoGhosts` of `Servers`. Recorder,
forwarders and HLS muxers are readers of a stream, which loses units only to a
full queue (`Stream`).

`Servers`, `Media`, `Support` and `Routing` hold several components that do not interact
except through what the table names; a variable `kind`, which never changes, says which of them a
behaviour is of, and the variables of the others keep one value. So each run is the union
of the state spaces of its parts.

A definition with a suffix, `X_Y` with `X` defined next to it, is `X` with the
mistake `Y`, such as one forgotten line. It takes no part in any specification;
replacing `X` by it makes a run fail, and shows that the property could.

### Path

| in `Path` | in `path.go` |
|---|---|
| `source`, `stream`, `readers`, ..., `onDemandPublisherState` | the fields of `path` with these names |
| `timers` | which of the six timers are armed |
| `onNotReadyHook`, `onUnDemandHook`, `recorder`, `forwarders` | the fields; a hook is nil, armed or already fired, a recorder is the path format it was started with |
| `handler` | the two `staticsources.Handler`s: off, connecting, ready |
| `phase` | `runInner`, the rest of `run`, finished, or dead of a panic |
| `pubs`, `rdrs` | what a client itself believes to be doing |

Every case of the `select` in `runInner` is an action, with the `shouldClose()`
test that follows it (`CheckShouldClose`); `Describe`, `AdmitReader`,
`HoldReader`, `RefuseReader`, `AddPublisher`, ... are what the handler of one
request does, told apart by its guards. `AddPublisherFails` and
`SourceStaticSetReadyFails` are the failures of `stream.Initialize`, which can be
switched off with `InitializeMayFail`. `AddPublisherCrashes` is the failing type
assertion of line 524, and `Crash` a call of a hook that is nil or already
called. `Teardown` is what `run` does once `runInner` has returned. `Next` is
`RegularNext \/ SpecialNext`: `SpecialNext` has those failures, that crash and the two timers
of an origin node, none of which is possible with the configurations of `MCPath`,
which therefore runs `RegularNext`; `Routing` runs `Next`.

Abstractions: a request that is answered and changes nothing is a stuttering step.
A timer may fire at any moment while it is armed. A configuration is a record of
the fields that decide something; `ConfOK` has the rules of
`conf.Path.validate` for them and, beyond these, origin nodes only for paths that
are otherwise published to, the one use the repository makes of them
(`bin/mmx_edge.yml`).

### StaticSource

The handler's goroutine is `loop`, each call of `instance.Run` an element of
`Runs` with a state of its own, and `path` the goroutine of the path as far as it
deals with the handler. A send over an unbuffered channel and its receive are one
step; a select with several ready cases is a choice. The goroutines that carry a
configuration, to the handler or to the instance, are the sets `toHandler` and
`toRun`; "over" says that the context they also wait for is done, so that each
may end or still deliver. `RunStates` are the points at which a run waits for
somebody.

Bounds: `Runs`, identities for the runs that exist at one time, reused once a run is over
(`OneRun`, a part of `RunsNeverMeet`, says one is enough, the run has two so that a second
would be seen); `MaxConf`, the number of reloads.

### PathManager

The manager is `pm` with the progress of a reload (`todo`, `waitedFor`); the map
of paths is `paths`, `ready` and `confName`. A path object is a record in `pa`:
what its goroutine is doing, its configuration, whether it has a stream (`live`)
and whether its context is done. `tellReady`, `tellNotReady` and `closePath` are
the points at which it waits for the manager. `reloads` are the goroutines of
`path.reloadConf`.

Abstractions: authentication and API listings change nothing, and that the request for
authentication may block the manager for ever (see
[below](#where-documentation-and-code-disagree)) is left out. There is one regular
expression, `all_others`; a configuration is named after its entry and split in what a
running path can take over (`updatable`) and what it cannot (`fixed`). Objects nobody refers
to any more are forgotten and their identity is reused (`Forget`). `Close`, the end of the
manager, comes between reloads: the loop of the code does not look at its context during
one. A request of a simulcast source is answered (`SourceIsAnswered`); that the answered
source then turns to its input path is left out. `PatientCore` bounds the model to reloads
each of which has reached the paths before the next begins.

### Core

A configuration is the set of edits by which it differs from one that enables everything; an
edit changes one group of settings that the code treats alike and may disable resources.
`Passed`, `Reloadable` and `Uses` are read off `createResources` and the reload calls of
`closeResources`; `closeX` are the conditions of `closeResources` by their names. A reload
is a sequence of steps, as in the code: reload or close the API, close the rest in order,
create in order; each creation that can fail may (`CreateFails`), and then everything is
closed. Two things change without an edit. `rtspUDPReadBufferSize` is a pointer and compared
as one, and every configuration that is loaded or cloned has an object of its own, so that
it differs whenever it is set, before or after (`BufferSizeDiffers`). And a handler of the
API clones the configuration and validates the clone: this writes some lists in order
(`Clone`; an edit with `orderOnly` is one that is undone by that) and appends the entries of
`webrtcICEServers` to `webrtcICEServers2` once more (`Validated`); how often is the set of
`Entries` in a configuration. `outdated` has a pair for every resource that holds a pointer
to another one that has been closed, or lacks one that has been created after it.

Handlers of the API take the API's mutex, change its copy of the configuration
and send it: `onConfigGlobalPatch` in a goroutine of its own, `onConfigPaths`
(paths and path defaults) with the mutex held. Closing the API does not wait
for handlers.

Abstractions: the model starts when `New` has succeeded. A request reaches its
critical section in one step, while its API exists; what a handler does after its
configuration was taken (response and log) is left out.

Bounds: `MaxEntries`, how often the list of ICE servers may grow; a handler that would make it longer
still is left out (`Accept`).

### PathSide, ConnServer and the servers

`PathSide` is `Path` seen by its clients: who reads, who is held, who publishes, and which
of two versions of the configuration the path has. It ends streams, answers or refuses
who is held, closes a client, and is reloaded whenever it wants.

| in `ConnServer`, `RTMPServer`, `SRTServer`, `WebRTCServer` | in the code |
|---|---|
| `srv`, `closing` | the loop of `Server.run` and a caller of `Server.Close` |
| `conns`, `state` | `Server.conns` or `sessions`, the state that the Control API lists |
| `pc`, `ctx` | where the goroutine of a client is between two blocking calls; its context |
| `found` | the configuration that `FindPathConf` gave to a publisher |
| `post`, `patch`, `candidates` | HTTP requests of WebRTC that wait for a session; its goroutine `readRemoteCandidates` |

A client is a goroutine: every point where it waits, for the path manager, the socket or a
request, is a value of `pc`, and what it does from one to the next is an action named after
the function. What the protocol library does in between succeeds or fails. The goroutine of
a client that has been told to end goes on to the next point at which it looks; its calls to
the path manager are answered nevertheless. The answer of the path and what the client then
makes of it are separate steps: `AddReaderTo` or `AddPublisherIf` is the answer, `ShowRead`,
`ShowPublish` the assignment of `state` under the mutex that the API takes as well, so that
the API may look in between.

`RTSPServer` has the library's state of a session (`lib`), the handler it is in (`pc`), and
the server's own fields under their names; the kick of a session (`APISessionsKick`) runs
next to any handler. When a handler has returned (`Returns`) the library changes the state
of the session by itself, later (`StateFollows`), and the API may look in between here too.
That it does so whenever the handler returns no error, and that it does not refuse by itself
what the handler accepted, is taken for granted of gortsplib. `HLSServer` has muxers for
clients: the map has one `entry` per path, events of the path manager (`event`) and requests
(`req`, `target`) reach `Server.run`, and a muxer ends by itself. `bare` remembers that a
path became ready while its old muxer was in the map. `Close` does not wait for requests:
`httpp.Server.Close` calls `Shutdown` with a context that is done already, in spite of its
comment (`internal/protocols/httpp/server.go:134`), and a request that waits for a muxer is
answered by its own select.

Bounds: two clients, or muxers, and one path: what a client shares with another is the
path and the map. RTMP clients read or publish; of SRT and RTSP one publishes and
one reads; WebRTC has one client that does either, with one HTTP request at a time.

### Stream, Forwarder

In `Stream` each track is written by a goroutine of its own, which takes the read lock and
pushes the unit to each reader in turn (`writer`); `AddReader` and `RemoveReader` take the
write lock. A reader's goroutine pulls a unit and calls back. `RemoveReader` returns when
that goroutine has ended, `RemoveReturns`. `seen`, `joined` and `discarded` are history or
counters. `StreamPromise` has neither queue nor goroutine: units are on their way to a
reader, arrive in order, or are lost when too many are on their way. `Forwarder` has the
path's three calls, the goroutine of `Manager.Start` (`starting`), which may come at any
time, and the goroutines `run` (`goes`), one per stream. Dialing, `FromStream`, `AddReader`
and the assignment of `connected` are steps of their own, in the order of the protocol: srt
says that it is connected first and may still fail (`FromStreamFails`), webrtc reads first
(`ShowConnected`). So are the deferred calls at the end, in reverse: `RemoveReader` and
`Disconnect`, one in `Leave` and the other in `RunInnerReturns`.

Bounds: a queue of one unit, two units of one track and one of the other, two readers;
two streams of a path, one reconnection.

### Recording

The state of a format is a record `f`; what its callback does with a unit is a function
from `f` to `f`, called `UnpackX` (the codec), `TrackWrite`, `SegmentWrite`, ... after the Go
functions. An operation of the file system is an element of `broken` when it fails, so that a
function stops where the code returns an error, with what has been done until then. Disk, clock and
crash are in `Recording`: `Deliver` hands a unit of a track to the callback, with at most
one oddity in a behaviour, which is a failed operation, a unit that is empty, malformed or
reordered, a step of the clock or a crash. Tracks advance on their own, no more than
`MaxSkew` apart. `Terminated`, `NewInstance`, `Close` are `Recorder.run`; `Clean` the cleaner.

The playback server is a function of the disk, `onGet` and `onList`, with both muxers; it is
asked in every state in which a recorder has ended or crashed, for each of `Starts` and
`Durations`.

Time is counted in ticks, six to a second, and in the clocks of the tracks, two and three
ticks of which are a frame, so that every conversion has to round. Abstractions: bytes are left out,
except that a part has a size; a sample is known by its identity; a name is the time that
it encodes (`RecordStore`), and no two segments start at the same time.

Bounds: eleven configurations, of which two have video and audio over three or four
segments, with parts of 3 and segments of 7 ticks; the rest have every codec of a kind of its own
for a shorter time. `recordDeleteAfter` is longer than a segment, as `conf.Path.validate` wants
(`internal/conf/path.go:741`).

### PeerConnection, WHIPClient, WebRTCPeer

`PeerConnection` has the loop `run`, the channels it closes, candidates and tracks. The
library is the environment: it changes state, finds candidates and tracks, and calls
handlers, each of which waits for the mutex or for a channel (`reports`, `offering`,
`offered`). The owner is either a client (`WHIPClient`: one step per HTTP request and per
case of a select) or a session of the server (`WebRTCPeer`). Every HTTP request may fail.
That of `deleteSession` is tried once and its error ignored but for a log entry: `session`
is "asked" then, and "deleted" when it succeeded. Closing a connection closes the receivers
of its tracks (`receivers`) and waits for nobody; the goroutines that read the tracks
(`reading`) end one by one when the library fails their reads (`TrackEnds`). Bounds: two
tracks, one candidate, one loss of the connection.

### AuthManager, ConfWatcher, Commands

`AuthManager` has versions of the users and of the keys; a request remembers which version
it must at least be decided with (`due`): the one at the last reload or refresh that had
returned when the request began. Permissions and users are compared as in the code, over a
small set of requests. The request of the HTTP method (`authenticateHTTP`) is one that may
stay unanswered for ever. `ConfWatcher` has the file, in one part or two, as a link or not,
the queue of events, and the core, which loads what is there when it is told. `Commands` has
a goroutine per command, the counter of the pool and what each hook keeps of the commands it
has started. Bounds: two requests, two sets of keys, an hour; three changes of the file in
three ticks, with a minimum interval of two; a hook whose event happens twice.

## Runs

`CHECK_DEADLOCK` is off in the runs whose system may stop for good: a path that was
destroyed and whose clients have left, a source handler whose path is gone, a
manager, a server or a core that has shut down, a bound that is reached. That nothing stops
which should go on is said by the liveness properties.

| run | instance | shows |
|---|---|---|
| `MCPath` | 2 publishers, 3 readers, 1 describer; every kind of configuration but the origin node | type invariant, `ClientsAgree`, `DemandAgrees`, `ClosingMeansUnused`, `RecorderFollowsConf`, `NoPanic`, `DoneIsClean`, `IdlePathCloses`, and that `Path` implements `PathPromise` |
| `Routing` | "reloads": 2 names, 2 path objects, a publisher, configurations of every kind; "readers": the same with a reader and a simulcast source; "demand": a path with its clients; "faults": a path of any kind, also with an origin node, and `stream.Initialize` may fail | `ManagerKnows`: manager, paths and HLS server agree; `SourcesDoNotConflict`; `SurvivesFaults`; `Ends`: no reload, no held request, no unused source waits for ever |
| `StaticSource` | 2 identities for runs, 1 reload | `RunsNeverMeet`: one run at a time, none after `Stop`; `ReadyMeansStreaming`; that it implements `SourcePromise`; `GoesOn`: `Stop` ends, a failed run is tried again |
| `Core` | a change of the paths together with every possible other change, 1 handler | `UsersFollow`, `SettingsApplied`; `NoNeedlessRestart`: nothing is closed that was not asked for, but for what `Unasked` names; `SendingEnds` |
| `Servers` | each of the five servers with 2 clients (WebRTC: 1) | `NoGhosts`: nobody stays behind in the path; `ListIsTrue`: what is listed is there and does what it is shown doing, outside the steps between the path's answer and the client's own; `PublishersWereChecked`: with the configuration they publish with; `ClosedIsEmpty`; `Ends` |
| `Media` (`MCMedia`) | recorder with cleaner and playback; stream; forwarder | `PlayedAsRecorded`: units are lost only with the last part, no file overwrites another, and what is played back and listed is what was recorded; `FilesAreComplete`: the hooks tell of the files; `DeliveryIsRight`: a stream loses a unit only to a full queue, no callback after `RemoveReader`, only the current stream is forwarded; that `Stream` implements `StreamPromise`; `Ends` |
| `Support` (`MCSupport`) | peer connection with either owner; authentication; watcher; commands | `EndedIsQuiet`: no panic, open connection, receiver or process is left, and no session whose deletion was not asked for; `NothingStale`: neither keys nor users nor a configuration; `Ends` |
| `MCPathRunOnDemand`, `MCPathOverride`, `StaticSourceReload`, `PathManagerSimulcast`, `CoreDeadlock` | | the disagreements [below](#where-documentation-and-code-disagree) |

### Why the instances are large enough

* `Path`: two publishers are one that is replaced and one that replaces it, with
  the late `RemovePublisher` of the first. Three readers with `maxReaders` 1 and 2
  are one that is admitted, one that waits behind it and one that comes later; the
  queue keeps their order. One describer suffices, since describers only form a
  set. The configurations have each source kind, each on-demand mechanism, both
  recording settings a reload can switch between, hooks, and forwarding. Every action fires.
* `StaticSource`: one reload is one carrier that may meet any state of handler and
  run, and outlive both; two reloads, which can overtake each other, are in
  `StaticSourceReload`.
* `PathManager`: two names are needed for an entry of its own next to
  `all_others`; two objects are an old path that is still ending and its
  successor. A name has at most one object in the map, so that a third object
  would be one more path that is ending.
* `Core`: what has to be closed is a monotone condition on the settings that change, so a
  single change decides each comparison; the second one, of the paths, shows reloads in
  place next to restarts. The list of ICE servers may grow by two, once when it is loaded
  and once by a handler. The proofs have every set of edits and every combination.
* `Servers`: goroutines of clients meet in the map and in the path. Two are one that
  publishes or is admitted and one that is refused, overrides it or reads from it. Two muxers are that of
  the last stream and its successor.
* `Stream`: with a queue of one unit the second unit finds it full, or not. Two readers are
  one that leaves and one that stays; two tracks are two writers, one of which may wait for the lock.
* `Recording`: four segments have a first, a last and two neighbours that are neither; a
  part has two or three frames. Drift, restarts and gaps need two instances. Every codec is
  in a configuration or shares the callback's form with one that is.
* `Support`: a second candidate, loss or round would repeat the first; two tracks are one that has come
  and one that comes while the owner closes; two versions are before and after.

### Fairness

* `Path` (in `Routing`): an armed timer fires and is served, since `select` picks at random among
  ready cases; the goroutine of the path finishes its teardown; a client that is
  told to close leaves. Nobody has to connect, publish or go.
* `StaticSource`: goroutines that can go on do. Strong fairness is for the cases of
  the handler's `select`, which can be disabled again and again while another case is
  served. A run whose context is done returns; one whose context is not may stream
  for ever but not connect for ever, because of its timeouts.
* `PathManager`: weak fairness for the steps of a reload and for a path that gives up a
  message; strong fairness for the `select`s that serve several cases. `Routing` joins the
  conditions of parts that never run together, and asks for less than `PathManager` and `Path` do.
* `Core`: weak fairness for its own steps; strong fairness for taking a
  configuration that waits, one of several cases of a `select`.
* `Servers`: each client's goroutine goes on (`Goes`); what waits for a socket is
  interrupted once the context is done, because the context closes the socket (`IsInterrupted`), and
  a select that keeps serving other cases takes this one in the end (`IsTaken`), both strong. Nobody
  has to connect, and no stream has to end.
* `Media`: goroutines of readers, writers, recorder, forwarder and of the path in
  `Manager.Stop` go on; callbacks return, since whatever they write to has a deadline; the
  cleaner has a timer. No unit has to come.
* `Support`: one condition for whatever goes on by itself: goroutines, timers, the reads of
  a connection that is closed, which the library ends, a process that has got SIGINT, and
  the requests of a WHIP client and for keys, which have a timeout (`readTimeout` or
  `writeTimeout`, not zero). The request of the HTTP method of authentication has none
  (`internal/auth/manager.go:175`) and gets no fairness: `Ends` says nothing of who makes
  it. One condition suffices because the parts do not run together and each does such steps
  only finitely often.

## Proofs

TLAPS proves the following for every set of clients, configurations, runs, edits, requests,
users and so on, from the assumptions named in the modules, which TLC evaluates for its
instances: `ClientsAssumption`, `ConfsAssumption` and the like say of what kind the
constants are; `NoneAssumption` of `Servers` that no client is `None`; `DistinctAssumption`
of `Routing` that names differ from the marks a path uses; `AuthAssumption` of `Support`
that nobody is called 0, which marks the mutex as free, and that there is something to ask
and a first version of the users; `StreamAssumption` of `Media` that a reader has callbacks
for tracks that there are, and that queues and streams have a size; `RecordAssumption` that
a unit of audio has a frame at least; `ConstantsAssumption` of `Core` that the edits said to
change only the paths and the entries of the list of ICE servers are edits, and different
ones; `BoundsAssumption` that bounds are numbers.

| theorem | says | needs besides |
|---|---|---|
| `PathProofs!TypeCorrect` | `TypeOK` of `Path` | |
| `PathProofs!ClientsAlwaysAgree` | `ClientsAgree`: path, readers and publishers agree about who reads, waits and publishes | |
| `PathProofs!DemandAlwaysAgrees` | `DemandAgrees`: timers and sources are those of the state of demand | |
| `PathProofs!DoneAlwaysClean` | `DoneIsClean` | |
| `PathProofs!RecorderAlwaysFollows` | `RecorderFollowsConf` | `Initialize` does not fail |
| `PathProofs!ClosingAlwaysUnused` | `ClosingMeansUnused` | `Initialize` does not fail |
| `PathProofs!NeverPanics` | `NoPanic` | `Initialize` does not fail; no path with both an origin node and `overridePublisher` |
| `PathProofs!IdleAlwaysCloses` | `IdlePathCloses`: a step that takes the last use of a path of a regular expression away closes it | `Initialize` does not fail; no such path has an origin node |
| `PathProofs!PathKeepsPromise` | `Path` implements `PathPromise` | `Initialize` does not fail; no origin node |
| `RoutingProofs!AlwaysSurvivesFaults` | `SurvivesFaults` of `Routing`: what holds of a path whose `Initialize` may fail | |
| `StaticSourceProofs!TypeCorrect`, `RunsNeverOverlap`, `ReadyWhileStreaming` | `TypeOK`, `RunsNeverMeet`, `ReadyMeansStreaming` | |
| `StaticSourceProofs!HandlerKeepsPromise` | `StaticSource` implements `SourcePromise` | |
| `PathManagerProofs!TypeCorrect`, `SourcesAlwaysApart` | `TypeOK`, `SourcesDoNotConflict` of `PathManager` | |
| `PathManagerProofs!ManagerAlwaysKnows` | `ManagerKnows`: manager, paths and HLS server agree | `PatientCore` |
| `CoreProofs!TypeCorrect`, `UsersAlwaysFollow`, `SettingsAlwaysApplied` | `TypeOK`, `UsersFollow`, `SettingsApplied` | |
| `CoreProofs!NeverNeedless` | `NoNeedlessRestart`: a reload closes nothing that its changes do not make it close, but for the three reasons of `Unasked` | |
| `MediaProofs!TypeCorrect`, `DeliveryAlwaysRight` | `TypeOK`, `DeliveryIsRight` of stream and forwarder, and the types of the recorder's control | |
| `MediaProofs!StreamKeepsPromise` | `Stream` implements `StreamPromise` | |
| `MediaProofs!FilesAlwaysComplete` | `FilesAreComplete`: whatever is recorded and whatever fails, the hooks tell of the files | |
| `ServersProofs!TypeCorrect`, `NeverGhosts`, `ListsAlwaysTrue`, `ClosedAlwaysEmpty` | `TypeOK`, `NoGhosts`, `ListIsTrue`, `ClosedIsEmpty` of the five servers | |
| `ServersProofs!PublishersAlwaysChecked` | `PublishersWereChecked` | |
| `SupportProofs!TypeCorrect`, `EndedAlwaysQuiet` | `TypeOK`, `EndedIsQuiet` of peer connection, owners and commands | |
| `SupportProofs!NothingEverStale` | `NothingStale` of authentication and watcher | |

They hold for `Spec` of each module, which for `Path` has the steps of `SpecialNext` as well.

**Path.** None of the safety properties is inductive alone. `DemandInv` ties each
demand automaton to its two timers, its handler or command and, for an origin node,
to `source`; it also says which automata a configuration keeps in their initial
state. Timers and sources follow from it. `PublisherInv` says who may be the
source under which configuration and that a publisher that is publishing is the
source of a live stream. `StreamInv` ties recorder, hook and source to the stream: the
recorder is there exactly while the stream is, if the configuration says so, a handler
that connects has none, and only that of an origin node outlives its source; this fails
after `Initialize` failed, hence the assumption. `UnusedInv` says that while an on-demand
source closes nobody reads. The refinement maps
`media` to the source of a live stream: origin nodes are excluded because
`origNodeStaticSourceStop` removes the source and leaves the stream (line 1086).
`IdlePathCloses` is about steps, and `NeverForgotten` goes through them: a handler that may take the last
use away ends with `CheckShouldClose`, but for the removal of a reader; a reader that reads has a stream,
and a stream has a source or, after `Initialize` failed or with an origin node, none.

**StaticSource.** `LoopInv` says that a run is alive exactly if the handler has one
(not retrying, not off) and that it is the current one; `PathInv`, which states of path,
context and handler go together; `ViewInv`, that the path believes its source ready
exactly while a run streams. Their conjunction with `TypeOK` is inductive.

**PathManager.** What is said of one path and the manager is an invariant over all of them
together. `MapInv`: what is in the map under a name is a path of that name, and not an ended one while
the manager lives. `SourceInv` and `WaitInv`: a path with a source that has not ended is the
one in the map, or the one the manager waits for, in which case the map has none under its name; so
two of one name are the same. `FixedInv`, which `SourceInv` needs: what the
manager has noted of a path and what the path was given agree in what cannot be updated, so that
an update never makes a path with a source of one without. `FollowInv` says
what holds in the middle of a reload too: the configuration that decides about a name, the new one
once the loop has passed it, is that of its path or on its way there, and nothing else is.
That needs `PatientCore`: two goroutines of two reloads deliver in any order.

**Core.** `IdleInv` says that between changes what exists is what the configuration enables
and has its settings. `ClosingInv` says that during the closing whatever stays already fits
the new configuration and uses nothing that goes; it rests on three lemmas about the
hand-written conditions: closing a resource closes its users (`UsersAreClosed`), a changed
setting closes or reloads (`ChangesClose`), a changed switch closes (`SwitchesClose`).
`CreatingInv` says that what exists while resources are created fits and uses nothing still
missing. `NeedInv` is for `NoNeedlessRestart`: while a reload closes, what it is still to
close is what one of its changes makes it close, or one of the three reasons
(`ClosesWithNeed`, `ListReaches`).

**Stream.** `ArriveInv` says of each reader and track that what was given, what is queued
and what is being written come in this order, all of it owed and, while its owner reads,
with what was discarded, all that is owed; `LockInv` says who is in `readers` and that
`RemoveReader` and writers exclude each other, without which a unit could be pushed to a
reader that is gone; `UnitInv`, that a callback is called with a unit of the stream. The
refinement takes for on its way to a reader what waits in its queue and what is being pushed
to it (`Way`): `WriteUnit` puts a unit there, `Pull` delivers the first one, and `Push`
moves one from one part to the other, which the promise does not see, or finds the queue
full. Then the unit is lost, and the promise wants as many others on the way as the queue
holds: they are the queue's, pairwise different because a track is queued in order
(`FullQueue`). That a removed reader has nothing on its way is `LockInv`.

**Recorder.** What the hooks of the files say is shown for both formats, for every codec and
for every operation that fails. `RecordInv` says what is so between two steps: hooks come in
pairs but for those of files that were left, an open file is the one whose creation was told
last, whatever is on the disk was created (`Kept`); and as long as the disk has not failed,
all files but the open one are complete (`Sound`, `Well`). Most functions of a format open
and close nothing and keep all that (`Quiet`); the others are `CreateFile`, `CloseFile` and,
for MPEG-TS, `SwitchSegment`, and what calls them. The samples of a unit are written one by
one by a recursive function; that every number of them keeps `Kept` and `Sound` is an
induction over how many are written, from the least number for which it would fail (`Least`,
`UpTo`).

**Forwarder.** `BeforeStop`: until the context of a forwarder is done there is at most its
first stream, and whoever has begun is the goroutine of that one. Since nobody dials once
the context is done, what dials or reads later is still the first (`Dials`), so that `Stop`,
for which the path waits before it has another stream, finds it; a goroutine that a late
`Start` makes never reads. Who reads and whether `connected` is set follows from where the
goroutine is (`Live`, `Reads`, `Shows`): between dialing and its last deferred call, which
`Stop` waits for.

**Routing.** Its path is an instance of `Path`, and so are the theorems of `PathProofs`: what is left
to show is that a step of `Routing` is one of the path or leaves it alone (`StepsOfPath`), and that its
constants are such as `Path` assumes.

**Servers.** RTMP, SRT and WebRTC share `ConnServer`, and `ConnInv` is one invariant for any
clients, places and states. It is proved step by step for the operations they share; the
other steps of a client are of two kinds (`ConnMoves`): from a place where the path does not
know it to another such place, or from where it was admitted to the place where it leaves.
What is shown of a client follows from where it is, by an invariant per server
(`RTMPStates`, ...): the list agrees with the path in every place but those between an
answer and the assignment. For WebRTC `Answered` says who has been answered and who takes
its candidates. RTSP has its own: `RTSPHandlers` ties the state of the library, the handler
that runs and the path that the session has, except for a session that was kicked while a
handler ran, and says what the library is going to make of a handler that has returned;
`RTSPEnded` that after the wait nothing is left. For HLS `HLSListed` is the property but for
its last clause, which is not inductive: a muxer that nobody asked for may be ended by its
own error, by the path or by the server. `HLSRemuxed` says that while the path is ready, the
server knows it and no muxer has been lost, the muxer in the map is one that nobody asked
for and has not been told to end; `HLSOrder` that what the path manager is telling is what
is so, and that a muxer that is over was told to end, so that the map is never emptied of a
muxer that runs.

**PeerConnection, WHIPClient.** `ReportsInv` counts what pion has still to report, of each
kind at most what has happened; `ChannelsInv` says which channels are closed in which state,
so that none is closed twice; `TracksInv` that a track has a receiver only until the loop
closes it; `OwnerInv` where the owner is with its session on the other server, so that it
leaves one only if it has never learnt of it or has asked in vain. The session of the server
runs the same connection: its lemmas are those of the client's (`SameConnection`).

**AuthManager.** `VersionInv`: what is in force, what is cached and what has been fetched are not older
than what the last reload or refresh asked for; `MethodInv`: who fetches has the mutex, so
that a refresh never comes between the answer of the identity server and its storing.

**ConfWatcher.** `FileInv` ties the queue of events to the file: as long as the last change has not been
seen there is an event that tells of it, or it is what the watcher compares with. `SeenInv` says that a
change is left unseen only within the minimum interval.

**Commands.** `CountInv`: the counter of the pool is the number of commands that have not returned;
`KeptInv`: a command that would be restarted is the one its hook has the handle of.

Only model-checked: liveness (`Ends` of `Routing`, `Servers`, `Media` and `Support`,
`GoesOn`, `SendingEnds`), which is out of the prover's reach; and, of `Media`,
`PlayedAsRecorded`: what is in the parts of a file and what playback makes of it are sums
and folds over samples and boxes, which `Playback` and `RecordStore` write with the folds of
the community modules, and of those nothing can be proved for all inputs. Its part
`NamesAreNew` does not hold for all constants either: segments that start within one unit of
the names' time share a file (see below).

## Where documentation and code disagree

Each has a run that ends in the counterexample.

* **A reader waits for ever** (`MCPathRunOnDemand`). `mediamtx.yml:683` lets readers
  wait for a `runOnDemand` command until it publishes or a time has passed. If its
  publisher leaves during the closing delay, a reader that arrives then is held without a
  timer, and the close timer stops the command without answering it (`path.go:570`, `392`).
* **Overriding kills the server** (`MCPathOverride`). With an origin node as source,
  `overridePublisher` asserts that a handler is a publisher (`path.go:524`).
* **A source keeps its old configuration** (`StaticSourceReload`). A handler that is off
  drops a change, and `Start` uses the old one; two changes can overtake one another
  (`staticsources/handler.go:309`).
* **A simulcast source blocks the manager** (`PathManagerSimulcast`). The manager waits
  for a path to end, the path for its source to stop, and the source for the answer of
  the manager (`staticsources/simulcast/source.go:215`).
* **A change through the API while the file changes stops the core** (`CoreDeadlock`).
  The handler holds the API's mutex and waits for the core, the core waits for the
  mutex (`core.go:950`).

What the models also show, and documents speak about in general or not at all; the properties except
these cases by name:

* The close timer of an origin node is not stopped when a reader arrives, and takes the
  source from under it (`path.go:904`; `ClosingMeansUnused` has no clause for origin nodes).
* The closing of a `runOnDemand` command is the one timer after which `shouldClose()` is not
  asked (`path.go:293`; `IdlePathCloses` is about the steps that empty a path).
* A path that is about to close while a reload gives it an entry of its own is not created
  again until somebody asks for it (`path_manager.go:236`).
* `closeAPI` does not look at `closeRTMPSServer`: the API may keep the closed one
  (`Overlooked` in `Core`).
* A change of the paths disconnects clients that it does not concern (`Unasked` in `Core`), though
  `docs/2-usage/04-configuration.md:17` has changes applied without that "whenever it's possible".
  With `rtspUDPReadBufferSize`, which is compared by pointer, any change closes the RTSP and
  RTSPS servers, and the API with them (`core.go:791`, `815`). A change through the API closes
  the WebRTC server each time if `webrtcICEServers` is used, whose entries it appends once more
  (`internal/conf/conf.go:745`); and the first one closes what has a list that the file does not
  give in order, since a clone has it in order (`internal/conf/ip_networks.go:24`).
* SRTP addresses and multicast settings of the RTSPS server are not compared (`Uncompared`).
* The API and the core may go by different configurations, because patches travel
  in goroutines of their own (`api/api_config_global.go:44`).

Servers (file names without a directory are in `internal/servers`):

* A kick takes an RTSP session out of the map and tells it to close while a handler of it
  may be about to add it to the path (`rtsp/server.go:472`).
* Between the answer of the path and the client's assignment of its state the API shows an
  idle client that the path already counts as its reader or publisher (`rtmp/conn.go:180`,
  `270`, `srt/conn.go:243`); RTSP, until the library has changed the state of the session
  (`ListIsTrue` excepts these steps).
* One failed `Accept` ends the whole RTMP or SRT server, with all its clients.
* A PATCH with a malformed candidate is answered twice; one with an offer waits until
  the session ends (`webrtc/session.go`).
* When a path becomes ready while the muxer of its last stream is still in the map, no
  muxer is created for it until somebody asks (`hls/server.go:188`; `bare` in `HLSServer`).
* A simulcast source adds itself as a reader before it registers its callbacks, so that
  nothing is forwarded (`internal/staticsources/simulcast/source.go`).

Media:

* `Stop` cancels the context of a forwarder for good, though the path starts the same forwarder
  for its next stream; a `Start` that comes after the `Stop` of its stream uses a nil pointer
  (`internal/forwarder/srt_forwarder.go:82`).
* Statistics show an srt forwarder as connected before it has a reader and though
  `FromStream` may still fail, and a webrtc one as not connected when it already sends
  (`internal/forwarder/srt_forwarder.go:197`, `webrtc_forwarder.go:219`).
* Two segments that start within one unit of the time in their names share a file; with a
  segment duration of less than a second that is every segment
  (`internal/recorder/format_fmp4_track.go:19`).
* The timestamps of MPEG-1 audio in fMP4 are twice the presentation time of the unit, the same for
  all of its frames (`internal/recorder/format_fmp4.go:722`).
* When writing the header of a segment fails, the file stays without one and its
  creation may be announced twice; a file that has only a header makes `/get` with
  `format=mp4` panic, and one that cannot be read makes `/list` fail for the whole path.
* `timeLocationDecode` takes the minutes of a time zone for hours and ignores their sign
  (`Decode` in `RecordStore`); the model has zones of whole hours.

The rest:

* A WHIP client whose peer connection has closed `GatheringDone` goes round its loop without
  waiting (`internal/protocols/whip/client.go:126`); the session of the other side stays open
  when the answer to the POST has no `Location`, the client is told to end just after it
  connected (line 69), or the request to delete it fails, which is tried once (line 301).
* `PeerConnection.Close` does not wait for the goroutines that read its tracks
  (`internal/protocols/webrtc/incoming_track.go:299`, `322`, `340`); they end by themselves, later.
* The request of the HTTP method of authentication has neither a timeout nor a context
  (`internal/auth/manager.go:175`). While the server behind it does not answer, whoever
  asked waits, and that is the path manager for every client that finds, describes, reads or
  publishes (`path_manager.go:327`, `343`, `366`, `395`): no path can be reached, no change
  of the paths applied and the server not shut down until it does.
* One slow answer of the identity server blocks every authentication, since it is awaited with
  the mutex held (`internal/auth/manager.go:245`).
* Events within the minimum interval are dropped, so that the last of two changes may go
  unnoticed; a file that is half written when it is read ends the server; after an error of
  the watcher its channel is closed and the core reloads in a loop
  (`internal/confwatcher/confwatcher.go:79`).
* The exit code of a command is always 0 (`internal/externalcmd/cmd_unix.go:42`), and
  `Pool.Close` waits for commands that hooks start at their end, which nobody can stop.

## What is not modelled

* **Protocols**: RTSP, RTMP, SRT, HLS, WebRTC and the pulled sources speak through libraries; a step
  of theirs succeeds, fails or is interrupted. `protocols/*` beyond the peer connection and
  the WHIP client converts between library and stream.
* **Configuration**: loading, defaults, validation and the order of regular expressions are
  data; the decisions that matter for the control are guards of the models.
* **Codec processors, units, timestamps**: pure functions of a unit; what the recorder makes of
  units is in `RecordCodecs`.
* **Simulcast source**: its request to the manager is in `PathManager`; what it would
  forward is nothing, see above.
* **Bytes**: sizes of files and parts, the RTSP stream inside a stream, statistics.
* **Listings, metrics, pprof, logger**: read-only; that what the servers list is true is
  `ListIsTrue`, their lifetime is in `Core`.
* **Raspberry Pi camera**: drives a process over pipes. **Transcoder**: nothing in the server
  creates it. **Certificates, limits, upgrade**: the operating system. **Browser player**: client side.
* **Windows**: commands and files are those of Unix.

Data races below the granularity of one handler are not modelled; the two met while
reading, the manager's map read by `RemoveReader` outside of its goroutine
(`path_manager.go:579`) and the logger that handlers may use while it is nil
(`core.go:1027`), are outside of the models.

## Plan

The order was by what depends on it: path and source first, then who creates them, the
core, the servers that use them, the media that goes through them, and what all of them rest on.
These are done. What remains, by what it would add:

1. The simulcast source over `Stream`, and the removal of its readers.
2. Pagination of the API, the order in which configurations match, the
   estimation of absolute times, as functions over small inputs.
