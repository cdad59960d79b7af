----------------------------- MODULE Forwarder -----------------------------
(***************************************************************************)
(* The forwarders of a path. The path starts them, each in a goroutine,    *)
(* when its stream is ready, and stops them, one after the other and       *)
(* waiting, before it closes the stream. Forwarders share nothing, so that *)
(* one of either protocol shows what they do. Streams of the path are      *)
(* numbered; None is nil.                                                  *)
(*                                                                         *)
(* "dead": a nil pointer was used, which ends the process. It is reached   *)
(* when a Start that comes late meets a Stop (see HandleNil); every        *)
(* property is about the process before that.                              *)
(*                                                                         *)
(* Bounds: MaxStreams; MaxReconnects.                                      *)
(***************************************************************************)
EXTENDS Integers, FiniteSets

CONSTANTS Protocols, MaxStreams, MaxReconnects, None

VARIABLES
    protocol,  \* "srt", "webrtc"
    reconnect, \* configuration of the target
    path,      \* the path: "notReady", "ready", "waiting" and "clearing" in Stop, "closed"
    closing,   \* the path ends
    streams,   \* streams of the path so far; the last one is current
    starting,  \* streams whose goroutine of Manager.Start has not begun
    stream, ctxDone, reader, connected, reconnects,    \* fields of the forwarder
    goes,      \* [1..MaxStreams -> state of the goroutine "run" that was made for it]
    told,      \* the srt goroutine that waits for the reader has not looked at it yet
    reading,   \* streams that the forwarder is a reader of
    dead

forwardVars == <<protocol, reconnect, path, closing, streams, starting, stream, ctxDone, reader,
                 connected, reconnects, goes, told, reading, dead>>

Streams == 1..MaxStreams
Gone == {"none", "ended"}
IsSRT == protocol = "srt"

Init ==
    /\ protocol \in Protocols /\ reconnect \in BOOLEAN
    /\ path = "notReady" /\ closing = FALSE /\ streams = 0
    /\ starting = {}
    /\ stream = None /\ reader = None
    /\ ctxDone = FALSE /\ connected = FALSE /\ reconnects = 0
    /\ goes = [s \in Streams |-> "none"]
    /\ told = {} /\ reading = {}
    /\ dead = FALSE

confVars == <<protocol, reconnect>>
pathVars == <<path, closing, streams>>
fields == <<stream, ctxDone, reader, connected, reconnects>>

-----------------------------------------------------------------------------
(* path.setReady: Manager.Start.                                           *)
SetReady ==
    /\ ~dead
    /\ path = "notReady" /\ ~closing /\ streams < MaxStreams
    /\ path' = "ready" /\ streams' = streams + 1
    /\ starting' = starting \union {streams + 1}
    /\ UNCHANGED <<confVars, closing, fields, goes, told, reading, dead>>

(* Forwarder.Start, in its goroutine.                                      *)
Start(s) ==
    /\ ~dead
    /\ s \in starting /\ starting' = starting \ {s}
    /\ IF stream # None
       THEN UNCHANGED <<stream, goes>>
       ELSE /\ stream' = s
            /\ goes' = [goes EXCEPT ![s] = "top"]
    /\ UNCHANGED <<confVars, pathVars, ctxDone, reader, connected, reconnects, told, reading, dead>>

(* path.setNotReady, and again at the end of path.run: Manager.Stop        *)
(* cancels the context, waits until all goroutines have ended, then clears *)
(* the fields.                                                             *)
Stop ==
    /\ path' = "waiting" /\ ctxDone' = TRUE
    /\ UNCHANGED <<confVars, streams, starting, stream, reader, connected, reconnects, goes, told,
                   reading, dead>>
SetNotReady ==
    /\ ~dead /\ path = "ready"
    /\ Stop
    /\ UNCHANGED closing
PathCloses ==
    /\ ~dead /\ path = "notReady"
    /\ closing' = TRUE
    /\ Stop

WaitReturns ==
    /\ ~dead
    /\ path = "waiting" /\ \A s \in Streams : goes[s] \in Gone
    /\ path' = "clearing"
    /\ UNCHANGED <<confVars, closing, streams, starting, fields, goes, told, reading, dead>>

StopReturns ==
    /\ ~dead
    /\ path = "clearing"
    /\ path' = IF closing THEN "closed" ELSE "notReady"
    /\ stream' = None /\ reader' = None
    /\ UNCHANGED <<confVars, closing, streams, starting, ctxDone, connected, reconnects, goes, told,
                   reading, dead>>

-----------------------------------------------------------------------------
(* The goroutine "run", made by the Start of s.                            *)
At(s, state) == ~dead /\ goes[s] = state
Goto(s, state) == goes' = [goes EXCEPT ![s] = state]
Others == UNCHANGED <<confVars, pathVars, starting, stream, ctxDone>>

(* The loop of srt looks at the context first; that of webrtc only after   *)
(* it has tried once, and it reads the description of the stream.          *)
Top(s) ==
    /\ At(s, "top")
    /\ CASE IsSRT /\ ctxDone -> Goto(s, "ended") /\ UNCHANGED <<reader, dead>>
         [] IsSRT /\ ~ctxDone -> Goto(s, "dialing") /\ UNCHANGED <<reader, dead>>
         [] ~IsSRT /\ stream = None -> dead' = TRUE /\ UNCHANGED <<goes, reader>>
         [] OTHER -> /\ Goto(s, IF ctxDone THEN "refused" ELSE "dialing")
                     /\ reader' = stream /\ UNCHANGED dead
    /\ Others /\ UNCHANGED <<connected, reconnects, told, reading>>

(* srt.Dial knows nothing of the context; the WHIP client does, and fails  *)
(* when it was done before. srt is connected from then on, but has still   *)
(* to read the description of the stream.                                  *)
DialSucceeds(s) ==
    /\ IsSRT /\ At(s, "dialing")
    /\ Goto(s, "connected") /\ connected' = TRUE
    /\ Others /\ UNCHANGED <<reader, reconnects, told, reading, dead>>

(* AddReader; srt makes the reader, and a goroutine that waits for it;     *)
(* webrtc has yet to say that it is connected.                             *)
AddReader(s) ==
    /\ At(s, IF IsSRT THEN "connected" ELSE "dialing")
    /\ IF stream = None
       THEN dead' = TRUE /\ UNCHANGED <<goes, reader, reading, told>>
       ELSE /\ Goto(s, IF IsSRT THEN "reading" ELSE "added")
            /\ reader' = IF IsSRT THEN stream ELSE reader
            /\ reading' = reading \union {stream}
            /\ told' = IF IsSRT THEN told \union {s} ELSE told
            /\ UNCHANGED dead
    /\ Others /\ UNCHANGED <<connected, reconnects>>

ShowConnected(s) ==
    /\ ~IsSRT /\ At(s, "added")
    /\ Goto(s, "reading") /\ connected' = TRUE
    /\ Others /\ UNCHANGED <<reader, reconnects, told, reading, dead>>

(* The URL, the tracks (of webrtc), the connection; an invalid URL is an   *)
(* error each time.                                                        *)
DialFails(s) ==
    /\ At(s, "dialing") \/ At(s, "refused") \/ (~IsSRT /\ At(s, "top"))
    /\ Goto(s, "failed")
    /\ Others /\ UNCHANGED <<reader, connected, reconnects, told, reading, dead>>

(* mpegts.FromStream fails; the connection of srt is still to be closed.   *)
FromStreamFails(s) ==
    /\ IsSRT /\ At(s, "connected")
    /\ Goto(s, "failing") /\ reader' = stream
    /\ Others /\ UNCHANGED <<connected, reconnects, told, reading, dead>>

(* srt: the goroutine that waits for the reader takes it from the          *)
(* forwarder.                                                              *)
HandleNil(s) ==
    /\ ~dead
    /\ s \in told /\ told' = told \ {s}
    /\ dead' = (reader = None)
    /\ Others /\ UNCHANGED <<goes, reader, connected, reconnects, reading>>

(* What runInner has deferred: srt removes the reader, then closes the     *)
(* connection, webrtc the other way round.                                 *)
RemoveReader(s) == reading' = reading \ {s} /\ UNCHANGED connected
Disconnect == connected' = FALSE /\ UNCHANGED reading

Leave(s, state) ==
    /\ Goto(s, state)
    /\ IF IsSRT THEN RemoveReader(s) ELSE Disconnect
    /\ Others /\ UNCHANGED <<reader, reconnects, told, dead>>

(* The reader fails, when srt has begun to wait for it, or the peer        *)
(* connection.                                                             *)
ConnFails(s) ==
    /\ At(s, "reading") /\ s \notin told
    /\ Leave(s, "failing")
ContextDone(s) ==
    /\ At(s, "reading") /\ ctxDone
    /\ Leave(s, "finishing")

RunInnerReturns(s) ==
    /\ \/ At(s, "failing") /\ Goto(s, "failed")
       \/ At(s, "finishing") /\ Goto(s, IF IsSRT THEN "top" ELSE "ended")
    /\ IF IsSRT THEN Disconnect ELSE RemoveReader(s)
    /\ Others /\ UNCHANGED <<reader, reconnects, told, dead>>

(* After an error: srt sleeps without looking at the context; webrtc waits *)
(* for either.                                                             *)
Failed(s) ==
    /\ At(s, "failed")
    /\ connected' = FALSE
    /\ CASE ~IsSRT /\ ctxDone -> Goto(s, "ended") /\ UNCHANGED reconnects
         [] reconnect /\ (IsSRT \/ ~ctxDone) ->
                /\ reconnects < MaxReconnects \/ ctxDone
                /\ Goto(s, "sleeping")
                /\ reconnects' = IF IsSRT /\ reconnects < MaxReconnects THEN reconnects + 1
                                 ELSE reconnects
         [] OTHER -> Goto(s, "ended") /\ UNCHANGED reconnects
    /\ Others /\ UNCHANGED <<reader, told, reading, dead>>

SleepEnds(s) ==
    /\ At(s, "sleeping")
    /\ \/ /\ Goto(s, "top")
          /\ reconnects' = IF IsSRT THEN reconnects
                           ELSE IF reconnects < MaxReconnects THEN reconnects + 1 ELSE reconnects
       \/ /\ ~IsSRT /\ ctxDone
          /\ Goto(s, "ended") /\ UNCHANGED reconnects
    /\ Others /\ UNCHANGED <<reader, connected, told, reading, dead>>

Next ==
    \/ SetReady \/ SetNotReady \/ WaitReturns \/ StopReturns \/ PathCloses
    \/ \E s \in Streams :
        \/ Start(s) \/ Top(s) \/ DialSucceeds(s) \/ AddReader(s) \/ ShowConnected(s)
        \/ DialFails(s) \/ FromStreamFails(s) \/ HandleNil(s) \/ ConnFails(s)
        \/ ContextDone(s) \/ RunInnerReturns(s) \/ Failed(s) \/ SleepEnds(s)

-----------------------------------------------------------------------------
States == {"none", "top", "dialing", "refused", "connected", "added", "reading", "failing",
           "finishing", "failed", "sleeping", "ended"}
TypeOK ==
    /\ protocol \in Protocols
    /\ {reconnect, closing, ctxDone, connected, dead} \subseteq BOOLEAN
    /\ path \in {"notReady", "ready", "waiting", "clearing", "closed"}
    /\ streams \in 0..MaxStreams /\ reconnects \in 0..MaxReconnects
    /\ {stream, reader} \subseteq Streams \union {None}
    /\ goes \in [Streams -> States]
    /\ starting \subseteq Streams /\ told \subseteq Streams /\ reading \subseteq Streams

(* A forwarder reads only the stream that the path has now; when the path  *)
(* goes on from Manager.Stop to close it, the forwarder reads none and no  *)
(* statistics say that it is connected. In between srt is connected before *)
(* it reads and until it has left, and webrtc reads before it says that it *)
(* is connected and until it no longer does.                               *)
ForwardsCurrent ==
    ~dead =>
        /\ reading \subseteq {streams}
        /\ reading # {} \/ connected => path \in {"ready", "waiting"}
        /\ IF IsSRT THEN reading # {} => connected ELSE connected => reading # {}

(* Manager.Stop, in which the path can do nothing else, returns.           *)
IsStopping == path \in {"waiting", "clearing"} /\ ~dead
=============================================================================
