----------------------------- MODULE RTSPServer -----------------------------
(***************************************************************************)
(* The RTSP server (servers/rtsp). Connections and sessions belong to a    *)
(* library, which calls the server's handlers, those of a session in its   *)
(* own goroutine, and has the state of each session; the server has a map  *)
(* of them under a mutex. A client is a connection with at most one        *)
(* session. The kick of a session runs in the goroutine of the Control     *)
(* API, next to whatever handler the session is in.                        *)
(***************************************************************************)
EXTENDS PathSide

CONSTANTS MayRead, MayPublish   \* clients that may set up reading, publishing

VARIABLES
    srv,        \* "open", "cancelled", "ended" (run is over), "closed"
    closing,    \* somebody waits in Server.Close
    conns,      \* Server.conns
    sessions,   \* Server.sessions
    lib,        \* ServerSession.State of the library, "none" without a session
    ctx,        \* whose session has been told to close
    pc,         \* the handler that runs, or the state that is to follow it
    hasPath,    \* session.path is not nil
    hook,       \* session.onUnreadHook is to be called
    found,      \* session.pathConf
    kicked,     \* sessions that were kicked
    dead        \* the process has died of a panic

serverVars == <<srv, closing, conns>>
sessionVars == <<sessions, lib, ctx, pc, hasPath, hook, found, kicked>>
vars == <<serverVars, sessionVars, dead, sideVars>>

Init ==
    /\ srv = "open" /\ closing = FALSE /\ conns = {}
    /\ sessions = {} /\ kicked = {} /\ dead = FALSE
    /\ lib = [c \in Clients |-> "none"]
    /\ pc = [c \in Clients |-> "idle"]
    /\ ctx = [c \in Clients |-> FALSE]
    /\ hasPath = [c \in Clients |-> FALSE]
    /\ hook = [c \in Clients |-> FALSE]
    /\ found = [c \in Clients |-> 0]
    /\ SideInit

(* The library calls a handler of the session, which may already be told   *)
(* to close: its select picks any case that is ready.                      *)
Called(c, in) == ~dead /\ pc[c] = "idle" /\ lib[c] \in in

(* The handler returns, and the library will change the state for it.      *)
Returns(c, state) == pc' = [pc EXCEPT ![c] = state]
Told(set) == ctx' = [c \in Clients |-> ctx[c] \/ (c \in set /\ lib[c] # "none")]

-----------------------------------------------------------------------------
(* Server.                                                                 *)
OnConnOpen(c) ==
    /\ srv = "open" /\ ~dead
    /\ c \notin conns
    /\ conns' = conns \cup {c}
    /\ UNCHANGED <<srv, closing, sessionVars, dead, sideVars>>

(* A session does not outlive its connection.                              *)
OnConnClose(c) ==
    /\ ~dead
    /\ c \in conns /\ pc[c] = "idle"
    /\ conns' = conns \ {c}
    /\ Told({c})
    /\ UNCHANGED <<srv, closing, sessions, lib, pc, hasPath, hook, found, kicked, dead,
                   sideVars>>

(* Bound: a client that was kicked does not come back.                     *)
OnSessionOpen(c) ==
    /\ srv = "open" /\ ~dead
    /\ c \in conns \ kicked /\ lib[c] = "none" /\ pc[c] = "idle"
    /\ sessions' = sessions \cup {c}
    /\ lib' = [lib EXCEPT ![c] = "initial"]
    /\ UNCHANGED <<serverVars, ctx, pc, hasPath, hook, found, kicked, dead, sideVars>>

OnClose_ReaderStays(c) ==
    /\ dead' = (lib[c] = "play" /\ ~hook[c])
    /\ hook' = [hook EXCEPT ![c] = FALSE]
    /\ hasPath' = [hasPath EXCEPT ![c] = FALSE]
    /\ CASE lib[c] = "play" -> RemoveReader(c)
         [] lib[c] = "record" -> RemovePublisher(c)
         [] OTHER -> UNCHANGED sideVars

(* session.onClose: what it takes back depends on the state of the         *)
(* library.                                                                *)
OnClose(c) ==
    /\ dead' = (lib[c] = "play" /\ ~hook[c])
    /\ hook' = [hook EXCEPT ![c] = FALSE]
    /\ hasPath' = [hasPath EXCEPT ![c] = FALSE]
    /\ CASE lib[c] \in {"preplay", "play"} -> RemoveReader(c)
         [] lib[c] = "record" -> RemovePublisher(c)
         [] OTHER -> UNCHANGED sideVars

LeftBy(c) == IF lib[c] = "record" THEN LeftBehind(c) ELSE {}

(* OnSessionClose: one that was kicked is not in the map any more.         *)
OnSessionClose(c) ==
    /\ Called(c, {"initial", "preplay", "play", "prerecord", "record"})
    /\ sessions' = sessions \ {c}
    /\ IF c \in sessions
       THEN OnClose(c) /\ ctx' = [d \in Clients |-> d # c /\ (ctx[d] \/ d \in LeftBy(c))]
       ELSE /\ ctx' = [ctx EXCEPT ![c] = FALSE]
            /\ UNCHANGED <<dead, hook, hasPath, sideVars>>
    /\ lib' = [lib EXCEPT ![c] = "none"]
    /\ found' = [found EXCEPT ![c] = 0]
    /\ UNCHANGED <<serverVars, pc, kicked>>

(* APISessionsKick: Close, delete and onClose, whatever the session does.  *)
(* Bound: one client, and no reload, which only decides what a path says   *)
(* to a publisher.                                                         *)
APISessionsKick(c) ==
    /\ srv = "open" /\ ~dead
    /\ c \in sessions /\ kicked = {} /\ conf = 1
    /\ sessions' = sessions \ {c}
    /\ kicked' = kicked \cup {c}
    /\ OnClose(c)
    /\ Told({c} \cup LeftBy(c))
    /\ UNCHANGED <<serverVars, lib, pc, found>>

-----------------------------------------------------------------------------
(* Handlers of conn and session.                                           *)

(* onDescribe: may wait for an on-demand source. Bound: by whom may read,  *)
(* first.                                                                  *)
OnDescribe(c) ==
    /\ ~dead /\ srv = "open"
    /\ c \in conns \cap MayRead /\ lib[c] = "none" /\ pc[c] = "idle"
    /\ pc' = [pc EXCEPT ![c] = "describing"]
    /\ UNCHANGED <<serverVars, sessions, lib, ctx, hasPath, hook, found, kicked, dead,
                   sideVars>>

Described(c) ==
    /\ ~dead
    /\ pc[c] = "describing"
    /\ pc' = [pc EXCEPT ![c] = "idle"]
    /\ UNCHANGED <<serverVars, sessions, lib, ctx, hasPath, hook, found, kicked, dead,
                   sideVars>>

(* onAnnounce: FindPathConf checks the credentials.                        *)
OnAnnounce(c) ==
    /\ Called(c, {"initial"})
    /\ c \in MayPublish
    /\ found' = [found EXCEPT ![c] = conf]
    /\ Returns(c, "prerecord")
    /\ UNCHANGED <<serverVars, sessions, lib, ctx, hasPath, hook, kicked, dead, sideVars>>

(* onSetup of the first track to play; of the others, and of those to      *)
(* record, nothing is to be done.                                          *)
OnSetup(c) ==
    /\ Called(c, {"initial"})
    /\ c \in MayRead
    /\ pc' = [pc EXCEPT ![c] = "asking"]
    /\ UNCHANGED <<serverVars, sessions, lib, ctx, hasPath, hook, found, kicked, dead,
                   sideVars>>

WaitOnHold(c) ==
    /\ ~dead
    /\ pc[c] = "asking"
    /\ HoldReader(c)
    /\ pc' = [pc EXCEPT ![c] = "held"]
    /\ UNCHANGED <<serverVars, sessions, lib, ctx, hasPath, hook, found, kicked, dead>>

(* onSetup goes on: AddReader has been answered.                           *)
SetupEnds(c) ==
    /\ ~dead
    /\ pc[c] \in {"asking", "held"}
    /\ \/ AdmitReader(c) /\ hasPath' = [hasPath EXCEPT ![c] = TRUE] /\ Returns(c, "preplay")
       \/ RefuseReader(c) /\ UNCHANGED hasPath /\ Returns(c, "idle")
    /\ UNCHANGED <<serverVars, sessions, lib, ctx, hook, found, kicked, dead>>

(* onPlay: a kick has taken the path in the meantime, and it panics, or    *)
(* the hook starts.                                                        *)
OnPlay(c) ==
    /\ Called(c, {"preplay"})
    /\ dead' = ~hasPath[c]
    /\ hook' = [hook EXCEPT ![c] = TRUE]
    /\ Returns(c, "play")
    /\ UNCHANGED <<serverVars, sessions, lib, ctx, hasPath, found, kicked, sideVars>>

OnRecord(c) ==
    /\ Called(c, {"prerecord"})
    /\ pc' = [pc EXCEPT ![c] = "offering"]
    /\ UNCHANGED <<serverVars, sessions, lib, ctx, hasPath, hook, found, kicked, dead,
                   sideVars>>

(* onRecord goes on: AddPublisher has been answered.                       *)
RecordEnds(c) ==
    /\ ~dead
    /\ pc[c] = "offering"
    /\ \/ /\ found[c] = conf
          /\ AdmitPublisher(c)
          /\ Told(Displaced)
          /\ hasPath' = [hasPath EXCEPT ![c] = TRUE]
          /\ Returns(c, "record")
       \/ UNCHANGED <<sideVars, ctx, hasPath>> /\ Returns(c, "idle")
    /\ UNCHANGED <<serverVars, sessions, lib, hook, found, kicked, dead>>

(* onPause: the hook of a reader is called; a publisher leaves the path.   *)
PauseReader(c) ==
    /\ Called(c, {"play"})
    /\ dead' = ~hook[c]
    /\ hook' = [hook EXCEPT ![c] = FALSE]
    /\ Returns(c, "preplay")
    /\ UNCHANGED <<serverVars, sessions, lib, ctx, hasPath, found, kicked, sideVars>>

PausePublisher(c) ==
    /\ Called(c, {"record"})
    /\ dead' = ~hasPath[c]
    /\ RemovePublisher(c)
    /\ Told(LeftBehind(c))
    /\ Returns(c, "prerecord")
    /\ UNCHANGED <<serverVars, sessions, lib, hasPath, hook, found, kicked>>

(* A handler has returned, and the library changes the state: until then   *)
(* the list, and a kick, go by the state before.                           *)
Following == {"preplay", "play", "prerecord", "record"}

StateFollows(c) ==
    /\ ~dead
    /\ pc[c] \in Following
    /\ lib' = [lib EXCEPT ![c] = pc[c]]
    /\ pc' = [pc EXCEPT ![c] = "idle"]
    /\ UNCHANGED <<serverVars, sessions, ctx, hasPath, hook, found, kicked, dead, sideVars>>

-----------------------------------------------------------------------------
(* The path closes sessions; a reload changes its configuration. Bound:    *)
(* once, and no kick.                                                      *)
PathEndsStream ==
    /\ ~dead
    /\ EndStream
    /\ Told(Served)
    /\ UNCHANGED <<serverVars, sessions, lib, pc, hasPath, hook, found, kicked, dead>>

Reload ==
    /\ ~dead
    /\ conf = 1 /\ kicked = {}
    /\ ChangeConf
    /\ UNCHANGED <<serverVars, sessionVars, dead>>

(* Close, and run up to srv.Close, which tells all sessions.               *)
Close ==
    /\ ~dead /\ ~closing
    /\ closing' = TRUE
    /\ srv' = IF srv = "open" THEN "cancelled" ELSE srv
    /\ UNCHANGED <<conns, sessionVars, dead, sideVars>>

(* run: the library fails on its own or is closed, and has closed all it   *)
(* had before Wait returns.                                                *)
Shutdown ==
    /\ ~dead
    /\ srv \in {"open", "cancelled"}
    /\ srv' = "ending"
    /\ Told(Clients)
    /\ UNCHANGED <<closing, conns, sessions, lib, pc, hasPath, hook, found, kicked, dead,
                   sideVars>>

WaitReturns ==
    /\ ~dead
    /\ srv = "ending" /\ conns = {} /\ \A c \in Clients : lib[c] = "none"
    /\ srv' = IF closing THEN "closed" ELSE "ended"
    /\ UNCHANGED <<closing, conns, sessionVars, dead, sideVars>>

CloseReturns ==
    /\ ~dead
    /\ closing /\ srv = "ended"
    /\ srv' = "closed"
    /\ UNCHANGED <<closing, conns, sessionVars, dead, sideVars>>

Handler(c) ==
    \/ OnDescribe(c) \/ OnAnnounce(c) \/ OnSetup(c) \/ OnPlay(c) \/ OnRecord(c)
    \/ PauseReader(c) \/ PausePublisher(c)

Answered(c) == Described(c) \/ SetupEnds(c) \/ RecordEnds(c) \/ StateFollows(c)

Next ==
    \/ \E c \in Clients :
          \/ OnConnOpen(c) \/ OnConnClose(c) \/ OnSessionOpen(c) \/ OnSessionClose(c)
          \/ Handler(c) \/ Answered(c) \/ WaitOnHold(c) \/ APISessionsKick(c)
    \/ PathEndsStream \/ Reload \/ Close \/ Shutdown \/ WaitReturns \/ CloseReturns

Spec == Init /\ [][Next]_vars

-----------------------------------------------------------------------------
(* The Control API and the metrics read what is in the map; the state of a *)
(* session is that of the library.                                         *)
apiItem(c) ==
    CASE lib[c] = "play" -> "read" [] lib[c] = "record" -> "publish" [] OTHER -> "idle"
APISessionsList == [c \in sessions |-> apiItem(c)]

TypeOK ==
    /\ srv \in {"open", "cancelled", "ending", "ended", "closed"}
    /\ closing \in BOOLEAN /\ dead \in BOOLEAN
    /\ conns \subseteq Clients /\ sessions \subseteq Clients /\ kicked \subseteq Clients
    /\ lib \in [Clients -> {"none", "initial", "preplay", "play", "prerecord", "record"}]
    /\ pc \in [Clients -> {"idle", "describing", "asking", "held", "offering"} \cup Following]
    /\ ctx \in [Clients -> BOOLEAN]
    /\ hasPath \in [Clients -> BOOLEAN] /\ hook \in [Clients -> BOOLEAN]
    /\ found \in [Clients -> 0 .. 2]
    /\ SideTypeOK

(* The state that the library has, or is about to have.                    *)
Becomes(c) == IF pc[c] \in Following THEN pc[c] ELSE lib[c]

(* Unless it was kicked, a session that the path counts is in a state, or  *)
(* about to be, in which its end takes it out again, has the path and is   *)
(* in the map; so does one that plays or records and was not told to       *)
(* close, and nothing panics before a session is kicked                    *)
(* (servers/rtsp/session.go:128-150, 206-377).                             *)
NoGhosts ==
    /\ \A c \in Clients \ kicked :
        /\ c \in readers => Becomes(c) \in {"preplay", "play"}
        /\ c \in held <=> pc[c] = "held"
        /\ c = publisher => Becomes(c) = "record"
        /\ c \in Served => hasPath[c] /\ c \in sessions
        /\ Becomes(c) \in {"preplay", "play"} /\ ~ctx[c] => c \in readers
        /\ Becomes(c) = "record" /\ ~ctx[c] => c = publisher
        /\ Becomes(c) = "play" => hook[c]
    /\ dead => kicked # {}

(* The Control API lists the sessions that exist but those that were       *)
(* kicked. One listed as publishing is the publisher of the path, unless   *)
(* it was told to close or the path has let it go and the library has not  *)
(* followed; the publisher is listed so once the library has followed; and *)
(* one listed as reading is a reader of the path, unless it was told to    *)
(* close (servers/rtsp/session.go:237-272, 315-377, 399-425).              *)
ListIsTrue ==
    /\ \A c \in Clients : c \in sessions <=> lib[c] # "none" /\ c \notin kicked
    /\ \A c \in DOMAIN APISessionsList :
          /\ APISessionsList[c] = "publish" => c = publisher \/ ctx[c] \/ pc[c] = "prerecord"
          /\ APISessionsList[c] = "read" => c \in readers \/ ctx[c]
          /\ c = publisher /\ pc[c] # "record" => APISessionsList[c] = "publish"
          /\ c \in readers => APISessionsList[c] # "publish"

ClosedIsEmpty ==
    srv = "closed" => /\ conns = {} /\ sessions = {}
                      /\ Served \cup held \subseteq kicked
=============================================================================
