----------------------------- MODULE ConnServer -----------------------------
(***************************************************************************)
(* What the RTMP, SRT and WebRTC servers have in common, almost to the     *)
(* letter: a goroutine that owns the map of clients, a goroutine per       *)
(* client, and how both end. The lines named in the map are those of       *)
(* servers/rtmp; the modules of the servers name their own where they use  *)
(* an action.                                                              *)
(***************************************************************************)
EXTENDS PathSide

CONSTANTS
    MayRead, MayPublish     \* clients that may ask to read, to publish

VARIABLES
    srv,        \* the server: "open", "cancelled", "ended" (run is over), "closed"
    closing,    \* somebody waits in Server.Close
    conns,      \* Server.conns, which the Control API lists
    pc,         \* where the goroutine of a client is
    ctx,        \* whose context is done
    state       \* what the Control API shows as the state of a client

serverVars == <<srv, closing>>
connVars == <<pc, ctx, state>>
connServerVars == <<serverVars, conns, connVars, sideVars>>

ServerInit ==
    /\ srv = "open"
    /\ closing = FALSE
    /\ conns = {}
    /\ pc = [c \in Clients |-> "none"]
    /\ ctx = [c \in Clients |-> FALSE]
    /\ state = [c \in Clients |-> "idle"]
    /\ SideInit

At(c, here) == pc[c] = here
Goto(c, there) == pc' = [pc EXCEPT ![c] = there]
Show(c, what) == state' = [state EXCEPT ![c] = what]
Cancel(set) == ctx' = [c \in Clients |-> ctx[c] \/ (c \in set /\ ~At(c, "none"))]

(* A wish of a client for what it may do, or a failure before it is known. *)
Wishes(c, read, publish) ==
    {"returned"} \cup (IF c \in MayRead THEN {read} ELSE {})
                 \cup (IF c \in MayPublish THEN {publish} ELSE {})

(* A step of the goroutine of a client that concerns nobody else.          *)
Moves(c, there) ==
    /\ Goto(c, there)
    /\ UNCHANGED <<serverVars, conns, ctx, state, sideVars>>

-----------------------------------------------------------------------------
(* Server.run. Its select still takes calls after the context is done,     *)
(* until it picks that case.                                               *)
LoopRuns == srv \in {"open", "cancelled"}

(* newConn, conn.initialize: the context of a client is derived from that  *)
(* of the server.                                                          *)
Register(c, start) ==
    /\ LoopRuns
    /\ At(c, "none")
    /\ conns' = conns \cup {c}
    /\ Goto(c, start)
    /\ ctx' = [ctx EXCEPT ![c] = srv # "open"]
    /\ Show(c, "idle")
    /\ UNCHANGED <<serverVars, sideVars>>

APIConnsKick(c) ==
    /\ LoopRuns
    /\ c \in conns
    /\ conns' = conns \ {c}
    /\ Cancel({c})
    /\ UNCHANGED <<serverVars, pc, state, sideVars>>

(* An error of Accept ends the server; whoever created it is not told.     *)
AcceptError ==
    /\ LoopRuns
    /\ srv' = "ended"
    /\ Cancel(Clients)
    /\ UNCHANGED <<closing, conns, pc, state, sideVars>>

Close ==
    /\ ~closing
    /\ closing' = TRUE
    /\ srv' = IF srv = "open" THEN "cancelled" ELSE srv
    /\ Cancel(Clients)
    /\ UNCHANGED <<conns, pc, state, sideVars>>

SeeContextDone ==
    /\ srv = "cancelled"
    /\ srv' = "ended"
    /\ UNCHANGED <<closing, conns, connVars, sideVars>>

CloseReturns_NoWait ==
    /\ closing /\ srv = "ended"
    /\ srv' = "closed"
    /\ UNCHANGED <<closing, conns, connVars, sideVars>>

(* wg.Wait returns.                                                        *)
CloseReturns ==
    /\ closing /\ srv = "ended"
    /\ \A c \in Clients : At(c, "none")
    /\ srv' = "closed"
    /\ UNCHANGED <<closing, conns, connVars, sideVars>>

(* conn.run after runInner: closeConn reaches the server or the server     *)
(* ends.                                                                   *)
ConnCloses(c) ==
    /\ At(c, "returned")
    /\ \/ LoopRuns /\ conns' = conns \ {c}
       \/ srv # "open" /\ UNCHANGED conns
    /\ Goto(c, "none")
    /\ ctx' = [ctx EXCEPT ![c] = FALSE]
    /\ UNCHANGED <<serverVars, state, sideVars>>

-----------------------------------------------------------------------------
(* Requests to path manager and path: the client waits for the answer,     *)
(* whatever becomes of its context.                                        *)

(* AddReader, answered at once or from hold. What the client does with the *)
(* answer, and what it shows then, comes later: the path has it already.   *)
AddReaderTo(c) ==
    /\ At(c, "asking") \/ At(c, "held")
    /\ \/ AdmitReader(c) /\ Goto(c, "admitted")
       \/ RefuseReader(c) /\ Goto(c, "returned")
    /\ UNCHANGED <<serverVars, conns, ctx, state>>

WaitOnHold(c) ==
    /\ At(c, "asking")
    /\ HoldReader(c)
    /\ Goto(c, "held")
    /\ UNCHANGED <<serverVars, conns, ctx, state>>

(* The deferred RemoveReader.                                              *)
LeavePath(c) ==
    /\ At(c, "leaving")
    /\ RemoveReader(c)
    /\ Goto(c, "returned")
    /\ UNCHANGED <<serverVars, conns, ctx, state>>

(* AddPublisher; "allowed" is what ConfToCompare asks for.                 *)
AddPublisherIf(allowed, c) ==
    /\ At(c, "offering")
    /\ \/ /\ allowed
          /\ AdmitPublisher(c)
          /\ Goto(c, "accepted")
          /\ Cancel(Displaced)
       \/ Goto(c, "returned") /\ UNCHANGED <<ctx, sideVars>>
    /\ UNCHANGED <<serverVars, conns, state>>

ShowPublish_WrongState(c) ==
    /\ At(c, "accepted")
    /\ Goto(c, "publishing")
    /\ Show(c, "published")
    /\ UNCHANGED <<serverVars, conns, ctx, sideVars>>

(* runPublish of RTMP and SRT, once it is back from AddPublisher: the      *)
(* state changes under a mutex, which the list takes as well.              *)
ShowPublish(c) ==
    /\ At(c, "accepted")
    /\ Goto(c, "publishing")
    /\ Show(c, "publish")
    /\ UNCHANGED <<serverVars, conns, ctx, sideVars>>

(* The deferred RemovePublisher.                                           *)
Unpublish(c) ==
    /\ At(c, "unpublishing")
    /\ RemovePublisher(c)
    /\ Cancel(LeftBehind(c))
    /\ Goto(c, "returned")
    /\ UNCHANGED <<serverVars, conns, state>>

(* The path ends its stream and closes those who take part.                *)
PathEndsStream ==
    /\ EndStream
    /\ Cancel(Served)
    /\ UNCHANGED <<serverVars, conns, pc, state>>

-----------------------------------------------------------------------------
ServerTypeOK ==
    /\ srv \in {"open", "cancelled", "ended", "closed"}
    /\ closing \in BOOLEAN
    /\ conns \subseteq Clients
    /\ ctx \in [Clients -> BOOLEAN]
    /\ SideTypeOK

(* Where a client is between the path's answer and the call that takes it  *)
(* out of the path again.                                                  *)
Reading == {"admitted", "starting", "answering", "reading", "leaving"}
Publishing == {"accepted", "publishing", "unpublishing"}

(* Whoever the path counts as a reader, as waiting or as its publisher has *)
(* a goroutine that will take it out again, whether it was kicked, told to *)
(* close by the path, or ended with the server; and who has been let in    *)
(* and was not told to close is known to the path                          *)
(* (servers/rtmp/conn.go:144-268, servers/srt/conn.go:126-345,             *)
(* servers/webrtc/session.go:144-400).                                     *)
NoGhosts ==
    \A c \in Clients :
        /\ c \in readers => pc[c] \in Reading
        /\ c \in held <=> pc[c] = "held"
        /\ c = publisher => pc[c] \in Publishing
        /\ pc[c] \in Reading /\ ~ctx[c] => c \in readers
        /\ pc[c] \in Publishing /\ ~ctx[c] => c = publisher

(* While the server is open, the Control API lists every client but those  *)
(* that were kicked, and nobody who has gone                               *)
(* (servers/rtmp/server.go:191-240, 290-355, and their like in the other   *)
(* servers).                                                               *)
ListIsTrue ==
    srv = "open" =>
        \A c \in Clients :
            /\ c \in conns => pc[c] # "none"
            /\ pc[c] # "none" /\ ~ctx[c] => c \in conns

(* What the list says a client does, it does for the path, unless it was   *)
(* told to close or is about to go; and what it does for the path the list *)
(* says, but for the moments between the answer of the path and the        *)
(* client's own assignment, in which it is still shown as idle             *)
(* (servers/rtmp/conn.go:154-184, 240-274, servers/srt/conn.go:218-248,    *)
(* 256-310).                                                               *)
ListsWhatIsDone ==
    \A c \in conns :
        /\ state[c] = "publish" => c = publisher \/ ctx[c] \/ pc[c] \in {"returned", "none"}
        /\ state[c] = "read" => c \in readers \/ ctx[c] \/ pc[c] \in {"returned", "none"}
        /\ c = publisher => state[c] = IF pc[c] = "accepted" THEN "idle" ELSE "publish"
        /\ c \in readers => state[c] # "publish"
        /\ pc[c] = "reading" => state[c] = "read"

(* When Close has returned, no client of the server is left, nor in the    *)
(* path (servers/rtmp/server.go:165-183).                                  *)
ClosedIsEmpty ==
    srv = "closed" => Served \cup held = {} /\ \A c \in Clients : pc[c] = "none"

=============================================================================
