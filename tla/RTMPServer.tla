----------------------------- MODULE RTMPServer -----------------------------
(***************************************************************************)
(* The RTMP server (servers/rtmp): a connection does a handshake, then     *)
(* reads from a path or publishes to it until something ends.              *)
(***************************************************************************)
EXTENDS ConnServer

vars == connServerVars

Init == ServerInit

(* listener.runInner, Server.newConn, conn.initialize.                     *)
NewConn(c) == Register(c, "handshake")

(* conn.runReader: the client says what it wants, or fails.                *)
Handshake(c) ==
    /\ At(c, "handshake")
    /\ \E there \in Wishes(c, "asking", "offering") : Moves(c, there)

(* runRead: AddReader is answered.                                         *)
AddReader(c) == AddReaderTo(c)

(* runRead: the state is set before anything can fail.                     *)
ShowRead(c) ==
    /\ At(c, "admitted")
    /\ Goto(c, "starting")
    /\ Show(c, "read")
    /\ UNCHANGED <<serverVars, conns, ctx, sideVars>>

(* runRead: FromStream fails, or the hook runs and the stream has a reader *)
(* more.                                                                   *)
StartReading(c) ==
    /\ At(c, "starting")
    /\ Moves(c, "reading") \/ Moves(c, "leaving")

(* The select at the end of runRead.                                       *)
ReadingEnds(c) == At(c, "reading") /\ Moves(c, "leaving")

(* runPublish: credentials are checked within AddPublisher.                *)
AddPublisher(c) == AddPublisherIf(TRUE, c)

(* The loop at the end of runPublish: Read fails.                          *)
PublishingEnds(c) == At(c, "publishing") /\ Moves(c, "unpublishing")

(* conn.runInner: when the context is done, it closes the socket, so that  *)
(* whatever reads from it fails, and waits for it.                         *)
Interrupted(c) == Handshake(c) \/ ReadingEnds(c) \/ PublishingEnds(c)

(* Server.run.                                                             *)
Run ==
    \/ \E c \in Clients : NewConn(c) \/ APIConnsKick(c)
    \/ AcceptError
    \/ SeeContextDone

(* conn.run.                                                               *)
ConnRun(c) ==
    \/ AddReader(c) \/ ShowRead(c) \/ StartReading(c) \/ LeavePath(c)
    \/ AddPublisher(c) \/ ShowPublish(c) \/ Unpublish(c) \/ ConnCloses(c)

Next ==
    \/ Run \/ Close \/ CloseReturns
    \/ \E c \in Clients : ConnRun(c) \/ WaitOnHold(c) \/ Interrupted(c)
    \/ PathEndsStream

Spec == Init /\ [][Next]_vars

(* The Control API and the metrics, which Server.run answers too.          *)
apiItem(c) == state[c]
APIConnsList == [c \in conns |-> apiItem(c)]

TypeOK ==
    /\ ServerTypeOK
    /\ pc \in [Clients -> {"none", "handshake", "asking", "held", "admitted", "starting",
                           "reading", "leaving", "offering", "accepted", "publishing",
                           "unpublishing", "returned"}]
    /\ state \in [Clients -> {"idle", "read", "publish"}]

(* A reader is shown as one even before its stream can be written to it    *)
(* (servers/rtmp/conn.go:178-191).                                         *)
StateIsTrue ==
    /\ ListsWhatIsDone
    /\ \A c \in DOMAIN APIConnsList :
          c \in readers => APIConnsList[c] = IF pc[c] = "admitted" THEN "idle" ELSE "read"
=============================================================================
