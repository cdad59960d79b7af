----------------------------- MODULE SRTServer ------------------------------
(***************************************************************************)
(* The SRT server (servers/srt): what a connection wants is in its stream  *)
(* identifier, which comes with the request to connect. A publisher is     *)
(* accepted before the path has it, a reader afterwards.                   *)
(***************************************************************************)
EXTENDS ConnServer

VARIABLE found      \* the configuration FindPathConf has given to a publisher

vars == <<connServerVars, found>>

Init == ServerInit /\ found = [c \in Clients |-> 0]

(* listener.runInner, Server.newConnRequest, conn.initialize.              *)
NewConn(c) == Register(c, "parsing") /\ UNCHANGED found

(* runInner, streamID.unmarshal: an identifier may be invalid, else it     *)
(* asks to read or to publish.                                             *)
ParseStreamID(c) ==
    /\ At(c, "parsing")
    /\ \E there \in Wishes(c, "asking", "finding") : Moves(c, there)
    /\ UNCHANGED found

(* runPublish: FindPathConf, which may refuse; the passphrase of that      *)
(* configuration must match and the connection be accepted.                *)
FindPathConf(c) ==
    /\ At(c, "finding")
    /\ \/ Moves(c, "probing") /\ found' = [found EXCEPT ![c] = conf]
       \/ Moves(c, "returned") /\ UNCHANGED found

(* runPublishReader: the tracks are read from the connection.              *)
ToStream(c) ==
    /\ At(c, "probing")
    /\ Moves(c, "offering") \/ Moves(c, "returned")
    /\ UNCHANGED found

AddPublisher_NoComparison(c) == AddPublisherIf(TRUE, c) /\ UNCHANGED found

(* runPublishReader: AddPublisher without credentials, for they were       *)
(* checked with the configuration that is passed along.                    *)
AddPublisher(c) == AddPublisherIf(found[c] = conf, c) /\ UNCHANGED found

(* runPublishReader: Read fails, also because runPublish closes the        *)
(* connection when the context is done.                                    *)
PublishingEnds(c) == At(c, "publishing") /\ Moves(c, "unpublishing") /\ UNCHANGED found

(* runRead.                                                                *)
AddReader(c) == AddReaderTo(c) /\ UNCHANGED found

(* runRead, once added: the passphrase for reading, Accept and FromStream  *)
(* may fail.                                                               *)
StartReading(c) ==
    /\ At(c, "admitted")
    /\ \/ Goto(c, "reading") /\ Show(c, "read")
       \/ Goto(c, "leaving") /\ UNCHANGED state
    /\ UNCHANGED <<serverVars, conns, ctx, sideVars, found>>

(* The select at the end of runRead.                                       *)
ReadingEnds(c) == At(c, "reading") /\ Moves(c, "leaving") /\ UNCHANGED found

(* The same goroutine as that of the RTMP server.                          *)
Run ==
    /\ \/ \E c \in Clients : APIConnsKick(c)
       \/ AcceptError
       \/ SeeContextDone
    /\ UNCHANGED found

ConnRun(c) ==
    \/ ParseStreamID(c) \/ FindPathConf(c) \/ AddPublisher(c)
    \/ AddReader(c) \/ StartReading(c)
    \/ (ShowPublish(c) \/ LeavePath(c) \/ Unpublish(c)) /\ UNCHANGED found
    \/ ConnCloses(c) /\ found' = [found EXCEPT ![c] = 0]

Interrupted(c) == ToStream(c) \/ ReadingEnds(c) \/ PublishingEnds(c)

(* What others do.                                                         *)
Around ==
    /\ \/ Close \/ CloseReturns
       \/ \E c \in Clients : WaitOnHold(c)
       \/ PathEndsStream
       \/ ChangeConf /\ UNCHANGED <<serverVars, conns, connVars>>
    /\ UNCHANGED found

Next ==
    \/ Run \/ Around
    \/ \E c \in Clients : NewConn(c) \/ ConnRun(c) \/ Interrupted(c)

Spec == Init /\ [][Next]_vars

(* The Control API and the metrics, which Server.run answers too.          *)
apiItem(c) == state[c]
APIConnsList == [c \in conns |-> apiItem(c)]

TypeOK ==
    /\ ServerTypeOK
    /\ pc \in [Clients -> {"none", "parsing", "asking", "held", "admitted", "reading",
                           "leaving", "finding", "probing", "offering", "accepted",
                           "publishing", "unpublishing", "returned"}]
    /\ state \in [Clients -> {"idle", "read", "publish"}]
    /\ found \in [Clients -> 0 .. 2]

(* A reader is shown as one only when its stream can be written to it: one *)
(* that is not accepted, and leaves at once, has never been shown          *)
(* (servers/srt/conn.go:279-310).                                          *)
StateIsTrue ==
    /\ ListsWhatIsDone
    /\ \A c \in DOMAIN APIConnsList : pc[c] = "admitted" => APIConnsList[c] = "idle"

(* A publisher enters the path with the configuration whose passphrase and *)
(* credentials it was checked against, though it has spent any time with   *)
(* finding its tracks since then (servers/srt/conn.go:142-168, 218-230).   *)
PublishersWereChecked ==
    [][\A c \in Clients : publisher' = c /\ publisher # c => found[c] = conf]_vars
=============================================================================
