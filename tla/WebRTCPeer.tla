----------------------------- MODULE WebRTCPeer -----------------------------
(***************************************************************************)
(* The peer connection of a session of the WebRTC server, from its start   *)
(* to the end of runPublish or runRead                                     *)
(* (servers/webrtc/session.go:153-409). What surrounds it is in            *)
(* WebRTCServer.                                                           *)
(***************************************************************************)
EXTENDS PeerConnection

VARIABLES
    told,              \* s.ctx is done
    owner,             \* the goroutine of the session
    onPath             \* the session is the publisher of a path, or reads its stream

clientVars == <<told, owner, onPath>>
vars == <<peerVars, clientVars>>

Init == PeerInit /\ told = FALSE /\ owner = "start" /\ onPath = FALSE

Goto(where) == owner' = where /\ UNCHANGED <<told, onPath>>

StartPeer ==
    /\ owner = "start"
    /\ \/ Start /\ Goto("offer")
       \/ Goto("gone") /\ UNCHANGED run
    /\ UNCHANGED <<publish, described, negotiated, ctxDone, pionVars, channelVars, gatherVars, trackVars>>

(* The offer is invalid, or CreateFullAnswer gives it to pion and waits    *)
(* for all candidates: both descriptions are set.                          *)
CreateFullAnswer ==
    /\ owner = "offer"
    /\ \/ Goto("ending") /\ UNCHANGED <<described, negotiated>>
       \/ Goto("waitGatheringDone") /\ described' = TRUE /\ negotiated' = TRUE
    /\ UNCHANGED <<publish, ctxDone, run, pionVars, channelVars, gatherVars, trackVars>>

waitGatheringDone ==
    /\ owner = "waitGatheringDone"
    /\ \/ TakeCandidate /\ UNCHANGED clientVars
       \/ gatheringDone /\ Goto("connecting") /\ UNCHANGED offering
       \/ ctxDone /\ Goto("ending") /\ UNCHANGED offering
    /\ UNCHANGED <<publish, described, negotiated, ctxDone, run, pionVars, channelVars, gatheringDone,
                   candidates, trackVars>>

(* The timer is one more case.                                             *)
WaitUntilConnected ==
    /\ owner = "connecting"
    /\ \/ connected /\ Goto(IF publish THEN "ready" ELSE "gather")
       \/ Goto("ending")
    /\ UNCHANGED peerVars

GatherTrack ==
    /\ owner = "gather" /\ TakeTrack
    /\ IF incoming + 1 >= MaxTracks THEN Goto("ready") ELSE UNCHANGED clientVars
    /\ UNCHANGED <<publish, described, negotiated, ctxDone, run, pionVars, channelVars, gatherVars,
                   coming, reading, receivers>>
GatherEnds ==
    /\ owner = "gather"
    /\ \/ Goto(IF incoming # 0 THEN "ready" ELSE "ending")      \* the timer
       \/ (failed \/ ctxDone) /\ Goto("ending")
    /\ UNCHANGED peerVars

(* AddPublisher, which may refuse, and StartReading; or AddReader.         *)
Join ==
    /\ owner = "ready"
    /\ \/ /\ owner' = "streaming" /\ onPath' = TRUE /\ UNCHANGED told
          /\ IF publish THEN UNCHANGED <<reading, receivers>> ELSE StartReading
       \/ ~publish /\ Goto("ending") /\ UNCHANGED <<reading, receivers>>
    /\ UNCHANGED <<publish, described, negotiated, ctxDone, run, pionVars, channelVars, gatherVars,
                   coming, offered, incoming>>

(* Failed, the error of a reader, or the context; then RemovePublisher or  *)
(* RemoveReader, which come before the terminator in the order of defer.   *)
Leave ==
    /\ owner = "streaming" /\ (failed \/ told \/ publish)
    /\ owner' = "ending" /\ onPath' = FALSE
    /\ UNCHANGED <<told, peerVars>>

(* The terminator: the context of the session, or the end of its function; *)
(* and then that function waits for it.                                    *)
Terminate ==
    /\ told \/ owner = "ending"
    /\ run # "none" /\ ~ctxDone /\ CtxCancel
    /\ UNCHANGED <<publish, described, negotiated, run, pionVars, channelVars, gatherVars, trackVars,
                   clientVars>>
End == owner = "ending" /\ CloseReturns /\ Goto("gone") /\ UNCHANGED peerVars

Told == owner # "gone" /\ told' = TRUE /\ UNCHANGED <<owner, onPath, peerVars>>

Owner ==
    \/ StartPeer \/ CreateFullAnswer \/ waitGatheringDone \/ WaitUntilConnected \/ GatherTrack
    \/ GatherEnds \/ Join \/ Leave \/ Terminate \/ End

Next == Owner \/ Told \/ (PeerNext /\ UNCHANGED clientVars)

-----------------------------------------------------------------------------
TypeOK ==
    /\ PeerTypeOK
    /\ {told, onPath} \subseteq BOOLEAN
    /\ owner \in {"start", "offer", "waitGatheringDone", "connecting", "gather", "ready",
                  "streaming", "ending", "gone"}

(* Who is on its path has not begun to end, and who is gone is off its     *)
(* path, with a connection that is closed.                                 *)
GoneIsGone ==
    /\ CloseIsClean
    /\ onPath => owner = "streaming"
    /\ owner = "gone" => run \in {"none", "done"} /\ ~onPath

IsLeaving == told /\ owner # "gone"
=============================================================================
