----------------------------- MODULE WHIPClient -----------------------------
(***************************************************************************)
(* The WHIP/WHEP client (protocols/whip/client.go) with what uses it: the  *)
(* WebRTC source, that reads (staticsources/webrtc/source.go), and the     *)
(* WebRTC forwarder, that publishes (forwarder/webrtc_forwarder.go). The   *)
(* session is what the HTTP server on the other side keeps, and is         *)
(* external.                                                               *)
(***************************************************************************)
EXTENDS PeerConnection

VARIABLES
    told,              \* the context of the source or of the forwarder is done
    owner,             \* where its goroutine is
    inner,             \* the goroutine of initializeInner, and its result
    session,           \* on the other side; "asked" when its DELETE has failed: it may be there
    legible            \* the answer to the POST was taken for one

clientVars == <<told, owner, inner, session, legible>>
vars == <<peerVars, clientVars>>

Init ==
    /\ PeerInit
    /\ told = FALSE /\ owner = "options" /\ inner = "none" /\ session = "none" /\ legible = TRUE

-----------------------------------------------------------------------------
Goto(where) == owner' = where /\ UNCHANGED <<told, inner, session, legible>>
InnerGoes(where) == inner' = where /\ UNCHANGED <<told, owner, session, legible>>

(* Initialize.                                                             *)

(* The OPTIONS request has the context, and fails or not; pc.Start as      *)
(* well.                                                                   *)
OptionsFail == owner = "options" /\ Goto("gone") /\ UNCHANGED peerVars
StartPeer ==
    /\ owner = "options" /\ ~told
    /\ Start
    /\ owner' = "init" /\ inner' = "offer"
    /\ UNCHANGED <<told, session, legible, publish, described, negotiated, ctxDone, pionVars,
                   channelVars, gatherVars, trackVars>>

(* The select: the context, or the result.                                 *)
InitializeTold ==
    /\ owner = "init" /\ told
    /\ Goto("terminating")
    /\ CtxCancel
    /\ UNCHANGED <<publish, described, negotiated, run, pionVars, channelVars, gatherVars, trackVars>>
InitializeTerminated ==
    /\ owner = "terminating" /\ CloseReturns /\ inner \in {"ok", "err"}
    /\ Goto("gone") /\ UNCHANGED peerVars
InitializeReturns ==
    /\ owner = "init"
    /\ \/ inner = "ok" /\ Goto("ready") /\ UNCHANGED ctxDone
       \/ inner = "err" /\ Goto("closing") /\ CtxCancel
    /\ UNCHANGED <<publish, described, negotiated, run, pionVars, channelVars, gatherVars, trackVars>>

-----------------------------------------------------------------------------
(* initializeInner, in a goroutine of its own.                             *)

CreatePartialOffer ==
    /\ inner = "offer"
    /\ \/ InnerGoes("posting") /\ described' = TRUE
       \/ InnerGoes("err") /\ UNCHANGED described
    /\ UNCHANGED <<publish, negotiated, ctxDone, run, pionVars, channelVars, gatherVars, trackVars>>

(* postOffer: the other side has created a session, or not; the answer may *)
(* get lost, or have no ETag, or no Location that can be parsed.           *)
PostOffer ==
    /\ inner = "posting"
    /\ \/ session' = "open" /\ ~told /\ inner' = "answered" /\ UNCHANGED legible
       \/ session' = "open" /\ inner' = "err" /\ legible' = FALSE
       \/ inner' = "err" /\ UNCHANGED <<session, legible>>
    /\ UNCHANGED <<told, owner, peerVars>>

(* The description of the answer is invalid, or pion has it.               *)
SetAnswer ==
    /\ inner = "answered"
    /\ \/ InnerGoes("deleting") /\ UNCHANGED negotiated
       \/ InnerGoes("loop") /\ negotiated' = TRUE
    /\ UNCHANGED <<publish, described, ctxDone, run, pionVars, channelVars, gatherVars, trackVars>>

(* The loop: a candidate is sent with PATCH, unless that is not supported, *)
(* when patchCandidate returns at once.                                    *)
LoopCandidate ==
    /\ inner = "loop" /\ TakeCandidate
    /\ InnerGoes("patching")
    /\ UNCHANGED <<publish, described, negotiated, ctxDone, run, pionVars, channelVars, gatheringDone,
                   candidates, trackVars>>
PatchCandidate ==
    /\ inner = "patching"
    /\ \/ InnerGoes("loop")
       \/ InnerGoes("deleting")
    /\ UNCHANGED peerVars
LoopConnected ==
    /\ inner = "loop" /\ connected
    /\ InnerGoes(IF publish THEN "ok" ELSE "gather")
    /\ UNCHANGED peerVars
(* The timer of the handshake, which alone ends the loop of one that was   *)
(* told.                                                                   *)
LoopTimeout == inner = "loop" /\ InnerGoes("deleting") /\ UNCHANGED peerVars

(* GatherIncomingTracks.                                                   *)
GatherTrack ==
    /\ inner = "gather" /\ TakeTrack
    /\ IF incoming + 1 >= MaxTracks THEN InnerGoes("ok") ELSE UNCHANGED clientVars
    /\ UNCHANGED <<publish, described, negotiated, ctxDone, run, pionVars, channelVars, gatherVars,
                   coming, reading, receivers>>
GatherTimeout ==
    /\ inner = "gather"
    /\ InnerGoes(IF incoming # 0 THEN "ok" ELSE "deleting")
    /\ UNCHANGED peerVars
GatherEnds ==
    /\ inner = "gather" /\ (failed \/ ctxDone)
    /\ InnerGoes("deleting") /\ UNCHANGED peerVars

(* The request has a context of its own. It fails, or is refused, and      *)
(* nobody looks at its error: it is not sent again.                        *)
deleteSession == session' \in {"deleted", "asked"}

DeleteAfterError ==
    /\ inner = "deleting"
    /\ inner' = "err" /\ deleteSession
    /\ UNCHANGED <<told, owner, legible, peerVars>>

-----------------------------------------------------------------------------
(* source.Run, webrtcForwarder.runInner: after Initialize.                 *)

(* ToStream or SetReady fails; the forwarder goes on in any case.          *)
Refused == owner = "ready" /\ ~publish /\ Goto("leaving") /\ UNCHANGED peerVars
Accepted ==
    /\ owner = "ready"
    /\ StartReading
    /\ Goto("reading")
    /\ UNCHANGED <<publish, described, negotiated, ctxDone, run, pionVars, channelVars, gatherVars,
                   coming, offered, incoming>>

(* Client.Wait, or the context.                                            *)
ReadingEnds == owner = "reading" /\ (failed \/ told) /\ Goto("leaving") /\ UNCHANGED peerVars

(* Client.Close: deleteSession, then pc.Close.                             *)
DeleteSession ==
    /\ owner = "leaving"
    /\ owner' = "closing" /\ deleteSession
    /\ CtxCancel
    /\ UNCHANGED <<told, inner, legible, publish, described, negotiated, run, pionVars, channelVars,
                   gatherVars, trackVars>>
Closed == owner = "closing" /\ CloseReturns /\ Goto("gone") /\ UNCHANGED peerVars

Told == owner # "gone" /\ told' = TRUE /\ UNCHANGED <<owner, inner, session, legible, peerVars>>

Owner ==
    \/ OptionsFail \/ StartPeer \/ InitializeTold \/ InitializeTerminated \/ InitializeReturns
    \/ Refused \/ Accepted \/ ReadingEnds \/ DeleteSession \/ Closed

Inner ==
    \/ CreatePartialOffer \/ PostOffer \/ SetAnswer \/ LoopCandidate \/ PatchCandidate
    \/ LoopConnected \/ GatherTrack \/ GatherTimeout \/ GatherEnds \/ DeleteAfterError

Next == Owner \/ Inner \/ LoopTimeout \/ Told \/ (PeerNext /\ UNCHANGED clientVars)

-----------------------------------------------------------------------------
TypeOK ==
    /\ PeerTypeOK
    /\ {told, legible} \subseteq BOOLEAN
    /\ owner \in {"options", "init", "terminating", "ready", "reading", "leaving", "closing", "gone"}
    /\ inner \in {"none", "offer", "posting", "answered", "loop", "patching", "gather", "deleting",
                  "ok", "err"}
    /\ session \in {"none", "open", "asked", "deleted"}

(* Who is gone has no goroutine of its own left, and has asked to delete   *)
(* the session of the other side, however far it came; unless it never     *)
(* learnt of it, or was told in the very moment it was connected           *)
(* (client.go:69-76). Whether the other side does so is not known to it.   *)
GoneIsGone ==
    /\ CloseIsClean
    /\ owner = "gone" => run \in {"none", "done"} /\ inner \in {"none", "ok", "err"}
    /\ owner = "gone" /\ session = "open" => ~legible \/ (told /\ inner = "ok")

(* Source.Run and runInner return when their context is done.              *)
IsLeaving == told /\ owner # "gone"
=============================================================================
