--------------------------- MODULE PeerConnection ---------------------------
(***************************************************************************)
(* The wrapper around a WebRTC peer connection                             *)
(* (protocols/webrtc/peer_connection.go). The library, pion, is external:  *)
(* it calls the handlers of candidates one at a time, and those of states  *)
(* and tracks in goroutines that nobody waits for, so in any order.        *)
(***************************************************************************)
EXTENDS Naturals

CONSTANTS
    MaxTracks,         \* medias in the remote description
    MaxCandidates,     \* local candidates that pion finds
    MaxChanges         \* how often the connection is lost and established again

VARIABLES
    publish,           \* co.Publish: tracks go out, none comes in
    described,         \* pion has the local description: it looks for candidates
    negotiated,        \* and the remote one
    ctxDone,           \* co.ctx
    run,               \* the goroutine of run()
    state, changes,    \* pion: the state of the connection, and how often it was lost
    reports,           \* handlers of states that have not got the mutex yet
    connected, failed, closed, gatheringDone,        \* channels that are closed
    dead,              \* a channel was closed twice
    candidates,        \* candidates still to find
    offering,          \* the handler of a candidate is blocked
    coming, offered,   \* tracks still to come, and handlers of tracks that are blocked
    incoming,          \* len(co.incomingTracks)
    reading,                   \* tracks whose goroutines, made by start(), have not ended
    receivers                  \* tracks that were started, and not closed

channelVars == <<connected, failed, closed, dead>>
trackVars == <<coming, offered, incoming, reading, receivers>>
pionVars == <<state, changes, reports>>
gatherVars == <<gatheringDone, candidates, offering>>
peerVars == <<publish, described, negotiated, ctxDone, run, pionVars, channelVars, gatherVars,
              trackVars>>

Reported == {"connected", "failed", "closed"}

PeerInit ==
    /\ publish \in BOOLEAN
    /\ described = FALSE /\ negotiated = FALSE /\ ctxDone = FALSE /\ run = "none"
    /\ state = "new" /\ changes = 0 /\ reports = [s \in Reported |-> 0]
    /\ connected = FALSE /\ failed = FALSE /\ closed = FALSE /\ dead = FALSE
    /\ candidates = MaxCandidates /\ offering = FALSE /\ gatheringDone = FALSE
    /\ coming = IF publish THEN 0 ELSE MaxTracks
    /\ offered = 0 /\ incoming = 0 /\ reading = 0 /\ receivers = 0

-----------------------------------------------------------------------------
(* What the owner calls.                                                   *)

(* Start, up to "go co.run()": all that may fail comes before.             *)
Start == run = "none" /\ run' = "loop"

(* A channel that somebody waits for.                                      *)
CtxCancel == ctxDone' = TRUE
CloseReturns == run = "done"

(* NewLocalCandidate: the handler of the candidate goes on.                *)
TakeCandidate == offering /\ offering' = FALSE

(* GatherIncomingTracks, the case of a track.                              *)
TakeTrack ==
    /\ offered > 0
    /\ offered' = offered - 1
    /\ incoming' = incoming + 1

(* StartReading, with its case in run: the tracks there are by now.        *)
StartReading ==
    \/ run = "loop" /\ reading' = incoming /\ receivers' = incoming
    \/ ctxDone /\ UNCHANGED <<reading, receivers>>

-----------------------------------------------------------------------------
(* run: after the loop, its deferred function.                             *)

(* The receiver of a track, which has a timer, is closed; the goroutines   *)
(* that read the track are neither told nor waited for.                    *)
CloseTracks ==
    /\ run = "loop" /\ ctxDone
    /\ run' = "graceful"
    /\ receivers' = 0
    /\ UNCHANGED <<publish, described, negotiated, ctxDone, pionVars, channelVars, gatherVars,
                   coming, offered, incoming, reading>>

Report(s) == reports' = [reports EXCEPT ![s] = @ + 1]

(* wr.GracefulClose waits for the handler of a candidate, and reports that *)
(* the state is closed unless it has done so.                              *)
GracefulClose ==
    /\ run = "graceful" /\ ~offering
    /\ run' = "waiting"
    /\ state' = "closed"
    /\ IF state = "closed" THEN UNCHANGED reports ELSE Report("closed")
    /\ UNCHANGED <<publish, described, negotiated, ctxDone, changes, channelVars, gatherVars,
                   trackVars>>

(* The loop is over when OnConnectionStateChange has said so.              *)
Done ==
    /\ run = "waiting" /\ closed
    /\ run' = "done"
    /\ UNCHANGED <<publish, described, negotiated, ctxDone, pionVars, channelVars, gatherVars,
                   trackVars>>

-----------------------------------------------------------------------------
(* pion.                                                                   *)
Quiet == <<publish, described, negotiated, ctxDone, run>>

Becomes(s) ==
    /\ state' = s
    /\ IF s \in Reported THEN Report(s) ELSE UNCHANGED reports
    /\ UNCHANGED <<Quiet, channelVars, gatherVars, trackVars>>

PionConnects ==
    /\ negotiated /\ state \in {"new", "disconnected"}
    /\ Becomes("connected") /\ UNCHANGED changes
PionDisconnects ==
    /\ state = "connected" /\ changes < MaxChanges
    /\ Becomes("disconnected") /\ changes' = changes + 1
PionFails ==
    /\ negotiated /\ state \in {"new", "connected", "disconnected"}
    /\ Becomes("failed") /\ UNCHANGED changes
(* The other peer sends a DTLS CloseNotify.                                *)
PionIsClosed ==
    /\ state \in {"connected", "disconnected", "failed"}
    /\ Becomes("closed") /\ UNCHANGED changes

(* close() of a channel.                                                   *)
CloseFailed == IF failed THEN dead' = TRUE /\ UNCHANGED failed ELSE failed' = TRUE /\ UNCHANGED dead
CloseClosed == closed' = TRUE /\ UNCHANGED <<failed, dead>>

CloseAll_Unchecked == closed' = TRUE /\ CloseFailed
(* "closed" can arrive before "failed": it tells both.                     *)
CloseAll == IF failed THEN CloseClosed ELSE closed' = TRUE /\ failed' = TRUE /\ UNCHANGED dead

(* OnConnectionStateChange, with its mutex.                                *)
HandleState(s) ==
    /\ reports[s] > 0
    /\ reports' = [reports EXCEPT ![s] = @ - 1]
    /\ CASE closed -> UNCHANGED channelVars
         [] ~closed /\ s = "connected" -> connected' = TRUE /\ UNCHANGED <<failed, closed, dead>>
         [] ~closed /\ s = "failed" -> CloseFailed /\ UNCHANGED <<connected, closed>>
         [] ~closed /\ s = "closed" -> CloseAll /\ UNCHANGED connected
    /\ UNCHANGED <<Quiet, state, changes, gatherVars, trackVars>>

(* OnICECandidate, with a candidate and without.                           *)
FindCandidate ==
    /\ described /\ state # "closed" /\ ~offering
    /\ \/ candidates > 0 /\ candidates' = candidates - 1 /\ offering' = TRUE
          /\ UNCHANGED gatheringDone
       \/ candidates = 0 /\ ~gatheringDone /\ gatheringDone' = TRUE
          /\ UNCHANGED <<candidates, offering>>
    /\ UNCHANGED <<Quiet, pionVars, channelVars, trackVars>>

CandidateIsUseless_Ctx == connected
CandidateIsUseless == connected \/ ctxDone

(* OnICECandidate, the other cases.                                        *)
DropCandidate ==
    /\ offering /\ CandidateIsUseless
    /\ offering' = FALSE
    /\ UNCHANGED <<Quiet, pionVars, channelVars, gatheringDone, candidates, trackVars>>

(* OnTrack, and its other case.                                            *)
TrackComes ==
    /\ state = "connected" /\ coming > 0
    /\ coming' = coming - 1 /\ offered' = offered + 1
    /\ UNCHANGED <<Quiet, pionVars, channelVars, gatherVars, incoming, reading, receivers>>
DropTrack ==
    /\ offered > 0 /\ ctxDone
    /\ offered' = offered - 1
    /\ UNCHANGED <<Quiet, pionVars, channelVars, gatherVars, coming, incoming, reading, receivers>>

(* The goroutines of IncomingTrack.start: reading and writing fail when the*)
(* connection is closed; before that the other peer may end a track.       *)
TrackEnds ==
    /\ reading > 0 /\ reading' = reading - 1
    /\ UNCHANGED <<Quiet, pionVars, channelVars, gatherVars, coming, offered, incoming, receivers>>

Goroutines ==
    \/ CloseTracks \/ GracefulClose \/ Done
    \/ \E s \in Reported : HandleState(s)
    \/ DropCandidate \/ DropTrack \/ (state = "closed" /\ TrackEnds)

Pion ==
    \/ FindCandidate \/ PionConnects \/ PionDisconnects \/ PionFails \/ PionIsClosed
    \/ TrackComes \/ TrackEnds

PeerNext == Goroutines \/ Pion

-----------------------------------------------------------------------------
PeerTypeOK ==
    /\ {publish, described, negotiated, ctxDone, connected, failed, closed, gatheringDone, dead,
        offering} \subseteq BOOLEAN
    /\ run \in {"none", "loop", "graceful", "waiting", "done"}
    /\ state \in {"new", "connected", "disconnected", "failed", "closed"}
    /\ changes \in 0..MaxChanges
    /\ reports \in [Reported -> 0..(MaxChanges + 1)]
    /\ candidates \in 0..MaxCandidates
    /\ {coming, offered, incoming, reading, receivers} \subseteq 0..MaxTracks

(* No order of the handlers closes a channel twice (the library does not   *)
(* say in which order it calls them, peer_connection.go:362-390), and when *)
(* Close has returned the connection is closed, so that nothing can be read*)
(* from it any more, as is the receiver of every track that was started,   *)
(* and no state is waited for.                                             *)
CloseIsClean ==
    /\ ~dead
    /\ run = "done" => state = "closed" /\ closed /\ failed /\ receivers = 0 /\ ~offering

(* Every goroutine of a connection that was told to close ends, those of   *)
(* tracks that nobody takes any more included, and those that read a track,*)
(* for which nobody waits.                                                 *)
IsClosing == ctxDone /\ run # "none" /\ (run # "done" \/ offered > 0 \/ reading > 0)
=============================================================================
