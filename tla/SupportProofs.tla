--------------------------- MODULE SupportProofs ---------------------------
(***************************************************************************)
(* That whichever part of Support it is, its types are right, nothing is   *)
(* left behind by what has ended, and nothing that was replaced is used.   *)
(* One invariant per part, and one for the connection that two of them     *)
(* share.                                                                  *)
(***************************************************************************)
EXTENDS Support, FiniteSetTheorems, TLAPS

-----------------------------------------------------------------------------
(* The peer connection, under the name that it has in the client.          *)
PeerFlags ==
    /\ publish \in BOOLEAN /\ described \in BOOLEAN /\ negotiated \in BOOLEAN /\ ctxDone \in BOOLEAN
    /\ connected \in BOOLEAN /\ failed \in BOOLEAN /\ closed \in BOOLEAN /\ dead \in BOOLEAN
    /\ gatheringDone \in BOOLEAN /\ offering \in BOOLEAN

PeerCounts ==
    /\ run \in {"none", "loop", "graceful", "waiting", "done"}
    /\ state \in {"new", "connected", "disconnected", "failed", "closed"}
    /\ changes \in 0..MaxLosses /\ candidates \in 0..MaxCandidates
    /\ reports \in [Whip!Reported -> Nat]
    /\ coming \in Nat /\ offered \in Nat /\ incoming \in Nat /\ reading \in Nat
    /\ receivers \in Nat

PeerTypes == PeerFlags /\ PeerCounts

(* How many handlers of a state may still be waiting for the mutex: pion   *)
(* says once that it has failed and once that it is closed.                *)
ReportsInv ==
    /\ reports["connected"] <= changes + (IF state \in {"new", "disconnected"} THEN 0 ELSE 1)
    /\ reports["failed"] <= IF state \in {"failed", "closed"} THEN 1 ELSE 0
    /\ reports["closed"] <= IF state = "closed" THEN 1 ELSE 0

(* While the report of the failure is on its way, only that of the close   *)
(* can have closed the channel for it, and then both are closed.           *)
ChannelsInv ==
    /\ ~dead
    /\ closed => failed /\ state = "closed"
    /\ failed => closed \/ (state \in {"failed", "closed"} /\ reports["failed"] = 0)

(* Tracks come, are offered, and are taken, one by one; those that are     *)
(* read were taken, and the receiver of none is left when the loop is over.*)
TracksInv ==
    /\ coming + offered + incoming <= MaxTracks
    /\ reading <= incoming /\ receivers <= incoming
    /\ run \in {"graceful", "waiting", "done"} => receivers = 0

RunInv ==
    /\ run \in {"waiting", "done"} => state = "closed" /\ ~offering
    /\ run = "done" => closed

PeerInv == PeerTypes /\ ReportsInv /\ ChannelsInv /\ TracksInv /\ RunInv

(* A connection that was not started.                                      *)
LEMMA PeerInitInv ==
    ASSUME Whip!PeerInit
    PROVE  PeerInv
<1>1. PeerFlags
  BY DEF Whip!PeerInit, PeerFlags
<1>2. PeerCounts
  BY BoundsAssumption DEF Whip!PeerInit, PeerCounts
<1>3. ReportsInv /\ ChannelsInv /\ RunInv
  BY DEF Whip!PeerInit, ReportsInv, ChannelsInv, RunInv, Whip!Reported
<1>4. TracksInv
  BY BoundsAssumption DEF Whip!PeerInit, TracksInv
<1> QED
  BY <1>1, <1>2, <1>3, <1>4 DEF PeerInv, PeerTypes

(* What the owner of a connection may do to it, in whatever order.         *)
OwnerPeer ==
    /\ UNCHANGED <<publish, state, changes, reports, connected, failed, closed, dead,
                   gatheringDone, candidates, coming>>
    /\ described' \in BOOLEAN /\ negotiated' \in BOOLEAN /\ ctxDone' \in BOOLEAN
    /\ run' = run \/ (run = "none" /\ run' = "loop")
    /\ offering' = offering \/ offering' = FALSE
    /\ \/ UNCHANGED <<offered, incoming>>
       \/ offered > 0 /\ offered' = offered - 1 /\ incoming' = incoming + 1
    /\ \/ UNCHANGED <<reading, receivers>>
       \/ run = "loop" /\ reading' = incoming /\ receivers' = incoming

(* None of this breaks the invariant of the connection.                    *)
LEMMA OwnerPeerKeeps ==
    ASSUME PeerInv, OwnerPeer
    PROVE  PeerInv'
<1>1. PeerTypes'
  <2>1. PeerFlags'
    BY DEF PeerInv, PeerTypes, PeerFlags, OwnerPeer
  <2>2. PeerCounts'
    BY DEF PeerInv, PeerTypes, PeerCounts, OwnerPeer
  <2> QED
    BY <2>1, <2>2 DEF PeerTypes
<1>2. ReportsInv' /\ ChannelsInv'
  BY DEF PeerInv, ReportsInv, ChannelsInv, OwnerPeer
<1>3. TracksInv'
  BY BoundsAssumption DEF PeerInv, PeerTypes, PeerCounts, TracksInv, OwnerPeer
<1>4. RunInv'
  BY DEF PeerInv, RunInv, OwnerPeer
<1> QED
  BY <1>1, <1>2, <1>3, <1>4 DEF PeerInv

(* The goroutine of run() closes the tracks that there are, and waits for  *)
(* the handlers.                                                           *)
LEMMA RunKeeps ==
    ASSUME PeerInv, Whip!CloseTracks \/ Whip!GracefulClose \/ Whip!Done
    PROVE  PeerInv'
<1>1. PeerTypes /\ ReportsInv /\ ChannelsInv /\ TracksInv /\ RunInv
  BY DEF PeerInv
<1>2. CASE Whip!CloseTracks
  BY <1>1, <1>2 DEF Whip!CloseTracks, Whip!pionVars, Whip!channelVars, Whip!gatherVars,
     PeerInv, PeerTypes, PeerFlags, PeerCounts, ReportsInv, ChannelsInv, TracksInv, RunInv
<1>3. CASE Whip!GracefulClose
  <2>1. /\ run = "graceful" /\ ~offering /\ run' = "waiting" /\ state' = "closed"
        /\ UNCHANGED <<publish, described, negotiated, ctxDone, changes, connected, failed, closed,
                       dead, gatheringDone, candidates, offering, coming, offered, incoming,
                       reading, receivers>>
    BY <1>3 DEF Whip!GracefulClose, Whip!channelVars, Whip!gatherVars, Whip!trackVars
  <2>2. \/ state = "closed" /\ reports' = reports
        \/ state # "closed" /\ reports' = [reports EXCEPT !["closed"] = @ + 1]
    BY <1>3 DEF Whip!GracefulClose, Whip!Report
  <2>3. /\ reports' \in [Whip!Reported -> Nat]
        /\ reports'["connected"] = reports["connected"] /\ reports'["failed"] = reports["failed"]
        /\ reports'["closed"] <= 1
    BY <1>1, <2>2 DEF PeerTypes, PeerCounts, ReportsInv, Whip!Reported
  <2>4. PeerTypes'
    BY <1>1, <2>1, <2>3 DEF PeerTypes, PeerFlags, PeerCounts
  <2>5. /\ reports["connected"] \in Nat /\ reports["failed"] \in Nat /\ changes \in Nat
    BY <1>1 DEF PeerTypes, PeerCounts, Whip!Reported
  <2>6. ReportsInv'
    BY <1>1, <2>1, <2>3, <2>5 DEF ReportsInv
  <2>7. ChannelsInv' /\ TracksInv' /\ RunInv'
    BY <1>1, <2>1, <2>3 DEF ChannelsInv, TracksInv, RunInv
  <2> QED
    BY <2>4, <2>6, <2>7 DEF PeerInv
<1>4. CASE Whip!Done
  BY <1>1, <1>4 DEF Whip!Done, Whip!pionVars, Whip!channelVars, Whip!gatherVars, Whip!trackVars,
     PeerInv, PeerTypes, PeerFlags, PeerCounts, ReportsInv, ChannelsInv, TracksInv, RunInv
<1> QED
  BY <1>2, <1>3, <1>4

(* pion changes its state, and has the handler called.                     *)
LEMMA BecomesKeeps ==
    ASSUME PeerInv, NEW s \in {"connected", "disconnected", "failed", "closed"}, Whip!Becomes(s),
           \/ s = "connected" /\ state \in {"new", "disconnected"} /\ changes' = changes
           \/ s = "disconnected" /\ state = "connected" /\ changes' = changes + 1
              /\ changes < MaxLosses
           \/ s = "failed" /\ state \in {"new", "connected", "disconnected"} /\ changes' = changes
           \/ s = "closed" /\ state \in {"connected", "disconnected", "failed"}
              /\ changes' = changes
    PROVE  PeerInv'
<1>1. PeerTypes /\ ReportsInv /\ ChannelsInv /\ TracksInv /\ RunInv
  BY DEF PeerInv
<1>2. /\ state' = s
      /\ reports' = IF s \in Whip!Reported THEN [reports EXCEPT ![s] = @ + 1] ELSE reports
      /\ UNCHANGED <<publish, described, negotiated, ctxDone, run, connected, failed, closed, dead,
                     gatheringDone, candidates, offering, coming, offered, incoming, reading,
                     receivers>>
  BY DEF Whip!Becomes, Whip!Report, Whip!Quiet, Whip!channelVars, Whip!gatherVars, Whip!trackVars
<1>3. /\ reports' \in [Whip!Reported -> Nat]
      /\ \A r \in Whip!Reported :
            reports'[r] = reports[r] + (IF r = s THEN 1 ELSE 0) /\ reports[r] \in Nat
  BY <1>1, <1>2 DEF PeerTypes, PeerCounts, Whip!Reported
<1>4. changes' \in 0..MaxLosses /\ changes \in Nat /\ changes' \in Nat
  BY <1>1, BoundsAssumption DEF PeerTypes, PeerCounts
<1>5. PeerTypes'
  BY <1>1, <1>2, <1>3, <1>4 DEF PeerTypes, PeerFlags, PeerCounts
<1>6. ReportsInv'
  BY <1>1, <1>2, <1>3, <1>4 DEF ReportsInv, Whip!Reported
<1>7. ChannelsInv'
  <2>1. s # "closed" => ~failed /\ ~closed
    BY <1>1 DEF ChannelsInv, PeerTypes, PeerFlags
  <2>2. s = "closed" => reports'["failed"] = reports["failed"]
    BY <1>3 DEF Whip!Reported
  <2> QED
    BY <1>1, <1>2, <2>1, <2>2 DEF ChannelsInv
<1>8. TracksInv' /\ RunInv'
  BY <1>1, <1>2 DEF TracksInv, RunInv
<1> QED
  BY <1>5, <1>6, <1>7, <1>8 DEF PeerInv

(* The handler of a state closes its channel, and the last one both.       *)
LEMMA HandleKeeps ==
    ASSUME PeerInv, NEW s \in Whip!Reported, Whip!HandleState(s)
    PROVE  PeerInv'
<1>1. PeerTypes /\ ReportsInv /\ ChannelsInv /\ TracksInv /\ RunInv
  BY DEF PeerInv
<1>2. /\ reports[s] > 0 /\ reports' = [reports EXCEPT ![s] = @ - 1]
      /\ UNCHANGED <<publish, described, negotiated, ctxDone, run, state, changes, gatheringDone,
                     candidates, offering, coming, offered, incoming, reading, receivers>>
  BY DEF Whip!HandleState, Whip!Quiet, Whip!gatherVars, Whip!trackVars
<1>3. /\ reports' \in [Whip!Reported -> Nat]
      /\ \A r \in Whip!Reported :
            reports'[r] = reports[r] - (IF r = s THEN 1 ELSE 0) /\ reports[r] \in Nat
  BY <1>1, <1>2 DEF PeerTypes, PeerCounts, Whip!Reported
<1>4. \/ closed /\ UNCHANGED <<connected, failed, closed, dead>>
      \/ ~closed /\ s = "connected" /\ connected' = TRUE /\ UNCHANGED <<failed, closed, dead>>
      \/ ~closed /\ s = "failed" /\ Whip!CloseFailed /\ UNCHANGED <<connected, closed>>
      \/ ~closed /\ s = "closed" /\ Whip!CloseAll /\ UNCHANGED connected
  BY DEF Whip!HandleState, Whip!channelVars, Whip!Reported
<1>5. s = "failed" /\ ~closed => ~failed /\ state \in {"failed", "closed"}
                                 /\ reports'["failed"] = 0
  BY <1>1, <1>2, <1>3 DEF ReportsInv, ChannelsInv, Whip!Reported
<1>6. s = "closed" => state = "closed"
  BY <1>1, <1>2, <1>3 DEF ReportsInv, Whip!Reported
<1>7. s = "closed" \/ s = "connected" => reports'["failed"] = reports["failed"]
  BY <1>3 DEF Whip!Reported
<1>8. /\ connected' \in BOOLEAN /\ failed' \in BOOLEAN /\ closed' \in BOOLEAN /\ dead' \in BOOLEAN
      /\ closed => closed'
  BY <1>1, <1>4 DEF PeerTypes, PeerFlags, Whip!CloseFailed, Whip!CloseAll,
     Whip!CloseClosed
<1>9. PeerTypes'
  BY <1>1, <1>2, <1>3, <1>8 DEF PeerTypes, PeerFlags, PeerCounts
<1>10. ReportsInv'
  BY <1>1, <1>2, <1>3 DEF ReportsInv, PeerTypes, PeerCounts, Whip!Reported
<1>11. ChannelsInv'
  <2>1. CASE closed
    BY <1>1, <1>2, <1>4, <2>1 DEF ChannelsInv
  <2>2. CASE ~closed /\ s = "connected"
    BY <1>1, <1>2, <1>4, <1>7, <2>2 DEF ChannelsInv
  <2>3. CASE ~closed /\ s = "failed"
    BY <1>1, <1>2, <1>4, <1>5, <2>3 DEF ChannelsInv, Whip!CloseFailed
  <2>4. CASE ~closed /\ s = "closed"
    BY <1>1, <1>2, <1>4, <1>6, <2>4 DEF ChannelsInv, Whip!CloseAll, Whip!CloseClosed
  <2> QED
    BY <2>1, <2>2, <2>3, <2>4 DEF Whip!Reported
<1>12. TracksInv' /\ RunInv'
  BY <1>1, <1>2, <1>8 DEF TracksInv, RunInv
<1> QED
  BY <1>9, <1>10, <1>11, <1>12 DEF PeerInv

(* Candidates and tracks.                                                  *)
LEMMA GatherKeeps ==
    ASSUME PeerInv,
           \/ Whip!FindCandidate \/ Whip!DropCandidate \/ Whip!TrackComes \/ Whip!DropTrack
    PROVE  PeerInv'
<1>1. PeerTypes /\ ReportsInv /\ ChannelsInv /\ TracksInv /\ RunInv
  BY DEF PeerInv
<1>2. /\ UNCHANGED <<publish, described, negotiated, ctxDone, run, state, changes, reports,
                     connected, failed, closed, dead, incoming, reading, receivers>>
      /\ \/ UNCHANGED <<gatheringDone, offering>>
         \/ gatheringDone' = TRUE /\ offering' = offering
         \/ state # "closed" /\ offering' = TRUE /\ gatheringDone' = gatheringDone
         \/ offering' = FALSE /\ gatheringDone' = gatheringDone
      /\ candidates' = candidates \/ (candidates > 0 /\ candidates' = candidates - 1)
      /\ \/ UNCHANGED <<coming, offered>>
         \/ coming > 0 /\ coming' = coming - 1 /\ offered' = offered + 1
         \/ offered > 0 /\ coming' = coming /\ offered' = offered - 1
  <2>1. CASE Whip!FindCandidate
    BY <2>1 DEF Whip!FindCandidate, Whip!Quiet, Whip!pionVars, Whip!channelVars, Whip!trackVars
  <2>2. CASE Whip!DropCandidate
    BY <2>2 DEF Whip!DropCandidate, Whip!Quiet, Whip!pionVars, Whip!channelVars, Whip!trackVars
  <2>3. CASE Whip!TrackComes \/ Whip!DropTrack
    BY <2>3 DEF Whip!TrackComes, Whip!DropTrack, Whip!Quiet, Whip!pionVars, Whip!channelVars,
       Whip!gatherVars
  <2> QED
    BY <2>1, <2>2, <2>3
<1>3. PeerTypes'
  <2>1. PeerFlags'
    BY <1>1, <1>2 DEF PeerTypes, PeerFlags
  <2>2. PeerCounts'
    BY <1>1, <1>2, BoundsAssumption DEF PeerTypes, PeerCounts
  <2> QED
    BY <2>1, <2>2 DEF PeerTypes
<1>4. ReportsInv' /\ ChannelsInv' /\ RunInv'
  BY <1>1, <1>2 DEF ReportsInv, ChannelsInv, RunInv
<1>5. TracksInv'
  BY <1>1, <1>2, BoundsAssumption DEF TracksInv, PeerTypes, PeerCounts
<1> QED
  BY <1>3, <1>4, <1>5 DEF PeerInv

(* A goroutine that reads a track ends.                                    *)
LEMMA TrackEndKeeps ==
    ASSUME PeerInv, Whip!TrackEnds
    PROVE  PeerInv'
<1>1. /\ reading > 0 /\ reading' = reading - 1
      /\ UNCHANGED <<publish, described, negotiated, ctxDone, run, state, changes, reports,
                     connected, failed, closed, dead, gatheringDone, candidates, offering, coming,
                     offered, incoming, receivers>>
  BY DEF Whip!TrackEnds, Whip!Quiet, Whip!pionVars, Whip!channelVars, Whip!gatherVars
<1>2. PeerTypes'
  BY <1>1 DEF PeerInv, PeerTypes, PeerFlags, PeerCounts
<1>3. ReportsInv' /\ ChannelsInv' /\ RunInv'
  BY <1>1 DEF PeerInv, ReportsInv, ChannelsInv, RunInv
<1>4. TracksInv'
  BY <1>1 DEF PeerInv, PeerTypes, PeerCounts, TracksInv
<1> QED
  BY <1>2, <1>3, <1>4 DEF PeerInv

(* No handler, and nothing that pion does, breaks the invariant.           *)
LEMMA PeerKeeps ==
    ASSUME PeerInv, Whip!PeerNext
    PROVE  PeerInv'
<1>1. CASE Whip!PionConnects \/ Whip!PionDisconnects \/ Whip!PionFails \/ Whip!PionIsClosed
  <2>1. \E s \in {"connected", "disconnected", "failed", "closed"} :
          /\ Whip!Becomes(s)
          /\ \/ s = "connected" /\ state \in {"new", "disconnected"} /\ changes' = changes
             \/ s = "disconnected" /\ state = "connected" /\ changes' = changes + 1
                /\ changes < MaxLosses
             \/ s = "failed" /\ state \in {"new", "connected", "disconnected"}
                /\ changes' = changes
             \/ s = "closed" /\ state \in {"connected", "disconnected", "failed"}
                /\ changes' = changes
    BY <1>1 DEF Whip!PionConnects, Whip!PionDisconnects, Whip!PionFails, Whip!PionIsClosed
  <2> QED
    BY <2>1, BecomesKeeps
<1> QED
  BY <1>1, RunKeeps, HandleKeeps, GatherKeeps, TrackEndKeeps
     DEF Whip!PeerNext, Whip!Goroutines, Whip!Pion

(* The bounds of the counters, and what is promised of the connection.     *)
LEMMA PeerFacts ==
    ASSUME PeerInv
    PROVE  Whip!PeerTypeOK /\ Whip!CloseIsClean
<1>1. PeerTypes /\ ReportsInv /\ ChannelsInv /\ TracksInv /\ RunInv
  BY DEF PeerInv
<1>2. reports \in [Whip!Reported -> 0..(MaxLosses + 1)]
  <2>1. \A s \in Whip!Reported : reports[s] \in Nat /\ reports[s] <= MaxLosses + 1
    BY <1>1, BoundsAssumption DEF PeerTypes, PeerCounts, ReportsInv, Whip!Reported
  <2> QED
    BY <1>1, <2>1, BoundsAssumption DEF PeerTypes, PeerCounts
<1>3. {coming, offered, incoming, reading, receivers} \subseteq 0..MaxTracks
  BY <1>1, BoundsAssumption DEF PeerTypes, PeerCounts, TracksInv
<1>4. {publish, described, negotiated, ctxDone, connected, failed, closed, gatheringDone, dead,
       offering} \subseteq BOOLEAN
  BY <1>1 DEF PeerTypes, PeerFlags
<1>5. Whip!PeerTypeOK
  BY <1>1, <1>2, <1>3, <1>4 DEF PeerTypes, PeerFlags, PeerCounts, Whip!PeerTypeOK
<1>6. Whip!CloseIsClean
  BY <1>1 DEF ChannelsInv, TracksInv, RunInv, Whip!CloseIsClean
<1> QED
  BY <1>5, <1>6

-----------------------------------------------------------------------------
(* The WHIP client.                                                        *)
WhipTypes ==
    /\ told \in BOOLEAN /\ legible \in BOOLEAN
    /\ owner \in {"options", "init", "terminating", "ready", "reading", "leaving", "closing",
                  "gone"}
    /\ inner \in {"none", "offer", "posting", "answered", "loop", "patching", "gather", "deleting",
                  "ok", "err"}
    /\ session \in {"none", "open", "asked", "deleted"}

(* Where the goroutine of initializeInner may be, for each place of its    *)
(* owner, and who still has to ask for the session to be deleted.          *)
OwnerInv ==
    /\ owner = "options" => run = "none" /\ inner = "none" /\ session = "none"
    /\ owner = "terminating" => told
    /\ owner \in {"ready", "reading", "leaving"} => inner = "ok"
    /\ owner = "closing" => inner \in {"ok", "err"} /\ (inner = "ok" => session # "open")
    /\ owner = "gone" =>
          /\ run \in {"none", "done"} /\ inner \in {"none", "ok", "err"}
          /\ session = "open" => ~legible \/ (told /\ inner = "ok")

SessionInv ==
    session = "open" => ~legible
                        \/ inner \in {"answered", "deleting", "loop", "patching", "gather", "ok"}

WhipInv == WhipTypes /\ OwnerInv /\ SessionInv

(* The client has not asked yet.                                           *)
LEMMA WhipInitInv ==
    ASSUME Whip!Init
    PROVE  PeerInv /\ WhipInv
  BY PeerInitInv DEF Whip!Init, Whip!PeerInit, WhipInv, WhipTypes, OwnerInv, SessionInv

(* The source or the forwarder.                                            *)
LEMMA WhipOwnerKeeps ==
    ASSUME PeerInv, WhipInv, Whip!Owner
    PROVE  OwnerPeer /\ WhipInv'
<1>1. OwnerPeer
  BY DEF PeerInv, PeerTypes, PeerFlags, OwnerPeer, Whip!Owner, Whip!OptionsFail, Whip!StartPeer,
     Whip!InitializeTold, Whip!InitializeTerminated, Whip!InitializeReturns, Whip!Refused,
     Whip!Accepted, Whip!ReadingEnds, Whip!DeleteSession, Whip!deleteSession, Whip!Closed,
     Whip!Start,
     Whip!CtxCancel, Whip!StartReading, Whip!peerVars, Whip!pionVars, Whip!channelVars,
     Whip!gatherVars, Whip!trackVars
<1>2. WhipInv'
  BY DEF WhipInv, WhipTypes, OwnerInv, SessionInv, Whip!Owner, Whip!OptionsFail, Whip!StartPeer,
     Whip!InitializeTold, Whip!InitializeTerminated, Whip!InitializeReturns, Whip!Refused,
     Whip!Accepted, Whip!ReadingEnds, Whip!DeleteSession, Whip!deleteSession, Whip!Closed,
     Whip!Start,
     Whip!CloseReturns, Whip!Goto, Whip!peerVars
<1> QED
  BY <1>1, <1>2

(* initializeInner.                                                        *)
LEMMA WhipInnerKeeps ==
    ASSUME PeerInv, WhipInv, Whip!Inner \/ Whip!LoopTimeout
    PROVE  OwnerPeer /\ WhipInv'
<1>1. OwnerPeer
  BY DEF PeerInv, PeerTypes, PeerFlags, OwnerPeer, Whip!Inner, Whip!LoopTimeout,
     Whip!CreatePartialOffer,
     Whip!PostOffer, Whip!SetAnswer, Whip!LoopCandidate, Whip!PatchCandidate, Whip!LoopConnected,
     Whip!GatherTrack, Whip!GatherTimeout, Whip!GatherEnds, Whip!DeleteAfterError,
     Whip!deleteSession,
     Whip!TakeCandidate, Whip!TakeTrack, Whip!peerVars, Whip!pionVars, Whip!channelVars,
     Whip!gatherVars, Whip!trackVars
<1>2. UNCHANGED <<told, owner, run>>
  BY DEF Whip!Inner, Whip!LoopTimeout, Whip!CreatePartialOffer,
     Whip!PostOffer, Whip!SetAnswer, Whip!LoopCandidate, Whip!PatchCandidate, Whip!LoopConnected,
     Whip!GatherTrack, Whip!GatherTimeout, Whip!GatherEnds, Whip!DeleteAfterError,
     Whip!deleteSession,
     Whip!InnerGoes, Whip!peerVars, Whip!clientVars
<1>3. inner \notin {"none", "ok", "err"}
  BY DEF Whip!Inner, Whip!LoopTimeout, Whip!CreatePartialOffer,
     Whip!PostOffer, Whip!SetAnswer, Whip!LoopCandidate, Whip!PatchCandidate, Whip!LoopConnected,
     Whip!GatherTrack, Whip!GatherTimeout, Whip!GatherEnds, Whip!DeleteAfterError,
     Whip!deleteSession
<1>4. legible' = legible \/ legible' = FALSE
  BY DEF Whip!Inner, Whip!LoopTimeout, Whip!CreatePartialOffer,
     Whip!PostOffer, Whip!SetAnswer, Whip!LoopCandidate, Whip!PatchCandidate, Whip!LoopConnected,
     Whip!GatherTrack, Whip!GatherTimeout, Whip!GatherEnds, Whip!DeleteAfterError,
     Whip!deleteSession,
     Whip!InnerGoes, Whip!clientVars
<1>5. told' \in BOOLEAN /\ legible' \in BOOLEAN
  BY <1>2, <1>4 DEF WhipInv, WhipTypes
<1>6. WhipTypes' /\ SessionInv'
  BY <1>2, <1>5 DEF WhipInv, WhipTypes, SessionInv, Whip!Inner, Whip!LoopTimeout,
     Whip!CreatePartialOffer,
     Whip!PostOffer, Whip!SetAnswer, Whip!LoopCandidate, Whip!PatchCandidate, Whip!LoopConnected,
     Whip!GatherTrack, Whip!GatherTimeout, Whip!GatherEnds, Whip!DeleteAfterError,
     Whip!deleteSession,
     Whip!InnerGoes, Whip!peerVars, Whip!clientVars
<1>7. OwnerInv'
  BY <1>2, <1>3 DEF WhipInv, OwnerInv
<1> QED
  BY <1>1, <1>6, <1>7 DEF WhipInv

(* No step of the client, of its connection, or of whoever tells it to end. *)
LEMMA WhipStepInv ==
    ASSUME PeerInv, WhipInv, [Whip!Next]_Whip!vars
    PROVE  PeerInv' /\ WhipInv'
<1>1. CASE Whip!Told \/ UNCHANGED Whip!vars
  <2>1. OwnerPeer
    BY <1>1 DEF PeerInv, PeerTypes, PeerFlags, OwnerPeer, Whip!Told, Whip!vars, Whip!peerVars,
       Whip!pionVars,
       Whip!channelVars, Whip!gatherVars, Whip!trackVars
  <2>2. UNCHANGED <<run, owner, inner, session, legible>> /\ (told' = told \/ told' = TRUE)
    BY <1>1 DEF Whip!Told, Whip!vars, Whip!peerVars, Whip!clientVars
  <2>3. WhipInv'
    BY <2>2 DEF WhipInv, WhipTypes, OwnerInv, SessionInv
  <2> QED
    BY <2>1, <2>3, OwnerPeerKeeps
<1>2. CASE Whip!PeerNext /\ UNCHANGED Whip!clientVars
  <2>1. PeerInv'
    BY <1>2, PeerKeeps
  <2>2. run \in {"none", "done"} => run' = run
    BY <1>2 DEF Whip!PeerNext, Whip!Goroutines, Whip!Pion, Whip!CloseTracks, Whip!GracefulClose,
       Whip!Done, Whip!HandleState, Whip!DropCandidate, Whip!DropTrack, Whip!TrackEnds,
       Whip!FindCandidate,
       Whip!PionConnects, Whip!PionDisconnects, Whip!PionFails, Whip!PionIsClosed,
       Whip!TrackComes, Whip!Becomes, Whip!Quiet
  <2>3. WhipInv'
    BY <1>2, <2>2 DEF WhipInv, WhipTypes, OwnerInv, SessionInv, Whip!clientVars
  <2> QED
    BY <2>1, <2>3
<1> QED
  BY <1>1, <1>2, WhipOwnerKeeps, WhipInnerKeeps, OwnerPeerKeeps DEF Whip!Next

(* The types of the client, and that who is gone is gone.                  *)
LEMMA WhipFacts ==
    ASSUME PeerInv, WhipInv
    PROVE  Whip!TypeOK /\ Whip!GoneIsGone
  BY PeerFacts DEF WhipInv, WhipTypes, OwnerInv, Whip!TypeOK, Whip!GoneIsGone

-----------------------------------------------------------------------------
(* The session of the WebRTC server.                                       *)
ServedInv ==
    /\ told \in BOOLEAN /\ onPath \in BOOLEAN
    /\ owner \in {"start", "offer", "waitGatheringDone", "connecting", "gather", "ready",
                  "streaming", "ending", "gone"}
    /\ owner = "start" => run = "none"
    /\ onPath => owner = "streaming"
    /\ owner = "gone" => run \in {"none", "done"}

(* The connection of a session is the same as that of a client: only what  *)
(* surrounds it differs.                                                   *)
LEMMA SameConnection ==
    /\ Session!PeerInit <=> Whip!PeerInit
    /\ Session!PeerNext <=> Whip!PeerNext
    /\ Session!PeerTypeOK <=> Whip!PeerTypeOK
    /\ Session!CloseIsClean <=> Whip!CloseIsClean
<1>1. Session!PeerInit <=> Whip!PeerInit
  BY DEF Session!PeerInit, Session!Reported, Whip!PeerInit, Whip!Reported
<1>2. Session!Goroutines <=> Whip!Goroutines
  BY DEF Session!Goroutines, Session!CloseTracks, Session!GracefulClose, Session!Done,
     Session!HandleState, Session!DropCandidate, Session!DropTrack, Session!TrackEnds,
     Session!Report,
     Session!Reported, Session!CloseFailed, Session!CloseClosed, Session!CloseAll,
     Session!CandidateIsUseless, Session!Quiet, Session!pionVars, Session!channelVars,
     Session!gatherVars, Session!trackVars,
     Whip!Goroutines, Whip!CloseTracks, Whip!GracefulClose, Whip!Done,
     Whip!HandleState, Whip!DropCandidate, Whip!DropTrack, Whip!TrackEnds, Whip!Report,
     Whip!Reported, Whip!CloseFailed, Whip!CloseClosed, Whip!CloseAll,
     Whip!CandidateIsUseless, Whip!Quiet, Whip!pionVars, Whip!channelVars,
     Whip!gatherVars, Whip!trackVars
<1>3. Session!Pion <=> Whip!Pion
  BY DEF Session!Pion, Session!FindCandidate, Session!PionConnects, Session!PionDisconnects,
     Session!PionFails, Session!PionIsClosed, Session!TrackComes, Session!TrackEnds,
     Session!Becomes,
     Session!Report, Session!Reported, Session!Quiet, Session!pionVars, Session!channelVars,
     Session!gatherVars, Session!trackVars,
     Whip!Pion, Whip!FindCandidate, Whip!PionConnects, Whip!PionDisconnects,
     Whip!PionFails, Whip!PionIsClosed, Whip!TrackComes, Whip!TrackEnds,
     Whip!Becomes, Whip!Report, Whip!Reported, Whip!Quiet, Whip!pionVars, Whip!channelVars,
     Whip!gatherVars, Whip!trackVars
<1>4. Session!PeerTypeOK <=> Whip!PeerTypeOK
  BY DEF Session!PeerTypeOK, Session!Reported, Whip!PeerTypeOK, Whip!Reported
<1>5. Session!CloseIsClean <=> Whip!CloseIsClean
  BY DEF Session!CloseIsClean, Whip!CloseIsClean
<1> QED
  BY <1>1, <1>2, <1>3, <1>4, <1>5 DEF Session!PeerNext, Whip!PeerNext

(* The session has not started yet.                                        *)
LEMMA ServedInitInv ==
    ASSUME Session!Init
    PROVE  PeerInv /\ ServedInv
<1>1. Whip!PeerInit /\ run = "none"
  BY SameConnection DEF Session!Init, Whip!PeerInit
<1> QED
  BY <1>1, PeerInitInv DEF Session!Init, ServedInv

(* The goroutine of the session.                                           *)
LEMMA ServedOwnerKeeps ==
    ASSUME PeerInv, ServedInv, Session!Owner \/ Session!Told \/ UNCHANGED Session!vars
    PROVE  OwnerPeer /\ ServedInv'
<1>1. OwnerPeer
  BY DEF PeerInv, PeerTypes, PeerFlags, OwnerPeer, Session!Owner, Session!StartPeer,
     Session!CreateFullAnswer, Session!waitGatheringDone, Session!WaitUntilConnected,
     Session!GatherTrack, Session!GatherEnds, Session!Join, Session!Leave, Session!Terminate,
     Session!End, Session!Told, Session!Start, Session!CtxCancel, Session!StartReading,
     Session!TakeCandidate, Session!TakeTrack, Session!vars, Session!peerVars,
     Session!pionVars, Session!channelVars, Session!gatherVars, Session!trackVars
<1>2. told' = told \/ told' = TRUE
  BY DEF Session!Owner, Session!StartPeer,
     Session!CreateFullAnswer, Session!waitGatheringDone, Session!WaitUntilConnected,
     Session!GatherTrack, Session!GatherEnds, Session!Join, Session!Leave, Session!Terminate,
     Session!End, Session!Told, Session!Start, Session!CloseReturns, Session!Goto,
     Session!vars, Session!peerVars, Session!clientVars
<1>3. \/ onPath' = onPath /\ (owner = "streaming" => owner' = owner)
      \/ onPath' = TRUE /\ owner' = "streaming"
      \/ onPath' = FALSE /\ owner' = "ending"
  <2>1. CASE Session!Join
    BY <2>1 DEF Session!Join, Session!Goto
  <2>2. CASE Session!Leave
    BY <2>2 DEF Session!Leave
  <2>3. CASE Session!StartPeer \/ Session!CreateFullAnswer \/ Session!waitGatheringDone
             \/ Session!WaitUntilConnected \/ Session!GatherTrack \/ Session!GatherEnds
             \/ Session!End
    BY <2>3 DEF Session!StartPeer, Session!CreateFullAnswer, Session!waitGatheringDone,
       Session!WaitUntilConnected, Session!GatherTrack, Session!GatherEnds, Session!End,
       Session!Goto, Session!clientVars
  <2>4. CASE Session!Terminate \/ Session!Told \/ UNCHANGED Session!vars
    BY <2>4 DEF Session!Terminate, Session!Told, Session!vars, Session!clientVars
  <2> QED
    BY <2>1, <2>2, <2>3, <2>4 DEF Session!Owner
<1>4. /\ owner' \in {"start", "offer", "waitGatheringDone", "connecting", "gather", "ready",
                    "streaming", "ending", "gone"}
      /\ owner' = "start" => run' = "none"
      /\ owner' = "gone" => run' \in {"none", "done"}
  BY DEF ServedInv, Session!Owner, Session!StartPeer,
     Session!CreateFullAnswer, Session!waitGatheringDone, Session!WaitUntilConnected,
     Session!GatherTrack, Session!GatherEnds, Session!Join, Session!Leave, Session!Terminate,
     Session!End, Session!Told, Session!Start, Session!CloseReturns, Session!Goto,
     Session!vars, Session!peerVars, Session!clientVars
<1>5. told' \in BOOLEAN /\ onPath' \in BOOLEAN
  BY <1>2, <1>3 DEF ServedInv
<1>6. onPath' => owner' = "streaming"
  BY <1>3 DEF ServedInv
<1>7. ServedInv'
  BY <1>4, <1>5, <1>6 DEF ServedInv
<1> QED
  BY <1>1, <1>7

(* No step of the session or of its connection breaks the invariant.       *)
LEMMA ServedStepInv ==
    ASSUME PeerInv, ServedInv, [Session!Next]_Session!vars
    PROVE  PeerInv' /\ ServedInv'
<1>1. CASE Session!PeerNext /\ UNCHANGED Session!clientVars
  <2>1. Whip!PeerNext
    BY <1>1, SameConnection
  <2>2. PeerInv'
    BY <2>1, PeerKeeps
  <2>3. run \in {"none", "done"} => run' = run
    BY <2>1 DEF Whip!PeerNext, Whip!Goroutines, Whip!Pion, Whip!CloseTracks, Whip!GracefulClose,
       Whip!Done, Whip!HandleState, Whip!DropCandidate, Whip!DropTrack, Whip!TrackEnds,
       Whip!FindCandidate,
       Whip!PionConnects, Whip!PionDisconnects, Whip!PionFails, Whip!PionIsClosed,
       Whip!TrackComes, Whip!Becomes, Whip!Quiet
  <2>4. ServedInv'
    BY <1>1, <2>3 DEF ServedInv, Session!clientVars
  <2> QED
    BY <2>2, <2>4
<1> QED
  BY <1>1, ServedOwnerKeeps, OwnerPeerKeeps DEF Session!Next

(* The types of the session, and that who is gone is off its path.         *)
LEMMA ServedFacts ==
    ASSUME PeerInv, ServedInv
    PROVE  Session!TypeOK /\ Session!GoneIsGone
<1>1. Session!PeerTypeOK /\ Session!CloseIsClean
  BY PeerFacts, SameConnection
<1> QED
  BY <1>1 DEF ServedInv, Session!TypeOK, Session!GoneIsGone

-----------------------------------------------------------------------------
(* The authentication.                                                     *)
AuthSteps == {"idle", "internal", "http", "jwt", "pulling", "decoding", "parsing", "accepted",
          "refused"}

AuthTypeInv ==
    /\ method \in {"internal", "http", "jwt"}
    /\ users \in Nat /\ keys \in Nat /\ latest \in Nat /\ jwtKeyFunc \in Nat
    /\ step \in [Requests -> AuthSteps]
    /\ got \in [Requests -> Nat] /\ due \in [Requests -> Nat]

(* What requests do depends on the method, and who asks the identity       *)
(* server has the mutex.                                                   *)
MethodInv ==
    /\ jwksLastRefresh # Auth!Never => method = "jwt"
    /\ \A q \in Requests :
        /\ step[q] \in {"internal", "http", "jwt"} => method = step[q]
        /\ step[q] \in {"pulling", "decoding", "parsing"} => method = "jwt"
        /\ step[q] \in {"pulling", "decoding"} => mutex = q

(* Versions: what is in force, what is cached and what is on its way are   *)
(* not older than what the last reload or refresh has asked for.           *)
VersionInv ==
    /\ latest <= (IF method = "internal" THEN users ELSE keys)
    /\ jwksLastRefresh # Auth!Never => latest <= jwtKeyFunc
    /\ \A q \in Requests :
        /\ due[q] <= latest
        /\ step[q] = "decoding" => latest <= got[q]
        /\ step[q] \in {"parsing", "accepted"} => due[q] <= got[q]

AuthInv == AuthTypeInv /\ MethodInv /\ VersionInv

(* No request has begun.                                                   *)
LEMMA AuthInitInv ==
    ASSUME Auth!Init
    PROVE  AuthInv
  BY DEF Auth!Init, AuthInv, AuthTypeInv, MethodInv, VersionInv, AuthSteps, Auth!Never

(* A request notes the versions that it must not be older than.            *)
LEMMA AuthenticateKeeps ==
    ASSUME AuthInv, NEW q \in Requests, Auth!Authenticate(q)
    PROVE  AuthInv'
<1>1. AuthTypeInv /\ MethodInv /\ VersionInv
  BY DEF AuthInv
<1>2. /\ step[q] = "idle" /\ due' = [due EXCEPT ![q] = latest]
      /\ UNCHANGED <<method, users, keys, latest, mutex, jwtKeyFunc, jwksLastRefresh>>
      /\ \/ /\ method # "internal"
            /\ step' = [step EXCEPT ![q] = "accepted"] /\ got' = [got EXCEPT ![q] = keys]
         \/ step' = [step EXCEPT ![q] = method] /\ got' = got
  BY DEF Auth!Authenticate, Auth!Fixed, Auth!JWKS, Auth!Becomes
<1>3. AuthTypeInv'
  BY <1>1, <1>2 DEF AuthTypeInv, AuthSteps
<1>4. /\ \A p \in Requests : p # q => step'[p] = step[p] /\ due'[p] = due[p] /\ got'[p] = got[p]
      /\ due'[q] = latest
      /\ (step'[q] = "accepted" /\ got'[q] = keys /\ method # "internal") \/ step'[q] = method
  BY <1>1, <1>2 DEF AuthTypeInv
<1>5. MethodInv'
  BY <1>1, <1>2, <1>4 DEF MethodInv, AuthTypeInv
<1>6. VersionInv'
  BY <1>1, <1>2, <1>4 DEF VersionInv, AuthTypeInv
<1> QED
  BY <1>3, <1>5, <1>6 DEF AuthInv

(* A request is decided by a version that is not older.                    *)
LEMMA DecideKeeps ==
    ASSUME AuthInv, NEW q \in Requests,
           \/ Auth!authenticateInternal(q) \/ Auth!authenticateHTTP(q)
           \/ Auth!authenticateJWT(q) \/ Auth!PullFails(q)
    PROVE  AuthInv'
<1>1. AuthTypeInv /\ MethodInv /\ VersionInv
  BY DEF AuthInv
<1>2. /\ UNCHANGED <<method, users, keys, latest, due, jwtKeyFunc, jwksLastRefresh>>
      /\ step' = [step EXCEPT ![q] = "accepted"] \/ step' = [step EXCEPT ![q] = "refused"]
  BY DEF Auth!authenticateInternal, Auth!authenticateHTTP, Auth!authenticateJWT,
         Auth!PullFails, Auth!Fixed, Auth!JWKS, Auth!Decide,
         Auth!Becomes
<1>3. \/ step[q] = "internal" /\ got' = [got EXCEPT ![q] = users] /\ mutex' = mutex
      \/ step[q] = "http" /\ got' = [got EXCEPT ![q] = keys] /\ mutex' = mutex
      \/ step[q] = "parsing" /\ got' = got /\ mutex' = mutex
      \/ /\ step[q] \in {"pulling", "decoding"} /\ got' = got /\ mutex' = Auth!Free
         /\ step' = [step EXCEPT ![q] = "refused"]
  BY DEF Auth!authenticateInternal, Auth!authenticateHTTP, Auth!authenticateJWT,
         Auth!PullFails, Auth!Fixed, Auth!JWKS, Auth!Becomes
<1>4. AuthTypeInv'
  BY <1>1, <1>2, <1>3 DEF AuthTypeInv, AuthSteps
<1>5. /\ \A p \in Requests : p # q => step'[p] = step[p] /\ got'[p] = got[p]
      /\ step'[q] \in {"accepted", "refused"}
  BY <1>1, <1>2, <1>3 DEF AuthTypeInv
<1>6. MethodInv'
  BY <1>1, <1>2, <1>3, <1>5 DEF MethodInv, AuthTypeInv
<1>7. step'[q] = "accepted" => due[q] <= got'[q]
  BY <1>1, <1>2, <1>3 DEF AuthTypeInv, MethodInv, VersionInv
<1>8. VersionInv'
  BY <1>1, <1>2, <1>5, <1>7 DEF VersionInv, AuthTypeInv
<1> QED
  BY <1>4, <1>6, <1>8 DEF AuthInv

(* Keys are cached as they were while the mutex was held.                  *)
LEMMA KeysKeep ==
    ASSUME AuthInv, NEW q \in Requests,
           Auth!Lock(q) \/ Auth!ServerAnswers(q) \/ Auth!StoreKeys(q)
    PROVE  AuthInv'
<1>1. AuthTypeInv /\ MethodInv /\ VersionInv
  BY DEF AuthInv
<1>2. UNCHANGED <<method, users, keys, latest, due>>
  BY DEF Auth!Lock, Auth!ServerAnswers, Auth!StoreKeys, Auth!Fixed
<1>3. CASE Auth!Lock(q)
  <2>1. /\ step[q] = "jwt" /\ mutex = Auth!Free /\ UNCHANGED <<jwtKeyFunc, jwksLastRefresh>>
        /\ \/ step' = [step EXCEPT ![q] = "pulling"] /\ mutex' = q /\ got' = got
           \/ /\ jwksLastRefresh # Auth!Never /\ mutex' = mutex
              /\ step' = [step EXCEPT ![q] = "parsing"] /\ got' = [got EXCEPT ![q] = jwtKeyFunc]
    BY <1>3 DEF Auth!Lock, Auth!Becomes
  <2>2. /\ \A p \in Requests : p # q => step'[p] = step[p] /\ got'[p] = got[p]
        /\ \/ step'[q] = "pulling" /\ mutex' = q
           \/ step'[q] = "parsing" /\ got'[q] = jwtKeyFunc
    BY <1>1, <2>1 DEF AuthTypeInv
  <2>3. \A p \in Requests : step[p] \notin {"pulling", "decoding"}
    BY <1>1, <2>1, AuthAssumption DEF MethodInv, Auth!FreeIsNobody
  <2>4. AuthTypeInv'
    BY <1>1, <1>2, <2>1 DEF AuthTypeInv, AuthSteps
  <2>5. MethodInv'
    BY <1>1, <1>2, <2>1, <2>2, <2>3 DEF MethodInv
  <2>6. VersionInv'
    BY <1>1, <1>2, <2>1, <2>2 DEF VersionInv, AuthTypeInv
  <2> QED
    BY <2>4, <2>5, <2>6 DEF AuthInv
<1>4. CASE Auth!ServerAnswers(q)
  <2>1. /\ step[q] = "pulling" /\ UNCHANGED <<mutex, jwtKeyFunc, jwksLastRefresh>>
        /\ step' = [step EXCEPT ![q] = "decoding"] /\ got' = [got EXCEPT ![q] = keys]
    BY <1>4 DEF Auth!ServerAnswers, Auth!Becomes, Auth!JWKS
  <2>2. /\ \A p \in Requests : p # q => step'[p] = step[p] /\ got'[p] = got[p]
        /\ step'[q] = "decoding" /\ got'[q] = keys
    BY <1>1, <2>1 DEF AuthTypeInv
  <2>3. AuthTypeInv'
    BY <1>1, <1>2, <2>1 DEF AuthTypeInv, AuthSteps
  <2>4. MethodInv' /\ VersionInv'
    BY <1>1, <1>2, <2>1, <2>2 DEF MethodInv, VersionInv, AuthTypeInv
  <2> QED
    BY <2>3, <2>4 DEF AuthInv
<1>5. CASE Auth!StoreKeys(q)
  <2>1. /\ step[q] = "decoding" /\ got' = got /\ jwtKeyFunc' = got[q] /\ mutex' = Auth!Free
        /\ step' = [step EXCEPT ![q] = "parsing"]
    BY <1>5 DEF Auth!StoreKeys, Auth!Becomes
  <2>2. /\ \A p \in Requests : p # q => step'[p] = step[p]
        /\ step'[q] = "parsing"
    BY <1>1, <2>1 DEF AuthTypeInv
  <2>3. method = "jwt" /\ mutex = q
        /\ \A p \in Requests : p # q => step[p] \notin {"pulling", "decoding"}
    BY <1>1, <2>1 DEF MethodInv
  <2>4. AuthTypeInv'
    BY <1>1, <1>2, <2>1 DEF AuthTypeInv, AuthSteps
  <2>5. MethodInv'
    BY <1>1, <1>2, <2>2, <2>3 DEF MethodInv
  <2>6. VersionInv'
    BY <1>1, <1>2, <2>1, <2>2 DEF VersionInv, AuthTypeInv
  <2> QED
    BY <2>4, <2>5, <2>6 DEF AuthInv
<1> QED
  BY <1>3, <1>4, <1>5

(* The core, the API, the identity server and the clock. A reload and a    *)
(* refresh wait for the mutex, so that no keys are on their way then.      *)
LEMMA OthersKeep ==
    ASSUME AuthInv,
           \/ Auth!ReloadInternalUsers \/ Auth!RefreshJWTJWKS \/ Auth!ChangeKeys
           \/ Auth!Tick \/ UNCHANGED Auth!vars
    PROVE  AuthInv'
<1>1. AuthTypeInv /\ MethodInv /\ VersionInv
  BY DEF AuthInv
<1>2. CASE Auth!ReloadInternalUsers
  <2>1. /\ method = "internal" /\ users' = users + 1 /\ latest' = users + 1
        /\ UNCHANGED <<method, keys, mutex, jwtKeyFunc, jwksLastRefresh, step, got, due>>
    BY <1>2 DEF Auth!ReloadInternalUsers, Auth!JWKS, Auth!requestVars
  <2> QED
    BY <1>1, <2>1 DEF AuthInv, AuthTypeInv, MethodInv, VersionInv
<1>3. CASE Auth!RefreshJWTJWKS
  <2>1. /\ method = "jwt" /\ mutex = Auth!Free /\ jwksLastRefresh' = Auth!Never /\ latest' = keys
        /\ UNCHANGED <<method, users, keys, mutex, jwtKeyFunc, step, got, due>>
    BY <1>3 DEF Auth!RefreshJWTJWKS, Auth!Refresh, Auth!requestVars
  <2>2. \A p \in Requests : step[p] # "decoding"
    BY <1>1, <2>1, AuthAssumption DEF MethodInv, Auth!FreeIsNobody
  <2> QED
    BY <1>1, <2>1, <2>2 DEF AuthInv, AuthTypeInv, MethodInv, VersionInv
<1>4. CASE Auth!ChangeKeys \/ Auth!Tick
  <2>1. /\ keys' \in {keys, keys + 1}
        /\ UNCHANGED <<method, users, latest, mutex, jwtKeyFunc, jwksLastRefresh, step, got, due>>
    BY <1>4 DEF Auth!ChangeKeys, Auth!Tick, Auth!JWKS, Auth!requestVars
  <2> QED
    BY <1>1, <2>1 DEF AuthInv, AuthTypeInv, MethodInv, VersionInv
<1>5. CASE UNCHANGED Auth!vars
  BY <1>1, <1>5 DEF Auth!vars, Auth!requestVars, AuthInv, AuthTypeInv, MethodInv, VersionInv
<1> QED
  BY <1>2, <1>3, <1>4, <1>5

(* No step of the authentication breaks the invariant.                    *)
LEMMA AuthStepInv ==
    ASSUME AuthInv, [Auth!Next]_Auth!vars
    PROVE  AuthInv'
  BY AuthAssumption, AuthenticateKeeps, DecideKeeps, KeysKeep, OthersKeep DEF Auth!Next, Auth!Goes

(* Requests, versions and the clock keep to their bounds, and the mutex is *)
(* that of a request that asks the identity server.                        *)
LEMMA AuthInitType == Auth!Init => Auth!TypeOK
<1> SUFFICES ASSUME Auth!Init PROVE Auth!TypeOK
  OBVIOUS
<1>1. (CHOOSE r \in Asked : TRUE) \in Asked
  BY AuthAssumption
<1> DEFINE r0 == CHOOSE r \in Asked : TRUE
<1> HIDE DEF r0
<1>2. asks \in [Requests -> Asked]
  BY <1>1 DEF Auth!Init, r0
<1> QED
  BY <1>2, AuthAssumption, BoundsAssumption DEF Auth!Init, Auth!TypeOK, Auth!Never

(* What a request does keeps them.                                         *)
LEMMA AuthRequestType ==
    ASSUME AuthInv, Auth!TypeOK, NEW q \in Requests,
           Auth!Authenticate(q) \/ Auth!authenticateHTTP(q) \/ Auth!Goes(q)
    PROVE  Auth!TypeOK'
<1>1. /\ UNCHANGED <<method, users, keys, hours, latest>>
      /\ \E s \in AuthSteps : step' = [step EXCEPT ![q] = s]
  BY DEF Auth!Authenticate, Auth!Goes, Auth!authenticateInternal, Auth!authenticateHTTP,
         Auth!authenticateJWT, Auth!Lock, Auth!ServerAnswers, Auth!StoreKeys, Auth!PullFails,
         Auth!Decide, Auth!Becomes, Auth!Fixed, AuthSteps, AuthInv, AuthTypeInv
<1>2. asks' \in [Requests -> Asked] /\ now' \in [Requests -> 0..hours]
  <2>1. CASE Auth!Authenticate(q)
    BY <2>1 DEF Auth!TypeOK, Auth!Authenticate
  <2>2. CASE Auth!authenticateHTTP(q) \/ Auth!Goes(q)
    BY <2>2 DEF Auth!TypeOK, Auth!Goes, Auth!authenticateInternal, Auth!authenticateHTTP,
         Auth!authenticateJWT, Auth!Lock, Auth!ServerAnswers, Auth!StoreKeys, Auth!PullFails
  <2> QED
    BY <2>1, <2>2
<1>3. jwksLastRefresh' \in Auth!Never..hours
  <2>1. jwksLastRefresh' = jwksLastRefresh \/ jwksLastRefresh' = now[q]
    BY DEF Auth!Authenticate, Auth!Goes, Auth!authenticateInternal, Auth!authenticateHTTP,
           Auth!authenticateJWT, Auth!Lock, Auth!ServerAnswers, Auth!StoreKeys, Auth!PullFails,
           Auth!JWKS
  <2> QED
    BY <2>1 DEF Auth!TypeOK, Auth!Never
<1>4. mutex' # Auth!Free => mutex' \in Requests /\ step'[mutex'] \in {"pulling", "decoding"}
  <2>1. \/ mutex' = Auth!Free
        \/ mutex' = mutex /\ step[q] \notin {"pulling", "decoding"}
        \/ mutex' = q /\ step' = [step EXCEPT ![q] = "pulling"]
        \/ mutex' = mutex /\ step' = [step EXCEPT ![q] = "decoding"]
    BY DEF Auth!Authenticate, Auth!Goes, Auth!authenticateInternal, Auth!authenticateHTTP,
           Auth!authenticateJWT, Auth!Lock, Auth!ServerAnswers, Auth!StoreKeys, Auth!PullFails,
           Auth!JWKS, Auth!Becomes
  <2> QED
    BY <1>1, <2>1 DEF Auth!TypeOK
<1> QED
  BY <1>1, <1>2, <1>3, <1>4 DEF Auth!TypeOK, AuthSteps

(* And so does all the rest.                                               *)
LEMMA AuthStepType ==
    ASSUME AuthInv, Auth!TypeOK, [Auth!Next]_Auth!vars
    PROVE  Auth!TypeOK'
<1>1. CASE Auth!ReloadInternalUsers \/ Auth!RefreshJWTJWKS \/ UNCHANGED Auth!vars
  BY <1>1 DEF Auth!TypeOK, Auth!ReloadInternalUsers, Auth!RefreshJWTJWKS, Auth!Refresh,
              Auth!vars, Auth!requestVars, Auth!JWKS, Auth!Never
<1>2. CASE Auth!ChangeKeys
  <2>1. /\ method = "jwt" /\ keys < MaxKeys /\ keys' = keys + 1
        /\ UNCHANGED <<method, users, hours, latest, mutex, jwksLastRefresh, step, asks, now>>
    BY <1>2 DEF Auth!ChangeKeys, Auth!JWKS, Auth!requestVars
  <2>2. keys' \in 1..MaxKeys /\ latest' \in 1..keys'
    BY <2>1, BoundsAssumption DEF Auth!TypeOK
  <2> QED
    BY <2>1, <2>2 DEF Auth!TypeOK
<1>3. CASE Auth!Tick
  <2>1. /\ hours < MaxHours /\ hours' = hours + 1
        /\ UNCHANGED <<method, users, keys, latest, mutex, jwksLastRefresh, step, asks, now>>
    BY <1>3 DEF Auth!Tick, Auth!JWKS, Auth!requestVars
  <2>2. hours' \in 0..MaxHours /\ jwksLastRefresh' \in Auth!Never..hours'
    BY <2>1, BoundsAssumption DEF Auth!TypeOK, Auth!Never
  <2>3. now' \in [Requests -> 0..hours']
    BY <2>1, BoundsAssumption DEF Auth!TypeOK
  <2> QED
    BY <2>1, <2>2, <2>3 DEF Auth!TypeOK
<1> QED
  BY <1>1, <1>2, <1>3, AuthRequestType DEF Auth!Next

(* A request that was accepted was so by a version that it may rely on.    *)
LEMMA AuthRefuses == AuthInv => Auth!WithdrawnIsRefused
  BY DEF AuthInv, AuthTypeInv, VersionInv, Auth!WithdrawnIsRefused

-----------------------------------------------------------------------------
(* The watcher of the configuration file.                                  *)
Ops == {"write", "create", "remove"}

WatchTypes ==
    /\ time \in 0..MaxTime /\ link \in BOOLEAN /\ whole \in BOOLEAN /\ terminate \in BOOLEAN
    /\ target \in 0..MaxChanges /\ current \in 0..MaxChanges /\ previous \in 0..MaxChanges
    /\ written \in 1..MaxChanges /\ loaded \in 0..MaxChanges
    /\ changedAt \in Int /\ (changedAt = Watch!Long \/ changedAt \in 0..time)
    /\ lastCalled \in Int /\ (lastCalled = Watch!Long \/ lastCalled \in 0..time)
    /\ events \in Seq([own : BOOLEAN, op : Ops])
    /\ watcher \in {"select", "sleep", "signal", "closed"}
    /\ core \in {"select", "load", "reload", "stop", "closing", "closed"}

(* The core uses another version than the one that is there.               *)
Stale == target # Watch!Missing /\ whole /\ loaded # written
(* Nothing of a change is on its way from the watcher to the core.         *)
Settled == watcher = "select" /\ core \in {"select", "reload"}

(* A file that is no link tells its last change with its last event; that  *)
(* of a link is seen by its target, which it did not have before.          *)
FileInv ==
    /\ ~link /\ target # Watch!Missing /\ events # <<>> => Watch!IsChange(events[Len(events)])
    /\ link => target = written /\ whole /\ current <= written /\ previous <= written
    /\ link /\ Stale /\ Settled => previous # target

SeenInv == Stale /\ Settled /\ events = <<>> => changedAt - lastCalled < MinInterval

WatchInv == WatchTypes /\ FileInv /\ SeenInv

(* The file is the one that was loaded.                                    *)
LEMMA WatchInitInv ==
    ASSUME Watch!Init
    PROVE  WatchInv
<1>1. events \in Seq([own : BOOLEAN, op : Ops])
  BY DEF Watch!Init
<1>2. link \in BOOLEAN /\ whole \in BOOLEAN /\ terminate \in BOOLEAN
  BY DEF Watch!Init
<1>3. WatchTypes
  BY <1>1, <1>2, BoundsAssumption DEF Watch!Init, WatchTypes, Watch!Long
<1>4. FileInv /\ SeenInv
  BY DEF Watch!Init, FileInv, SeenInv, Stale
<1> QED
  BY <1>3, <1>4 DEF WatchInv

(* What one more event, and what one less, does.                           *)
LEMMA AppendFacts ==
    ASSUME NEW S, NEW s \in Seq(S), NEW x \in S
    PROVE  /\ Append(s, x) \in Seq(S) /\ Append(s, x) # <<>>
           /\ Append(s, x)[Len(Append(s, x))] = x
  OBVIOUS

(* The last event stays the last.                                          *)
LEMMA TailFacts ==
    ASSUME NEW S, NEW s \in Seq(S), s # <<>>
    PROVE  /\ Tail(s) \in Seq(S)
           /\ Tail(s) # <<>> => Tail(s)[Len(Tail(s))] = s[Len(s)]
           /\ Tail(s) = <<>> => Head(s) = s[Len(s)]
<1>1. Len(s) \in Nat /\ Len(s) > 0 /\ Tail(s) \in Seq(S) /\ Len(Tail(s)) = Len(s) - 1
  OBVIOUS
<1>2. Tail(s) # <<>> => Tail(s)[Len(Tail(s))] = s[Len(s)]
  <2>1. Tail(s) # <<>> => Len(Tail(s)) > 0
    BY <1>1
  <2>2. \A i \in 1..Len(Tail(s)) : Tail(s)[i] = s[i + 1]
    BY <1>1
  <2> QED
    BY <1>1, <2>1, <2>2
<1>3. Tail(s) = <<>> => Len(s) = 1
  <2>1. Len(<<>>) = 0
    OBVIOUS
  <2>2. Tail(s) = <<>> => Len(Tail(s)) = Len(<<>>)
    BY Zenon
  <2> QED
    BY <1>1, <2>1, <2>2
<1>4. Head(s) = s[1]
  OBVIOUS
<1>5. Tail(s) = <<>> => Head(s) = s[Len(s)]
  BY <1>3, <1>4, Zenon
<1> QED
  BY <1>1, <1>2, <1>5, Zenon

(* A change of the file queues an event.                                   *)
LEMMA FileKeeps ==
    ASSUME WatchInv,
           \/ Watch!Write \/ Watch!BeginWrite \/ Watch!EndWrite \/ Watch!Replace \/ Watch!Remove
           \/ Watch!Relink
    PROVE  WatchInv'
<1>1. WatchTypes /\ FileInv /\ SeenInv
  BY DEF WatchInv
<1>2. PICK own \in BOOLEAN, op \in Ops :
         /\ events' = Append(events, [own |-> own, op |-> op])
         /\ changedAt' = time
         /\ UNCHANGED <<time, link, watcher, lastCalled, current, previous, terminate, core,
                        loaded>>
         /\ \/ ~link /\ (target' = Watch!Missing \/ (own /\ op \in {"write", "create"}))
            \/ link /\ target' = written + 1 /\ written' = written + 1 /\ whole' = TRUE
  <2>1. CASE Watch!Write \/ Watch!BeginWrite \/ Watch!EndWrite
    BY <1>1, <2>1 DEF WatchTypes, FileInv, Watch!Write, Watch!BeginWrite, Watch!EndWrite,
       Watch!Change, Watch!watcherVars, Watch!coreVars, Ops
  <2>2. CASE Watch!Replace \/ Watch!Remove
    BY <2>2 DEF Watch!Replace, Watch!Remove, Watch!Change, Watch!watcherVars, Watch!coreVars, Ops
  <2>3. CASE Watch!Relink
    BY <2>3 DEF Watch!Relink, Watch!NewVersion, Watch!Change, Watch!watcherVars, Watch!coreVars,
       Ops
  <2> QED
    BY <2>1, <2>2, <2>3
<1>3. target' \in 0..MaxChanges /\ written' \in 1..MaxChanges /\ whole' \in BOOLEAN
  <2>1. \/ target' = target \/ target' = 1 \/ target' = 0
        \/ written < MaxChanges /\ target' = written + 1
    BY DEF Watch!Write, Watch!BeginWrite, Watch!EndWrite,
       Watch!Replace, Watch!Remove, Watch!Relink, Watch!NewVersion, Watch!Change, Watch!Missing
  <2>2. written' = written \/ (written < MaxChanges /\ written' = written + 1)
    BY DEF Watch!Write, Watch!BeginWrite, Watch!EndWrite,
       Watch!Replace, Watch!Remove, Watch!Relink, Watch!NewVersion
  <2>3. whole' \in BOOLEAN
    <3>1. CASE Watch!BeginWrite
      BY <3>1 DEF Watch!BeginWrite, Watch!Change
    <3>2. CASE \/ Watch!Write \/ Watch!EndWrite \/ Watch!Replace \/ Watch!Remove
               \/ Watch!Relink
      BY <3>2 DEF Watch!Write, Watch!EndWrite, Watch!Replace, Watch!Remove, Watch!Relink,
         Watch!Change
    <3> QED
      BY <3>1, <3>2
  <2>4. target' \in 0..MaxChanges /\ written' \in 1..MaxChanges
    <3>1. target \in 0..MaxChanges /\ written \in 1..MaxChanges
      BY <1>1 DEF WatchTypes
    <3>2. MaxChanges \in Nat \ {0}
      BY BoundsAssumption
    <3> QED
      BY <2>1, <2>2, <3>1, <3>2
  <2> QED
    BY <2>3, <2>4
<1> DEFINE e == [own |-> own, op |-> op]
<1>4. e \in [own : BOOLEAN, op : Ops] /\ e.own = own /\ e.op = op
  OBVIOUS
<1>5. events \in Seq([own : BOOLEAN, op : Ops]) /\ events' = Append(events, e)
  BY <1>1, <1>2 DEF WatchTypes
<1> HIDE DEF e
<1>6. /\ events' \in Seq([own : BOOLEAN, op : Ops]) /\ events' # <<>>
      /\ events'[Len(events')] = e
  BY <1>4, <1>5, AppendFacts
<1>7. WatchTypes'
  BY <1>1, <1>2, <1>3, <1>6 DEF WatchTypes
<1>8. SeenInv'
  BY <1>6 DEF SeenInv
<1>9. FileInv'
  BY <1>1, <1>2, <1>4, <1>6 DEF FileInv, WatchTypes, Watch!IsChange
<1> QED
  BY <1>7, <1>8, <1>9 DEF WatchInv

(* An event is read: the watcher sleeps, or it was of no interest, or came *)
(* too early.                                                              *)
LEMMA EventKeeps ==
    ASSUME WatchInv, Watch!Event
    PROVE  WatchInv'
<1>1. WatchTypes /\ FileInv /\ SeenInv
  BY DEF WatchInv
<1>2. /\ watcher = "select" /\ events # <<>> /\ events' = Tail(events)
      /\ UNCHANGED <<time, link, target, written, whole, changedAt, lastCalled, terminate, core,
                     loaded>>
      /\ \/ time - lastCalled < MinInterval /\ UNCHANGED <<watcher, current, previous>>
         \/ target = Watch!Missing /\ previous' = Watch!Missing /\ UNCHANGED <<watcher, current>>
         \/ watcher' = "sleep" /\ current' = target /\ previous' = previous
         \/ target = previous /\ ~Watch!IsChange(Head(events))
            /\ UNCHANGED <<watcher, current, previous>>
  <2>1. time \in Int /\ lastCalled \in Int /\ MinInterval \in Int
    BY <1>1, BoundsAssumption DEF WatchTypes
  <2>2. time - lastCalled < MinInterval \/ time - lastCalled >= MinInterval
    BY <2>1
  <2>3. ~(time - lastCalled < MinInterval /\ time - lastCalled >= MinInterval)
    BY <2>1
  <2> QED
    BY <2>2, <2>3 DEF Watch!Event, Watch!fileVars, Watch!watcherVars, Watch!coreVars
<1>3. /\ events' \in Seq([own : BOOLEAN, op : Ops])
      /\ events' # <<>> => events'[Len(events')] = events[Len(events)]
      /\ events' = <<>> => Head(events) = events[Len(events)]
  <2>1. events \in Seq([own : BOOLEAN, op : Ops])
    BY <1>1 DEF WatchTypes
  <2> QED
    BY <1>2, <2>1, TailFacts
<1>4. WatchTypes'
  BY <1>1, <1>2, <1>3, BoundsAssumption DEF WatchTypes, Watch!Missing
<1>5. FileInv'
  BY <1>1, <1>2, <1>3 DEF FileInv, WatchTypes, Stale, Settled
<1>6. SeenInv'
  <2>1. CASE time - lastCalled < MinInterval
    <3>1. changedAt <= time /\ changedAt \in Int /\ lastCalled \in Int /\ time \in Int
      BY <1>1 DEF WatchTypes, Watch!Long
    <3> QED
      BY <1>2, <2>1, <3>1, BoundsAssumption DEF SeenInv
  <2>2. CASE target = Watch!Missing \/ watcher' = "sleep"
    BY <1>2, <2>2 DEF SeenInv, Stale, Settled
  <2>3. CASE target = previous /\ ~Watch!IsChange(Head(events))
             /\ UNCHANGED <<watcher, current, previous>>
    BY <1>1, <1>2, <1>3, <2>3 DEF FileInv, SeenInv, Stale, Settled
  <2> QED
    BY <1>2, <2>1, <2>2, <2>3
<1> QED
  BY <1>4, <1>5, <1>6 DEF WatchInv

(* The rest of the watcher, and the core: what it has not seen yet it will *)
(* see, since the watcher or the core is still at work.                    *)
LEMMA WorkKeeps ==
    ASSUME WatchInv,
           \/ Watch!SleepEnds \/ Watch!Error \/ Watch!Terminated \/ Watch!Signal \/ Watch!Load
           \/ Watch!Reloaded \/ Watch!Interrupt \/ Watch!Close \/ Watch!CloseReturns
           \/ Watch!Tick \/ UNCHANGED Watch!vars
    PROVE  WatchInv'
<1>1. WatchTypes /\ FileInv /\ SeenInv
  BY DEF WatchInv
<1>2. UNCHANGED <<link, target, written, whole, changedAt, events, current>>
  BY DEF Watch!SleepEnds, Watch!Error, Watch!Terminated, Watch!Signal, Watch!Load,
     Watch!Reloaded, Watch!Interrupt, Watch!Close, Watch!CloseReturns, Watch!Tick, Watch!vars,
     Watch!fileVars, Watch!watcherVars
<1>3. CASE Watch!SleepEnds
  <2>1. /\ watcher' = "signal" /\ previous' = current /\ lastCalled' = time
        /\ UNCHANGED <<time, terminate, core, loaded>>
    BY <1>3 DEF Watch!SleepEnds, Watch!coreVars
  <2>2. WatchTypes'
    BY <1>1, <1>2, <2>1 DEF WatchTypes
  <2>3. FileInv' /\ SeenInv'
    BY <1>1, <1>2, <2>1 DEF FileInv, SeenInv, Stale, Settled
  <2> QED
    BY <2>2, <2>3 DEF WatchInv
<1>4. CASE Watch!Tick
  <2>1. time' = time + 1 /\ time < MaxTime
        /\ UNCHANGED <<watcher, lastCalled, previous, terminate, core, loaded>>
    BY <1>4 DEF Watch!Tick, Watch!watcherVars, Watch!coreVars
  <2>2. time' \in 0..MaxTime /\ 0..time \subseteq 0..time'
    BY <1>1, <2>1, BoundsAssumption DEF WatchTypes
  <2>3. WatchTypes'
    BY <1>1, <1>2, <2>1, <2>2 DEF WatchTypes
  <2>4. FileInv' /\ SeenInv'
    BY <1>1, <1>2, <2>1 DEF FileInv, SeenInv, Stale, Settled
  <2> QED
    BY <2>3, <2>4 DEF WatchInv
<1>5. CASE Watch!Load
  <2>1. /\ UNCHANGED <<time, watcher, lastCalled, previous, terminate>>
        /\ \/ core' = "reload" /\ loaded' = IF whole THEN written ELSE 0
           \/ core' = "stop" /\ loaded' = loaded
    BY <1>5 DEF Watch!Load, Watch!watcherVars
  <2>2. WatchTypes'
    BY <1>1, <1>2, <2>1, BoundsAssumption DEF WatchTypes
  <2>3. FileInv' /\ SeenInv'
    BY <1>1, <1>2, <2>1 DEF FileInv, SeenInv, Stale, Settled
  <2> QED
    BY <2>2, <2>3 DEF WatchInv
<1>6. CASE \/ Watch!Error \/ Watch!Terminated \/ Watch!Signal \/ Watch!Reloaded
           \/ Watch!Interrupt \/ Watch!Close \/ Watch!CloseReturns \/ UNCHANGED Watch!vars
  <2>1. /\ UNCHANGED <<time, lastCalled, previous, loaded>>
        /\ terminate' = terminate \/ terminate' = TRUE
        /\ watcher' \in {"select", "sleep", "signal", "closed"}
        /\ core' \in {"select", "load", "reload", "stop", "closing", "closed"}
        /\ Settled' => Settled
    BY <1>1, <1>6 DEF WatchTypes, Settled, Watch!Error, Watch!Terminated, Watch!Signal,
       Watch!Reloaded, Watch!Interrupt, Watch!Close, Watch!CloseReturns, Watch!vars,
       Watch!watcherVars, Watch!coreVars
  <2>2. terminate' \in BOOLEAN
    BY <1>1, <2>1 DEF WatchTypes
  <2>3. WatchTypes'
    BY <1>1, <1>2, <2>1, <2>2 DEF WatchTypes
  <2>4. FileInv' /\ SeenInv'
    BY <1>1, <1>2, <2>1 DEF FileInv, SeenInv, Stale
  <2> QED
    BY <2>3, <2>4 DEF WatchInv
<1> QED
  BY <1>3, <1>4, <1>5, <1>6

(* No step of file, watcher or core breaks the invariant.                  *)
LEMMA WatchStepInv ==
    ASSUME WatchInv, [Watch!Next]_Watch!vars
    PROVE  WatchInv'
  BY FileKeeps, EventKeeps, WorkKeeps DEF Watch!Next, Watch!Goes

(* The types of the watcher, and that it misses only what came too early.  *)
LEMMA WatchFacts ==
    ASSUME WatchInv
    PROVE  Watch!TypeOK /\ Watch!ChangesAreSeen
<1>1. Watch!TypeOK
  BY DEF WatchInv, WatchTypes, Watch!TypeOK
<1>2. Watch!ChangesAreSeen
  BY DEF WatchInv, SeenInv, Stale, Settled, Watch!ChangesAreSeen
<1> QED
  BY <1>1, <1>2

-----------------------------------------------------------------------------
(* Hooks and external commands.                                            *)
CmdRecords == [state : Cmd!States, restart : BOOLEAN, terminate : BOOLEAN, onEnd : BOOLEAN]

CmdTypeInv ==
    /\ hook \in {"OnConnect", "OnDemand", "OnInit", "OnRead", "OnReady"}
    /\ command \in {"none", "once", "restart"} /\ onEnd \in BOOLEAN
    /\ cmds \in Seq(CmdRecords)
    /\ active \in Int /\ active <= Len(cmds) /\ active >= Cmd!Off
    /\ wg \in Int
    /\ pool \in {"open", "waiting", "closed"}

(* The counter of the pool is the number of commands that have not         *)
(* returned, and from Close on nothing starts another.                     *)
Alive == {c \in 1..Len(cmds) : cmds[c].state # "done"}
CountInv ==
    /\ wg = Cardinality(Alive)
    /\ pool # "open" => active = Cmd!Off
    /\ pool = "closed" => Alive = {}

(* A command that is to be restarted is that of the hook.                  *)
KeptInv ==
    \A c \in 1..Len(cmds) :
        ~Cmd!In(c, "done") /\ cmds[c].restart /\ ~cmds[c].terminate => c = active

CmdInv == CmdTypeInv /\ CountInv /\ KeptInv

(* There are finitely many commands.                                       *)
LEMMA AliveFinite ==
    ASSUME CmdTypeInv
    PROVE  /\ IsFiniteSet(Alive) /\ Cardinality(Alive) \in Nat
           /\ Cardinality(Alive) = 0 <=> Alive = {}
<1>1. Len(cmds) \in Nat
  BY DEF CmdTypeInv
<1>2. Alive \in SUBSET Nat /\ \A c \in Alive : c <= Len(cmds)
  BY <1>1 DEF Alive
<1>3. IsFiniteSet(Alive)
  BY <1>1, <1>2, FS_BoundedSetOfNaturals
<1> QED
  BY <1>3, FS_CardinalityType, FS_EmptySet

(* There is none in the beginning.                                         *)
LEMMA CmdInitInv ==
    ASSUME Cmd!Init
    PROVE  CmdInv
<1>1. CmdTypeInv /\ KeptInv
  BY DEF Cmd!Init, CmdTypeInv, KeptInv, Cmd!Off
<1>2. Alive = {}
  BY DEF Cmd!Init, Alive
<1>3. CountInv
  BY <1>2, FS_EmptySet DEF Cmd!Init, CountInv
<1> QED
  BY <1>1, <1>3 DEF CmdInv

(* A command that is created is one more that is alive.                    *)
LEMMA NewFacts ==
    ASSUME CmdTypeInv, NEW cs \in Seq(CmdRecords), Len(cs) = Len(cmds),
           \A c \in 1..Len(cmds) : cs[c].state = cmds[c].state,
           NEW x \in CmdRecords, x.state = "new", cmds' = Append(cs, x)
    PROVE  /\ cmds' \in Seq(CmdRecords) /\ Len(cmds') = Len(cmds) + 1 /\ Len(cmds) \in Nat
           /\ \A c \in 1..Len(cmds) : cmds'[c] = cs[c]
           /\ cmds'[Len(cmds) + 1] = x
           /\ Cardinality(Alive') = Cardinality(Alive) + 1
<1>1. /\ cmds' \in Seq(CmdRecords) /\ Len(cmds') = Len(cmds) + 1 /\ Len(cmds) \in Nat
      /\ \A c \in 1..Len(cmds) : cmds'[c] = cs[c]
      /\ cmds'[Len(cmds) + 1] = x
  BY DEF CmdTypeInv
<1>2. Alive' = Alive \cup {Len(cmds) + 1}
  BY <1>1 DEF Alive
<1>3. Len(cmds) + 1 \notin Alive
  BY <1>1 DEF Alive
<1> QED
  BY <1>1, <1>2, <1>3, AliveFinite, FS_AddElement

(* Setting the state of one of them.                                       *)
LEMMA SetFacts ==
    ASSUME CmdTypeInv, NEW c \in 1..Len(cmds), NEW s \in Cmd!States,
           cmds' = [cmds EXCEPT ![c].state = s]
    PROVE  /\ cmds' \in Seq(CmdRecords) /\ Len(cmds') = Len(cmds) /\ Len(cmds) \in Nat
           /\ \A d \in 1..Len(cmds) : /\ d # c => cmds'[d] = cmds[d]
                                      /\ cmds'[d].restart = cmds[d].restart
                                      /\ cmds'[d].terminate = cmds[d].terminate
           /\ cmds'[c].state = s
<1>1. cmds \in Seq(CmdRecords) /\ cmds[c] \in CmdRecords
  BY DEF CmdTypeInv
<1>2. [cmds[c] EXCEPT !.state = s] \in CmdRecords
  BY <1>1 DEF CmdRecords
<1>3. cmds' = [cmds EXCEPT ![c] = [cmds[c] EXCEPT !.state = s]]
  BY <1>1
<1>4. cmds' \in Seq(CmdRecords) /\ Len(cmds') = Len(cmds)
  BY <1>1, <1>2, <1>3
<1>5. \A d \in 1..Len(cmds) : /\ d # c => cmds'[d] = cmds[d]
                              /\ d = c => cmds'[d] = [cmds[c] EXCEPT !.state = s]
  BY <1>1, <1>3
<1> QED
  BY <1>1, <1>4, <1>5 DEF CmdRecords

(* What a change of one element of a sequence does.                        *)
LEMMA ExceptFacts ==
    ASSUME NEW S, NEW s \in Seq(S), NEW i \in 1..Len(s), NEW x \in S
    PROVE  /\ [s EXCEPT ![i] = x] \in Seq(S)
           /\ Len([s EXCEPT ![i] = x]) = Len(s)
           /\ \A j \in 1..Len(s) : [s EXCEPT ![i] = x][j] = IF j = i THEN x ELSE s[j]
  OBVIOUS

(* A hook begins when it has no command, and keeps the one that it starts. *)
LEMMA BeginKeeps ==
    ASSUME CmdInv, Cmd!Begin
    PROVE  CmdInv'
<1>1. CmdTypeInv /\ CountInv /\ KeptInv
  BY DEF CmdInv
<1>2. active = Cmd!Off /\ pool = "open" /\ UNCHANGED <<hook, command, onEnd, pool>>
  BY DEF Cmd!Begin
<1>3. CASE command = "none"
  <2>1. active' = 0 /\ UNCHANGED <<cmds, wg>>
    BY <1>3 DEF Cmd!Begin
  <2>2. Len(cmds) \in Nat
    BY <1>1 DEF CmdTypeInv
  <2>3. \A c \in 1..Len(cmds) : c # active
    BY <1>2, <2>2 DEF Cmd!Off
  <2> QED
    BY <1>1, <1>2, <2>1, <2>2, <2>3 DEF CmdInv, CmdTypeInv, CountInv, KeptInv, Alive, Cmd!In,
                                        Cmd!Off
<1>4. CASE command # "none"
  <2> DEFINE x == Cmd!Cmd(command = "restart", FALSE)
  <2>1. active' = Len(cmds) + 1 /\ cmds' = Append(cmds, x) /\ wg' = wg + 1
    BY <1>4 DEF Cmd!Begin, Cmd!NewCmd
  <2>2. x \in CmdRecords /\ x.state = "new"
    BY DEF Cmd!Cmd, CmdRecords, Cmd!States
  <2>3. cmds \in Seq(CmdRecords)
    BY <1>1 DEF CmdTypeInv
  <2> HIDE DEF x
  <2>4. /\ cmds' \in Seq(CmdRecords) /\ Len(cmds') = Len(cmds) + 1 /\ Len(cmds) \in Nat
        /\ \A c \in 1..Len(cmds) : cmds'[c] = cmds[c]
        /\ cmds'[Len(cmds) + 1] = x
        /\ Cardinality(Alive') = Cardinality(Alive) + 1
    BY <1>1, <2>1, <2>2, <2>3, NewFacts
  <2>5. CmdTypeInv'
    BY <1>1, <1>2, <2>1, <2>4 DEF CmdTypeInv, Cmd!Off
  <2>6. CountInv'
    BY <1>1, <1>2, <2>1, <2>4 DEF CountInv
  <2>7. KeptInv'
    <3>1. \A c \in 1..Len(cmds) : c # active
      BY <1>2, <2>4 DEF Cmd!Off
    <3> QED
      BY <1>1, <2>1, <2>4, <3>1 DEF KeptInv, Cmd!In
  <2> QED
    BY <2>5, <2>6, <2>7 DEF CmdInv
<1> QED
  BY <1>3, <1>4

(* A hook that ends closes its command; what it starts then is not         *)
(* restarted.                                                              *)
LEMMA EndKeeps ==
    ASSUME CmdInv, NEW hasEnd \in BOOLEAN, Cmd!End(hasEnd)
    PROVE  CmdInv'
<1>1. CmdTypeInv /\ CountInv /\ KeptInv
  BY DEF CmdInv
<1>2. active # Cmd!Off /\ active' = Cmd!Off /\ UNCHANGED <<hook, command, onEnd, pool>>
  BY DEF Cmd!End
<1>3. pool = "open"
  BY <1>1, <1>2 DEF CountInv, CmdTypeInv
<1>4. /\ cmds \in Seq(CmdRecords) /\ Len(cmds) \in Nat
      /\ active \in Int /\ active <= Len(cmds) /\ active >= 0
  BY <1>1, <1>2 DEF CmdTypeInv, Cmd!Off
<1>5. /\ Cmd!Closed \in Seq(CmdRecords) /\ Len(Cmd!Closed) = Len(cmds)
      /\ \A c \in 1..Len(cmds) : /\ Cmd!Closed[c].state = cmds[c].state
                                 /\ Cmd!Closed[c].restart = cmds[c].restart
                                 /\ c = active => Cmd!Closed[c].terminate
                                 /\ c # active => Cmd!Closed[c] = cmds[c]
  <2>1. CASE active = 0
    BY <1>4, <2>1 DEF Cmd!Closed
  <2>2. CASE active # 0
    <3>1. active \in 1..Len(cmds)
      BY <1>4, <2>2
    <3>2. cmds[active] \in CmdRecords
      BY <1>4, <3>1
    <3> DEFINE y == [cmds[active] EXCEPT !.terminate = TRUE]
    <3>3. /\ y \in CmdRecords /\ y.terminate
          /\ y.state = cmds[active].state /\ y.restart = cmds[active].restart
      BY <3>2 DEF CmdRecords
    <3>4. Cmd!Closed = [cmds EXCEPT ![active] = y]
      BY <1>4, <2>2, <3>1 DEF Cmd!Closed
    <3> HIDE DEF y
    <3>5. /\ Cmd!Closed \in Seq(CmdRecords) /\ Len(Cmd!Closed) = Len(cmds)
          /\ \A c \in 1..Len(cmds) : Cmd!Closed[c] = IF c = active THEN y ELSE cmds[c]
      BY <1>4, <3>1, <3>3, <3>4, ExceptFacts
    <3> QED
      BY <3>3, <3>5
  <2> QED
    BY <2>1, <2>2
<1> HIDE DEF Cmd!Closed
<1>6. \A c \in 1..Len(cmds) :
         cmds[c].state # "done" /\ Cmd!Closed[c].restart => Cmd!Closed[c].terminate
  BY <1>1, <1>5 DEF KeptInv, Cmd!In
<1>7. CASE hasEnd
  <2> DEFINE x == Cmd!Cmd(FALSE, TRUE)
  <2>1. cmds' = Append(Cmd!Closed, x) /\ wg' = wg + 1
    BY <1>7 DEF Cmd!End, Cmd!NewCmd
  <2>2. x \in CmdRecords /\ x.state = "new" /\ ~x.restart
    BY DEF Cmd!Cmd, CmdRecords, Cmd!States
  <2> HIDE DEF x
  <2>3. /\ cmds' \in Seq(CmdRecords) /\ Len(cmds') = Len(cmds) + 1 /\ Len(cmds) \in Nat
        /\ \A c \in 1..Len(cmds) : cmds'[c] = Cmd!Closed[c]
        /\ cmds'[Len(cmds) + 1] = x
        /\ Cardinality(Alive') = Cardinality(Alive) + 1
    BY <1>1, <1>5, <2>1, <2>2, NewFacts
  <2>4. CmdTypeInv'
    BY <1>1, <1>2, <2>1, <2>3 DEF CmdTypeInv, Cmd!Off
  <2>5. CountInv'
    BY <1>1, <1>2, <1>3, <2>1, <2>3 DEF CountInv
  <2>6. KeptInv'
    BY <1>5, <1>6, <2>2, <2>3 DEF KeptInv, Cmd!In
  <2> QED
    BY <2>4, <2>5, <2>6 DEF CmdInv
<1>8. CASE ~hasEnd
  <2>1. cmds' = Cmd!Closed /\ wg' = wg
    BY <1>8 DEF Cmd!End
  <2>2. Alive' = Alive
    BY <1>5, <2>1 DEF Alive
  <2>3. CmdTypeInv'
    BY <1>1, <1>2, <1>4, <1>5, <2>1 DEF CmdTypeInv, Cmd!Off
  <2>4. CountInv' /\ KeptInv'
    BY <1>1, <1>2, <1>3, <1>5, <1>6, <2>1, <2>2 DEF CountInv, KeptInv, Cmd!In
  <2> QED
    BY <2>3, <2>4 DEF CmdInv
<1> QED
  BY <1>7, <1>8

(* Cmd.run goes on, and its process may have ended.                        *)
LEMMA GotoKeeps ==
    ASSUME CmdInv, NEW c \in 1..Len(cmds), NEW s \in Cmd!States \ {"done"}, ~Cmd!In(c, "done"),
    Cmd!Goto(c, s)
    PROVE  CmdInv'
<1>1. CmdTypeInv /\ CountInv /\ KeptInv
  BY DEF CmdInv
<1>2. cmds' = [cmds EXCEPT ![c].state = s]
      /\ UNCHANGED <<hook, command, onEnd, active, wg, pool>>
  BY DEF Cmd!Goto, Cmd!hookVars
<1>3. /\ cmds' \in Seq(CmdRecords) /\ Len(cmds') = Len(cmds) /\ Len(cmds) \in Nat
      /\ \A d \in 1..Len(cmds) : /\ d # c => cmds'[d] = cmds[d]
                                 /\ cmds'[d].restart = cmds[d].restart
                                 /\ cmds'[d].terminate = cmds[d].terminate
      /\ cmds'[c].state = s
  BY <1>1, <1>2, SetFacts
<1>4. Alive' = Alive
  BY <1>3 DEF Alive, Cmd!In
<1>5. CmdTypeInv'
  BY <1>1, <1>2, <1>3 DEF CmdTypeInv
<1>6. CountInv' /\ KeptInv'
  BY <1>1, <1>2, <1>3, <1>4 DEF CountInv, KeptInv, Cmd!In
<1> QED
  BY <1>5, <1>6 DEF CmdInv

(* Cmd.run returns, and is counted off.                                    *)
LEMMA ReturnKeeps ==
    ASSUME CmdInv, NEW c \in 1..Len(cmds), ~Cmd!In(c, "done"), Cmd!Returns(c)
    PROVE  CmdInv'
<1>1. CmdTypeInv /\ CountInv /\ KeptInv
  BY DEF CmdInv
<1>2. cmds' = [cmds EXCEPT ![c].state = "done"] /\ wg' = wg - 1
      /\ UNCHANGED <<hook, command, onEnd, active, pool>>
  BY DEF Cmd!Returns, Cmd!hookVars
<1>3. /\ cmds' \in Seq(CmdRecords) /\ Len(cmds') = Len(cmds) /\ Len(cmds) \in Nat
      /\ \A d \in 1..Len(cmds) : /\ d # c => cmds'[d] = cmds[d]
                                 /\ cmds'[d].restart = cmds[d].restart
                                 /\ cmds'[d].terminate = cmds[d].terminate
      /\ cmds'[c].state = "done"
  <2>1. "done" \in Cmd!States
    BY DEF Cmd!States
  <2> QED
    BY <1>1, <1>2, <2>1, SetFacts
<1>4. Alive' = Alive \ {c} /\ c \in Alive
  BY <1>3 DEF Alive, Cmd!In
<1>5. Cardinality(Alive') = Cardinality(Alive) - 1
  BY <1>1, <1>4, AliveFinite, FS_RemoveElement
<1>6. CmdTypeInv'
  BY <1>1, <1>2, <1>3 DEF CmdTypeInv
<1>7. CountInv'
  BY <1>1, <1>2, <1>4, <1>5 DEF CountInv
<1>8. KeptInv'
  BY <1>1, <1>2, <1>3 DEF KeptInv, Cmd!In
<1> QED
  BY <1>6, <1>7, <1>8 DEF CmdInv

(* The pool is closed when no hook has a command, and when none is left.   *)
LEMMA PoolKeeps ==
    ASSUME CmdInv, Cmd!ClosePool \/ Cmd!PoolReturns \/ UNCHANGED Cmd!vars
    PROVE  CmdInv'
<1>1. CmdTypeInv /\ CountInv /\ KeptInv
  BY DEF CmdInv
<1>2. /\ UNCHANGED <<hook, command, onEnd, active, cmds, wg>>
      /\ \/ pool = "open" /\ active = Cmd!Off /\ pool' = "waiting"
         \/ pool = "waiting" /\ wg = 0 /\ pool' = "closed"
         \/ pool' = pool
  BY DEF Cmd!ClosePool, Cmd!PoolReturns, Cmd!vars, Cmd!hookVars
<1>3. Alive' = Alive
  BY <1>2 DEF Alive
<1>4. wg = 0 => Alive = {}
  BY <1>1, AliveFinite DEF CountInv
<1> QED
  BY <1>1, <1>2, <1>3, <1>4 DEF CmdInv, CmdTypeInv, CountInv, KeptInv, Cmd!In

(* No step of hooks, commands or pool breaks the invariant.                *)
LEMMA CmdStepInv ==
    ASSUME CmdInv, [Cmd!Next]_Cmd!vars
    PROVE  CmdInv'
<1>1. CASE Cmd!OnConnect \/ Cmd!OnDemand \/ Cmd!OnInit \/ Cmd!OnRead \/ Cmd!OnReady
  <2>1. onEnd \in BOOLEAN
    BY DEF CmdInv, CmdTypeInv
  <2>2. Cmd!Begin \/ \E hasEnd \in BOOLEAN : Cmd!End(hasEnd)
    BY <1>1, <2>1 DEF Cmd!OnConnect, Cmd!OnDemand, Cmd!OnInit, Cmd!OnRead, Cmd!OnReady
  <2> QED
    BY <2>2, BeginKeeps, EndKeeps
<1>2. ASSUME NEW c \in 1..Len(cmds),
             \/ Cmd!StartProcess(c) \/ Cmd!ProcessExits(c) \/ Cmd!Kill(c)
             \/ Cmd!KilledExits(c) \/ Cmd!AfterExit(c)
             \/ Cmd!Restart(c) \/ Cmd!PauseTerminated(c)
      PROVE  CmdInv'
  <2>1. ~Cmd!In(c, "done") /\ (Cmd!Returns(c) \/ \E s \in Cmd!States \ {"done"} : Cmd!Goto(c, s))
    BY <1>2 DEF Cmd!StartProcess, Cmd!ProcessExits, Cmd!Kill, Cmd!KilledExits, Cmd!AfterExit,
                Cmd!Restart,
                Cmd!PauseTerminated, Cmd!In, Cmd!States
  <2> QED
    BY <2>1, GotoKeeps, ReturnKeeps
<1> QED
  BY <1>1, <1>2, PoolKeeps DEF Cmd!Next

(* The hook begins only so often.                                          *)
RoundsInv == rounds \in 0..MaxRounds

(* And no step lets it begin once more.                                    *)
LEMMA RoundsKeeps ==
    ASSUME RoundsInv, [Cmd!Next]_Cmd!vars
    PROVE  RoundsInv'
<1>1. rounds' = rounds \/ (rounds < MaxRounds /\ rounds' = rounds + 1)
  BY DEF Cmd!Next, Cmd!OnConnect, Cmd!OnDemand, Cmd!OnInit, Cmd!OnRead, Cmd!OnReady, Cmd!Begin,
     Cmd!End, Cmd!StartProcess, Cmd!ProcessExits, Cmd!Kill, Cmd!KilledExits, Cmd!AfterExit,
     Cmd!Restart, Cmd!PauseTerminated, Cmd!Goto, Cmd!Returns, Cmd!ClosePool, Cmd!PoolReturns,
     Cmd!hookVars, Cmd!vars
<1> QED
  BY <1>1, BoundsAssumption DEF RoundsInv

(* The types of the commands, and that the pool is quiet when it is        *)
(* closed: no command is left, and none that is restarted runs without its *)
(* hook.                                                                   *)
LEMMA CmdFacts ==
    ASSUME CmdInv, RoundsInv
    PROVE  Cmd!TypeOK /\ Cmd!PoolIsQuiet
<1>1. CmdTypeInv /\ CountInv /\ KeptInv
  BY DEF CmdInv
<1>2. cmds \in Seq(CmdRecords) /\ Len(cmds) \in Nat
  BY <1>1 DEF CmdTypeInv
<1>3. \A c \in 1..Len(cmds) :
         /\ cmds[c].state \in Cmd!States
         /\ {cmds[c].restart, cmds[c].terminate, cmds[c].onEnd} \subseteq BOOLEAN
  <2>1. \A c \in 1..Len(cmds) : cmds[c] \in CmdRecords
    BY <1>2
  <2> QED
    BY <2>1 DEF CmdRecords
<1>4. wg \in 0..Len(cmds)
  <2>1. Alive \subseteq 1..Len(cmds)
    BY DEF Alive
  <2>2. IsFiniteSet(1..Len(cmds)) /\ Cardinality(1..Len(cmds)) = Len(cmds)
    BY <1>2, FS_Interval
  <2>3. Cardinality(Alive) <= Len(cmds)
    BY <2>1, <2>2, FS_Subset
  <2> QED
    BY <1>1, <1>2, <2>3, AliveFinite DEF CountInv
<1>5. Cmd!TypeOK
  BY <1>1, <1>2, <1>3, <1>4 DEF CmdTypeInv, RoundsInv, Cmd!TypeOK, Cmd!Off
<1>6. Cmd!PoolIsQuiet
  BY <1>1 DEF CountInv, KeptInv, Alive, Cmd!PoolIsQuiet, Cmd!In
<1> QED
  BY <1>5, <1>6

-----------------------------------------------------------------------------
(* All of it.                                                              *)
(* Whichever part it is, its invariant holds.                              *)
Inv ==
    /\ kind = "whip" => PeerInv /\ WhipInv
    /\ kind = "session" => PeerInv /\ ServedInv
    /\ kind = "auth" => AuthInv /\ Auth!TypeOK
    /\ kind = "watch" => WatchInv
    /\ kind = "cmd" => CmdInv /\ RoundsInv

(* It holds in the beginning.                                              *)
LEMMA InitInv ==
    ASSUME Init
    PROVE  Inv
<1>1. Cmd!Init => RoundsInv
  BY BoundsAssumption DEF Cmd!Init, RoundsInv
<1> QED
  BY <1>1, WhipInitInv, ServedInitInv, AuthInitInv, AuthInitType, WatchInitInv, CmdInitInv
     DEF Init, Inv

(* A step is one of the part that was chosen, or of none.                  *)
LEMMA PartSteps ==
    ASSUME [Next]_vars
    PROVE  /\ kind' = kind
           /\ kind = "whip" => [Whip!Next]_Whip!vars
           /\ kind = "session" => [Session!Next]_Session!vars
           /\ kind = "auth" => [Auth!Next]_Auth!vars
           /\ kind = "watch" => [Watch!Next]_Watch!vars
           /\ kind = "cmd" => [Cmd!Next]_Cmd!vars
<1>1. CASE Next
  BY <1>1 DEF Next, IsWhip, IsSession, NotPeer, IsAuth, IsWatch, IsCmd, NoPeer
<1>2. CASE UNCHANGED vars
  <2>1. kind' = kind /\ UNCHANGED <<peerVars, whipVars, onPath, authVars, watchVars, cmdVars>>
    BY <1>2 DEF vars
  <2>2. UNCHANGED Whip!vars /\ UNCHANGED Session!vars
    BY <2>1 DEF peerVars, whipVars, Whip!vars, Whip!peerVars, Whip!clientVars, Whip!pionVars,
       Whip!channelVars, Whip!gatherVars, Whip!trackVars, Session!vars, Session!peerVars,
       Session!clientVars, Session!pionVars, Session!channelVars, Session!gatherVars,
       Session!trackVars
  <2>3. UNCHANGED Auth!vars
    BY <2>1 DEF authVars, Auth!vars, Auth!requestVars
  <2>4. UNCHANGED Watch!vars
    BY <2>1 DEF watchVars, Watch!vars, Watch!fileVars, Watch!watcherVars, Watch!coreVars
  <2>5. UNCHANGED Cmd!vars
    BY <2>1 DEF cmdVars, Cmd!vars, Cmd!hookVars
  <2> QED
    BY <2>1, <2>2, <2>3, <2>4, <2>5
<1> QED
  BY <1>1, <1>2

(* Each part keeps its invariant, and those of others are not asked for.   *)
LEMMA StepInv ==
    ASSUME Inv, [Next]_vars
    PROVE  Inv'
<1>1. kind' = kind
  BY PartSteps
<1>2. CASE kind = "whip"
  BY <1>1, <1>2, PartSteps, WhipStepInv DEF Inv
<1>3. CASE kind = "session"
  BY <1>1, <1>3, PartSteps, ServedStepInv DEF Inv
<1>4. CASE kind = "auth"
  BY <1>1, <1>4, PartSteps, AuthStepInv, AuthStepType DEF Inv
<1>5. CASE kind = "watch"
  BY <1>1, <1>5, PartSteps, WatchStepInv DEF Inv
<1>6. CASE kind = "cmd"
  BY <1>1, <1>6, PartSteps, CmdStepInv, RoundsKeeps DEF Inv
<1> QED
  BY <1>1, <1>2, <1>3, <1>4, <1>5, <1>6 DEF Inv

(* Every variable of the part that was chosen keeps to its type; counters  *)
(* do to their bounds.                                                     *)
THEOREM TypeCorrect == Spec => []TypeOK
<1>1. Inv => TypeOK
  BY WhipFacts, ServedFacts, WatchFacts, CmdFacts DEF Inv, TypeOK
<1> QED
  BY <1>1, InitInv, StepInv, PTL DEF Spec

(* In whatever order pion calls the handlers of a peer connection no       *)
(* channel is closed twice, and who has told it to close and goes on has   *)
(* left no connection that is open, no receiver of a track, and no session *)
(* on the other side that it knows of and has not asked to delete; a pool  *)
(* that is closed has left no process, and no command is restarted without *)
(* its hook (peer_connection.go:362-436, whip/client.go:69-84 and 301-319, *)
(* externalcmd/pool.go:16-19).                                             *)
THEOREM EndedAlwaysQuiet == Spec => []EndedIsQuiet
<1>1. Inv => EndedIsQuiet
  BY WhipFacts, ServedFacts, CmdFacts DEF Inv, EndedIsQuiet
<1> QED
  BY <1>1, InitInv, StepInv, PTL DEF Spec

(* A request that begins after users were reloaded, or keys refreshed, is  *)
(* not accepted by those from before, whatever was on its way then; and a  *)
(* change of the configuration that is not the one in use is being read    *)
(* still, or came within minInterval of the last (auth/manager.go:242-294, *)
(* confwatcher.go:79-105).                                                 *)
THEOREM NothingEverStale == Spec => []NothingStale
<1>1. Inv => NothingStale
  BY AuthRefuses, WatchFacts DEF Inv, NothingStale
<1> QED
  BY <1>1, InitInv, StepInv, PTL DEF Spec
=============================================================================
