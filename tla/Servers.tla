------------------------------- MODULE Servers -------------------------------
(***************************************************************************)
(* The servers through which clients read and publish, each with a path as *)
(* PathSide has it. Core starts any of them; they share nothing but the    *)
(* path manager, which takes one request at a time, so that one server and *)
(* a path that also ends streams on its own show what each of them does.   *)
(* Which one it is, is chosen in the beginning.                            *)
(***************************************************************************)
EXTENDS Naturals

CONSTANTS
    Clients,                \* connections, sessions or muxers of each kind of server
    MayRead, MayPublish,    \* which of them may ask to read, to publish
    Requests,               \* HTTP requests for a muxer
    None,                   \* no client
    c1, c2                  \* two clients, of which TLC's instance consists

VARIABLES
    kind,                                                       \* which server
    readers, held, publisher, conf,                             \* PathSide
    srv, closing, pc, ctx,                                      \* all servers
    conns, state,                                               \* all but HLS
    found,                                                      \* SRT, WebRTC, RTSP
    post, patch, candidates,                                    \* WebRTC
    sessions, lib, hasPath, hook, kicked, dead,                 \* RTSP
    always, online, event, entry, auto, used, req, target, bare  \* HLS

Kinds == {"rtmp", "srt", "webrtc", "rtsp", "hls"}
Everybody == UNION {Clients[k] : k \in Kinds}

ASSUME NoneAssumption == None \notin Everybody

RTMP == INSTANCE RTMPServer WITH
    Clients <- Clients["rtmp"], MayRead <- MayRead["rtmp"], MayPublish <- MayPublish["rtmp"]
SRT == INSTANCE SRTServer WITH
    Clients <- Clients["srt"], MayRead <- MayRead["srt"], MayPublish <- MayPublish["srt"]
WebRTC == INSTANCE WebRTCServer WITH
    Clients <- Clients["webrtc"], MayRead <- MayRead["webrtc"],
    MayPublish <- MayPublish["webrtc"]
RTSP == INSTANCE RTSPServer WITH
    Clients <- Clients["rtsp"], MayRead <- MayRead["rtsp"], MayPublish <- MayPublish["rtsp"]
HLS == INSTANCE HLSServer WITH Clients <- Clients["hls"]

webrtcVars == <<post, patch, candidates>>
rtspVars == <<sessions, lib, hasPath, hook, kicked, dead>>
hlsVars == <<always, online, event, entry, auto, used, req, target, bare>>
vars == <<kind, readers, held, publisher, conf, srv, closing, pc, ctx, conns, state, found,
          webrtcVars, rtspVars, hlsVars>>

(* What one server has and another does not is left alone.                 *)
IsRTMP == kind = "rtmp" /\ UNCHANGED <<kind, found, webrtcVars, rtspVars, hlsVars>>
IsSRT == kind = "srt" /\ UNCHANGED <<kind, webrtcVars, rtspVars, hlsVars>>
IsWebRTC == kind = "webrtc" /\ UNCHANGED <<kind, rtspVars, hlsVars>>
IsRTSP == kind = "rtsp" /\ UNCHANGED <<kind, state, webrtcVars, hlsVars>>
IsHLS == kind = "hls" /\ UNCHANGED <<kind, conns, state, found, webrtcVars, rtspVars>>

NoWebRTC == post = 0 /\ patch = 0 /\ candidates = 0
NoRTSP ==
    /\ sessions = 0 /\ lib = 0 /\ hasPath = 0 /\ hook = 0 /\ kicked = 0
    /\ dead = FALSE
NoHLS ==
    /\ always = 0 /\ online = 0 /\ event = 0 /\ entry = 0 /\ auto = 0 /\ used = 0
    /\ req = 0 /\ target = 0 /\ bare = 0

Init ==
    \/ kind = "rtmp" /\ RTMP!Init /\ found = 0 /\ NoWebRTC /\ NoRTSP /\ NoHLS
    \/ kind = "srt" /\ SRT!Init /\ NoWebRTC /\ NoRTSP /\ NoHLS
    \/ kind = "webrtc" /\ WebRTC!Init /\ NoRTSP /\ NoHLS
    \/ kind = "rtsp" /\ RTSP!Init /\ state = 0 /\ NoWebRTC /\ NoHLS
    \/ kind = "hls" /\ HLS!Init /\ conns = 0 /\ state = 0 /\ found = 0 /\ NoWebRTC /\ NoRTSP

Next ==
    \/ IsRTMP /\ RTMP!Next
    \/ IsSRT /\ SRT!Next
    \/ IsWebRTC /\ WebRTC!Next
    \/ IsRTSP /\ RTSP!Next
    \/ IsHLS /\ HLS!Next

-----------------------------------------------------------------------------
(* Fairness. A goroutine goes on as long as it can; requests to the path   *)
(* are answered, also those on hold (Path!SomebodyIsHeld).                 *)
Goes(c) ==
    /\ c \in Clients[kind]
    /\ \/ IsRTMP /\ RTMP!ConnRun(c)
       \/ IsSRT /\ SRT!ConnRun(c)
       \/ IsWebRTC /\ WebRTC!SessionRun(c)
       \/ IsRTSP /\ RTSP!Answered(c)
       \/ IsHLS /\ HLS!MuxerRun(c)

(* What waits for a socket is interrupted when the context is done; a      *)
(* select does not pass over a case for ever, that of the context in the   *)
(* muxer and in the library that has been told to close a session.         *)
IsInterrupted(c) ==
    /\ c \in Clients[kind] /\ ctx[c]
    /\ \/ IsRTMP /\ RTMP!Interrupted(c)
       \/ IsSRT /\ SRT!Interrupted(c)
       \/ IsWebRTC /\ WebRTC!Interrupted(c)
       \/ IsRTSP /\ RTSP!OnSessionClose(c)
       \/ IsHLS /\ HLS!Terminated(c)

(* Nor does it pass over a request, or the end of a connection.            *)
IsTaken(c) ==
    \/ IsWebRTC /\ c \in Clients[kind] /\ WebRTC!HTTPEnds(c)
    \/ IsRTSP /\ c \in Clients[kind] /\ srv = "ending" /\ RTSP!OnConnClose(c)
    \/ IsHLS /\ c \in Requests /\ HLS!HTTPEnds(c)

TakesCandidates(c) ==
    IsWebRTC /\ c \in Clients[kind] /\ (WebRTC!TakeCandidates(c) \/ WebRTC!CandidatesEnd(c))

TakesEvent == IsHLS /\ HLS!TakeEvent

(* Server.run ends, then Close returns.                                    *)
Ending ==
    \/ IsRTMP /\ (RTMP!SeeContextDone \/ RTMP!CloseReturns)
    \/ IsSRT /\ (SRT!SeeContextDone \/ SRT!CloseReturns) /\ UNCHANGED found
    \/ IsWebRTC /\ (WebRTC!SeeContextDone \/ WebRTC!CloseReturns) /\ WebRTC!Alone
    \/ IsRTSP /\ srv = "cancelled" /\ RTSP!Shutdown
    \/ IsRTSP /\ (RTSP!WaitReturns \/ RTSP!CloseReturns)
    \/ IsHLS /\ (HLS!SeeContextDone \/ HLS!CloseReturns)

Spec ==
    /\ Init /\ [][Next]_vars
    /\ \A c \in Everybody \cup Requests :
          /\ WF_vars(Goes(c)) /\ SF_vars(IsInterrupted(c)) /\ SF_vars(IsTaken(c))
          /\ WF_vars(TakesCandidates(c))
    /\ WF_vars(TakesEvent) /\ WF_vars(Ending)

-----------------------------------------------------------------------------
TypeOK ==
    /\ kind = "rtmp" => RTMP!TypeOK
    /\ kind = "srt" => SRT!TypeOK
    /\ kind = "webrtc" => WebRTC!TypeOK
    /\ kind = "rtsp" => RTSP!TypeOK
    /\ kind = "hls" => HLS!TypeOK

(* The path never counts anybody who has gone, and whoever reads or        *)
(* publishes is known to the path, unless it was told to end: the servers  *)
(* do their part of what the path takes for granted                        *)
(* (core/path.go:672-806).                                                 *)
NoGhosts ==
    /\ kind = "rtmp" => RTMP!NoGhosts
    /\ kind = "srt" => SRT!NoGhosts
    /\ kind = "webrtc" => WebRTC!NoGhosts
    /\ kind = "rtsp" => RTSP!NoGhosts
    /\ kind = "hls" => HLS!NoGhosts

(* The Control API and the metrics tell what is there, and what it does    *)
(* for the path, but for the steps between the path's answer and the       *)
(* client's own assignment.                                                *)
ListIsTrue ==
    /\ kind = "rtmp" => RTMP!ListIsTrue /\ RTMP!StateIsTrue
    /\ kind = "srt" => SRT!ListIsTrue /\ SRT!StateIsTrue
    /\ kind = "webrtc" => WebRTC!ListIsTrue /\ WebRTC!StateIsTrue
    /\ kind = "rtsp" => RTSP!ListIsTrue
    /\ kind = "hls" => HLS!ListIsTrue

(* Core closes the path manager after the servers: no server has left      *)
(* anybody in the path when its Close returns (core/core.go:1000-1023).    *)
ClosedIsEmpty ==
    /\ kind = "rtmp" => RTMP!ClosedIsEmpty
    /\ kind = "srt" => SRT!ClosedIsEmpty
    /\ kind = "webrtc" => WebRTC!ClosedIsEmpty
    /\ kind = "rtsp" => RTSP!ClosedIsEmpty
    /\ kind = "hls" => HLS!ClosedIsEmpty

(* A publisher enters the path with the configuration whose credentials it *)
(* was checked against, though it has spent any time since then.           *)
PublishersWereChecked ==
    [][\A c \in Clients[kind] :
          kind \in {"srt", "webrtc", "rtsp"} /\ publisher' = c /\ publisher # c
             => found[c] = conf]_vars

Exists(c) ==
    /\ c \in Clients[kind]
    /\ IF kind = "rtsp" THEN lib[c] # "none" ELSE pc[c] # "none"

IsEnding(c) == Exists(c) /\ ctx[c] /\ ~dead
IsClosing == closing /\ srv # "closed" /\ ~dead

Pending(c) ==
    \/ kind = "webrtc" /\ c \in Clients[kind] /\ WebRTC!Waiting(c)
    \/ kind = "hls" /\ c \in Requests /\ req[c] # "none"

(* Whoever was kicked, displaced, closed by the path or ended with its     *)
(* server is gone in the end, also out of a request on hold; Close         *)
(* returns, which happens once and so can share a formula; every HTTP      *)
(* request is answered but for the PATCHes that nobody takes.              *)
Ends ==
    /\ \A c \in Everybody : (IsEnding(c) \/ IsClosing) ~> ~(IsEnding(c) \/ IsClosing)
    /\ \A c \in Clients["webrtc"] \cup Requests : Pending(c) ~> ~Pending(c)

-----------------------------------------------------------------------------
(* The instance that TLC checks: two clients where one can displace,       *)
(* outlive or stand in for the other; in SRT and RTSP a publisher and a    *)
(* reader, in RTMP either does both, in HLS a muxer and the next. A WebRTC *)
(* client also has its POST and PATCH.                                     *)
Both == {c1, c2}
AllClients == [k \in Kinds |-> IF k = "webrtc" THEN {c1} ELSE Both]
Readers == [k \in Kinds |-> CASE k = "rtmp" -> Both [] k = "webrtc" -> {c1} [] OTHER -> {c2}]
Publishers == [k \in Kinds |-> IF k = "rtmp" THEN Both ELSE {c1}]
=============================================================================
