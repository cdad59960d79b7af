---------------------------- MODULE WebRTCServer ----------------------------
(***************************************************************************)
(* The WebRTC server (servers/webrtc): an HTTP POST creates a session and  *)
(* waits for its answer; PATCH and DELETE find the session by the secret   *)
(* of that answer. A client is a peer with one session and one request at  *)
(* a time.                                                                 *)
(***************************************************************************)
EXTENDS ConnServer

VARIABLES
    found,      \* the configuration FindPathConf has given to a publisher
    post,       \* the POST: in session.new, waiting for req.res, or answered
    patch,      \* a PATCH: candidates or an offer that the session should take
    candidates  \* the goroutine readRemoteCandidates

httpVars == <<post, patch>>
vars == <<connServerVars, found, httpVars, candidates>>

Init ==
    /\ ServerInit
    /\ found = [c \in Clients |-> 0]
    /\ post = [c \in Clients |-> "none"]
    /\ patch = [c \in Clients |-> "none"]
    /\ candidates = [c \in Clients |-> "off"]

Alone == UNCHANGED <<found, httpVars, candidates>>

Over(c) == ctx[c] \/ At(c, "none")

-----------------------------------------------------------------------------
(* HTTP requests, up to where they wait for the session.                   *)

(* onWHIPPost, newSession, session.initialize.                             *)
Post(c) ==
    /\ Register(c, "new")
    /\ post[c] = "none" /\ patch[c] = "none" /\ candidates[c] = "off"
    /\ post' = [post EXCEPT ![c] = "opening"]
    /\ UNCHANGED <<found, patch, candidates>>

(* session.new: the context of the session is done first.                  *)
PostTerminated(c) ==
    /\ post[c] = "opening" /\ Over(c)
    /\ post' = [post EXCEPT ![c] = "none"]
    /\ UNCHANGED <<connServerVars, found, patch, candidates>>

(* Server.addSessionCandidates and renegotiateSession: the session is      *)
(* found by its secret, which only the answer to the POST tells.           *)
Patch(c, kind) ==
    /\ LoopRuns
    /\ c \in conns /\ post[c] = "answered"
    /\ patch[c] = "none"
    /\ patch' = [patch EXCEPT ![c] = kind]
    /\ UNCHANGED <<connServerVars, found, post, candidates>>

(* session.addCandidates, session.renegotiate: the context is done first.  *)
(* For an offer there is nothing else: the session looks at chRenegotiate  *)
(* once, before it answers the POST.                                       *)
PatchTerminated(c) ==
    /\ patch[c] # "none" /\ Over(c)
    /\ patch' = [patch EXCEPT ![c] = "none"]
    /\ UNCHANGED <<connServerVars, found, post, candidates>>

(* deleteSession.                                                          *)
Delete(c) ==
    /\ post[c] = "answered"
    /\ APIConnsKick(c)
    /\ Alone

-----------------------------------------------------------------------------
(* The session.                                                            *)

(* runInner: the POST is taken, or the session is closed before.           *)
TakeNew(c) ==
    /\ At(c, "new")
    /\ post[c] = "opening"
    /\ \/ c \in MayRead /\ Moves(c, "asking")
       \/ c \in MayPublish /\ Moves(c, "finding")
    /\ post' = [post EXCEPT ![c] = "waiting"]
    /\ UNCHANGED <<found, patch, candidates>>

GiveUpNew(c) ==
    /\ At(c, "new") /\ ctx[c]
    /\ Moves(c, "returned")
    /\ Alone

(* writeAnswer, and readRemoteCandidates is started.                       *)
WriteAnswer(c) ==
    /\ post' = [post EXCEPT ![c] = "answered"]
    /\ candidates' = [candidates EXCEPT ![c] = "ready"]
    /\ UNCHANGED <<found, patch>>

(* runPublish up to the start of the peer connection.                      *)
FindPathConf(c) ==
    /\ At(c, "finding")
    /\ \/ Moves(c, "negotiating") /\ found' = [found EXCEPT ![c] = conf]
       \/ Moves(c, "returned") /\ UNCHANGED found
    /\ UNCHANGED <<httpVars, candidates>>

(* runPublish: the offer is invalid, or is answered.                       *)
AnswerPublisher(c) ==
    /\ At(c, "negotiating")
    /\ \/ Moves(c, "connecting") /\ WriteAnswer(c)
       \/ Moves(c, "returned") /\ Alone

(* runPublish: WaitUntilConnected, then GatherIncomingTracks and ToStream, *)
(* each of which may fail or time out.                                     *)
ConnectPublisher(c) ==
    /\ At(c, "connecting")
    /\ \/ Goto(c, "gathering") /\ Show(c, "established")
       \/ Goto(c, "returned") /\ UNCHANGED state
    /\ UNCHANGED <<serverVars, conns, ctx, sideVars>>
    /\ Alone

GatherTracks(c) ==
    /\ At(c, "gathering")
    /\ Moves(c, "offering") \/ Moves(c, "returned")
    /\ Alone

(* runPublish: AddPublisher with the configuration to compare.             *)
AddPublisher(c) == AddPublisherIf(found[c] = conf, c) /\ Alone

(* runPublish: what has been shown since the peer was connected stays.     *)
StartReading(c) == At(c, "accepted") /\ Moves(c, "publishing") /\ Alone

(* runPublish: Failed or the context.                                      *)
PublishingEnds(c) == At(c, "publishing") /\ Moves(c, "unpublishing") /\ Alone

(* runRead: AddReader comes first.                                         *)
AddReader(c) == AddReaderTo(c) /\ Alone

(* runRead: tracks, peer connection or offer are no good, or it is         *)
(* answered.                                                               *)
AnswerReader(c) ==
    /\ At(c, "admitted")
    /\ \/ Moves(c, "answering") /\ WriteAnswer(c)
       \/ Moves(c, "leaving") /\ Alone

(* runRead: WaitUntilConnected, then the hook and the stream.              *)
ConnectReader(c) ==
    /\ At(c, "answering")
    /\ \/ Goto(c, "reading") /\ Show(c, "established")
       \/ Goto(c, "leaving") /\ UNCHANGED state
    /\ UNCHANGED <<serverVars, conns, ctx, sideVars>>
    /\ Alone

(* The select at the end of runRead: Failed, an error, the context.        *)
ReadingEnds(c) == At(c, "reading") /\ Moves(c, "leaving") /\ Alone

(* runInner: whatever has failed before the answer is told to the POST.    *)
RefusePost(c) ==
    /\ At(c, "returned")
    /\ post[c] = "waiting"
    /\ post' = [post EXCEPT ![c] = "none"]
    /\ UNCHANGED <<connServerVars, found, patch, candidates>>

(* The secret is worth nothing any more; a goroutine that is stuck is      *)
(* never heard of again.                                                   *)
Forget(c) ==
    /\ found' = [found EXCEPT ![c] = 0]
    /\ post' = [post EXCEPT ![c] = IF @ = "answered" THEN "none" ELSE @]
    /\ candidates' = [candidates EXCEPT ![c] = IF @ = "stuck" THEN "off" ELSE @]
    /\ UNCHANGED patch

SessionCloses_PostForgotten(c) == ConnCloses(c) /\ Forget(c)

(* run: not before runInner has got rid of its answer.                     *)
SessionCloses(c) ==
    /\ post[c] # "waiting"
    /\ ConnCloses(c)
    /\ Forget(c)

(* readRemoteCandidates: after an error the goroutine answers a second     *)
(* time, to nobody, and is stuck.                                          *)
TakeCandidates(c) ==
    /\ candidates[c] = "ready" /\ patch[c] = "candidates"
    /\ patch' = [patch EXCEPT ![c] = "none"]
    /\ candidates' \in {candidates, [candidates EXCEPT ![c] = "stuck"]}
    /\ UNCHANGED <<connServerVars, found, post>>

CandidatesEnd(c) ==
    /\ candidates[c] = "ready" /\ Over(c)
    /\ candidates' = [candidates EXCEPT ![c] = "off"]
    /\ UNCHANGED <<connServerVars, found, httpVars>>

-----------------------------------------------------------------------------
(* session.run.                                                            *)
SessionRun(c) ==
    \/ TakeNew(c) \/ GiveUpNew(c) \/ RefusePost(c) \/ SessionCloses(c)
    \/ FindPathConf(c) \/ AnswerPublisher(c) \/ AddPublisher(c)
    \/ StartReading(c) \/ AddReader(c) \/ AnswerReader(c)
    \/ (LeavePath(c) \/ Unpublish(c)) /\ Alone

(* The terminator closes the peer connection when the context is done.     *)
Interrupted(c) ==
    ConnectPublisher(c) \/ GatherTracks(c) \/ PublishingEnds(c)
        \/ ConnectReader(c) \/ ReadingEnds(c)

HTTPEnds(c) == PostTerminated(c) \/ PatchTerminated(c)

(* The other cases of Server.run, and what others do.                      *)
Around ==
    /\ \/ SeeContextDone \/ Close \/ CloseReturns
       \/ \E c \in Clients : APIConnsKick(c) \/ WaitOnHold(c)
       \/ PathEndsStream
       \/ ChangeConf /\ UNCHANGED <<serverVars, conns, connVars>>
    /\ Alone

Next ==
    \/ Around
    \/ \E c \in Clients :
          \/ Post(c) \/ Delete(c) \/ HTTPEnds(c)
          \/ \E kind \in {"candidates", "offer"} : Patch(c, kind)
          \/ SessionRun(c) \/ Interrupted(c)
          \/ TakeCandidates(c) \/ CandidatesEnd(c)

Spec == Init /\ [][Next]_vars

-----------------------------------------------------------------------------
(* The Control API and the metrics, which Server.run answers too.          *)
apiItem(c) == state[c]
APISessionsList == [c \in conns |-> apiItem(c)]

TypeOK ==
    /\ ServerTypeOK
    /\ pc \in [Clients -> {"none", "new", "asking", "held", "admitted", "answering",
                           "reading", "leaving", "finding", "negotiating", "connecting",
                           "gathering", "offering", "accepted", "publishing",
                           "unpublishing", "returned"}]
    /\ state \in [Clients -> {"idle", "established"}]
    /\ found \in [Clients -> 0 .. 2]
    /\ post \in [Clients -> {"none", "opening", "waiting", "answered"}]
    /\ patch \in [Clients -> {"none", "candidates", "offer"}]
    /\ candidates \in [Clients -> {"off", "ready", "stuck"}]

(* Whoever can be found by its secret has somebody who takes its           *)
(* candidates or is about to end, unless a candidate was bad; and a peer   *)
(* that publishes or reads was answered                                    *)
(* (servers/webrtc/session.go:402-428).                                    *)
StateIsTrue ==
    \A c \in Clients :
        /\ post[c] = "answered" /\ ~Over(c) => candidates[c] # "off"
        /\ c = publisher => post[c] = "answered"
        /\ c \in conns /\ (c = publisher \/ pc[c] = "reading")
              => APISessionsList[c] = "established"

(* Each POST gets one answer, however the session ends. A PATCH does, once *)
(* a session ends, or at once if it has candidates and none before was bad *)
(* (servers/webrtc/session.go:113-141, 402-428, 529-570).                  *)
Waiting(c) ==
    \/ post[c] \in {"opening", "waiting"}
    \/ patch[c] # "none" /\ ctx[c]
    \/ patch[c] = "candidates" /\ candidates[c] = "ready"
=============================================================================
