------------------------------- MODULE Media -------------------------------
(***************************************************************************)
(* What happens to the media behind a path: a recorder with the files it   *)
(* leaves and what is played back of them, a stream with its readers, and  *)
(* a forwarder. They share nothing but the stream, whose order and whose   *)
(* removal of readers the others take for granted; which one it is, is     *)
(* chosen in the beginning.                                                *)
(***************************************************************************)
EXTENDS Integers

CONSTANTS
    None,
    RecordConfs, PartDuration, SegmentDuration, MaxPartSize, mpegtsBufferSize, DeleteAfter,
    MaxSkew, MaxInstances, Starts, Durations, Zone, Minute,          \* Recording
    Readers, Tracks, WriteQueueSize, Formats, MaxUnits,              \* Stream
    Protocols, MaxStreams, MaxReconnects                             \* Forwarder

VARIABLES
    kind,                                                            \* which part
    conf, recorder, terminate, instance, told, f, time, ahead, odd, streams, heard,  \* Recording
    onDatas, written, writer, inside, readers, buffer, closed, run, unit, owner, joined,
    seen, discarded,                                                 \* Stream
    protocol, reconnect, path, closing, starting, stream, ctxDone, reader, connected,
    reconnects, goes, reading, dead                                  \* Forwarder

Rec == INSTANCE Recording WITH Confs <- RecordConfs
Str == INSTANCE Stream
Fwd == INSTANCE Forwarder

ASSUME StreamAssumption == Str!ConstantsAreRight

(* What is recorded of a unit of audio are its frames, one at least.       *)
ASSUME RecordAssumption == \A c \in RecordConfs : c.frames \in Nat \ {0}

ASSUME BoundsAssumption ==
    /\ MaxInstances \in Nat \ {0}
    /\ MaxStreams \in Nat /\ None \notin 1..MaxStreams
    /\ MaxReconnects \in Nat

recordVars == <<conf, recorder, terminate, instance, f, time, ahead, odd, heard>>
streamVars == <<onDatas, written, writer, inside, readers, buffer, closed, run, unit, owner,
                joined, seen, discarded>>
forwardVars == <<protocol, reconnect, path, closing, starting, stream, ctxDone, reader, connected,
                 reconnects, goes, reading, dead>>
vars == <<kind, recordVars, streamVars, forwardVars, told, streams>>

(* What one part has and another does not is left alone.                   *)
IsRecord == kind = "record" /\ UNCHANGED <<kind, streamVars, forwardVars>>
IsStream == kind = "stream" /\ UNCHANGED <<kind, recordVars, forwardVars, told, streams>>
IsForward == kind = "forward" /\ UNCHANGED <<kind, recordVars, streamVars>>

NoRecord ==
    /\ conf = 0 /\ recorder = 0 /\ terminate = 0 /\ instance = 0 /\ f = 0 /\ time = 0
    /\ ahead = 0 /\ odd = 0 /\ heard = 0
NoStream ==
    /\ written = 0 /\ writer = 0 /\ inside = 0 /\ readers = 0 /\ buffer = 0 /\ closed = 0
    /\ run = 0 /\ unit = 0 /\ owner = 0 /\ joined = 0 /\ seen = 0 /\ discarded = 0 /\ onDatas = 0
NoForward ==
    /\ protocol = 0 /\ reconnect = 0 /\ path = 0 /\ closing = 0 /\ starting = 0 /\ stream = 0
    /\ ctxDone = 0 /\ reader = 0 /\ connected = 0 /\ reconnects = 0 /\ goes = 0 /\ reading = 0
    /\ dead = 0

Init ==
    \/ kind = "record" /\ Rec!Init /\ NoStream /\ NoForward
    \/ kind = "stream" /\ Str!Init /\ NoRecord /\ NoForward /\ told = 0 /\ streams = 0
    \/ kind = "forward" /\ Fwd!Init /\ NoRecord /\ NoStream

Next ==
    \/ IsRecord /\ Rec!Next
    \/ IsStream /\ Str!Next
    \/ IsForward /\ Fwd!Next

-----------------------------------------------------------------------------
(* Fairness. A goroutine goes on as long as it can: that of a recorder, of *)
(* a reader, of WriteUnit, of a forwarder and of the path in Manager.Stop. *)
(* Callbacks return: whatever they write to has a timeout. The cleaner has *)
(* a timer.                                                                *)
RecorderGoes == IsRecord /\ (Rec!InstanceEnds \/ Rec!InstanceDone \/ Rec!Terminated)
Cleans == IsRecord /\ Rec!Clean

ReaderGoes(r) == IsStream /\ (Str!Pull(r) \/ Str!CallbackReturns(r)) /\ UNCHANGED onDatas
Leaves(r) == IsStream /\ (Str!RemoveReader(r) \/ Str!RemoveReturns(r)) /\ UNCHANGED onDatas
Writes(t) == IsStream /\ (Str!WriteReturns(t) \/ \E r \in Readers : Str!Push(t, r))
             /\ UNCHANGED onDatas

ForwarderGoes(s) ==
    /\ IsForward
    /\ \/ Fwd!Top(s) \/ Fwd!DialSucceeds(s) \/ Fwd!AddReader(s) \/ Fwd!ShowConnected(s)
       \/ Fwd!DialFails(s) \/ Fwd!FromStreamFails(s) \/ Fwd!ContextDone(s)
       \/ Fwd!RunInnerReturns(s) \/ Fwd!Failed(s) \/ Fwd!SleepEnds(s)
Stops == IsForward /\ (Fwd!WaitReturns \/ Fwd!StopReturns)

Fairness ==
    /\ WF_vars(RecorderGoes) /\ WF_vars(Cleans)
    /\ \A r \in Readers : WF_vars(ReaderGoes(r)) /\ WF_vars(Leaves(r))
    /\ \A t \in Tracks : WF_vars(Writes(t))
    /\ \A s \in 1..MaxStreams : WF_vars(ForwarderGoes(s))
    /\ WF_vars(Stops)

Spec == Init /\ [][Next]_vars /\ Fairness

-----------------------------------------------------------------------------
TypeOK ==
    /\ kind = "record" => Rec!TypeOK
    /\ kind = "stream" => Str!TypeOK
    /\ kind = "forward" => Fwd!TypeOK

(* What the recorder was given is in its files, but for the last part      *)
(* (mediamtx.yml:510), none of which overwrites another; and what the      *)
(* playback server sends and lists is what was recorded, in order and at   *)
(* its time, whatever went wrong in between (playback/on_get.go,           *)
(* playback/on_list.go over recorder/format_fmp4*.go).                     *)
PlayedAsRecorded ==
    kind = "record" => Rec!LossIsBounded /\ Rec!NamesAreNew /\ Rec!PlayedAsRecorded

(* The hooks tell of the files: the second one of a file follows its first *)
(* one at once, no file is without its first one and, when a recorder has  *)
(* ended, none without its second one, unless the disk failed              *)
(* (recorder/recorder_instance.go:60-140,                                  *)
(* recorder/format_fmp4_segment.go:84-134).                                *)
FilesAreComplete == kind = "record" => Rec!HooksFollowFiles

(* What the stream delivers is right: no unit is lost between the source   *)
(* and a reader but for those that are counted as discarded                *)
(* (stream/reader.go:108), no callback of a reader runs after RemoveReader *)
(* has returned, and what is forwarded is the current stream, or nothing   *)
(* and over no connection when the path closes it (forwarder/manager.go,   *)
(* runInner of forwarder/srt_forwarder.go and webrtc_forwarder.go).        *)
DeliveryIsRight ==
    /\ kind = "stream" => Str!UnitsArrive /\ Str!RemovedIsQuiet
    /\ kind = "forward" => Fwd!ForwardsCurrent

(* And it promises its readers what StreamPromise says: each of its steps  *)
(* is one of the promise, or none (stream/stream.go:150-215,               *)
(* stream/reader.go:60-130).                                               *)
KeepsPromise ==
    /\ kind = "stream" => Str!Promise!Init
    /\ [][kind = "stream" => Str!Promise!Next \/ UNCHANGED Str!Promise!vars]_vars

Pending ==
    \/ kind = "record" /\ (Rec!IsEnding \/ Rec!HasExpired)
    \/ kind = "stream" /\ \E r \in Readers : Str!IsLeaving(r)
    \/ kind = "forward" /\ Fwd!IsStopping

(* Recorder.Close, Stream.RemoveReader and Manager.Stop, all of which are  *)
(* called where the path can do nothing else, return; expired segments are *)
(* removed.                                                                *)
Ends == Pending ~> ~Pending
=============================================================================
