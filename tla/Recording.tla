------------------------------ MODULE Recording ------------------------------
(***************************************************************************)
(* A recorder, the disk it writes to, the cleaner that removes from it and *)
(* the playback server that reads it. The recorder lives as long as the    *)
(* path wants (Close), has one instance at a time, which is a reader of    *)
(* the stream, and starts another one some time after an error. The        *)
(* process may crash at any time and come back, and an operation of the    *)
(* file system may fail.                                                   *)
(*                                                                         *)
(* Bounds: conf.horizon for the time of the units, one oddity in a         *)
(* behaviour (an operation that fails, a unit that is empty, bad or        *)
(* reordered, a step of the clock, a crash), MaxInstances. Time never goes *)
(* back, so that no two segments have the same name.                       *)
(***************************************************************************)
EXTENDS RecordStore

CONSTANTS
    Confs,               \* [format, codecs (of each track), gop, frames (in a unit of audio), horizon]
    PartDuration, SegmentDuration, MaxPartSize, mpegtsBufferSize,  \* configuration
    DeleteAfter,         \* recordDeleteAfter
    MaxSkew, MaxInstances,
    Starts, Durations    \* requests to the playback server

VARIABLES
    conf,        \* what is recorded, a member of Confs
    recorder,    \* Recorder.run: "watch", "pause", "closing", "closed", "crashed"
    terminate,   \* Recorder.Close was called
    instance,    \* recorderInstance.run: "reading", "failed", "skip", "done"
    told,        \* recorderInstance.close was called
    f,           \* the format of the instance, and the disk
    time,        \* of the next unit of each track
    ahead,       \* how far the clock of the host has stepped
    odd,         \* the oddity that has happened, if any
    streams,     \* number of instances so far
    heard        \* the good units that this instance was given: [track, id, at, ra]

recVars == <<conf, recorder, terminate, instance, told, f, time, ahead, odd, streams,
             heard>>

FMP4 == INSTANCE RecordFMP4
TS == INSTANCE RecordMPEGTS
Player == INSTANCE Playback

Codecs == conf.codecs
TracksHeard == DOMAIN Codecs
IsFMP4 == conf.format = "fmp4"
Supported(c) == {t \in DOMAIN c.codecs :
    c.codecs[t] \in IF c.format = "fmp4" THEN FMP4!FMP4Codecs ELSE TS!MPEGTSCodecs}

Format(c, stream, disk, hooks) ==
    LET codecs == [t \in Supported(c) |-> c.codecs[t]] IN
    IF c.format = "fmp4"
    THEN FMP4!initialize(codecs, stream, disk, hooks)
    ELSE TS!initialize(codecs, disk, hooks)

(* Recorder.Initialize: an instance with nothing to record waits to be     *)
(* closed.                                                                 *)
First(c) == IF Supported(c) = {} THEN "skip" ELSE "reading"

Init ==
    /\ conf \in Confs
    /\ recorder = "watch" /\ terminate = FALSE
    /\ instance = First(conf) /\ told = FALSE
    /\ f = Format(conf, 1, <<>>, <<>>)
    /\ time = [t \in TracksHeard |-> 0]
    /\ ahead = 0 /\ odd = "none" /\ streams = 1 /\ heard = {}

Now == ahead + CHOOSE x \in {time[t] : t \in TracksHeard} : \A t \in TracksHeard : time[t] <= x

(* A unit arrives at the callback of its track. Every gop-th frame of      *)
(* video is a random access point.                                         *)
Unit(t, kind, reorder) ==
    LET dts == durationGoToMp4(time[t], ClockRate(t)) IN
    [kind |-> kind, dts |-> dts, id |-> dts, pts |-> IF reorder THEN dts + 2 ELSE dts,
     ntp |-> time[t] + ahead,
     ra |-> t = AudioTrack \/ (dts + 1) % conf.gop = 0,
     frames |-> IF t = AudioTrack THEN conf.frames ELSE 1,
     params |-> IF time[t] < Second THEN 0 ELSE 1]

Record(t, u, broken) ==
    IF IsFMP4 THEN FMP4!OnData(f, t, u, broken) ELSE TS!OnData(f, t, u, broken)

UnitDuration(t) == IF t = VideoTrack THEN 3 ELSE 2 * conf.frames

Arrives(t) ==
    /\ instance = "reading" /\ recorder # "crashed"
    /\ t \in Supported(conf)
    /\ time[t] <= conf.horizon
    /\ \A r \in Supported(conf) : time[t] <= time[r] + MaxSkew

(* How a unit comes: as usual, or, once, strange, before one that gets     *)
(* lost, or when the file system does not work.                            *)
Reordered == {"H264", "H265", "MPEG4Video", "MPEG1Video"}
Usual == [odd |-> odd, kind |-> "good", reorder |-> FALSE, lost |-> FALSE, broken |-> {}]
Strange(t) ==
    LET strange == [Usual EXCEPT !.odd = "unit"] IN
    {[strange EXCEPT !.kind = "bad"], [strange EXCEPT !.kind = "nil"], [strange EXCEPT !.lost = TRUE]}
    \union (IF Codecs[t] \in Reordered THEN {[strange EXCEPT !.reorder = TRUE]} ELSE {})
    \union {[Usual EXCEPT !.odd = "fault", !.broken = {op}] :
                op \in {"create", "init", "part", "duration", "close"}}
Ways(t) == {Usual} \union (IF odd = "none" THEN Strange(t) ELSE {})

Deliver(t) ==
    /\ Arrives(t)
    /\ \E way \in Ways(t) :
        LET u == Unit(t, way.kind, way.reorder) IN
        /\ odd' = way.odd
        /\ f' = Record(t, u, way.broken)
        /\ heard' = IF u.kind = "good"
                    THEN heard \union {[track |-> t, id |-> u.id, at |-> time[t], ra |-> u.ra]}
                    ELSE heard
        /\ time' = [time EXCEPT ![t] = @ + UnitDuration(t)
                                         + (IF way.lost THEN UnitDuration(t) ELSE 0)]
    /\ instance' = IF f'.err THEN "failed" ELSE instance
    /\ UNCHANGED <<conf, recorder, terminate, told, ahead, streams>>

ClockSteps ==
    /\ odd = "none" /\ odd' = "clock"
    /\ ahead' = 6 * Second
    /\ UNCHANGED <<conf, recorder, terminate, instance, told, f, time, streams, heard>>

MustEnd_NotSkip ==
    \/ instance = "failed"
    \/ instance = "reading" /\ told

(* recorderInstance.run, after an error or when it was closed: the reader  *)
(* is removed from the stream and the segment closed.                      *)
MustEnd ==
    \/ instance = "failed"
    \/ instance \in {"reading", "skip"} /\ told
InstanceEnds ==
    /\ recorder # "crashed"
    /\ MustEnd
    /\ instance' = "done"
    /\ f' = IF instance = "skip" THEN f
            ELSE IF IsFMP4 THEN FMP4!close(f, {}) ELSE TS!close(f, {})
    /\ UNCHANGED <<conf, recorder, terminate, told, time, ahead, odd, streams, heard>>

(* Recorder.run                                                            *)
InstanceDone ==
    /\ recorder = "watch" /\ instance = "done"
    /\ recorder' = "pause"
    /\ UNCHANGED <<conf, terminate, instance, told, f, time, ahead, odd, streams, heard>>

Terminated ==
    /\ terminate
    /\ \/ /\ recorder = "watch"
          /\ told' = TRUE /\ recorder' = "closing"
       \/ /\ recorder = "closing" /\ instance = "done"
          /\ recorder' = "closed" /\ UNCHANGED told
       \/ /\ recorder = "pause"
          /\ recorder' = "closed" /\ UNCHANGED told
    /\ UNCHANGED <<conf, terminate, instance, f, time, ahead, odd, streams, heard>>

NewInstance ==
    /\ streams < MaxInstances
    /\ streams' = streams + 1 /\ heard' = {}
    /\ instance' = First(conf) /\ told' = FALSE
    /\ f' = Format(conf, streams', f.disk, f.hooks)
    /\ recorder' = "watch"
    /\ UNCHANGED <<conf, terminate, ahead>>

RestartPauseEnds ==
    /\ recorder = "pause"
    /\ NewInstance
    /\ time' = [t \in TracksHeard |-> time[t] + 2 * Second]
    /\ UNCHANGED odd

Close ==
    /\ recorder \in {"watch", "pause"} /\ ~terminate
    /\ terminate' = TRUE
    /\ UNCHANGED <<conf, recorder, instance, told, f, time, ahead, odd, streams, heard>>

(* The process ends without closing anything, maybe in the middle of a     *)
(* callback: what is on the disk then is what an operation that failed     *)
(* leaves.                                                                 *)
Crash ==
    /\ recorder \notin {"closed", "crashed"}
    /\ odd = "none" /\ odd' = "crash"
    /\ recorder' = "crashed"
    /\ \/ UNCHANGED f
       \/ \E t \in Supported(conf), after \in {{"init"}, {"part", "duration", "close"}, {"duration", "close"}} :
            /\ Arrives(t)
            /\ f' = Record(t, Unit(t, "good", FALSE), after)
            /\ f'.err
    /\ UNCHANGED <<conf, terminate, instance, told, time, ahead, streams, heard>>

Reboot ==
    /\ recorder = "crashed" /\ ~terminate
    /\ NewInstance
    /\ time' = [t \in TracksHeard |-> time[t] + 2 * Second]
    /\ UNCHANGED odd

(* Cleaner.doRun for the path                                              *)
Expired == ToSet(FindSegments(f.disk, None, Now - DeleteAfter))
Clean ==
    /\ recorder # "crashed"
    /\ Expired # {}
    /\ f' = [f EXCEPT !.disk = [n \in DOMAIN @ \ Expired |-> @[n]]]
    /\ UNCHANGED <<conf, recorder, terminate, instance, told, time, ahead, odd, streams, heard>>

Next ==
    \/ \E t \in TrackNames : Deliver(t)
    \/ ClockSteps \/ InstanceEnds \/ InstanceDone \/ Terminated \/ RestartPauseEnds
    \/ Close \/ Crash \/ Reboot \/ Clean

TypeOK ==
    /\ recorder \in {"watch", "pause", "closing", "closed", "crashed"}
    /\ instance \in {"reading", "failed", "skip", "done"}
    /\ {terminate, told} \subseteq BOOLEAN
    /\ odd \in {"none", "unit", "fault", "clock", "crash"}
    /\ streams \in 1..MaxInstances

(* What a request finds: the segments from the first one that it asks for, *)
(* as long as they are parts of one recording.                             *)
Follows(a, b) == a.header /\ b.header /\ a.stream = b.stream /\ b.number = a.number + 1
OneRecording(segments) ==
    LET n == CHOOSE n \in 1..Len(segments) :
                /\ \A i \in 2..n : Follows(f.disk[segments[i - 1]], f.disk[segments[i]])
                /\ n < Len(segments) => ~Follows(f.disk[segments[n]], f.disk[segments[n + 1]])
    IN SubSeq(segments, 1, n)

Stored(segments, t) ==
    LET OfPart(part) == IF t \in DOMAIN part THEN part[t].samples ELSE <<>>
        OfFile(name) == FlattenSeq([i \in DOMAIN f.disk[name].parts |-> OfPart(f.disk[name].parts[i])])
    IN FlattenSeq([i \in DOMAIN segments |-> OfFile(segments[i])])

Timed(base, samples) ==
    [k \in DOMAIN samples |->
        [id |-> samples[k].id, sync |-> samples[k].sync,
         dts |-> FoldLeft(LAMBDA n, i : n + samples[i].dur, base, [i \in 1..(k - 1) |-> i])]]
Sent(m, mp4, t) ==
    IF mp4
    THEN Timed(m.tracks[t].offset, m.tracks[t].samples)
    ELSE FlattenSeq([i \in DOMAIN m.out |->
            IF t \in DOMAIN m.out[i]
            THEN Timed(m.out[i][t].base, m.out[i][t].samples) ELSE <<>>])

Interleaving == MaxSkew + UnitDuration(VideoTrack) + UnitDuration(AudioTrack)

(* A unit may be later than the first of its part by one part, and then by *)
(* the sample that is held back to know its duration and by the skew of    *)
(* the other track.                                                        *)
Slack == 4

Ids(samples) == {samples[k].id : k \in DOMAIN samples}

(* Time(s) is when a sample is to be seen.                                 *)
PlayedTrack(t, sent, stored, Time(_), duration) ==
    LET first == IF sent = <<>> THEN None ELSE sent[1] IN
    /\ Ids(sent) \subseteq Ids(stored)
    /\ \A k \in DOMAIN sent : k > 1 => sent[k - 1].id < sent[k].id
    /\ sent = <<>> \/ sent[1].sync \/ sent[1].id = stored[1].id
    /\ \A k \in DOMAIN stored :
        /\ AtLeast(Time(stored[k]), 0) < duration - Interleaving
        /\ Time(stored[k]) >= 0 \/ (sent # <<>> /\ sent[1].id < stored[k].id)
        => stored[k].id \in Ids(sent)
    /\ \A k \in DOMAIN sent :
        Time(sent[k]) >= 0 =>
            LET late == timestampToDuration(sent[k].dts, ClockRate(t)) - Time(sent[k]) IN
            (late * ClockRate(t)) \in (1 - 2 * Second)..(2 * Second - 1)

(* The timestamps of MPEG-1 audio are not those of the stream: see         *)
(* RecordCodecs.                                                           *)
Kept == {t \in Supported(conf) : Codecs[t] # "MPEG1Audio"}

Offset(run, start, s, t) ==
    timestampToDuration(s.id, ClockRate(t)) - f.disk[run[1]].dts + Decode(run[1]) - start

PlayedWell(start, duration, mp4) ==
    LET segments == FindSegments(f.disk, start, start + duration)
        answer == Player!onGet(f.disk, start, duration, mp4, <<VideoTrack, AudioTrack>>)
        run == OneRecording(segments)
    IN answer.status = "ok" =>
        \A t \in Kept :
            LET sent == Sent(answer.m, mp4, t)
                stored == Stored(run, t)
            IN PlayedTrack(t, sent, stored, LAMBDA s : Offset(run, start, s, t), duration)

(* The list names disjoint spans of time, in order, which hold all that a  *)
(* file has in parts: the duration of a file that was not closed is found  *)
(* in its last part alone, and may leave out a track that has nothing in   *)
(* it.                                                                     *)
Within(entries, at, file) ==
    LET unsure == IF file.duration = 0 THEN Interleaving ELSE 0 IN
    \E i \in DOMAIN entries :
        at \in entries[i].start..(entries[i].start + entries[i].duration + unsure)
ListedWell(start) ==
    LET answer == Player!onList(f.disk, start, None) IN
    answer.status = "ok" =>
        /\ \A i \in 2..Len(answer.entries) :
            answer.entries[i - 1].start + answer.entries[i - 1].duration
                <= answer.entries[i].start + Interleaving
        /\ \A n \in DOMAIN f.disk, t \in Kept :
            LET stored == Stored(<<n>>, t) IN
            \A k \in DOMAIN stored :
                LET at == Offset(<<n>>, 0, stored[k], t) IN
                at >= (IF start = None THEN 0 ELSE start) /\ at >= Decode(n)
                    => Within(answer.entries, at, f.disk[n])

(* Playback, over whatever the recorder has left, also when it crashed.    *)
PlayedAsRecorded ==
    recorder \in {"closed", "crashed"} /\ IsFMP4 /\ f.disk # <<>> =>
    /\ \A start \in Starts, duration \in Durations, mp4 \in BOOLEAN :
            PlayedWell(start, duration, mp4)
    /\ \A start \in Starts \union {None} : ListedWell(start)

(* mediamtx.yml:510, "the part duration is equal to the RPO (recovery      *)
(* point objective)": a unit that was recorded some time ago is in a file. *)
Saved(t) ==
    IF IsFMP4
    THEN UNION {Ids(Stored(<<n>>, t)) : n \in DOMAIN f.disk}
    ELSE {id \in {u.id : u \in heard} : \E n \in DOMAIN f.disk : Contains(f.disk[n], <<t, id>>)}

(* The recording begins with a random access point, and where its first    *)
(* segment does.                                                           *)
Begin ==
    IF f.seg.number = 0 THEN f.seg.startDTS
    ELSE f.disk[CHOOSE n \in DOMAIN f.disk :
                f.disk[n].stream = streams /\ f.disk[n].number = 0].dts
Recorded(u) ==
    /\ u.track \in Supported(conf)
    /\ \E v \in heard : v.track = u.track /\ v.ra /\ v.id <= u.id
    /\ IsFMP4 => u.at >= Begin

LossIsBounded ==
    instance = "reading" /\ ~f.err /\ f.seg # NoSegment /\ odd # "clock" =>
    \A u, v \in heard :
        u.track = v.track /\ v.at - u.at >= PartDuration + Slack /\ Recorded(u)
        => u.id \in Saved(u.track)

(* A name is given to one segment, whose file the next does not overwrite; *)
(* after an error of the disk the same segment may be tried again.         *)
Calls(hook, n) == SelectSeq(f.hooks, LAMBDA h : h.hook = hook /\ h.name = n)
NamesAreNew ==
    \A i \in DOMAIN f.hooks :
        /\ odd # "fault" => Len(Calls("create", f.hooks[i].name)) = 1
        /\ Len(Calls("complete", f.hooks[i].name)) <= 1

(* A file is complete after it was made and before another one is made;    *)
(* when an instance has ended without an error of the disk, or a crash,    *)
(* every file that was made is complete. Nothing is on the disk that the   *)
(* hooks did not tell of, and a file is named in the time zone of the      *)
(* server.                                                                 *)
Completes(i, j) ==
    j = i + 1 /\ f.hooks[i].hook = "create" /\ f.hooks[j].hook = "complete"
              /\ f.hooks[i].name = f.hooks[j].name
HooksFollowFiles ==
    /\ \A j \in DOMAIN f.hooks :
        f.hooks[j].hook = "complete" => \E i \in DOMAIN f.hooks : Completes(i, j)
    /\ instance = "done" /\ odd \notin {"fault", "crash"} =>
        \A i \in DOMAIN f.hooks :
            f.hooks[i].hook = "create" => \E j \in DOMAIN f.hooks : Completes(i, j)
    /\ \A n \in DOMAIN f.disk :
        /\ n.zone = Zone
        /\ \E i \in DOMAIN f.hooks : f.hooks[i] = [hook |-> "create", name |-> n]

IsEnding == terminate /\ recorder \notin {"closed", "crashed"}
HasExpired == recorder # "crashed" /\ Expired # {}
=============================================================================
