----------------------------- MODULE RecordFMP4 -----------------------------
(***************************************************************************)
(* The fMP4 format of the recorder: samples of several tracks go to parts, *)
(* parts to segments, segments to files. An operator takes and returns     *)
(*   [codecs, stream, tracks, hasVideo, seg, number, disk, hooks, err]     *)
(* where tracks[t] is [next, started, startDTS, startNTP, first, lastPTS,  *)
(* params], disk maps the names of files to their content, and hooks lists *)
(* the calls of onSegmentCreate and onSegmentComplete. "broken" is the set *)
(* of operations of the file system that fail while the callback runs:     *)
(* "create", "init", "part", "duration", "close". What follows an error is *)
(* not done.                                                               *)
(***************************************************************************)
EXTENDS RecordCodecs

CONSTANTS PartDuration, SegmentDuration, MaxPartSize

maxBasetime == Second
ntpDriftTolerance == 5 * Second

NewTrack ==
    [next |-> None, started |-> FALSE, startDTS |-> 0, startNTP |-> 0,
     first |-> FALSE, lastPTS |-> 0, params |-> 0]

NewSegment(f, dts, ntp) ==
    [f EXCEPT
        !.seg = [startDTS |-> dts, startNTP |-> ntp, number |-> f.number,
                 fi |-> "none", part |-> None, endDTS |-> dts, nextPart |-> 0],
        !.number = @ + 1]

Duration(ts, t) == timestampToDuration(ts, ClockRate(t))
EndOf(t, s) == Duration(s.dts, t) + Duration(s.dur, t)

(* The parts. The base time of a track in a part is counted from the start *)
(* of the segment, in the clock of the track.                              *)
NewPart(seg, dts) ==
    [number |-> seg.nextPart, startDTS |-> dts, endDTS |-> 0, size |-> 0, tracks |-> <<>>]

BaseTime_Absolute(seg, t, s) == s.dts

BaseTime(seg, t, s) ==
    multiplyAndDivide(Duration(s.dts, t) - seg.startDTS, ClockRate(t), Second)

PartWrite(f, t, s) ==
    LET part == f.seg.part
        track == IF t \in DOMAIN part.tracks
                 THEN part.tracks[t]
                 ELSE [base |-> BaseTime(f.seg, t, s), samples |-> <<>>]
    IN IF part.size + 1 > MaxPartSize
       THEN [f EXCEPT !.err = TRUE]
       ELSE [f EXCEPT !.seg.part =
                [@ EXCEPT
                    !.size = @ + 1,
                    !.endDTS = AtLeast(EndOf(t, s), @),
                    !.tracks = Put(@, t, [track EXCEPT !.samples = Append(@, s)])]]

PartDur(part) == part.endDTS - part.startDTS

(* The file of a segment is created when its first part is complete. When  *)
(* its header cannot be written it is left behind, and not open.           *)
writeInit(f, written) ==
    [stream |-> f.stream, number |-> f.seg.number, dts |-> f.seg.startDTS,
     params |-> [t \in DOMAIN f.codecs |-> f.tracks[t].params],
     header |-> written, duration |-> 0, parts |-> <<>>]

CreateFile(f, broken) ==
    LET name == Encode(f.seg.startNTP)
        file == writeInit(f, "init" \notin broken)
    IN IF "create" \in broken
       THEN [f EXCEPT !.err = TRUE]
       ELSE [f EXCEPT
                !.disk = Put(@, name, file),
                !.hooks = Append(@, [hook |-> "create", name |-> name]),
                !.err = "init" \in broken,
                !.seg.fi = IF "init" \in broken THEN @ ELSE "open"]

WritePart(f, broken) ==
    IF f.err THEN f
    ELSE IF "part" \in broken \/ f.seg.fi = "closed" THEN [f EXCEPT !.err = TRUE]
    ELSE [f EXCEPT !.disk = ChangeFile(@, Encode(f.seg.startNTP), LAMBDA file :
            [file EXCEPT !.parts = Append(@, f.seg.part.tracks)])]

closeCurPart(f, broken) ==
    WritePart(IF f.seg.fi = "none" THEN CreateFile(f, broken) ELSE f, broken)

(* The header gets the duration, and the file is closed, when the last     *)
(* part could not be written too; the hook is called when it could be      *)
(* closed.                                                                 *)
writeDuration(disk, name, duration) ==
    ChangeFile(disk, name, LAMBDA file : [file EXCEPT !.duration = duration])

CloseFile(g, broken) ==
    LET name == Encode(g.seg.startNTP)
        duration == g.seg.endDTS - g.seg.startDTS
        noDuration == "duration" \in broken \/ g.seg.fi = "closed"
        noClose == "close" \in broken \/ g.seg.fi = "closed"
    IN IF g.seg.fi = "none"
       THEN g
       ELSE [g EXCEPT
                !.disk = IF noDuration THEN @ ELSE writeDuration(@, name, duration),
                !.hooks = IF noClose THEN @
                          ELSE Append(@, [hook |-> "complete", name |-> name]),
                !.seg.fi = "closed",
                !.err = @ \/ noDuration \/ noClose]

SegmentClose(f, broken) ==
    CloseFile(IF f.seg.part # None THEN closeCurPart(f, broken) ELSE f, broken)

(* A part that is long enough is closed before the next sample is written. *)
OpenPart(f, dts) ==
    IF f.err THEN f
    ELSE [f EXCEPT !.seg.part = NewPart(f.seg, dts), !.seg.nextPart = @ + 1]

SegmentWrite(f, t, s, broken) ==
    LET dts == Duration(s.dts, t)
        ended == [f EXCEPT !.seg.endDTS = AtLeast(EndOf(t, s), @)]
        Store(g) == IF g.err THEN g ELSE PartWrite(g, t, s)
    IN Store(IF f.seg.part = None THEN OpenPart(ended, dts)
             ELSE IF PartDur(f.seg.part) < PartDuration THEN ended
             ELSE OpenPart([closeCurPart(ended, broken) EXCEPT !.seg.part = None], dts))

(* The next segment starts from the oldest of the samples that are held    *)
(* back, but not far from the newest.                                      *)
nextSegmentStartingPos(tracks) ==
    LET held == {t \in DOMAIN tracks : tracks[t].next # None}
        DTS(t) == Duration(tracks[t].next.dts, t)
        newest == CHOOSE d \in {AtLeast(0, DTS(t)) : t \in held} : \A t \in held : d >= DTS(t)
        near == {t \in held : newest - DTS(t) <= maxBasetime}
        oldest == CHOOSE t \in near : \A r \in near :
                    DTS(t) < DTS(r) \/ (DTS(t) = DTS(r) /\ (t = AudioTrack \/ r = t))
    IN [dts |-> DTS(oldest), ntp |-> tracks[oldest].next.ntp]

MayEndSegment(f, t) ==
    LET next == f.tracks[t].next IN
    /\ ~f.hasVideo \/ IsVideo(f.codecs[t])
    /\ next.sync
    /\ Duration(next.dts, t) - f.seg.startDTS >= SegmentDuration

SwitchSegment(f, broken) ==
    LET start == nextSegmentStartingPos(f.tracks)
        Open(g) == IF g.err THEN g ELSE NewSegment(g, start.dts, start.ntp)
    IN Open(SegmentClose(f, broken))

(* Each track holds a sample back until the next one gives its duration;   *)
(* time that goes back is stopped.                                         *)
HoldBack(f, t, s) ==
    LET prev == f.tracks[t].next
        next == IF prev = None THEN s ELSE [s EXCEPT !.dts = AtLeast(@, prev.dts)]
    IN [f EXCEPT !.hasVideo = @ \/ IsVideo(f.codecs[t]), !.tracks[t].next = next]

Drifts(track, s, dts) ==
    LET drift == (s.ntp - track.startNTP) - (dts - track.startDTS) IN
    track.started /\ (drift < -ntpDriftTolerance \/ drift > ntpDriftTolerance)

(* formatFMP4Track.write. A sample from before the segment is discarded.   *)
TrackWrite(f0, t, next, broken) ==
    LET prev == f0.tracks[t].next
        f1 == HoldBack(f0, t, next)
        s == [prev EXCEPT !.dur = f1.tracks[t].next.dts - prev.dts]
        dts == Duration(s.dts, t)
        f2 == IF f1.tracks[t].started THEN f1
              ELSE [f1 EXCEPT !.tracks[t] =
                        [@ EXCEPT !.started = TRUE, !.startDTS = dts, !.startNTP = s.ntp]]
        f3 == IF f2.seg = NoSegment THEN NewSegment(f2, dts, s.ntp) ELSE f2
        Written(f4) == IF ~f4.err /\ MayEndSegment(f4, t) THEN SwitchSegment(f4, broken) ELSE f4
    IN IF prev = None THEN f1
       ELSE IF Drifts(f1.tracks[t], s, dts) THEN [f1 EXCEPT !.err = TRUE]
       ELSE IF dts < f3.seg.startDTS THEN f3
       ELSE Written(SegmentWrite(f3, t, s, broken))

(* The format of an instance: one for each stream it records.              *)
initialize(codecs, stream, disk, hooks) ==
    [codecs |-> codecs, stream |-> stream, tracks |-> [t \in DOMAIN codecs |-> NewTrack],
     hasVideo |-> FALSE, seg |-> NoSegment, number |-> 0, disk |-> disk, hooks |-> hooks,
     err |-> FALSE]

(* The samples of a unit are written one after the other, as long as there *)
(* is no error.                                                            *)
WriteAll(f, t, samples, broken) ==
    LET written[k \in 0..Len(samples)] ==
            IF k = 0 THEN f
            ELSE IF written[k - 1].err THEN written[k - 1]
                 ELSE TrackWrite(written[k - 1], t, samples[k], broken)
    IN written[Len(samples)]

OnData(f, t, u, broken) ==
    LET out == UnpackFMP4(f.codecs[t], f.tracks[t], u)
        g == WriteAll([f EXCEPT !.tracks[t] = out.track], t, out.samples, broken)
    IN [g EXCEPT !.err = @ \/ out.err]

close_AfterError(f, broken) == IF f.seg = NoSegment \/ f.err THEN f ELSE SegmentClose(f, broken)

close(f, broken) ==
    IF f.seg = NoSegment THEN f ELSE SegmentClose([f EXCEPT !.err = FALSE], broken)
=============================================================================
