---------------------------- MODULE RecordMPEGTS ----------------------------
(***************************************************************************)
(* The MPEG-TS format of the recorder: units are written at once, through  *)
(* a buffer, to the file of the current segment. The operators take and    *)
(* return                                                                  *)
(*   [codecs, tracks, hasVideo, seg, buf, stuck, disk, hooks, err]         *)
(* with buf the units that are not in the file, stuck the error that a     *)
(* bufio.Writer keeps; the rest is as in RecordFMP4.                       *)
(***************************************************************************)
EXTENDS RecordCodecs

CONSTANTS PartDuration, SegmentDuration, mpegtsBufferSize

ntpDriftTolerance == 5 * Second

NewTrack ==
    [started |-> FALSE, startDTS |-> 0, startNTP |-> 0, first |-> FALSE, lastPTS |-> 0,
     params |-> 0]

NewSegment(f, dts, ntp) ==
    [f EXCEPT !.seg = [startDTS |-> dts, startNTP |-> ntp, lastFlush |-> dts,
                       lastDTS |-> dts, fi |-> "none"]]

(* formatMPEGTSSegment.Write, and the buffer in front of it: the file is   *)
(* created by what is flushed first, and an error is for ever.             *)
Flush(f, broken) ==
    LET name == Encode(f.seg.startNTP)
        creates == f.seg.fi = "none"
        fails == \/ creates /\ "create" \in broken
                 \/ "part" \in broken
                 \/ f.seg.fi = "closed"
    IN IF f.stuck THEN [f EXCEPT !.err = TRUE]
       ELSE IF f.buf = <<>> THEN f
       ELSE IF creates /\ "create" \in broken THEN [f EXCEPT !.stuck = TRUE, !.err = TRUE]
       ELSE [f EXCEPT
                !.hooks = IF creates THEN Append(@, [hook |-> "create", name |-> name]) ELSE @,
                !.disk = ChangeFile(IF creates THEN Put(@, name, <<>>) ELSE @, name,
                                    LAMBDA file : IF fails THEN file ELSE file \o f.buf),
                !.seg.fi = IF creates THEN "open" ELSE @,
                !.buf = IF fails THEN @ ELSE <<>>,
                !.stuck = fails,
                !.err = fails]

SegmentClose(f, broken) ==
    LET g == Flush(f, broken)
        noClose == "close" \in broken \/ g.seg.fi = "closed"
    IN IF g.seg.fi = "none"
       THEN g
       ELSE [g EXCEPT
                !.hooks = IF noClose THEN @
                          ELSE Append(@, [hook |-> "complete", name |-> Encode(f.seg.startNTP)]),
                !.seg.fi = "closed",
                !.err = @ \/ noClose]

(* mpegts.Writer: when the buffer is full it is flushed first.             *)
WriteUnit(f, t, s, broken) ==
    LET g == IF Len(f.buf) >= mpegtsBufferSize THEN Flush(f, broken) ELSE f IN
    IF g.err \/ g.stuck THEN [g EXCEPT !.err = TRUE] ELSE [g EXCEPT !.buf = Append(@, <<t, s.id>>)]

Drifts(track, s, dts) ==
    LET drift == (s.ntp - track.startNTP) - (dts - track.startDTS) IN
    track.started /\ (drift < -ntpDriftTolerance \/ drift > ntpDriftTolerance)

MayEndSegment(f, t, s, dts) ==
    /\ ~f.hasVideo \/ IsVideo(f.codecs[t])
    /\ s.sync
    /\ dts - f.seg.startDTS >= SegmentDuration

SwitchSegment(f, s, dts, broken) ==
    LET g == SegmentClose([f EXCEPT !.seg.lastDTS = dts], broken) IN
    IF g.err THEN g ELSE NewSegment(g, dts, s.ntp)

(* formatMPEGTSTrack.write                                                 *)
TrackWrite(f0, t, s, broken) ==
    LET dts == timestampToDuration(s.dts, ClockRate(t))
        f1 == [f0 EXCEPT !.hasVideo = @ \/ IsVideo(f0.codecs[t])]
        f2 == IF f1.tracks[t].started THEN f1
              ELSE [f1 EXCEPT !.tracks[t] =
                        [@ EXCEPT !.started = TRUE, !.startDTS = dts, !.startNTP = s.ntp]]
        Part(g) == IF g.err THEN g ELSE [g EXCEPT !.seg.lastFlush = dts]
        Written(g) == IF g.err THEN g
                      ELSE WriteUnit([g EXCEPT !.seg.lastDTS = dts], t, s, broken)
    IN IF Drifts(f1.tracks[t], s, dts)
       THEN [f1 EXCEPT !.err = TRUE]
       ELSE Written(IF f2.seg = NoSegment THEN NewSegment(f2, dts, s.ntp)
                    ELSE IF MayEndSegment(f2, t, s, dts) THEN SwitchSegment(f2, s, dts, broken)
                    ELSE IF dts - f2.seg.lastFlush >= PartDuration THEN Part(Flush(f2, broken))
                    ELSE f2)

initialize(codecs, disk, hooks) ==
    [codecs |-> codecs, tracks |-> [t \in DOMAIN codecs |-> NewTrack], hasVideo |-> FALSE,
     seg |-> NoSegment, buf |-> <<>>, stuck |-> FALSE, disk |-> disk, hooks |-> hooks, err |-> FALSE]

OnData(f, t, u, broken) ==
    LET out == UnpackMPEGTS(f.codecs[t], f.tracks[t], u)
        g == [f EXCEPT !.tracks[t] = out.track]
    IN IF out.err THEN [g EXCEPT !.err = TRUE]
       ELSE IF out.samples = <<>> THEN g
       ELSE TrackWrite(g, t, Head(out.samples), broken)

close(f, broken) ==
    IF f.seg = NoSegment THEN f ELSE SegmentClose([f EXCEPT !.err = FALSE], broken)
=============================================================================
