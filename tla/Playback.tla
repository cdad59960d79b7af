------------------------------ MODULE Playback ------------------------------
(***************************************************************************)
(* The playback server, over a disk as RecordFMP4 writes it. Get is what   *)
(* seekAndMux sends, with either muxer; List what onList answers. The      *)
(* order of the tracks in a part is that of a Go map, "order" here, which  *)
(* names all tracks. An answer is [status, ...]: "ok", "notfound",         *)
(* "error", or "panic", which ends the process.                            *)
(***************************************************************************)
EXTENDS RecordStore

partDuration == Second

(* The muxers. A track of theirs is [first, last, offset, samples]; out is *)
(* the parts that muxerFMP4 has sent.                                      *)
writeInit(tracks) ==
    [tracks |-> [t \in tracks |-> [first |-> -1, last |-> 0, offset |-> 0, samples |-> <<>>]],
     cur |-> None, out |-> <<>>, err |-> FALSE]

Lasting(samples, dur) ==
    [samples EXCEPT ![Len(samples)].dur = AtLeast(dur, 0)]
Muxed(s) == [id |-> s.id, sync |-> s.sync, dur |-> 0]

(* muxerFMP4.innerFlush: the last sample of a track is kept, unless it is  *)
(* the final flush, because its duration is not known.                     *)
innerFlush(m, final) ==
    LET ready == {t \in DOMAIN m.tracks :
                    /\ m.tracks[t].first >= 0
                    /\ Len(m.tracks[t].samples) > IF final THEN 0 ELSE 1}
        part == [t \in ready |->
                    [base |-> m.tracks[t].first,
                     samples |-> IF final THEN m.tracks[t].samples ELSE Front(m.tracks[t].samples)]]
        Kept(track) == [track EXCEPT !.samples = <<Last(track.samples)>>, !.first = track.last]
    IN IF ready = {}
       THEN [m EXCEPT !.err = m.out = <<>>]
       ELSE [m EXCEPT
                !.out = Append(@, part),
                !.tracks = [t \in DOMAIN @ |->
                                IF t \in ready /\ ~final THEN Kept(@[t]) ELSE @[t]]]

(* muxerFMP4.writeSample: what is before the start is sent with no         *)
(* duration, from the last random access point on.                         *)
Seen(track, s, dts) ==
    LET kept == CASE track.first < 0 /\ s.sync -> <<>>
                  [] track.first < 0 -> track.samples
                  [] OTHER -> Lasting(track.samples, dts - track.last)
    IN [track EXCEPT
            !.first = IF @ < 0 THEN dts ELSE @,
            !.samples = Append(kept, Muxed(s)),
            !.last = dts]

writeSampleFMP4(m, s, dts) ==
    LET track == m.tracks[m.cur]
        preroll == Append(IF s.sync THEN <<>> ELSE track.samples, Muxed(s))
        new == IF dts >= 0 THEN Seen(track, s, dts) ELSE [track EXCEPT !.samples = preroll]
        g == [m EXCEPT !.tracks[m.cur] = new]
    IN IF dts >= 0 /\ new.last - new.first >= durationGoToMp4(partDuration, ClockRate(m.cur))
       THEN innerFlush(g, FALSE)
       ELSE g

writeFinalDTSFMP4(m, dts) ==
    LET track == m.tracks[m.cur] IN
    IF track.samples # <<>> /\ track.first >= 0
    THEN [m EXCEPT !.tracks[m.cur].samples = Lasting(@, dts - track.last)]
    ELSE m

(* muxerMP4: everything from the last random access point before the       *)
(* start.                                                                  *)
writeSampleMP4(m, s, dts) ==
    LET track == m.tracks[m.cur]
        kept == IF (dts < 0 \/ track.last < 0) /\ s.sync THEN <<>> ELSE track.samples
    IN [m EXCEPT !.tracks[m.cur] =
            [@ EXCEPT
                !.offset = IF kept = <<>> THEN dts ELSE @,
                !.samples = Append(IF kept = <<>> THEN kept ELSE Lasting(kept, dts - track.last),
                                   Muxed(s)),
                !.last = dts]]

writeFinalDTSMP4(m, dts) ==
    IF m.tracks[m.cur].samples # <<>>
    THEN [m EXCEPT !.tracks[m.cur].samples = Lasting(@, dts - m.tracks[m.cur].last)]
    ELSE m

(* flush asks only the track that came last whether there is something to  *)
(* send.                                                                   *)
flushMP4(m) ==
    IF m.tracks[m.cur].samples = <<>> \/ m.tracks[m.cur].last < 0
    THEN [m EXCEPT !.err = TRUE]
    ELSE m

writeSample(mp4, m, s, dts) ==
    IF mp4 THEN writeSampleMP4(m, s, dts) ELSE writeSampleFMP4(m, s, dts)
writeFinalDTS(mp4, m, dts) ==
    IF mp4 THEN writeFinalDTSMP4(m, dts) ELSE writeFinalDTSFMP4(m, dts)

(* segmentFMP4MuxParts: the samples of each track until the end, which is  *)
(* looked at again when a part has been read. r is [m, duration, stop].    *)
MuxTrack(mp4, r, part, t, startDTS, duration) ==
    LET start == durationGoToMp4(startDTS, ClockRate(t))
        end == durationGoToMp4(duration, ClockRate(t))
        Step(x, s) ==
            IF x.stop \/ x.dts >= end
            THEN [x EXCEPT !.stop = TRUE]
            ELSE [m |-> writeSample(mp4, x.m, s, x.dts), dts |-> x.dts + s.dur, stop |-> FALSE]
        x == FoldLeft(Step,
                      [m |-> [r.m EXCEPT !.cur = t], dts |-> part[t].base + start, stop |-> FALSE],
                      part[t].samples)
        elapsed == durationMp4ToGo(x.dts - start, ClockRate(t))
    IN [m |-> writeFinalDTS(mp4, x.m, x.dts),
        duration |-> AtLeast(elapsed, r.duration),
        stop |-> r.stop \/ x.stop]

segmentFMP4MuxParts(mp4, m, file, order, startDTS, duration) ==
    LET Moof(r, part) ==
            LET Traf(x, t) == IF t \in DOMAIN part
                              THEN MuxTrack(mp4, x, part, t, startDTS, duration)
                              ELSE x
            IN IF r.stop THEN r ELSE FoldLeft(Traf, r, order)
    IN FoldLeft(Moof, [m |-> m, duration |-> 0, stop |-> FALSE], file.parts)

\* The header may be missing, or say nothing of the duration.
segmentFMP4ReadHeader(file) == [err |-> ~file.header, duration |-> file.duration]

(* Segments of one recording follow each other. All that this server       *)
(* writes have the box with their stream and number.                       *)
segmentFMP4CanBeConcatenated(prev, cur) ==
    prev.stream = cur.stream /\ prev.number + 1 = cur.number

Answer(m, mp4) ==
    LET Sent(g) == IF g.err THEN [status |-> "notfound"] ELSE [status |-> "ok", m |-> g] IN
    CASE m.err -> [status |-> "error"]
      [] mp4 /\ m.cur = None -> [status |-> "panic"]
      [] OTHER -> Sent(IF mp4 THEN flushMP4(m) ELSE innerFlush(m, TRUE))

(* seekAndMux: one segment after the other, until one does not follow.     *)
seekAndMux(disk, segments, start, duration, mp4, order) ==
    LET first == disk[segments[1]]
        offset == Decode(segments[1]) - start
        Segment(x, name) ==
            LET file == disk[name]
                dts == (file.dts - first.dts) + offset
                r == segmentFMP4MuxParts(mp4, x.m, file, order, dts, duration)
            IN CASE x.done -> x
                 [] segmentFMP4ReadHeader(file).err -> [x EXCEPT !.done = TRUE, !.m.err = TRUE]
                 [] x.prev # None /\ ~segmentFMP4CanBeConcatenated(x.prev, file) ->
                        [x EXCEPT !.done = TRUE]
                 [] OTHER -> [m |-> r.m, prev |-> file, done |-> FALSE]
        x == FoldLeft(Segment,
                      [m |-> writeInit(DOMAIN first.params), prev |-> None, done |-> FALSE],
                      segments)
    IN Answer(x.m, mp4)

onGet(disk, start, duration, mp4, order) ==
    LET segments == FindSegments(disk, start, start + duration) IN
    IF segments = <<>> THEN [status |-> "notfound"]
    ELSE seekAndMux(disk, segments, start, duration, mp4, order)

(* The duration of a segment: what its header says, or, when it has not    *)
(* been closed, where the tracks of its last part end.                     *)
segmentFMP4ReadDurationFromParts(file) ==
    LET part == Last(file.parts)
        Elapsed(t) == durationMp4ToGo(
            FoldLeft(LAMBDA n, s : n + s.dur, part[t].base, part[t].samples), ClockRate(t))
    IN CHOOSE d \in {AtLeast(0, Elapsed(t)) : t \in DOMAIN part} :
            \A t \in DOMAIN part : Elapsed(t) <= d

parseSegment(file, name) ==
    [start |-> Decode(name), file |-> file,
     duration |-> IF segmentFMP4ReadHeader(file).duration # 0
                  THEN segmentFMP4ReadHeader(file).duration
                  ELSE segmentFMP4ReadDurationFromParts(file)]

concatenateSegments(parsed) ==
    LET Join(x, seg) ==
            IF x.out # <<>> /\ segmentFMP4CanBeConcatenated(x.prev, seg.file)
            THEN [prev |-> seg.file,
                  out |-> [x.out EXCEPT ![Len(x.out)].duration =
                                (seg.start + seg.duration) - x.out[Len(x.out)].start]]
            ELSE [prev |-> seg.file,
                  out |-> Append(x.out, [start |-> seg.start, duration |-> seg.duration])]
    IN FoldLeft(Join, [prev |-> None, out |-> <<>>], parsed).out

(* The list between start and end, either None: what is before the start   *)
(* is cut off, and the first entry is dropped when it ends there.          *)
AfterStart(entries, start) ==
    LET first == entries[1] IN
    CASE start = None \/ first.start >= start -> entries
      [] first.start + first.duration < start -> Tail(entries)
      [] OTHER -> [entries EXCEPT ![1] =
                    [start |-> start, duration |-> @.duration - (start - @.start)]]
BeforeEnd(entries, end) ==
    LET last == Len(entries) IN
    IF end # None /\ entries[last].start + entries[last].duration > end
    THEN [entries EXCEPT ![last].duration = end - entries[last].start]
    ELSE entries

Listed(entries, end) ==
    IF entries = <<>> THEN [status |-> "notfound"]
    ELSE [status |-> "ok", entries |-> BeforeEnd(entries, end)]

onList(disk, start, end) ==
    LET segments == FindSegments(disk, start, end)
        unreadable == \E i \in DOMAIN segments :
                        LET file == disk[segments[i]] IN
                        \/ segmentFMP4ReadHeader(file).err
                        \/ file.duration = 0 /\ file.parts = <<>>
        parsed == [i \in DOMAIN segments |-> parseSegment(disk[segments[i]], segments[i])]
    IN CASE segments = <<>> -> [status |-> "notfound"]
         [] unreadable -> [status |-> "error"]
         [] OTHER -> Listed(AfterStart(concatenateSegments(parsed), start), end)
=============================================================================
