---------------------------- MODULE RecordCodecs ----------------------------
(***************************************************************************)
(* What the callbacks of the two recording formats make of a unit of a     *)
(* stream: the samples to write, what they remember in the track, or an    *)
(* error that ends the reader. A unit is [kind, ra, params, frames, pts,   *)
(* dts, ntp, id]: "nil" has no payload, "bad" is one its parser rejects    *)
(* (of several frames, the last), ra a random access point, which carries  *)
(* the parameters of the codec; dts is what the DTS extractor finds, and   *)
(* below pts when frames are reordered. A track is [first, lastPTS,        *)
(* params, ...].                                                           *)
(***************************************************************************)
EXTENDS RecordStore

FMP4Codecs == {"AV1", "VP9", "H265", "H264", "MPEG4Video", "MPEG1Video", "MJPEG", "Opus",
               "MPEG4Audio", "MPEG4AudioLATM", "MPEG1Audio", "AC3", "G711", "LPCM"}
MPEGTSCodecs == {"H265", "H264", "MPEG4Video", "MPEG1Video", "Opus", "KLV", "MPEG4Audio",
                 "MPEG4AudioLATM", "MPEG1Audio", "AC3"}
IsVideo(codec) ==
    codec \in {"AV1", "VP9", "H265", "H264", "MPEG4Video", "MPEG1Video", "MJPEG"}

\* Frames of audio follow each other by one unit of the clock of their track.
SamplesPerFrame == 1

Sample(u, i, dts, ntp, sync) ==
    [id |-> u.id + i, dts |-> dts, ntp |-> ntp, sync |-> sync, dur |-> 0]
One(u, dts, sync) == <<Sample(u, 0, dts, u.ntp, sync)>>

Fails(t) == [track |-> t, samples |-> <<>>, err |-> TRUE]
Writes(t, samples) == [track |-> t, samples |-> samples, err |-> FALSE]
Skips(t) == Writes(t, <<>>)

WithParams(t, u) == IF u.ra THEN [t EXCEPT !.params = u.params] ELSE t

(* AV1, VP9: nothing before the first random access point.                 *)
UnpackAV1(t0, u) ==
    LET t == WithParams(t0, u) IN
    CASE ~t.first /\ ~u.ra -> Skips(t)
      [] u.kind = "bad" -> Fails([t EXCEPT !.first = TRUE])
      [] OTHER -> Writes([t EXCEPT !.first = TRUE], One(u, u.pts, u.ra))

UnpackVP9(t, u) == IF u.kind = "bad" THEN Fails(t) ELSE UnpackAV1(t, u)

(* H264, H265: the same, and the extractor finds the DTS or fails.         *)
UnpackH26x(t0, u) ==
    LET t == WithParams(t0, u) IN
    CASE ~t.first /\ ~u.ra -> Skips(t)
      [] u.kind = "bad" -> Fails([t EXCEPT !.first = TRUE])
      [] OTHER -> Writes([t EXCEPT !.first = TRUE], One(u, u.dts, u.ra))

(* MPEG-1 and MPEG-4 video have no extractor: reordered frames are an      *)
(* error.                                                                  *)
UnpackMPEGVideo(t0, u) ==
    LET t == WithParams(t0, u) IN
    CASE ~t.first /\ ~u.ra -> Skips(t)
      [] t.first /\ u.pts < t.lastPTS -> Fails(t)
      [] OTHER -> Writes([t EXCEPT !.first = TRUE, !.lastPTS = u.pts], One(u, u.pts, u.ra))

(* Motion JPEG: every frame is a random access point; the first one has    *)
(* the size, and is the only one that is parsed.                           *)
UnpackMJPEG(t0, u) ==
    LET t == [t0 EXCEPT !.first = TRUE] IN
    CASE t0.first -> Writes(t, One(u, u.pts, TRUE))
      [] u.kind = "bad" -> Fails(t)
      [] OTHER -> Writes([t EXCEPT !.params = u.params], One(u, u.pts, TRUE))

(* Opus, MPEG-4 audio: a sample for each frame, apart by its duration.     *)
Frames(u, n, clockRate) ==
    [k \in 1..n |->
        LET later == (k - 1) * SamplesPerFrame IN
        Sample(u, k - 1, u.pts + later, u.ntp + timestampToDuration(later, clockRate), TRUE)]
UnpackFrames(t, u) == Writes(t, Frames(u, u.frames, ClockRate(AudioTrack)))

(* AC-3: each frame is parsed before it is written, the first one for the  *)
(* parameters; those before a bad one are written.                         *)
UnpackAC3(t0, u) ==
    LET good == IF u.kind = "bad" THEN u.frames - 1 ELSE u.frames
        t == IF t0.first \/ good = 0 THEN t0 ELSE [t0 EXCEPT !.first = TRUE, !.params = u.params]
    IN [track |-> t, samples |-> Frames(u, good, ClockRate(AudioTrack)), err |-> u.kind = "bad"]

(* MPEG-1 audio: the same, but every frame is given twice the timestamp of *)
(* the unit for its DTS: the time that has passed in the unit is computed  *)
(* and not used.                                                           *)
UnpackMPEG1Audio(t0, u) ==
    LET good == IF u.kind = "bad" THEN u.frames - 1 ELSE u.frames
        t == IF t0.first \/ good = 0 THEN t0 ELSE [t0 EXCEPT !.first = TRUE, !.params = u.params]
    IN [track |-> t,
        samples |-> [k \in 1..good |-> Sample(u, k - 1, u.pts + u.pts, u.ntp, TRUE)],
        err |-> u.kind = "bad"]

(* G711, LPCM: one sample. LATM is parsed, the others are copied.          *)
UnpackSingle(t, u) == Writes(t, One(u, u.pts, TRUE))
UnpackLATM(t, u) == IF u.kind = "bad" THEN Fails(t) ELSE UnpackSingle(t, u)

UnpackFMP4(codec, t, u) ==
    CASE u.kind = "nil" -> Skips(t)
      [] codec = "AV1" -> UnpackAV1(t, u)
      [] codec = "VP9" -> UnpackVP9(t, u)
      [] codec \in {"H264", "H265"} -> UnpackH26x(t, u)
      [] codec \in {"MPEG4Video", "MPEG1Video"} -> UnpackMPEGVideo(t, u)
      [] codec = "MJPEG" -> UnpackMJPEG(t, u)
      [] codec \in {"Opus", "MPEG4Audio"} -> UnpackFrames(t, u)
      [] codec = "AC3" -> UnpackAC3(t, u)
      [] codec = "MPEG1Audio" -> UnpackMPEG1Audio(t, u)
      [] codec = "MPEG4AudioLATM" -> UnpackLATM(t, u)
      [] OTHER -> UnpackSingle(t, u)

(* MPEG-TS: H264 and H265 as above; MPEG video does not wait for a random  *)
(* access point, and the frames of a unit of audio are written together.   *)
UnpackMPEGVideoTS(t, u) ==
    IF t.first /\ u.pts < t.lastPTS
    THEN Fails(t)
    ELSE Writes([t EXCEPT !.first = TRUE, !.lastPTS = u.pts], One(u, u.pts, u.ra))

UnpackAudioTS(codec, t, u) ==
    IF codec = "MPEG4AudioLATM" THEN UnpackLATM(t, u) ELSE UnpackSingle(t, u)

UnpackMPEGTS(codec, t, u) ==
    CASE u.kind = "nil" -> Skips(t)
      [] codec \in {"H264", "H265"} -> UnpackH26x(t, u)
      [] codec \in {"MPEG4Video", "MPEG1Video"} -> UnpackMPEGVideoTS(t, u)
      [] OTHER -> UnpackAudioTS(codec, t, u)
=============================================================================
