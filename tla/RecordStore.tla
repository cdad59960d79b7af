---------------------------- MODULE RecordStore ----------------------------
(***************************************************************************)
(* Where recordings are kept, and the time in them. Durations are counted  *)
(* in ticks, Second of them in a second; the timestamps of a track in the  *)
(* track's clock. The name of a file is the local time its segment starts  *)
(* at and, when recordPath has "%z", the offset of the time zone, which is *)
(* all of the path template that tells two segments of a path apart. Zone  *)
(* is [sign, h, m]; h and m are in units of the model's clock.             *)
(***************************************************************************)
EXTENDS Integers, Sequences, FiniteSets, SequencesExt, TLC

CONSTANTS None,
          Zone,        \* the time zone of the server
          Minute       \* ticks in a minute

-----------------------------------------------------------------------------
Second == 6
VideoTrack == "v"
AudioTrack == "a"
TrackNames == {VideoTrack, AudioTrack}

\* RTP clock rates; 3 ticks for a video frame, 2 for an audio frame.
ClockRate(t) == IF t = VideoTrack THEN 2 ELSE 3

(* The conversions between the two divide as Go does, toward zero, and     *)
(* lose what does not fit.                                                 *)
Quo(a, b) == IF a >= 0 THEN a \div b ELSE -((-a) \div b)
Rem(a, b) == a - b * Quo(a, b)

multiplyAndDivide(v, m, d) == Quo(v, d) * m + Quo(Rem(v, d) * m, d)

timestampToDuration(ts, rate) == multiplyAndDivide(ts, Second, rate)

durationGoToMp4(v, timeScale) == multiplyAndDivide(v, timeScale, Second)
durationMp4ToGo(v, timeScale) == multiplyAndDivide(v, Second, timeScale)

AtLeast(x, y) == IF x > y THEN x ELSE y

-----------------------------------------------------------------------------
Hour == 60 * Minute

Encode(start) ==
    [local |-> start + Zone.sign * (Zone.h * Hour + Zone.m * Minute), zone |-> Zone]

(* The minutes of an offset are taken for hours, and the sign is not for   *)
(* them.                                                                   *)
timeLocationDecode(zone) == zone.sign * zone.h * Hour + zone.m * Hour

Decode(name) == name.local - timeLocationDecode(name.zone)

(* The function f with y at x, which may be new to it.                     *)
Put(f, x, y) == [z \in DOMAIN f \union {x} |-> IF z = x THEN y ELSE f[z]]

(* A file that was removed while it is open is written for nobody.         *)
ChangeFile(disk, name, New(_)) ==
    IF name \in DOMAIN disk THEN [disk EXCEPT ![name] = New(@)] ELSE disk

(* The segment of a format that has none yet; the file of any other is     *)
(* "none", "open" or "closed".                                             *)
NoSegment == [fi |-> "nil"]

Before(x, y) == Decode(x) < Decode(y)

(* FindSegments: the segments that start before the end, in the order of   *)
(* their starts; from the one that may contain the start of the playback   *)
(* on. None for an end or a start that is not given, <<>> for              *)
(* ErrNoSegmentsFound.                                                     *)
FindSegments(disk, start, end) ==
    LET begun == {n \in DOMAIN disk : end # None => Decode(n) <= end}
        segments == SetToSortSeq(begun, Before)
        last == Len(segments)
        holds == {i \in 1..last : /\ Decode(segments[i]) <= start
                                  /\ i < last => start < Decode(segments[i + 1])}
    IN IF start = None \/ begun = {} \/ start < Decode(segments[1])
       THEN segments
       ELSE SubSeq(segments, CHOOSE i \in holds : TRUE, last)
=============================================================================
