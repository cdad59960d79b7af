------------------------------ MODULE MCMedia ------------------------------
(* An instance of Media for TLC. What is recorded: every codec for a short *)
(* time, video with audio for several segments. A segment is longer than   *)
(* maxBasetime and recordDeleteAfter longer than any segment; the time     *)
(* zone has whole hours (see RecordStore).                                 *)
EXTENDS Media, TLC

CONSTANTS r1, r2

Conf(format, codecs, gop, frames, horizon) ==
    [format |-> format, codecs |-> codecs, gop |-> gop, frames |-> frames, horizon |-> horizon]
VideoAndAudio == [v |-> "H264", a |-> "Opus"]
AllRecordConfs ==
    {Conf("fmp4", VideoAndAudio, 2, 1, 12), Conf("fmp4", VideoAndAudio, 1, 2, 12),
     Conf("fmp4", [v |-> "AV1", a |-> "MPEG4AudioLATM"], 2, 1, 8),
     Conf("fmp4", [v |-> "VP9", a |-> "AC3"], 2, 2, 8),
     Conf("fmp4", [v |-> "MPEG1Video", a |-> "G711"], 2, 1, 8),
     Conf("fmp4", [v |-> "MJPEG"], 1, 1, 9),
     Conf("fmp4", [a |-> "MPEG1Audio"], 1, 2, 9),
     Conf("fmp4", [v |-> "VP8"], 1, 1, 9),
     Conf("mpegts", VideoAndAudio, 2, 1, 10),
     Conf("mpegts", [v |-> "MPEG4Video", a |-> "AC3"], 2, 1, 8),
     Conf("mpegts", [a |-> "MPEG4AudioLATM"], 1, 1, 12)}

OneHourAhead == [sign |-> 1, h |-> 1, m |-> 0]

(* A reader of both tracks or two of one; two units of video, one of audio.*)
BothFormats == {(r1 :> {"v", "a"}) @@ (r2 :> {}), (r1 :> {"v"}) @@ (r2 :> {"v"})}
UnitsOfTracks == [v |-> 2, a |-> 1]
=============================================================================
