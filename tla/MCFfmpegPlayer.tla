--------------------------- MODULE MCFfmpegPlayer ---------------------------
(***************************************************************************)
(* Small media for FfmpegPlayer: a file, a file of unknown duration, a     *)
(* whole-file loop, a loop between IN and OUT points with hardware         *)
(* decoding, and a file shorter than ffprobe says with hardware decoding.  *)
(***************************************************************************)
EXTENDS FfmpegPlayer

Media(announced, real, whole, loop, hw) ==
  [announced |-> announced, real |-> real, whole |-> whole, loop |-> loop, hw |-> hw]

McMedias ==
  { Media(3, 3, TRUE, FALSE, FALSE), Media(0, 2, TRUE, FALSE, FALSE),
    Media(2, 2, TRUE, TRUE, FALSE), Media(2, 2, FALSE, TRUE, TRUE),
    Media(4, 2, TRUE, FALSE, TRUE) }
============================================================================
