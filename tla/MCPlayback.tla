----------------------------- MODULE MCPlayback -----------------------------
(***************************************************************************)
(* Short shows for the playback runs.                                      *)
(***************************************************************************)
EXTENDS Playback, TLC

CONSTANTS v1, v2, i1

Cue(kind, dur, follow, goto) ==
  [armed |-> TRUE, transition |-> [kind |-> kind, dur |-> dur],
   follow |-> follow, wait |-> MaxWait,
   media |-> IF follow = "after_media" THEN Slices ELSE {},
   gotoAfter |-> goto, trigger |-> {}, params |-> <<>>]

Opening  == Cue("cut", 0, "manual", 0)
Fading   == Cue("crossfade", 1, "after_media", 1)
Dark     == Cue("through_black", 1, "manual", 1)

\* A video, then a second one faded in, followed and looped; and the edited show:
\* a picture, then nothing.
List == <<Opening, Fading>>
Edited == <<Opening, Dark>>
ShowLists == {List, Edited}

On(c) == [s \in Slices |-> c]
ShowScenes == List :> <<On(v1), On(v2)>> @@ Edited :> <<On(i1), On(NoContent)>>

\* A show that plays by itself, for ever; its second fade has no length.
Alone == <<Cue("crossfade", 2, "wait", 0), Cue("crossfade", 0, "after_media", 1)>>
AloneLists == {Alone}
AloneScenes == Alone :> <<On(v1), On(v2)>>

AloneInputs == {[op |-> "go"]}
ShowInputs == {[op |-> "go"], [op |-> "goto", cue |-> 2]}
VideoSet == {v1, v2}
BlackSet == {v1}
ImageSet == {i1}
=============================================================================
