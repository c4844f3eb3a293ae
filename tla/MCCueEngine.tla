---------------------------- MODULE MCCueEngine ----------------------------
(***************************************************************************)
(* Small cue lists for the run of the cue engine with its history.         *)
(***************************************************************************)
EXTENDS CueHistory

Cue(armed, kind, dur, follow, wait, goto, trigger, params) ==
  [armed |-> armed, transition |-> [kind |-> kind, dur |-> dur],
   follow |-> follow, wait |-> wait,
   media |-> IF follow = "after_media" THEN Slices ELSE {},
   gotoAfter |-> goto, trigger |-> trigger, params |-> params]

P(n) == IF n = 1 THEN ("x" :> 1) ELSE IF n = 2 THEN ("x" :> 2 @@ "y" :> 2) ELSE ("y" :> 3)

T(s, f) == {[s |-> s, f |-> f]}

\* A show played by hand, by timecode or by itself, with two cues at one position
\* of the timecode; the same with its second cue disarmed and given other
\* parameters, and its loop removed; and the same without its second cue, where the
\* first one loops to.
Opening == Cue(TRUE, "cut", 0, "after_media", 0, 2, T(0, 1), P(1))
Fading  == Cue(TRUE, "crossfade", 2, "wait", 1, 0, T(1, 1), P(2))
Dark    == Cue(TRUE, "through_black", 2, "after_media", 0, 1, T(1, 1), P(3))
Lists == { <<Opening, Fading, Dark>>,
           <<Opening, [Fading EXCEPT !.armed = FALSE, !.params = P(3)], [Dark EXCEPT !.gotoAfter = 0]>>,
           1 :> Opening @@ 3 :> Dark }
=============================================================================
