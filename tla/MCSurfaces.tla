----------------------------- MODULE MCSurfaces -----------------------------
(* One wide fader, one parameter it moves, an oscillator and a cue; an edit  *)
(* that adds a parameter and takes a binding away, one that changes the cue, *)
(* and a load.                                                               *)
EXTENDS SurfacesHistory

MCFloat == [type |-> "float", min |-> 0, max |-> 15]
MCParam(a, scriptable, ms) ==
  [addr |-> a, kind |-> MCFloat, default |-> [type |-> "F", x |-> 0],
   smoothing |-> ms, scriptable |-> scriptable]
MCFader == [CcBinding(0, TRUE) EXCEPT !.addr = "a"]
MCRoute == [source |-> "lfo", target |-> "a", depth |-> 5, mode |-> "add"]
MCCues(x) == {[params |-> "a" :> [type |-> "F", x |-> x],
               routes |-> 1 :> [depth |-> 0, enabled |-> TRUE]]}
MCShow(specs) ==
  [specs |-> specs, kept |-> {}, overrides |-> {}, settings |-> 1, bindings |-> <<MCFader, NoteBinding(1)>>,
   modulators |-> "lfo" :> [type |-> "lfo", wave |-> "square", phase |-> 0, freq |-> 1, sync |-> FALSE],
   routes |-> 1 :> MCRoute, knobs |-> "k" :> {1}, cues |-> MCCues(10)]
MCFirst == MCShow({MCParam("a", TRUE, 0)})
MCShows == <<MCFirst,
             [MCShow({MCParam("a", TRUE, 1), MCParam("k", FALSE, 0)}) 
                EXCEPT !.bindings = <<MCFader>>, !.routes = 1 :> [MCRoute EXCEPT !.depth = 4]],
             [MCFirst EXCEPT !.cues = MCCues(5), !.kept = {"k"}]>>
MCOrders == {[op |-> "nudge", addr |-> "a", delta |-> 8], [op |-> "edit", show |-> 2], [op |-> "edit", show |-> 3],
             [op |-> "load", show |-> 2], [op |-> "learn", on |-> TRUE]}
=============================================================================
