------------------------------ MODULE Registry ------------------------------
(***************************************************************************)
(* The registry of parameters (crates/params/src/registry.rs), as          *)
(* operators on a function from addresses to the states of the parameters. *)
(*                                                                         *)
(* A value has one component: the four of the code (colours, points) are   *)
(* treated alike, but for the alpha of a colour, which modulation leaves   *)
(* alone.  Values are integers, 1.0 is One; the exponential smoothing is a *)
(* fraction of the distance, chosen by the caller, and as in the code it   *)
(* ends in finite time.                                                    *)
(***************************************************************************)
EXTENDS Integers, Sequences, Functions

CONSTANTS
  One,        \* 1.0, for values and for the alpha of a fade
  Gains       \* fractions of the way, in steps of One, a tick may smooth

ASSUME OneAssumption == One \in Nat \ {0} /\ Gains \subseteq 1..One

\* ParamKind, but for the labels of an enum, and ParamValue.
Kinds == [type : {"float", "int"}, min : Int, max : Int] \cup [type : {"enum"}, last : Int]
           \cup [type : {"bool", "color", "point2"}]
Values == [type : {"F", "I", "B", "S", "Color", "P2"}, x : Int]

Within(x, lo, hi) == IF x < lo THEN (IF lo < hi THEN lo ELSE hi) ELSE IF x > hi THEN hi ELSE x
Distance(x, y) == IF x < y THEN y - x ELSE x - y

Discrete(kind) == kind.type \in {"bool", "enum"}

\* The values a kind accepts: type of the ParamValue by type of the kind.
Accepted == [float |-> {"F", "I"}, int |-> {"I", "F"}, bool |-> {"B", "F", "I"},
             enum |-> {"I", "F", "S"}, color |-> {"Color"}, point2 |-> {"P2"}]

Clamped(kind, x) ==
  CASE kind.type \in {"float", "int"} -> Within(x, kind.min, kind.max)
    [] kind.type = "bool"   -> IF 2 * x >= One THEN One ELSE 0
    [] kind.type = "enum"   -> Within(x, 0, kind.last)
    [] kind.type = "color"  -> Within(x, 0, One)
    [] kind.type = "point2" -> x

\* Mutant of to_comps with clamp: the value is taken as it comes.
Converted_Raw(kind, v) == IF v.type \in Accepted[kind.type] THEN {v.x} ELSE {}

\* to_comps then clamp: {} if the kind refuses the value.
Converted(kind, v) == IF v.type \in Accepted[kind.type] THEN {Clamped(kind, v.x)} ELSE {}

Fresh(spec) ==
  LET x == IF Converted(spec.kind, spec.default) = {} THEN Clamped(spec.kind, 0)
           ELSE CHOOSE y \in Converted(spec.kind, spec.default) : TRUE
  IN  [spec |-> spec, target |-> x, current |-> x, from |-> x, to |-> x,
       blending |-> FALSE, alpha |-> 0, live |-> FALSE, forced |-> {}, offset |-> 0]

\* The smoothing is on: not discrete, and neither the spec nor the override is 0.
Smooth(s) ==
  ~Discrete(s.spec.kind) /\ (IF s.forced = {} THEN s.spec.smoothing > 0 ELSE \E ms \in s.forced : ms > 0)

Snapped(s) == IF Smooth(s) THEN s ELSE [s EXCEPT !.current = s.target]

\* register: a parameter keeps its state if its kind is unchanged.
Registered(params, addr, spec) ==
  [a \in DOMAIN params \cup {addr} |->
     IF a # addr THEN params[a]
     ELSE IF addr \in DOMAIN params /\ params[addr].spec.kind = spec.kind
          THEN [params[addr] EXCEPT !.spec = spec] ELSE Fresh(spec)]

Unregistered(params, gone) == Restrict(params, DOMAIN params \ gone)

\* Mutant of set: the fade goes on from its old starting point.
Posed_StillBlending(params, addr, v, source) ==
  IF addr \notin DOMAIN params \/ (params[addr].live /\ source = "cue") THEN params
  ELSE [params EXCEPT ![addr] =
          LET s == @ IN
          IF Converted(s.spec.kind, v) = {} THEN s
          ELSE Snapped([s EXCEPT !.target = CHOOSE y \in Converted(s.spec.kind, v) : TRUE])]

\* set: the smoothing does the rest; the fade in progress is interrupted.
Posed(params, addr, v, source) ==
  IF addr \notin DOMAIN params \/ (params[addr].live /\ source = "cue") THEN params
  ELSE [params EXCEPT ![addr] =
          LET s == @ IN
          IF Converted(s.spec.kind, v) = {} THEN s
          ELSE Snapped([s EXCEPT !.target = CHOOSE y \in Converted(s.spec.kind, v) : TRUE,
                                 !.blending = FALSE])]

SetLive(params, addr, on) ==
  IF addr \in DOMAIN params
  THEN [params EXCEPT ![addr].live = on, ![addr].blending = FALSE] ELSE params

\* set_smoothing_override: a set of at most one duration.
Forced(params, addr, ms) ==
  IF addr \in DOMAIN params THEN [params EXCEPT ![addr].forced = ms] ELSE params

\* value, value_f32: what is rendered.
Shown(s) == Clamped(s.spec.kind, s.current + s.offset)
Value(params, addr) == IF addr \in DOMAIN params THEN Shown(params[addr]) ELSE 0

\* snapshot_scripted.
Scripted(params) ==
  [a \in {b \in DOMAIN params : params[b].spec.scriptable} |-> params[a].target]

Interpolated(kind, from, to, alpha) ==
  IF Discrete(kind) THEN (IF 2 * alpha >= One THEN to ELSE from)
  ELSE from + ((to - from) * alpha) \div One

\* Mutant of blend_toward: the starting point is taken again at each frame.
Blended_Compound(s, v, alpha) ==
  IF s.live \/ Converted(s.spec.kind, v) = {} THEN s
  ELSE LET to == CHOOSE y \in Converted(s.spec.kind, v) : TRUE
       IN  Snapped([s EXCEPT !.from = s.current, !.to = to, !.alpha = alpha,
                             !.blending = alpha < One,
                             !.target = Interpolated(s.spec.kind, s.current, to, alpha)])

\* blend_toward, for one address: the starting point is taken once per fade.
Blended(s, v, alpha) ==
  IF s.live \/ Converted(s.spec.kind, v) = {} THEN s
  ELSE LET to == CHOOSE y \in Converted(s.spec.kind, v) : TRUE
           from == IF ~s.blending \/ s.to # to \/ alpha < s.alpha THEN s.current ELSE s.from
       IN  Snapped([s EXCEPT !.from = from, !.to = to, !.alpha = alpha,
                             !.blending = alpha < One,
                             !.target = Interpolated(s.spec.kind, from, to, alpha)])

BlendedToward(params, snapshot, alpha) ==
  [a \in DOMAIN params |->
     IF a \in DOMAIN snapshot THEN Blended(params[a], snapshot[a], alpha) ELSE params[a]]

\* apply_modulation: the offsets of the frame before are forgotten.
Modulated(params, offsets) ==
  [a \in DOMAIN params |->
     [params[a] EXCEPT !.offset =
        IF a \in DOMAIN offsets /\ ~Discrete(params[a].spec.kind) THEN offsets[a] ELSE 0]]

\* tick.
Smoothed(s, gain) ==
  LET step == (Distance(s.target, s.current) * gain + One - 1) \div One
  IN  [s EXCEPT !.current = IF ~Smooth(s) THEN s.target
                            ELSE IF s.target > s.current THEN s.current + step ELSE s.current - step]

Ticked(params, gain) == [a \in DOMAIN params |-> Smoothed(params[a], gain)]

ParamTypeOK(params) ==
  \A a \in DOMAIN params : LET s == params[a] IN
    /\ {s.target, s.current, s.from, s.to, s.offset} \subseteq Int
    /\ s.alpha \in 0..One /\ {s.blending, s.live} \subseteq BOOLEAN
    /\ s.target = Clamped(s.spec.kind, s.target) /\ s.current = Clamped(s.spec.kind, s.current)
=============================================================================
