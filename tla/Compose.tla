-------------------------------- MODULE Compose --------------------------------
(***************************************************************************)
(* How a picture is composed: the list of slices a tick draws on each      *)
(* output (build_draws, crates/app/src/session.rs), the order and the      *)
(* blending of the slices, the materials rendered before them              *)
(* (crates/compositor/src/lib.rs, gl.rs and the main() of shaders.rs) and  *)
(* the projection on four corners (homography.rs).                         *)
(*                                                                         *)
(* Pure operators.  A channel, an opacity, a mix or a master level is an   *)
(* integer from 0 to One; corners are integers; a matrix is given up to a  *)
(* factor, so that no division is needed.                                  *)
(***************************************************************************)
EXTENDS Integers, SequencesExt, FiniteSetsExt

CONSTANT One   \* the level written 1.0 in the code

ComposeAssumption == One \in Nat \ {0}

Times(a, b) == (a * b) \div One
----------------------------------------------------------------------------
(* The plan.  A scene maps the slices of a cue to [kind, of]; a slice that *)
(* a scene does not mention has no content there.                          *)

Absent == [kind |-> "absent", of |-> ""]
ContentOf(scene, s) == IF s \in DOMAIN scene THEN scene[s] ELSE Absent
Empty(c) == c.kind \in {"absent", "none"}
Or(c, d) == IF c = Absent THEN d ELSE c

\* The deck that weighs most in the mix says what the slice is.
Dominant(a, b, mix) == IF 2 * mix < One THEN Or(a, b) ELSE Or(b, a)
Other(a, b, mix) == IF 2 * mix < One THEN b ELSE a

\* A slice is drawn when its cue gives it something, or, outside of the
\* standby preview, when the other deck still does.
Drawn(a, b, mix, standby) ==
  LET d == Dominant(a, b, mix)
  IN  /\ d # Absent
      /\ d.kind = "none" => standby \/ ~Empty(Other(a, b, mix))

\* The test pattern shown instead of the content; a missing media is one.
PatternOf(c, missing) ==
  CASE c.kind = "pattern" -> c.of
    [] c.kind = "media" /\ c.of \in missing -> "checker"
    [] OTHER -> "nothing"

BlendOf(v) == IF v \in 1..3 THEN <<"add", "screen", "multiply">>[v] ELSE "normal"

Levels == 0..One
Level(v) == IF v < 0 THEN 0 ELSE IF v > One THEN One ELSE v

\* build_draws(): the draws of an output, in the order of its slices.  A
\* slice is [id, output, enabled, z, corners]; params gives the values of
\* the registry, [opacity, gain, blend], for the slices it knows.
BuildDraws(slices, a, b, mix, standby, params, missing, output) ==
  LET m == Level(mix)
      Wanted(s) == /\ s.enabled /\ s.output = output /\ s.id \in DOMAIN params
                   /\ Drawn(ContentOf(a, s.id), ContentOf(b, s.id), m, standby)
      wanted == SelectSeq(slices, Wanted)
      Draw(s) == [slice |-> s.id, z |-> s.z, corners |-> s.corners, mix |-> m,
                  opacity |-> params[s.id].opacity, gain |-> params[s.id].gain,
                  blend |-> BlendOf(params[s.id].blend),
                  pattern |-> PatternOf(Dominant(ContentOf(a, s.id), ContentOf(b, s.id), m), missing)]
  IN  [i \in DOMAIN wanted |-> Draw(wanted[i])]

\* The output whose picture goes to the preview.
FirstOutput(outputs) == SelectInSeq(outputs, LAMBDA o : o.enabled)

\* The size a material of a slice is rendered at.
Least(n) == IF n < 1 THEN 1 ELSE n
OutputSize(slices, outputs, s, default) ==
  LET i == SelectInSeq(slices, LAMBDA x : x.id = s)
      o == IF i = 0 THEN 0 ELSE SelectInSeq(outputs, LAMBDA x : x.id = slices[i].output)
  IN  IF o = 0 THEN default ELSE <<Least(outputs[o].width), Least(outputs[o].height)>>

\* step_dbo(): the blackout moves by a step towards its target.
StepDbo(level, target, step) ==
  IF level < target THEN Min({level + step, target})
  ELSE IF level > target THEN Max({level - step, target}) ELSE level
----------------------------------------------------------------------------
(* Composition.                                                            *)

\* keys_not_kept(): what is pruned.
KeysNotKept(existing, keep) == SelectSeq(existing, LAMBDA k : k \notin ToSet(keep))

\* sort_indices_by_z(): a stable sort.
SortByZ(draws) ==
  SortSeq([i \in DOMAIN draws |-> i],
          LAMBDA i, j : draws[i].z < draws[j].z \/ (draws[i].z = draws[j].z /\ i < j))

\* The decks whose material is rendered before an output is composed: one
\* that weighs nothing is left as it is.
MaterialPasses(draws) ==
  {<<draws[i].slice, "a">> : i \in {j \in DOMAIN draws : draws[j].pattern = "nothing" /\ draws[j].mix < One}}
  \cup {<<draws[i].slice, "b">> : i \in {j \in DOMAIN draws : draws[j].pattern = "nothing" /\ draws[j].mix > 0}}

\* slice_textures(): what a deck is composed from.
TextureOf(deck) == CASE deck.rendered -> "material" [] ~deck.rendered /\ deck.video -> "video" [] OTHER -> "black"

\* merge_uniforms(): values replace those of the same name, in place.
MergeUniforms(store, values) ==
  FoldLeft(LAMBDA acc, v :
             LET i == SelectInSeq(acc, LAMBDA u : u.name = v.name)
             IN  IF i = 0 THEN Append(acc, v) ELSE [acc EXCEPT ![i] = v],
           store, values)

\* main() of the fragment shader, for a channel of the content: the colour
\* is multiplied by the gain and by the master, then by the opacity as the
\* mode wants; then the blending of the mode (blend_func_for).
Shaded(color, draw, master) == Times(Level(Times(color, draw.gain)), master)
Blended(dst, src, opacity, mode) ==
  CASE mode = "add"      -> Level(dst + Times(src, opacity))
    [] mode = "screen"   -> Times(src, opacity) + Times(dst, One - Times(src, opacity))
    [] mode = "multiply" -> Times(dst, (One - opacity) + Times(src, opacity))
    [] OTHER             -> Times(src, opacity) + Times(dst, One - opacity)

Master(master, dbo) == Times(Level(master), One - Level(dbo))
----------------------------------------------------------------------------
(* Homography: the matrix that takes the unit square to four corners, in   *)
(* the order top left, top right, bottom right, bottom left.               *)

Minus(p, q) == <<p[1] - q[1], p[2] - q[2]>>
Cross(p, q) == p[1] * q[2] - p[2] * q[1]

\* The solution of the eight equations, multiplied by their determinant.
FromCorners(c) ==
  LET u == Minus(c[2], c[3])   v == Minus(c[4], c[3])
      w == <<c[1][1] - c[2][1] + c[3][1] - c[4][1], c[1][2] - c[2][2] + c[3][2] - c[4][2]>>
      den == Cross(u, v)   g == Cross(w, v)   h == Cross(u, w)
      Row(k) == <<den * (c[2][k] - c[1][k]) + g * c[2][k],
                  den * (c[4][k] - c[1][k]) + h * c[4][k],
                  den * c[1][k]>>
  IN  <<Row(1), Row(2), <<g, h, den>>>>

Det(m) ==
  m[1][1] * (m[2][2] * m[3][3] - m[2][3] * m[3][2])
  - m[1][2] * (m[2][1] * m[3][3] - m[2][3] * m[3][1])
  + m[1][3] * (m[2][1] * m[3][2] - m[2][2] * m[3][1])

\* The equations have no solution, or one that is not invertible.
IsDegenerate(c) == FromCorners(c)[3][3] = 0 \/ Det(FromCorners(c)) = 0

\* apply(): the image of a point, as a fraction for each coordinate.
Apply(m, p) ==
  LET Line(k) == m[k][1] * p[1] + m[k][2] * p[2] + m[k][3]
  IN  [x |-> Line(1), y |-> Line(2), w |-> Line(3)]
----------------------------------------------------------------------------
\* render_composite(), for one pixel that every slice with proper corners
\* covers: colors gives the channel of the content of each slice.
Composite(draws, colors, master, dbo) ==
  LET order == SelectSeq(SortByZ(draws), LAMBDA i : ~IsDegenerate(draws[i].corners))
  IN  FoldLeft(LAMBDA dst, i :
                 Blended(dst, Shaded(colors[draws[i].slice], draws[i], Master(master, dbo)),
                         Level(draws[i].opacity), draws[i].blend),
               0, order)
===============================================================================
