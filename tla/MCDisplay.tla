------------------------------- MODULE MCDisplay -------------------------------
(***************************************************************************)
(* An operator's screen and a projector, two outputs; and the composition  *)
(* of pictures over every small plan.                                      *)
(***************************************************************************)
EXTENDS Display

MCCards == {[version |-> 33, embedded |-> FALSE, exts |-> {}],
            [version |-> 46, embedded |-> FALSE, exts |-> {}],
            [version |-> 20, embedded |-> TRUE, exts |-> {}]}

MCMonitorOrder == <<"desk", "stage">>
MCNameOf == [m \in {"desk", "stage"} |-> m]
MCPlaces == [desk |-> 0, stage |-> 1]
MCOutputIds == <<1, 2>>
MCWindowed == [enabled |-> TRUE, fullscreen |-> FALSE, monitor |-> 0]
MCProjected == [enabled |-> TRUE, fullscreen |-> TRUE, monitor |-> 2]
MCConfigs == {MCWindowed, MCProjected, [MCWindowed EXCEPT !.enabled = FALSE]}
MCStart == <<MCWindowed, MCProjected>>
----------------------------------------------------------------------------
C == INSTANCE Compose WITH One <- 2

ASSUME C!ComposeAssumption

Grid == (0..2) \X (0..2)
Unit == <<<<0, 0>>, <<1, 0>>, <<1, 1>>, <<0, 1>>>>
Aligned(p, q, r) == C!Cross(C!Minus(q, p), C!Minus(r, p)) = 0

\* The four corners of the unit square go to the four corners asked for; the
\* quads that are refused are those with three corners on a line.
ASSUME \A c \in [1..4 -> Grid] :
  LET m == C!FromCorners(c)
  IN  IF \E i \in 1..4 : Aligned(c[(i % 4) + 1], c[((i + 1) % 4) + 1], c[((i + 2) % 4) + 1])
      THEN C!IsDegenerate(c)
      ELSE /\ ~C!IsDegenerate(c)
           /\ \A k \in 1..4 :
                LET p == C!Apply(m, Unit[k])
                IN  p.w # 0 /\ p.x = p.w * c[k][1] /\ p.y = p.w * c[k][2]

MCModes == {"normal", "add", "screen", "multiply"}
MCDraws == [slice : {1}, z : {0, 1}, corners : {Unit}, opacity : C!Levels, gain : {1, 2, 4}, blend : MCModes]

\* A blackout, or a master at nothing, is black whatever is drawn and
\* blended; a slice of no opacity, or whose corners make no quad, leaves what
\* is under it.
ASSUME \A d, e \in MCDraws, color \in C!Levels :
  /\ C!Composite(<<d, e>>, <<color>>, 2, 2) = 0
  /\ C!Composite(<<d, e>>, <<color>>, 0, 0) = 0
  /\ C!Composite(<<d, e>>, <<color>>, 2, 0) \in C!Levels
  /\ C!Composite(<<d, [e EXCEPT !.corners = <<Unit[1], Unit[2], Unit[2], Unit[1]>>]>>, <<color>>, 2, 0)
       = C!Composite(<<d>>, <<color>>, 2, 0)
  /\ e.opacity = 0 /\ e.z = 1 => C!Composite(<<d, e>>, <<color>>, 2, 0) = C!Composite(<<d>>, <<color>>, 2, 0)

\* The drawing order is a stable sort by z.
ASSUME \A n \in 1..4 : \A z \in [1..n -> 0..2] :
  LET order == C!SortByZ([i \in 1..n |-> [z |-> z[i]]])
  IN  /\ ToSet(order) = 1..n /\ Len(order) = n
      /\ \A i, j \in 1..n : i < j => z[order[i]] < z[order[j]] \/ (z[order[i]] = z[order[j]] /\ order[i] < order[j])

MCContents == {C!Absent, [kind |-> "none", of |-> ""], [kind |-> "media", of |-> "clip"],
               [kind |-> "media", of |-> "lost"], [kind |-> "pattern", of |-> "grid"]}

\* Outside of the standby preview, a slice is drawn exactly when one of the
\* two cues gives it something, at any point of the fade.
ASSUME \A a, b \in MCContents, mix \in C!Levels :
  C!Drawn(a, b, mix, FALSE) <=> ~C!Empty(a) \/ ~C!Empty(b)

\* Every deck that weighs in an output has its material rendered before.
ASSUME \A a, b \in MCContents, mix \in C!Levels :
  LET scene(c) == [s \in {1} |-> c]
      draws == C!BuildDraws(<<[id |-> 1, output |-> 1, enabled |-> TRUE, z |-> 0, corners |-> 0]>>,
                            scene(a), scene(b), mix, FALSE,
                            [s \in {1} |-> [opacity |-> 2, gain |-> 2, blend |-> 0]], {"lost"}, 1)
  IN  \A i \in DOMAIN draws : draws[i].pattern = "nothing" =>
        {d \in {"a", "b"} : IF d = "a" THEN mix < 2 ELSE mix > 0} = {d \in {"a", "b"} : <<1, d>> \in C!MaterialPasses(draws)}

\* The blackout reaches its target, and never passes it.
ASSUME \A level, target \in 0..4, step \in 1..4 :
  LET next == C!StepDbo(level, target, step)
  IN  IF level <= target THEN level <= next /\ next <= target ELSE target <= next /\ next <= level

\* A value pushed replaces the one of its name and no other.
MCUniforms == [name : {"time", "level"}, value : 0..1]
ASSUME \A store, values \in SeqOf(MCUniforms, 2) :
  Cardinality({store[i].name : i \in DOMAIN store}) = Len(store) =>
    LET merged == C!MergeUniforms(store, values)
        Of(q, n) == SelectSeq(q, LAMBDA u : u.name = n)
    IN  \A n \in {"time", "level"} :
          LET q == Of(store \o values, n)
          IN  Of(merged, n) = (IF q = <<>> THEN <<>> ELSE <<Last(q)>>)
===============================================================================
