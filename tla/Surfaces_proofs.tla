---------------------------- MODULE Surfaces_proofs ----------------------------
(***************************************************************************)
(* Theorems about the surfaces, the registry of parameters and the frame,  *)
(* for every show, every other surface, every scale of the values and of   *)
(* the halves of a controller, and any capacity of the queues.             *)
(*                                                                         *)
(* First what the functions of the registry do to one parameter; then what *)
(* a state of the session may be, an edit and a fade; then the hub, its    *)
(* threads and the fader; last the timecode of the same port.              *)
(***************************************************************************)
EXTENDS SurfacesHistory, Timecode, SequenceTheorems, FiniteSetTheorems, WellFoundedInduction, TLAPS

----------------------------------------------------------------------------
(* Values of a parameter.                                                  *)

Btw(x, y, z) == (x <= y /\ y <= z) \/ (z <= y /\ y <= x)

LEMMA ClampedIs ==
  ASSUME NEW kind \in Kinds, NEW x \in Int
  PROVE  Clamped(kind, x) \in Int /\ Clamped(kind, Clamped(kind, x)) = Clamped(kind, x)
<1>1. kind.type \in {"float", "int", "bool", "enum", "color", "point2"}
  BY DEF Kinds
<1>2. CASE kind.type \in {"float", "int"}
  <2>1. kind.min \in Int /\ kind.max \in Int
    BY <1>2 DEF Kinds
  <2>2. \A y : Clamped(kind, y) = Within(y, kind.min, kind.max)
    BY <1>2 DEF Clamped
  <2> QED BY <2>1, <2>2 DEF Within
<1>3. CASE kind.type = "bool"
  BY <1>3, OneAssumption DEF Clamped
<1>4. CASE kind.type = "enum"
  <2>1. kind.last \in Int
    BY <1>4 DEF Kinds
  <2>2. \A y : Clamped(kind, y) = Within(y, 0, kind.last)
    BY <1>4 DEF Clamped
  <2> QED BY <2>1, <2>2 DEF Within
<1>5. CASE kind.type = "color"
  <2>2. \A y : Clamped(kind, y) = Within(y, 0, One)
    BY <1>5 DEF Clamped
  <2> QED BY <2>2, OneAssumption DEF Within
<1>6. CASE kind.type = "point2"
  BY <1>6 DEF Clamped
<1> QED BY <1>1, <1>2, <1>3, <1>4, <1>5, <1>6

\* Between two values a kind accepts there are values it accepts.
LEMMA ClampedBetween ==
  ASSUME NEW kind \in Kinds, ~Discrete(kind), NEW x \in Int, NEW y \in Int, NEW z \in Int,
         Clamped(kind, x) = x, Clamped(kind, z) = z, Btw(x, y, z)
  PROVE  Clamped(kind, y) = y
<1>1. kind.type \in {"float", "int", "color", "point2"}
  BY DEF Kinds, Discrete
<1>2. CASE kind.type \in {"float", "int"}
  <2>1. kind.min \in Int /\ kind.max \in Int
    BY <1>2 DEF Kinds
  <2>2. \A v : Clamped(kind, v) = Within(v, kind.min, kind.max)
    BY <1>2 DEF Clamped
  <2> QED BY <2>1, <2>2 DEF Within, Btw
<1>3. CASE kind.type = "color"
  <2>2. \A v : Clamped(kind, v) = Within(v, 0, One)
    BY <1>3 DEF Clamped
  <2> QED BY <2>2, OneAssumption DEF Within, Btw
<1>4. CASE kind.type = "point2"
  BY <1>4 DEF Clamped
<1> QED BY <1>1, <1>2, <1>3, <1>4

LEMMA ConvertedIs ==
  ASSUME NEW kind \in Kinds, NEW v \in Values
  PROVE  Converted(kind, v) = {} \/ Converted(kind, v) = {Clamped(kind, v.x)}
BY DEF Converted

\* A quotient by One grows with what is divided.
LEMMA Quotients ==
  ASSUME NEW x \in Int, NEW y \in Int, x <= y
  PROVE  x \div One \in Int /\ y \div One \in Int /\ x \div One <= y \div One
BY OneAssumption

LEMMA WholeQuotients ==
  ASSUME NEW d \in Int
  PROVE  (d * One) \div One = d
BY OneAssumption

LEMMA Products ==
  ASSUME NEW d \in Int, NEW a \in Int, NEW b \in Int, a <= b
  PROVE  /\ d * a \in Int /\ d * b \in Int
         /\ d >= 0 => d * a <= d * b
         /\ d <= 0 => d * b <= d * a
OBVIOUS

\* The farther the fade, the nearer to its goal.
LEMMA InterpolatedIs ==
  ASSUME NEW kind, NEW from \in Int, NEW to \in Int, NEW a \in 0..One, NEW b \in 0..One, a <= b
  PROVE  LET x == Interpolated(kind, from, to, a)  y == Interpolated(kind, from, to, b)
         IN  /\ x \in Int /\ y \in Int
             /\ from <= to => from <= x /\ x <= y /\ y <= to
             /\ to <= from => to <= y /\ y <= x /\ x <= from
             /\ b = One => y = to
             /\ Discrete(kind) => x \in {from, to}
<1> One \in Nat \ {0}
  BY OneAssumption
<1>1. CASE Discrete(kind)
  BY <1>1 DEF Interpolated
<1>2. CASE ~Discrete(kind)
  <2> DEFINE d == to - from
  <2>1. /\ Interpolated(kind, from, to, a) = from + ((d * a) \div One)
        /\ Interpolated(kind, from, to, b) = from + ((d * b) \div One)
    BY <1>2 DEF Interpolated
  <2>2. d \in Int /\ a \in Int /\ b \in Int /\ 0 <= a /\ b <= One
    OBVIOUS
  <2> HIDE DEF d
  <2>3. (d * One) \div One = d /\ (d * 0) \div One = 0
    BY <2>2, WholeQuotients
  <2>4. ASSUME d >= 0
        PROVE  0 <= (d * a) \div One /\ (d * a) \div One <= (d * b) \div One /\ (d * b) \div One <= d
    <3>1. d * 0 <= d * a /\ d * a <= d * b /\ d * b <= d * One
      BY <2>2, <2>4, Products
    <3>2. d * 0 \in Int /\ d * a \in Int /\ d * b \in Int /\ d * One \in Int
      BY <2>2
    <3> QED BY <2>3, <3>1, <3>2, Quotients
  <2>5. ASSUME d <= 0
        PROVE  d <= (d * b) \div One /\ (d * b) \div One <= (d * a) \div One /\ (d * a) \div One <= 0
    <3>1. d * 0 >= d * a /\ d * a >= d * b /\ d * b >= d * One
      BY <2>2, <2>5, Products
    <3>2. d * 0 \in Int /\ d * a \in Int /\ d * b \in Int /\ d * One \in Int
      BY <2>2
    <3> QED BY <2>3, <3>1, <3>2, Quotients
  <2>6. (d * a) \div One \in Int /\ (d * b) \div One \in Int
    BY <2>2
  <2>7. b = One => (d * b) \div One = d
    BY <2>3
  <2>8. d = to - from
    BY DEF d
  <2> QED BY <1>2, <2>1, <2>2, <2>4, <2>5, <2>6, <2>7, <2>8
<1> QED BY <1>1, <1>2

----------------------------------------------------------------------------
(* The state of a parameter.                                               *)

Declarations == UNION {Shows[s].specs : s \in DOMAIN Shows}
ParamStates ==
  [spec : Declarations, target : Int, current : Int, from : Int, to : Int, blending : BOOLEAN,
   alpha : 0..One, live : {FALSE}, forced : SUBSET Nat, offset : Int]

\* Values the kind accepts; in a fade, what is shown is between where the
\* fade started and where it is.
Faithful(s) ==
  LET kind == s.spec.kind
  IN  /\ s.target = Clamped(kind, s.target) /\ s.current = Clamped(kind, s.current)
      /\ Discrete(kind) => s.current = s.target
      /\ s.blending => /\ s.from = Clamped(kind, s.from) /\ s.to = Clamped(kind, s.to)
                       /\ s.target = Interpolated(kind, s.from, s.to, s.alpha)
                       /\ Btw(s.from, s.current, s.target)
Going(s) == s \in ParamStates /\ Faithful(s)

LEMMA DeclaredKinds ==
  ASSUME NEW spec \in Declarations
  PROVE  spec.kind \in Kinds /\ spec.default \in Values /\ spec.smoothing \in Nat
BY ShowsAssumption DEF Declarations, Declares, Specified

LEMMA FreshIs ==
  ASSUME NEW spec \in Declarations
  PROVE  Going(Fresh(spec)) /\ Fresh(spec).spec = spec
<1> DEFINE kind == spec.kind
           set == Converted(kind, spec.default)
           x == IF set = {} THEN Clamped(kind, 0) ELSE CHOOSE y \in set : TRUE
<1>1. kind \in Kinds /\ spec.default \in Values /\ spec.default.x \in Int
  BY DeclaredKinds DEF Values
<1>2. x \in {Clamped(kind, 0), Clamped(kind, spec.default.x)}
  BY <1>1, ConvertedIs
<1> HIDE DEF x
<1>3. x \in Int /\ x = Clamped(kind, x)
  <2>1. \A z \in Int : Clamped(kind, z) \in Int /\ Clamped(kind, z) = Clamped(kind, Clamped(kind, z))
    BY <1>1, ClampedIs
  <2> QED BY <1>1, <1>2, <2>1
<1>4. Fresh(spec) = [spec |-> spec, target |-> x, current |-> x, from |-> x, to |-> x,
                     blending |-> FALSE, alpha |-> 0, live |-> FALSE, forced |-> {}, offset |-> 0]
  BY DEF Fresh, x
<1> QED BY <1>3, <1>4, OneAssumption DEF Going, Faithful, ParamStates

\* A parameter that is not smoothed shows its target.
LEMMA SnappedIs ==
  ASSUME NEW s \in ParamStates
  PROVE  /\ Snapped(s) \in ParamStates
         /\ Snapped(s) = IF Smooth(s) THEN s ELSE [s EXCEPT !.current = s.target]
         /\ Discrete(s.spec.kind) => ~Smooth(s)
BY DEF Snapped, Smooth, ParamStates

LEMMA PosedIs ==
  ASSUME NEW s, Going(s), NEW v \in Values, Converted(s.spec.kind, v) # {}
  PROVE  LET y == CHOOSE x \in Converted(s.spec.kind, v) : TRUE
             t == Snapped([s EXCEPT !.target = y, !.blending = FALSE])
         IN  Going(t) /\ t.spec = s.spec
<1> DEFINE y == CHOOSE x \in Converted(s.spec.kind, v) : TRUE
           t == [s EXCEPT !.target = y, !.blending = FALSE]
<1>1. s \in ParamStates /\ s.spec.kind \in Kinds /\ v.x \in Int
  BY DeclaredKinds DEF Going, ParamStates, Values
<1>2. y = Clamped(s.spec.kind, v.x)
  BY <1>1, ConvertedIs
<1>3. y \in Int /\ y = Clamped(s.spec.kind, y)
  BY <1>1, <1>2, ClampedIs
<1> HIDE DEF y
<1>4. t \in ParamStates /\ t.spec = s.spec /\ t.target = y /\ t.current = s.current /\ t.blending = FALSE
  BY <1>1, <1>3 DEF ParamStates
<1> HIDE DEF t
<1> DEFINE u == Snapped(t)
<1>5. u \in ParamStates /\ u.spec = s.spec /\ u.target = y /\ u.blending = FALSE
      /\ (u.current = y \/ (u.current = s.current /\ ~Discrete(s.spec.kind)))
  <2>1. u = IF Smooth(t) THEN t ELSE [t EXCEPT !.current = t.target]
    BY <1>4, SnappedIs
  <2>2. Discrete(s.spec.kind) => ~Smooth(t)
    BY <1>4, SnappedIs
  <2>3. u \in ParamStates
    BY <1>4, SnappedIs
  <2> HIDE DEF u
  <2> QED BY <1>4, <2>1, <2>2, <2>3 DEF ParamStates
<1> HIDE DEF u
<1>6. Faithful(u)
  BY <1>3, <1>5 DEF Going, Faithful
<1> QED BY <1>5, <1>6 DEF Going, u, t, y

\* A frame of a fade leads a parameter from what it shows towards the goal.
LEMMA BlendedIs ==
  ASSUME NEW s, Going(s), NEW v \in Values, NEW alpha \in 1..One
  PROVE  LET b == Blended(s, v, alpha)
         IN  /\ Going(b) /\ b.spec = s.spec /\ b.offset = s.offset
             /\ \A to \in Converted(s.spec.kind, v) :
                  Btw(s.current, b.target, to) /\ b.current \in {s.current, b.target}
<1> DEFINE kind == s.spec.kind
           to == CHOOSE y \in Converted(kind, v) : TRUE
           from == IF ~s.blending \/ s.to # to \/ alpha < s.alpha THEN s.current ELSE s.from
           x == Interpolated(kind, from, to, alpha)
           t == [s EXCEPT !.from = from, !.to = to, !.alpha = alpha,
                          !.blending = alpha < One, !.target = x]
<1>1. s \in ParamStates /\ kind \in Kinds /\ v.x \in Int /\ s.live = FALSE /\ Faithful(s)
  BY DeclaredKinds DEF Going, ParamStates, Values
<1>2. CASE Converted(kind, v) = {}
  BY <1>2 DEF Blended
<1>3. CASE Converted(kind, v) # {}
  <2>1. Blended(s, v, alpha) = Snapped(t) /\ Converted(kind, v) = {to}
    BY <1>1, <1>3, ConvertedIs DEF Blended
  <2>2. to = Clamped(kind, v.x)
    BY <1>1, <1>3, ConvertedIs
  <2>3. to \in Int /\ to = Clamped(kind, to)
    BY <1>1, <2>2, ClampedIs
  <2> HIDE DEF to
  <2>4. from \in Int /\ from = Clamped(kind, from) /\ s.current \in Int /\ s.alpha \in 0..One
    BY <1>1 DEF Faithful, ParamStates
  <2>5. /\ x \in Int /\ (alpha = One => x = to)
        /\ from <= to => from <= x /\ x <= to
        /\ to <= from => to <= x /\ x <= from
        /\ Discrete(kind) => x \in {from, to}
    BY <2>3, <2>4, OneAssumption, InterpolatedIs
  <2>6. Btw(from, s.current, x) /\ Btw(s.current, x, to)
    <3>1. CASE from = s.current
      BY <3>1, <2>3, <2>4, <2>5 DEF Btw
    <3>2. CASE from # s.current
      <4>1. s.blending /\ s.to = to /\ alpha >= s.alpha /\ from = s.from
        BY <2>4, <3>2
      <4> DEFINE w == Interpolated(kind, from, to, s.alpha)
      <4>2. Btw(from, s.current, w)
        BY <1>1, <4>1 DEF Faithful
      <4>3. /\ w \in Int
            /\ from <= to => from <= w /\ w <= x /\ x <= to
            /\ to <= from => to <= x /\ x <= w /\ w <= from
        BY <2>3, <2>4, <4>1, InterpolatedIs
      <4> HIDE DEF w, x, from
      <4> QED BY <2>3, <2>4, <2>5, <4>2, <4>3 DEF Btw
    <3> QED BY <3>1, <3>2
  <2> HIDE DEF from, x
  <2>7. x = Clamped(kind, x)
    <3>1. CASE Discrete(kind)
      BY <2>3, <2>4, <2>5, <3>1
    <3>2. CASE ~Discrete(kind)
      <4>1. Btw(from, x, to)
        BY <2>3, <2>4, <2>5 DEF Btw
      <4> QED BY <1>1, <2>3, <2>4, <2>5, <3>2, <4>1, ClampedBetween
    <3> QED BY <3>1, <3>2
  <2>8. /\ t \in ParamStates /\ t.spec = s.spec /\ t.target = x /\ t.current = s.current
        /\ t.from = from /\ t.to = to /\ t.alpha = alpha /\ t.offset = s.offset
    <3> DEFINE on == alpha < One
    <3>1. on \in BOOLEAN /\ alpha \in 0..One
      BY OneAssumption
    <3>2. t = [s EXCEPT !.from = from, !.to = to, !.alpha = alpha, !.blending = on, !.target = x]
      BY DEF t, on
    <3> HIDE DEF t, on, kind
    <3>3. t \in ParamStates
      BY <1>1, <2>3, <2>4, <2>5, <3>1, <3>2 DEF ParamStates
    <3> QED BY <1>1, <3>2, <3>3 DEF ParamStates
  <2> HIDE DEF t
  <2> DEFINE u == Snapped(t)
  <2>10. /\ u \in ParamStates /\ u.spec = s.spec /\ u.target = x
         /\ u.from = from /\ u.to = to /\ u.alpha = alpha /\ u.offset = s.offset
         /\ (u.current = x \/ (u.current = s.current /\ ~Discrete(kind)))
    <3>1. u = IF Smooth(t) THEN t ELSE [t EXCEPT !.current = t.target]
      BY <2>8, SnappedIs
    <3>2. Discrete(kind) => ~Smooth(t)
      BY <2>8, SnappedIs
    <3>3. u \in ParamStates
      BY <2>8, SnappedIs
    <3> HIDE DEF u
    <3> QED BY <2>8, <3>1, <3>2, <3>3 DEF ParamStates
  <2> HIDE DEF u
  <2>11. Btw(from, x, x)
    BY <2>4, <2>5, <2>3 DEF Btw
  <2>12. Btw(from, u.current, x)
    BY <2>6, <2>10, <2>11
  <2>13. Faithful(u)
    BY <1>1, <2>3, <2>4, <2>7, <2>10, <2>12 DEF Faithful, x
  <2>14. Going(u)
    BY <2>10, <2>13 DEF Going
  <2> QED BY <2>1, <2>6, <2>10, <2>14 DEF u
<1> QED BY <1>2, <1>3

\* A step of the smoothing is no longer than the way there is.
LEMMA StepIs ==
  ASSUME NEW d \in Nat, NEW gain \in 1..One
  PROVE  LET step == (d * gain + One - 1) \div One IN step \in 0..d
<1> One \in Nat \ {0}
  BY OneAssumption
<1>1. 0 <= d * gain /\ d * gain <= d * One /\ d * gain \in Int /\ d * One \in Int
  <2>1. d * 0 = 0 /\ d * 0 <= d * gain /\ d * gain <= d * One
    BY Products
  <2> QED BY <2>1
<1> DEFINE n == d * gain + One - 1
<1>2. n \in Int /\ 0 <= n /\ n < (d + 1) * One
  <2>1. (d + 1) * One = d * One + One
    OBVIOUS
  <2> QED BY <1>1, <2>1
<1> HIDE DEF n
<1>3. n \div One \in Int /\ 0 <= n \div One
  BY <1>2
<1>4. n \div One < d + 1
  <2> DEFINE q == n \div One
  <2>1. q \in Int /\ q * One <= n
    BY <1>2
  <2> HIDE DEF q
  <2>2. q >= d + 1 => One * q >= One * (d + 1)
    BY <2>1, Products
  <2>3. One * q = q * One /\ One * (d + 1) = (d + 1) * One
    BY <2>1
  <2> QED BY <1>2, <2>1, <2>2, <2>3 DEF q
<1> QED BY <1>3, <1>4 DEF n

LEMMA SmoothedIs ==
  ASSUME NEW s, Going(s), NEW gain \in 1..One
  PROVE  LET t == Smoothed(s, gain)
         IN  Going(t) /\ t.spec = s.spec /\ Btw(s.current, t.current, s.target)
<1> DEFINE kind == s.spec.kind
           d == Distance(s.target, s.current)
           step == (d * gain + One - 1) \div One
           x == IF ~Smooth(s) THEN s.target
                ELSE IF s.target > s.current THEN s.current + step ELSE s.current - step
           t == [s EXCEPT !.current = x]
<1>1. s \in ParamStates /\ Faithful(s) /\ kind \in Kinds /\ s.current \in Int /\ s.target \in Int
  BY DeclaredKinds DEF Going, ParamStates
<1>2. d \in Nat /\ (s.target > s.current => d = s.target - s.current)
              /\ (~(s.target > s.current) => d = s.current - s.target)
  BY <1>1 DEF Distance
<1>3. step \in 0..d
  BY <1>2, StepIs
<1>4. Smoothed(s, gain) = t
  BY DEF Smoothed
<1> HIDE DEF step, d
<1>5. x \in Int /\ Btw(s.current, x, s.target)
  BY <1>1, <1>2, <1>3 DEF Btw
<1>6. Discrete(kind) => x = s.target
  BY DEF Smooth
<1> HIDE DEF x
<1>7. x = Clamped(kind, x)
  <2>1. CASE Discrete(kind)
    BY <1>1, <1>6, <2>1 DEF Faithful
  <2>2. CASE ~Discrete(kind)
    BY <1>1, <1>5, <2>2, ClampedBetween DEF Faithful
  <2> QED BY <2>1, <2>2
<1>8. t \in ParamStates /\ t.spec = s.spec /\ t.current = x /\ t.target = s.target
      /\ t.from = s.from /\ t.to = s.to /\ t.alpha = s.alpha /\ t.blending = s.blending
  BY <1>1, <1>5 DEF ParamStates
<1>9. s.blending => Btw(s.from, x, s.target)
  <2>1. s.from \in Int
    BY <1>1 DEF ParamStates
  <2>2. s.blending => Btw(s.from, s.current, s.target)
    BY <1>1 DEF Faithful
  <2> QED BY <1>1, <1>5, <2>1, <2>2 DEF Btw
<1> HIDE DEF t
<1>10. Faithful(t)
  BY <1>1, <1>6, <1>7, <1>8, <1>9 DEF Faithful
<1> QED BY <1>4, <1>5, <1>8, <1>10 DEF Going

\* The modulation changes nothing else than the offset, the smoothing of
\* the patch nothing else than the smoothing.
LEMMA OffsetIs ==
  ASSUME NEW s, Going(s), NEW x \in Int
  PROVE  LET t == [s EXCEPT !.offset = x]
         IN  Going(t) /\ t.spec = s.spec /\ t.current = s.current /\ t.target = s.target
BY DEF Going, Faithful, ParamStates

LEMMA ForcedIs ==
  ASSUME NEW s, Going(s), NEW ms \in SUBSET Nat
  PROVE  LET t == [s EXCEPT !.forced = ms]
         IN  Going(t) /\ t.spec = s.spec /\ t.current = s.current /\ t.offset = s.offset
               /\ t.blending = s.blending
BY DEF Going, Faithful, ParamStates

LEMMA RespecifiedIs ==
  ASSUME NEW s, Going(s), NEW spec \in Declarations, spec.kind = s.spec.kind
  PROVE  LET t == [s EXCEPT !.spec = spec]
         IN  Going(t) /\ t.spec = spec /\ t.current = s.current /\ t.offset = s.offset
               /\ t.blending = s.blending
BY DEF Going, Faithful, ParamStates

----------------------------------------------------------------------------
(* The registry.                                                           *)

Registers(p) == p = [a \in DOMAIN p |-> p[a]] /\ \A a \in DOMAIN p : Going(p[a])

\* What an edit may not take from a parameter that stays.
Same(s, t) ==
  s.spec.kind = t.spec.kind =>
    t.current = s.current /\ t.offset = s.offset /\ t.blending = s.blending

LEMMA RebuiltIs ==
  ASSUME NEW p, Registers(p), NEW n \in DOMAIN Shows
  PROVE  LET r == Rebuilt(p, Shows[n])
             q == Patched(r, Shows[n])
         IN  /\ Registers(r) /\ \A a \in DOMAIN p \cap DOMAIN r : Same(p[a], r[a])
             /\ Registers(q) /\ \A a \in DOMAIN p \cap DOMAIN q : Same(p[a], q[a])
<1> DEFINE specs == Shows[n].specs
           addrs == {s.addr : s \in specs}
           keys == (DOMAIN p \cup addrs) \cap (addrs \cup Shows[n].kept)
           spec(a) == CHOOSE s \in specs : s.addr = a
           r == Rebuilt(p, Shows[n])
           q == Patched(r, Shows[n])
           of(a) == Registered(p, a, spec(a))[a]
<1>1. \A a \in addrs : spec(a) \in Declarations
  BY DEF Declarations
<1>2. /\ DOMAIN r = keys /\ r = [a \in DOMAIN r |-> r[a]]
      /\ \A a \in keys : r[a] = IF a \in addrs THEN of(a) ELSE p[a]
  <2> DEFINE all == Declared(p, specs)
  <2>1. /\ DOMAIN all = DOMAIN p \cup addrs
        /\ \A a \in DOMAIN all : all[a] = IF a \in addrs THEN of(a) ELSE p[a]
    BY DEF Declared
  <2> HIDE DEF all, addrs, of
  <2>2. r = [a \in DOMAIN all \ (DOMAIN all \ (addrs \cup Shows[n].kept)) |-> all[a]]
    BY DEF Rebuilt, Unregistered, Restrict, all, addrs
  <2>3. DOMAIN all \ (DOMAIN all \ (addrs \cup Shows[n].kept)) = keys
    BY <2>1
  <2> QED BY <2>1, <2>2, <2>3
<1>3. \A a \in addrs : of(a) = IF a \in DOMAIN p /\ p[a].spec.kind = spec(a).kind
                              THEN [p[a] EXCEPT !.spec = spec(a)] ELSE Fresh(spec(a))
  BY DEF Registered
<1> HIDE DEF r, of, spec, addrs, keys
<1>4. ASSUME NEW a \in keys
      PROVE  Going(r[a]) /\ (a \in DOMAIN p => Same(p[a], r[a]))
  <2>1. CASE a \in addrs /\ a \in DOMAIN p /\ p[a].spec.kind = spec(a).kind
    <3>1. r[a] = [p[a] EXCEPT !.spec = spec(a)] /\ Going(p[a])
      BY <1>2, <1>3, <2>1 DEF Registers
    <3> QED BY <1>1, <2>1, <3>1, RespecifiedIs DEF Same
  <2>2. CASE a \in addrs /\ ~(a \in DOMAIN p /\ p[a].spec.kind = spec(a).kind)
    <3>1. r[a] = Fresh(spec(a))
      BY <1>2, <1>3, <2>2
    <3> QED BY <1>1, <2>2, <3>1, FreshIs DEF Same
  <2>3. CASE a \notin addrs
    <3>1. a \in DOMAIN p
      BY <2>3 DEF keys
    <3> QED BY <1>2, <2>3, <3>1 DEF Registers, Same
  <2> QED BY <2>1, <2>2, <2>3
<1>5. ASSUME NEW a \in keys
      PROVE  q[a] = r[a] \/ \E ms \in SUBSET Nat : q[a] = [r[a] EXCEPT !.forced = ms]
  <2> DEFINE os == Shows[n].overrides
             o == CHOOSE z \in os : z.addr = a
  <2>1. \A z \in os : z.ms \in Nat
    BY ShowsAssumption DEF Declares, Overrides
  <2>2. CASE a \in {z.addr : z \in os}
    <3>1. o \in os
      BY <2>2
    <3>2. q[a] = Forced(r, a, {o.ms})[a]
      BY <1>2, <2>2 DEF Patched
    <3>3. q[a] = [r[a] EXCEPT !.forced = {o.ms}]
      BY <1>2, <3>2 DEF Forced
    <3> QED BY <2>1, <3>1, <3>3
  <2>3. CASE a \notin {z.addr : z \in os}
    BY <1>2, <2>3 DEF Patched
  <2> QED BY <2>2, <2>3
<1>6. DOMAIN q = keys /\ q = [a \in DOMAIN q |-> q[a]]
  BY <1>2 DEF Patched
<1> HIDE DEF q
<1>7. ASSUME NEW a \in keys
      PROVE  Going(q[a]) /\ (a \in DOMAIN p => Same(p[a], q[a]))
  <2>1. CASE q[a] = r[a]
    BY <1>4, <2>1
  <2>2. CASE \E ms \in SUBSET Nat : q[a] = [r[a] EXCEPT !.forced = ms]
    <3>1. PICK ms \in SUBSET Nat : q[a] = [r[a] EXCEPT !.forced = ms]
      BY <2>2
    <3>2. Going(q[a]) /\ q[a].spec = r[a].spec /\ q[a].current = r[a].current
          /\ q[a].offset = r[a].offset /\ q[a].blending = r[a].blending
      BY <1>4, <3>1, ForcedIs
    <3> QED BY <1>4, <3>2 DEF Same
  <2> QED BY <1>5, <2>1, <2>2
<1> QED BY <1>2, <1>4, <1>6, <1>7 DEF Registers, q, r

----------------------------------------------------------------------------
(* Folds.  A fold over a finite set is a function from its subsets; it     *)
(* exists because it does on the subsets of n elements at most, for each n.*)

LEMMA LeastNat ==
  ASSUME NEW S \in SUBSET Nat, S # {}
  PROVE  \E n \in S : \A m \in S : n <= m
<1> DEFINE R == OpToRel(<, Nat)
<1>1. \A x, y \in Nat : y < x => <<y, x>> \in R
  BY DEF OpToRel
<1>2. IsWellFoundedOn(R, Nat)
  BY NatLessThanWellFounded
<1> HIDE DEF R
<1>3. PICK x \in S : \A y \in S : ~(<<y, x>> \in R)
  BY <1>2, WFMin
<1>4. ASSUME NEW y \in S PROVE x <= y
  <2>1. ~(y < x)
    BY <1>1, <1>3
  <2> QED BY <2>1
<1> QED BY <1>4

\* h is the fold of G over W, on the subsets in D.
Unfolds(h, D, t, G, ch) ==
  \A S \in D : h[S] = IF S = {} THEN t ELSE G[<<ch[S], h[S \ {ch[S]}]>>]

LEMMA FoldExists ==
  ASSUME NEW W, IsFiniteSet(W), NEW C, NEW t \in C, NEW G \in [W \X C -> C],
         NEW ch, \A S \in (SUBSET W) \ {{}} : ch[S] \in S
  PROVE  \E h \in [SUBSET W -> C] : Unfolds(h, SUBSET W, t, G, ch)
<1> DEFINE Up(n) == {S \in SUBSET W : Cardinality(S) <= n}
           Ok(n) == \E h \in [Up(n) -> C] : Unfolds(h, Up(n), t, G, ch)
           Bad == {n \in Nat : ~Ok(n)}
<1>1. \A S \in SUBSET W : IsFiniteSet(S) /\ Cardinality(S) \in Nat
                         /\ (Cardinality(S) = 0 <=> S = {})
  BY FS_Subset, FS_CardinalityType, FS_EmptySet
<1>2. \A S \in SUBSET W : \A x \in S :
        S \ {x} \in SUBSET W /\ Cardinality(S \ {x}) = Cardinality(S) - 1
  BY <1>1, FS_RemoveElement
<1>3. Ok(0)
  <2>1. Up(0) = {{}}
    BY <1>1
  <2>2. [S \in Up(0) |-> t] \in [Up(0) -> C] /\ Unfolds([S \in Up(0) |-> t], Up(0), t, G, ch)
    BY <2>1 DEF Unfolds
  <2> QED BY <2>2
<1>4. ASSUME NEW n \in Nat, Ok(n) PROVE Ok(n + 1)
  <2>1. PICK h \in [Up(n) -> C] : Unfolds(h, Up(n), t, G, ch)
    BY <1>4
  <2> DEFINE less(S) == S \ {ch[S]}
             g == [S \in Up(n + 1) |-> IF S \in Up(n) THEN h[S] ELSE G[<<ch[S], h[less(S)]>>]]
  <2>2. \A S \in Up(n + 1) : S # {} => ch[S] \in W /\ less(S) \in Up(n)
    <3> SUFFICES ASSUME NEW S \in Up(n + 1), S # {} PROVE ch[S] \in W /\ less(S) \in Up(n)
      OBVIOUS
    <3>1. ch[S] \in S /\ S \in SUBSET W /\ Cardinality(S) <= n + 1 /\ Cardinality(S) \in Nat
      BY <1>1
    <3>2. less(S) \in SUBSET W /\ Cardinality(less(S)) = Cardinality(S) - 1
      BY <1>2, <3>1
    <3>3. Cardinality(less(S)) <= n
      BY <3>1, <3>2
    <3> QED BY <3>1, <3>2, <3>3
  <2>3. {} \in Up(n) /\ Up(n) \subseteq Up(n + 1)
    BY <1>1
  <2> HIDE DEF Up
  <2>4. \A S \in Up(n + 1) \ Up(n) : ch[S] \in W /\ less(S) \in Up(n) /\ h[less(S)] \in C
    BY <2>2, <2>3
  <2>5. \A S \in Up(n + 1) \ Up(n) : G[<<ch[S], h[less(S)]>>] \in C
    BY <2>4
  <2>6. g \in [Up(n + 1) -> C]
    BY <2>5
  <2>7. Unfolds(g, Up(n + 1), t, G, ch)
    <3> SUFFICES ASSUME NEW S \in Up(n + 1)
                 PROVE  g[S] = IF S = {} THEN t ELSE G[<<ch[S], g[S \ {ch[S]}]>>]
      BY DEF Unfolds
    <3>1. S # {} => less(S) \in Up(n) /\ g[less(S)] = h[less(S)]
      BY <2>2, <2>3
    <3>2. CASE S \in Up(n)
      <4>1. h[S] = IF S = {} THEN t ELSE G[<<ch[S], h[S \ {ch[S]}]>>]
        BY <2>1, <3>2 DEF Unfolds
      <4> QED BY <3>1, <3>2, <4>1
    <3>3. CASE S \notin Up(n)
      BY <2>3, <3>1, <3>3
    <3> QED BY <3>2, <3>3
  <2> QED BY <2>6, <2>7
<1>5. \A n \in Nat : Ok(n)
  <2> HIDE DEF Ok
  <2> SUFFICES ASSUME Bad # {} PROVE FALSE
    OBVIOUS
  <2>1. PICK n \in Bad : \A m \in Bad : n <= m
    BY LeastNat
  <2>2. n \in Nat /\ n # 0 /\ ~Ok(n)
    BY <1>3, <2>1
  <2>3. n - 1 \in Nat /\ ~(n <= n - 1) /\ (n - 1) + 1 = n
    BY <2>2
  <2>4. Ok(n - 1)
    BY <2>1, <2>3
  <2>5. Ok((n - 1) + 1)
    BY <1>4, <2>3, <2>4
  <2> QED BY <2>2, <2>3, <2>5
<1>6. Cardinality(W) \in Nat /\ Up(Cardinality(W)) = SUBSET W
  <2>1. \A S \in SUBSET W : Cardinality(S) <= Cardinality(W)
    BY FS_Subset
  <2> QED BY <1>1, <2>1
<1>7. Ok(Cardinality(W))
  BY <1>5, <1>6
<1> HIDE DEF Up
<1>8. PICK h \in [Up(Cardinality(W)) -> C] : Unfolds(h, Up(Cardinality(W)), t, G, ch)
  BY <1>7
<1> QED BY <1>6, <1>8

\* A set of subsets of a finite set that is not empty has a least one.
LEMMA LeastSubset ==
  ASSUME NEW W, IsFiniteSet(W), NEW B \in SUBSET SUBSET W, B # {}
  PROVE  \E S \in B : \A x \in S : S \ {x} \notin B
<1> DEFINE N == {Cardinality(S) : S \in B}
<1>1. \A S \in B : IsFiniteSet(S) /\ Cardinality(S) \in Nat
  BY FS_Subset, FS_CardinalityType
<1>2. N \in SUBSET Nat /\ N # {}
  BY <1>1
<1>3. PICK n \in N : \A m \in N : n <= m
  BY <1>2, LeastNat
<1>4. PICK S \in B : Cardinality(S) = n
  BY <1>3
<1>5. ASSUME NEW x \in S, S \ {x} \in B PROVE FALSE
  <2>1. Cardinality(S \ {x}) = Cardinality(S) - 1
    BY <1>1, <1>4, FS_RemoveElement
  <2>2. Cardinality(S \ {x}) \in N
    BY <1>5
  <2>3. n <= Cardinality(S \ {x}) /\ n \in Nat
    BY <1>2, <1>3, <2>2
  <2> QED BY <1>4, <2>1, <2>3
<1> QED BY <1>4, <1>5

\* What a fold keeps, step by step, its result has.
Closed(g, W, C, ch) ==
  /\ g[{}] \in C
  /\ \A S \in (SUBSET W) \ {{}} : ch[S] \in S /\ (g[S \ {ch[S]}] \in C => g[S] \in C)

LEMMA FoldKeeps ==
  ASSUME NEW W, IsFiniteSet(W), NEW C, NEW ch, NEW g, Closed(g, W, C, ch)
  PROVE  g[W] \in C
<1> USE DEF Closed
<1> DEFINE B == {S \in SUBSET W : g[S] \notin C}
<1> SUFFICES ASSUME B # {} PROVE FALSE
  OBVIOUS
<1>1. PICK S \in B : \A x \in S : S \ {x} \notin B
  BY LeastSubset
<1>2. S # {} /\ S \in SUBSET W
  OBVIOUS
<1>3. ch[S] \in S /\ S \ {ch[S]} \in SUBSET W
  BY <1>2
<1>4. g[S \ {ch[S]}] \in C
  BY <1>1, <1>3
<1> QED BY <1>2, <1>4

LEMMA MaxIsIn ==
  ASSUME NEW W \in SUBSET Nat, IsFiniteSet(W), W # {}
  PROVE  Max(W) \in W /\ \A y \in W : Max(W) >= y
<1> DEFINE Has(S) == \E x \in S : \A y \in S : x >= y
           B == {S \in SUBSET W : S # {} /\ ~Has(S)}
<1>1. Has(W)
  <2> SUFFICES ASSUME B # {} PROVE FALSE
    OBVIOUS
  <2>1. PICK S \in B : \A x \in S : S \ {x} \notin B
    BY LeastSubset
  <2>2. PICK x \in S : TRUE
    OBVIOUS
  <2>3. S \ {x} = {} \/ Has(S \ {x})
    BY <2>1
  <2>4. S \in SUBSET Nat
    OBVIOUS
  <2>5. CASE S \ {x} = {}
    <3>1. \A y \in S : y = x
      BY <2>5
    <3>2. Has(S)
      BY <2>4, <3>1
    <3> QED BY <3>2
  <2>6. CASE Has(S \ {x})
    <3>1. PICK y \in S \ {x} : \A z \in S \ {x} : y >= z
      BY <2>6
    <3>2. CASE x >= y
      <4>1. \A z \in S : x >= z
        BY <2>4, <3>1, <3>2
      <4> QED BY <4>1
    <3>3. CASE ~(x >= y)
      <4>1. \A z \in S : y >= z
        BY <2>4, <3>1, <3>3
      <4> QED BY <4>1
    <3> QED BY <3>2, <3>3
  <2> QED BY <2>3, <2>5, <2>6
<1> QED BY <1>1 DEF Max

----------------------------------------------------------------------------
(* The modulators.                                                         *)

ModStates == [phase : 0..(Cycle - 1), env : Int, agc : Int, value : Int]
Slot(m) == m = [cfg |-> m.cfg, state |-> m.state] /\ Modulating(m.cfg) /\ m.state \in ModStates
RouteSlot(r) ==
  /\ r = [route |-> r.route, depth |-> r.depth, enabled |-> r.enabled]
  /\ Routed(r.route) /\ r.depth \in Int /\ r.enabled \in BOOLEAN
Modulates(e) ==
  /\ e = [mods |-> e.mods, routes |-> e.routes]
  /\ e.mods = [m \in DOMAIN e.mods |-> e.mods[m]] /\ \A m \in DOMAIN e.mods : Slot(e.mods[m])
  /\ e.routes = [r \in DOMAIN e.routes |-> e.routes[r]] /\ \A r \in DOMAIN e.routes : RouteSlot(e.routes[r])
  /\ DOMAIN e.routes \in SUBSET Nat /\ IsFiniteSet(DOMAIN e.routes)

LEMMA Phases == \A x \in Int : x % Cycle \in 0..(Cycle - 1)
BY SurfacesAssumption

\* The tables of the waves hold what is read in them.
LEMMA WavesAre ==
  ASSUME NEW wave \in DOMAIN Mod!Wave, NEW phase \in 0..(Cycle - 1)
  PROVE  Mod!Wave[wave][1 + (phase * 4) \div Cycle] \in Int
<1>1. Cycle \in Nat \ {0} /\ One \in Nat
  BY SurfacesAssumption, OneAssumption
<1> DEFINE q == (phase * 4) \div Cycle
<1>2. q \in 0..3
  <2>1. phase * 4 \in Nat /\ phase * 4 < Cycle * 4
    BY <1>1
  <2>2. q \in Int /\ q >= 0 /\ Cycle * q <= phase * 4
    BY <1>1, <2>1
  <2> HIDE DEF q
  <2>3. q >= 4 => Cycle * q >= Cycle * 4
    BY <1>1, <2>2, Products
  <2>4. Cycle * q \in Int /\ Cycle * 4 \in Int
    BY <1>1, <2>2
  <2> QED BY <2>1, <2>2, <2>3, <2>4
<1> HIDE DEF q
<1>3. wave \in {"sine", "tri", "square", "saw"}
  BY DEF Mod!Wave
<1>4. 1 + q \in 1..4
  BY <1>2
<1>5. -(One \div 2) \in Int /\ One \div 2 \in Int /\ -One \in Int
  BY <1>1
<1> QED BY <1>1, <1>3, <1>4, <1>5 DEF Mod!Wave, q

LEMMA CarriedIs ==
  ASSUME NEW e, Modulates(e), NEW m, NEW cfg, Modulating(cfg)
  PROVE  LET st == Mod!Carried(e, m, cfg)
         IN  /\ st \in ModStates
             /\ m \in DOMAIN e.mods /\ e.mods[m].cfg.type = cfg.type => st.phase = e.mods[m].state.phase
<1>1. Mod!FreshState(cfg) \in ModStates
  <2>1. cfg.type = "lfo" => cfg.phase % Cycle \in 0..(Cycle - 1)
    BY Phases DEF Modulating
  <2>2. 0 \in 0..(Cycle - 1)
    BY SurfacesAssumption
  <2> QED BY <2>1, <2>2 DEF Mod!FreshState, ModStates
<1>2. CASE m \in DOMAIN e.mods /\ e.mods[m].cfg.type = cfg.type
  <2>1. e.mods[m].state \in ModStates
    BY <1>2 DEF Modulates, Slot
  <2>2. Mod!Carried(e, m, cfg) = [e.mods[m].state EXCEPT !.value = 0]
    BY <1>2 DEF Mod!Carried
  <2> QED BY <2>1, <2>2 DEF ModStates
<1>3. CASE ~(m \in DOMAIN e.mods /\ e.mods[m].cfg.type = cfg.type)
  BY <1>1, <1>3 DEF Mod!Carried
<1> QED BY <1>2, <1>3

\* An oscillator that stays keeps its phase.
LEMMA LoadedIs ==
  ASSUME NEW e, Modulates(e), NEW n \in DOMAIN Shows
  PROVE  LET l == Mod!Loaded(e, Shows[n].modulators, Shows[n].routes)
         IN  /\ Modulates(l)
             /\ \A m \in DOMAIN e.mods \cap DOMAIN l.mods :
                  e.mods[m].cfg.type = l.mods[m].cfg.type => l.mods[m].state.phase = e.mods[m].state.phase
<1> DEFINE cfgs == Shows[n].modulators
           routes == Shows[n].routes
           slot(m) == [cfg |-> cfgs[m], state |-> Mod!Carried(e, m, cfgs[m])]
           slots == [m \in DOMAIN cfgs |-> slot(m)]
           route(r) == [route |-> routes[r], depth |-> routes[r].depth, enabled |-> TRUE]
           table == [r \in DOMAIN routes |-> route(r)]
           l == Mod!Loaded(e, cfgs, routes)
<1>1. l = [mods |-> slots, routes |-> table]
  BY DEF Mod!Loaded
<1>2. Declares(Shows[n])
  BY ShowsAssumption
<1> HIDE DEF l
<1>3. ASSUME NEW m \in DOMAIN cfgs
      PROVE  /\ Slot(slots[m]) /\ slots[m].cfg = cfgs[m]
             /\ m \in DOMAIN e.mods /\ e.mods[m].cfg.type = cfgs[m].type
                  => slots[m].state.phase = e.mods[m].state.phase
  <2>1. Modulating(cfgs[m])
    BY <1>2 DEF Declares
  <2>2. /\ Mod!Carried(e, m, cfgs[m]) \in ModStates
        /\ m \in DOMAIN e.mods /\ e.mods[m].cfg.type = cfgs[m].type
             => Mod!Carried(e, m, cfgs[m]).phase = e.mods[m].state.phase
    BY <2>1, CarriedIs
  <2>3. slots[m] = slot(m)
    OBVIOUS
  <2> QED BY <2>1, <2>2, <2>3 DEF Slot
<1>4. ASSUME NEW r \in DOMAIN routes PROVE RouteSlot(table[r])
  <2>1. Routed(routes[r])
    BY <1>2 DEF Declares
  <2> QED BY <2>1 DEF RouteSlot, Routed
<1>5. DOMAIN routes \in SUBSET Nat /\ IsFiniteSet(DOMAIN routes)
  BY <1>2 DEF Declares
<1>6. DOMAIN slots = DOMAIN cfgs /\ DOMAIN table = DOMAIN routes /\ l.mods = slots /\ l.routes = table
  BY <1>1
<1> HIDE DEF slots, table
<1>7. Modulates(l)
  <2>1. slots = [m \in DOMAIN slots |-> slots[m]] /\ table = [r \in DOMAIN table |-> table[r]]
    BY DEF slots, table
  <2> QED BY <1>1, <1>3, <1>4, <1>5, <1>6, <2>1 DEF Modulates
<1>8. \A m \in DOMAIN e.mods \cap DOMAIN l.mods :
        e.mods[m].cfg.type = l.mods[m].cfg.type => l.mods[m].state.phase = e.mods[m].state.phase
  BY <1>3, <1>6
<1> QED BY <1>7, <1>8 DEF l

LEMMA RetriggeredIs ==
  ASSUME NEW e, Modulates(e)
  PROVE  Modulates(Mod!Retriggered(e))
<1> DEFINE again(m) == IF m.cfg.type = "lfo" THEN [m EXCEPT !.state.phase = m.cfg.phase % Cycle] ELSE m
           slots == [id \in DOMAIN e.mods |-> again(e.mods[id])]
<1>1. Mod!Retriggered(e) = [e EXCEPT !.mods = slots]
  BY DEF Mod!Retriggered
<1>2. ASSUME NEW id \in DOMAIN e.mods PROVE Slot(slots[id])
  <2> DEFINE m == e.mods[id]
             p == m.cfg.phase % Cycle
  <2>1. Slot(m) /\ slots[id] = again(m)
    BY DEF Modulates
  <2> HIDE DEF m
  <2>2. CASE m.cfg.type = "lfo"
    <3>1. p \in 0..(Cycle - 1)
      BY <2>1, <2>2, Phases DEF Slot, Modulating
    <3> HIDE DEF p
    <3>2. again(m) = [m EXCEPT !.state.phase = p]
      BY <2>2 DEF p
    <3>3. again(m) = [cfg |-> m.cfg, state |-> [m.state EXCEPT !.phase = p]]
      BY <2>1, <3>2 DEF Slot
    <3>4. [m.state EXCEPT !.phase = p] \in ModStates
      BY <2>1, <3>1 DEF Slot, ModStates
    <3> HIDE DEF again
    <3> QED BY <2>1, <3>3, <3>4 DEF Slot
  <2>3. CASE m.cfg.type # "lfo"
    BY <2>1, <2>3
  <2> QED BY <2>2, <2>3
<1>3. slots = [id \in DOMAIN slots |-> slots[id]] /\ DOMAIN slots = DOMAIN e.mods
  OBVIOUS
<1> HIDE DEF slots
<1> QED BY <1>1, <1>2, <1>3 DEF Modulates

\* The routes alone change.
LEMMA ReroutedIs ==
  ASSUME NEW e, Modulates(e), NEW t, t = [r \in DOMAIN e.routes |-> t[r]],
         \A r \in DOMAIN e.routes : RouteSlot(t[r])
  PROVE  Modulates([e EXCEPT !.routes = t]) /\ [e EXCEPT !.routes = t].mods = e.mods
<1>1. DOMAIN t = DOMAIN e.routes
  OBVIOUS
<1> QED BY <1>1 DEF Modulates

LEMMA RoutesAppliedIs ==
  ASSUME NEW e, Modulates(e), NEW states,
         \A r \in DOMAIN states : states[r].depth \in Int /\ states[r].enabled \in BOOLEAN
  PROVE  Modulates(Mod!RoutesApplied(e, states))
<1> DEFINE new(r) == IF r \in DOMAIN states
                     THEN [e.routes[r] EXCEPT !.depth = states[r].depth, !.enabled = states[r].enabled]
                     ELSE e.routes[r]
           t == [r \in DOMAIN e.routes |-> new(r)]
<1>1. Mod!RoutesApplied(e, states) = [e EXCEPT !.routes = t]
  BY DEF Mod!RoutesApplied
<1>2. \A r \in DOMAIN e.routes : RouteSlot(e.routes[r])
  BY DEF Modulates
<1>3. ASSUME NEW r \in DOMAIN e.routes PROVE RouteSlot(t[r])
  <2>1. CASE r \in DOMAIN states
    <3> DEFINE v == e.routes[r]
               x == states[r].depth
               on == states[r].enabled
    <3>1. t[r] = [v EXCEPT !.depth = x, !.enabled = on] /\ x \in Int /\ on \in BOOLEAN /\ RouteSlot(v)
      BY <1>2, <2>1
    <3> HIDE DEF t, v, x, on
    <3>2. t[r] = [route |-> v.route, depth |-> x, enabled |-> on]
      BY <3>1 DEF RouteSlot
    <3> QED BY <3>1, <3>2 DEF RouteSlot
  <2>2. CASE r \notin DOMAIN states
    BY <1>2, <2>2
  <2> QED BY <2>1, <2>2
<1>4. t = [r \in DOMAIN e.routes |-> t[r]]
  OBVIOUS
<1> HIDE DEF t
<1> QED BY <1>1, <1>3, <1>4, ReroutedIs

LEMMA DepthSetIs ==
  ASSUME NEW e, Modulates(e), NEW ids, NEW x \in Int
  PROVE  Modulates(Mod!DepthSet(e, ids, x)) /\ Mod!DepthSet(e, ids, x).mods = e.mods
<1> DEFINE new(r) == IF r \in ids THEN [e.routes[r] EXCEPT !.depth = x] ELSE e.routes[r]
           t == [r \in DOMAIN e.routes |-> new(r)]
<1>1. Mod!DepthSet(e, ids, x) = [e EXCEPT !.routes = t]
  BY DEF Mod!DepthSet
<1>2. \A r \in DOMAIN e.routes : RouteSlot(e.routes[r])
  BY DEF Modulates
<1>3. ASSUME NEW r \in DOMAIN e.routes PROVE RouteSlot(t[r])
  <2>1. CASE r \in ids
    <3> DEFINE v == e.routes[r]
    <3>1. t[r] = [v EXCEPT !.depth = x] /\ RouteSlot(v)
      BY <1>2, <2>1
    <3> HIDE DEF t, v
    <3>2. t[r] = [route |-> v.route, depth |-> x, enabled |-> v.enabled]
      BY <3>1 DEF RouteSlot
    <3> QED BY <3>1, <3>2 DEF RouteSlot
  <2>2. CASE r \notin ids
    BY <1>2, <2>2
  <2> QED BY <2>1, <2>2
<1>4. t = [r \in DOMAIN e.routes |-> t[r]]
  OBVIOUS
<1> HIDE DEF t
<1> QED BY <1>1, <1>3, <1>4, ReroutedIs

\* Without sound the bands are silent.
LEMMA SilenceKeeps ==
  ASSUME NEW low, NEW high
  PROVE  Mod!BandRaw(<<>>, low, high) = 0
<1> DEFINE Body(f) == [S \in SUBSET {} |-> IF S = {} THEN 0
                         ELSE f[S \ {CHOOSE x \in S : TRUE}] + <<>>[CHOOSE x \in S : TRUE]]
           g == CHOOSE f : f = Body(f)
           h == [S \in SUBSET {} |-> 0]
<1>1. DOMAIN <<>> \cap (low..high) = {}
  OBVIOUS
<1>2. h = Body(h)
  OBVIOUS
<1>3. g = Body(g)
  BY <1>2
<1>4. Mod!BandRaw(<<>>, low, high) = g[{}]
  BY <1>1 DEF Mod!BandRaw, Mod!FoldSet, Mod!MapThenFoldSet
<1>5. g[{}] = Body(g)[{}]
  BY <1>3
<1> QED BY <1>4, <1>5

LEMMA AdvancedIs ==
  ASSUME NEW m, Slot(m), NEW dt \in Nat, NEW bpm \in Nat
  PROVE  Slot(Mod!Advanced(m, dt, bpm, <<>>))
<1> DEFINE cfg == m.cfg
           phase == (m.state.phase + Mod!Freq(cfg, bpm) * dt) % Cycle
           raw == Mod!BandRaw(<<>>, cfg.low, cfg.high)
           agc == IF cfg.normalize THEN Mod!Agc(m.state.agc, raw, dt) ELSE m.state.agc
           level == IF cfg.normalize THEN Mod!Normalized(agc, raw) ELSE raw
           env == Mod!Followed(m.state.env, Mod!Loudness(cfg, level), cfg, dt)
           wave == Mod!Wave[cfg.wave][1 + (phase * 4) \div Cycle]
           st == m.state
           a == Mod!Advanced(m, dt, bpm, <<>>)
<1>1. /\ m = [cfg |-> cfg, state |-> st] /\ Modulating(cfg) /\ st \in ModStates
      /\ st = [phase |-> st.phase, env |-> st.env, agc |-> st.agc, value |-> st.value]
  BY DEF Slot, ModStates
<1>2. st.phase \in Int /\ st.env \in Int /\ st.agc \in Int /\ st.phase \in 0..(Cycle - 1)
  BY <1>1, SurfacesAssumption DEF ModStates
<1>3. CASE cfg.type = "lfo"
  <2>1. Mod!Freq(cfg, bpm) \in Int /\ cfg.wave \in DOMAIN Mod!Wave
    BY <1>1, <1>3 DEF Modulating, Mod!Freq
  <2> DEFINE x == st.phase + Mod!Freq(cfg, bpm) * dt
  <2>2. x \in Int
    BY <1>2, <2>1
  <2>3. phase = x % Cycle
    OBVIOUS
  <2> HIDE DEF x
  <2>4. phase \in 0..(Cycle - 1)
    BY <2>2, <2>3, Phases
  <2>5. a = [m EXCEPT !.state.phase = phase, !.state.value = wave]
    BY <1>3 DEF Mod!Advanced
  <2> HIDE DEF phase
  <2>6. wave \in Int
    BY <2>1, <2>4, WavesAre
  <2> HIDE DEF wave, a
  <2>7. a = [cfg |-> cfg, state |-> [st EXCEPT !.phase = phase, !.value = wave]]
    BY <1>1, <2>5
  <2>8. [st EXCEPT !.phase = phase, !.value = wave] \in ModStates
    BY <1>1, <2>4, <2>6 DEF ModStates
  <2> QED BY <1>1, <2>7, <2>8 DEF Slot, a
<1>4. CASE cfg.type = "band"
  <2>1. raw = 0
    BY SilenceKeeps
  <2>2. /\ cfg.floor \in Int /\ cfg.gain \in Int /\ cfg.attack \in Int /\ cfg.release \in Int
        /\ cfg.normalize \in BOOLEAN
    BY <1>1, <1>4 DEF Modulating
  <2> HIDE DEF raw
  <2>3. agc \in Int
    <3>1. (st.agc * dt) \in Int
      BY <1>2
    <3> QED BY <1>2, <2>1, <3>1 DEF Mod!Agc, Mod!AgcTau
  <2> HIDE DEF agc
  <2>4. level \in Int
    <3>1. Mod!Normalized(agc, raw) = IF agc <= 0 THEN 0 ELSE (raw * One) \div agc
      BY DEF Mod!Normalized, Mod!AgcSilence
    <3>2. raw * One = 0
      BY <2>1, OneAssumption
    <3>3. agc > 0 => 0 \div agc \in Int
      BY <2>3
    <3> QED BY <2>1, <2>3, <3>1, <3>2, <3>3
  <2> HIDE DEF level
  <2> DEFINE target == Mod!Loudness(cfg, level)
  <2>5. target \in Int
    <3>1. (level - cfg.floor) * cfg.gain \in Int
      BY <2>2, <2>4
    <3> QED BY <2>2, <2>4, <3>1, OneAssumption DEF Mod!Loudness
  <2> HIDE DEF target
  <2>6. env \in Int
    <3> DEFINE gain == IF target > st.env THEN cfg.attack ELSE cfg.release
               z == (target - st.env) * gain
    <3>1. gain \in Int
      BY <2>2
    <3> HIDE DEF gain
    <3>2. z \in Int
      BY <1>2, <2>5, <3>1
    <3>3. env = IF dt = 0 /\ gain < One THEN st.env ELSE st.env + z \div One
      BY DEF Mod!Followed, gain, target
    <3> HIDE DEF z, env
    <3>4. z \div One \in Int
      BY <3>2, OneAssumption
    <3> QED BY <1>2, <3>3, <3>4
  <2> HIDE DEF env
  <2>7. a = [m EXCEPT !.state.agc = agc, !.state.env = env, !.state.value = env]
    BY <1>4 DEF Mod!Advanced, env, agc, level, target, raw
  <2> HIDE DEF a
  <2>8. a = [cfg |-> cfg, state |-> [st EXCEPT !.agc = agc, !.env = env, !.value = env]]
    BY <1>1, <2>7
  <2>9. [st EXCEPT !.agc = agc, !.env = env, !.value = env] \in ModStates
    BY <1>1, <2>3, <2>6 DEF ModStates
  <2> QED BY <1>1, <2>8, <2>9 DEF Slot, a
<1>5. CASE cfg.type = "timecode"
  <2>1. a = [m EXCEPT !.state.value = 0]
    BY <1>5 DEF Mod!Advanced
  <2> HIDE DEF a
  <2>2. a = [cfg |-> cfg, state |-> [st EXCEPT !.value = 0]]
    BY <1>1, <2>1
  <2>3. [st EXCEPT !.value = 0] \in ModStates
    BY <1>1 DEF ModStates
  <2> QED BY <1>1, <2>2, <2>3 DEF Slot, a
<1> QED BY <1>1, <1>3, <1>4, <1>5 DEF Modulating

LEMMA EvaluatedIs ==
  ASSUME NEW e, Modulates(e), NEW dt \in Nat, NEW bpm \in Nat
  PROVE  Modulates(Mod!Evaluated(e, dt, bpm, <<>>))
<1> DEFINE slots == [id \in DOMAIN e.mods |-> Mod!Advanced(e.mods[id], dt, bpm, <<>>)]
<1>1. Mod!Evaluated(e, dt, bpm, <<>>) = [e EXCEPT !.mods = slots]
  BY DEF Mod!Evaluated
<1>2. ASSUME NEW id \in DOMAIN e.mods PROVE Slot(slots[id])
  <2>1. Slot(e.mods[id])
    BY DEF Modulates
  <2> QED BY <2>1, AdvancedIs
<1>3. slots = [id \in DOMAIN slots |-> slots[id]] /\ DOMAIN slots = DOMAIN e.mods
  OBVIOUS
<1> HIDE DEF slots
<1> QED BY <1>1, <1>2, <1>3 DEF Modulates

LEMMA AggregatedIs ==
  ASSUME NEW x \in Int, NEW signal \in Int, NEW depth \in Int, NEW mode \in {"add", "mul", "replace"}
  PROVE  Mod!Aggregated(x, signal, depth, mode) \in Int
<1>1. One \in Nat \ {0}
  BY OneAssumption
<1>2. (signal * depth) \in Int
  OBVIOUS
<1> DEFINE q == (signal * depth) \div One
<1>3. q \in Int
  BY <1>1, <1>2
<1>4. (x * (One - depth + q)) \div One \in Int
  <2> HIDE DEF q
  <2> DEFINE p == x * (One - depth + q)
  <2>1. p \in Int
    BY <1>1, <1>3
  <2> HIDE DEF p
  <2>2. p \div One \in Int
    BY <1>1, <2>1
  <2> QED BY <2>2 DEF p
<1> QED BY <1>3, <1>4 DEF Mod!Aggregated

\* The offsets of the modulation are numbers, in whatever order the routes of
\* an address are taken.
LEMMA OffsetsAre ==
  ASSUME NEW e, Modulates(e), NEW a \in DOMAIN Mod!Offsets(e)
  PROVE  Mod!Offsets(e)[a] \in Int
<1> DEFINE W == {r \in Mod!Live(e) : e.routes[r].route.target = a}
           Add(r, acc) == Mod!Aggregated(acc, e.mods[e.routes[r].route.source].state.value,
                                         e.routes[r].depth, e.routes[r].route.mode)
           Body(f) == [S \in SUBSET W |-> IF S = {} THEN 0
                         ELSE Add(Max(S), f[S \ {Max(S)}])]
           g == CHOOSE f : f = Body(f)
           G == [z \in W \X Int |-> Add(z[1], z[2])]
           ch == [S \in SUBSET W |-> Max(S)]
<1>1. W \in SUBSET Nat /\ IsFiniteSet(W)
  <2>1. W \in SUBSET DOMAIN e.routes
    BY DEF Mod!Live
  <2> HIDE DEF W
  <2> QED BY <2>1, FS_Subset DEF Modulates
<1>2. Mod!Offsets(e)[a] = g[W]
  <2>1. a \in {e.routes[r].route.target : r \in Mod!Live(e)}
    BY DEF Mod!Offsets
  <2> QED BY <2>1 DEF Mod!Offsets, Mod!MapThenFoldSet, Mod!Max, Max
<1>3. ASSUME NEW r \in W, NEW x \in Int PROVE Add(r, x) \in Int
  <2>1. r \in DOMAIN e.routes /\ e.routes[r].route.source \in DOMAIN e.mods
    BY DEF Mod!Live
  <2>2. RouteSlot(e.routes[r]) /\ Slot(e.mods[e.routes[r].route.source])
    BY <2>1 DEF Modulates
  <2> QED BY <2>2, AggregatedIs DEF RouteSlot, Routed, Slot, ModStates
<1>4. \A S \in (SUBSET W) \ {{}} : ch[S] \in S /\ ch[S] = Max(S)
  <2> HIDE DEF W
  <2> SUFFICES ASSUME NEW S \in (SUBSET W) \ {{}} PROVE Max(S) \in S
    OBVIOUS
  <2>1. S \in SUBSET Nat /\ IsFiniteSet(S) /\ S # {}
    BY <1>1, FS_Subset
  <2> QED BY <2>1, MaxIsIn
<1>5. G \in [W \X Int -> Int] /\ \A r \in W, x \in Int : G[<<r, x>>] = Add(r, x)
  BY <1>3
<1> HIDE DEF W, Add, G, ch
<1>6. PICK h \in [SUBSET W -> Int] : Unfolds(h, SUBSET W, 0, G, ch)
  <2> DEFINE C == Int
             t == 0
  <2>1. t \in C /\ G \in [W \X C -> C] /\ IsFiniteSet(W) /\ \A S \in (SUBSET W) \ {{}} : ch[S] \in S
    BY <1>1, <1>4, <1>5
  <2> HIDE DEF C, t
  <2>2. \E h \in [SUBSET W -> C] : Unfolds(h, SUBSET W, t, G, ch)
    BY <2>1, FoldExists
  <2> QED BY <2>2 DEF C, t
<1>7. h = Body(h)
  <2>1. ASSUME NEW S \in SUBSET W PROVE h[S] = Body(h)[S]
    <3>1. CASE S = {}
      BY <1>6, <3>1 DEF Unfolds
    <3>2. CASE S # {}
      <4>1. ch[S] = Max(S) /\ ch[S] \in S /\ Max(S) \in W /\ S \ {Max(S)} \in SUBSET W
        BY <1>4, <3>2
      <4>2. h[S] = G[<<Max(S), h[S \ {Max(S)}]>>] /\ h[S \ {Max(S)}] \in Int
        BY <1>6, <3>2, <4>1 DEF Unfolds
      <4> QED BY <1>5, <3>2, <4>1, <4>2
    <3> QED BY <3>1, <3>2
  <2> QED BY <2>1
<1>8. g = Body(g)
  BY <1>7
<1> HIDE DEF g
<1>9. g[{}] = 0
  <2>1. g[{}] = Body(g)[{}]
    BY <1>8
  <2> QED BY <2>1
<1>10. ASSUME NEW S \in (SUBSET W) \ {{}}, g[S \ {ch[S]}] \in Int PROVE g[S] \in Int
  <2>1. g[S] = Body(g)[S]
    BY <1>8
  <2>2. g[S] = Add(Max(S), g[S \ {Max(S)}]) /\ Max(S) \in W /\ ch[S] = Max(S)
    BY <1>4, <2>1
  <2> QED BY <1>3, <1>10, <2>2
<1>11. g[W] \in Int
  <2> DEFINE C == Int
  <2>1. Closed(g, W, C, ch)
    BY <1>4, <1>9, <1>10 DEF Closed
  <2> HIDE DEF C
  <2>2. g[W] \in C
    BY <1>1, <2>1, FoldKeeps
  <2> QED BY <2>2 DEF C
<1> QED BY <1>2, <1>11

----------------------------------------------------------------------------
(* The session: the parameters, the modulators and the fade.               *)

Cues == UNION {Shows[s].cues : s \in DOMAIN Shows}
Goals == UNION {[D -> Values] : D \in SUBSET UNION {DOMAIN c.params : c \in Cues}}
RouteStates(t) == \A r \in DOMAIN t : t[r].depth \in Int /\ t[r].enabled \in BOOLEAN
Running(r) ==
  /\ r = [goal |-> r.goal, alpha |-> r.alpha, routes |-> r.routes]
  /\ r.goal \in Goals /\ r.alpha \in 0..One /\ RouteStates(r.routes)
Fading(f) ==
  /\ f.finished \in Goals
  /\ \A r \in f.running : Running(r)
  /\ \A r, q \in f.running : r = q
Fades(f) ==
  /\ f = [finished |-> f.finished, running |-> f.running, started |-> f.started, before |-> f.before]
  /\ f.before = [finished |-> f.before.finished, running |-> f.before.running]
  /\ Fading(f) /\ Fading(f.before)
  /\ f.started \in BOOLEAN
  /\ f.started => f.running # {}

Plays == show \in DOMAIN Shows /\ Registers(params) /\ Modulates(mods) /\ Fades(fade)

LEMMA CuesCarry ==
  ASSUME NEW c \in Cues
  PROVE  c.params \in Goals /\ RouteStates(c.routes)
<1>1. Carries(c)
  BY ShowsAssumption DEF Cues, Declares
<1>2. DOMAIN c.params \in SUBSET UNION {DOMAIN d.params : d \in Cues}
  OBVIOUS
<1>3. c.params \in [DOMAIN c.params -> Values]
  BY <1>1 DEF Carries
<1> QED BY <1>1, <1>2, <1>3 DEF Carries, RouteStates, Goals

LEMMA GoalsAre ==
  ASSUME NEW g \in Goals
  PROVE  g = [a \in DOMAIN g |-> g[a]] /\ \A a \in DOMAIN g : g[a] \in Values
BY DEF Goals

LEMMA GoalsJoin ==
  ASSUME NEW f \in Goals, NEW g \in Goals
  PROVE  Joined(f, g) \in Goals
<1> DEFINE All == UNION {DOMAIN c.params : c \in Cues}
           D == DOMAIN f \cup DOMAIN g
           h == [a \in D |-> IF a \in DOMAIN f THEN f[a] ELSE g[a]]
<1>1. DOMAIN f \in SUBSET All /\ DOMAIN g \in SUBSET All
  BY DEF Goals
<1>2. D \in SUBSET All
  BY <1>1
<1>3. h \in [D -> Values]
  BY GoalsAre
<1>4. Joined(f, g) = h
  BY DEF Joined
<1> HIDE DEF h, D
<1>5. Joined(f, g) \in [D -> Values]
  BY <1>3, <1>4
<1> QED BY <1>2, <1>5 DEF Goals, All

\* There is one fade at most, and its end has the last word.
LEMMA OverIs ==
  ASSUME NEW fd, Fading(fd)
  PROVE  /\ Over(fd) \in Goals /\ DOMAIN fd.finished \subseteq DOMAIN Over(fd)
         /\ \A r \in fd.running : \A a \in DOMAIN r.goal :
              a \in DOMAIN Over(fd) /\ Over(fd)[a] = r.goal[a]
<1> DEFINE W == fd.running
           ch(S) == CHOOSE x \in S : TRUE
           Body(f) == [S \in SUBSET W |-> IF S = {} THEN fd.finished
                         ELSE Joined(ch(S).goal, f[S \ {ch(S)}])]
           g == CHOOSE f : f = Body(f)
           h == [S \in SUBSET W |-> IF S = {} THEN fd.finished
                         ELSE Joined(ch(S).goal, fd.finished)]
<1>1. Over(fd) = g[W]
  BY DEF Over, FoldSet, MapThenFoldSet
<1>2. \A S \in SUBSET W : S # {} => ch(S) \in S /\ S \ {ch(S)} = {}
  BY DEF Fading
<1>3. h = Body(h)
  <2>1. ASSUME NEW S \in SUBSET W PROVE h[S] = Body(h)[S]
    <3>1. CASE S = {}
      BY <3>1
    <3>2. CASE S # {}
      <4>1. S \ {ch(S)} = {}
        BY <1>2, <3>2
      <4> HIDE DEF ch
      <4>2. h[{}] = fd.finished
        OBVIOUS
      <4> QED BY <3>2, <4>1, <4>2
    <3> QED BY <3>1, <3>2
  <2> QED BY <2>1
<1>4. g = Body(g)
  BY <1>3
<1> HIDE DEF g
<1>5. g[{}] = fd.finished
  <2>1. g[{}] = Body(g)[{}]
    BY <1>4
  <2> QED BY <2>1
<1>6. CASE W = {}
  BY <1>1, <1>5, <1>6 DEF Fading
<1>7. CASE W # {}
  <2>1. g[W] = Body(g)[W]
    BY <1>4
  <2>2. ch(W) \in W /\ W \ {ch(W)} = {} /\ \A r \in W : r = ch(W)
    BY <1>2, <1>7 DEF Fading
  <2>3. ch(W).goal \in Goals /\ fd.finished \in Goals
    BY <2>2 DEF Fading, Running
  <2> HIDE DEF ch, W
  <2>4. g[W] = Joined(ch(W).goal, fd.finished)
    BY <1>5, <1>7, <2>1, <2>2
  <2>5. g[W] \in Goals
    BY <2>3, <2>4, GoalsJoin
  <2>6. /\ DOMAIN fd.finished \subseteq DOMAIN g[W]
        /\ \A a \in DOMAIN ch(W).goal : a \in DOMAIN g[W] /\ g[W][a] = ch(W).goal[a]
    BY <2>4 DEF Joined
  <2>7. \A r \in W : \A a \in DOMAIN r.goal : a \in DOMAIN g[W] /\ g[W][a] = r.goal[a]
    BY <2>2, <2>6
  <2> QED BY <1>1, <2>5, <2>6, <2>7 DEF W
<1> QED BY <1>6, <1>7

LEMMA GoIs ==
  ASSUME Fades(fade), NEW c \in Cues, Go(c)
  PROVE  Fades(fade')
<1> DEFINE r == [goal |-> c.params, alpha |-> 0, routes |-> c.routes]
           done == Over(fade)
<1>1. Running(r)
  BY CuesCarry, OneAssumption DEF Running
<1>2. done \in Goals
  BY OverIs DEF Fades
<1>3. fade' = [fade EXCEPT !.finished = done, !.running = {r}, !.started = TRUE]
  BY DEF Go
<1> HIDE DEF r, done
<1>4. fade' = [finished |-> done, running |-> {r}, started |-> TRUE, before |-> fade.before]
  BY <1>3 DEF Fades
<1> QED BY <1>1, <1>2, <1>4 DEF Fades, Fading

LEMMA NoGoal == <<>> \in Goals
<1>1. <<>> \in [{} -> Values]
  OBVIOUS
<1> QED BY <1>1 DEF Goals

LEMMA NoFadeIs == Fades(NoFade)
BY NoGoal DEF Fades, Fading, NoFade, Idle

\* An edit of the cues ends the fade, with what it asked for.
LEMMA CutShortIs ==
  ASSUME Fades(fade)
  PROVE  /\ Fades(CutShort)
         /\ DOMAIN fade.before.finished \subseteq DOMAIN CutShort.finished
         /\ \A r \in fade.before.running : \A a \in DOMAIN r.goal :
              a \in DOMAIN CutShort.finished /\ CutShort.finished[a] = r.goal[a]
<1> DEFINE done == Over(fade.before)
           end == [finished |-> done, running |-> {}]
<1>1. /\ done \in Goals /\ DOMAIN fade.before.finished \subseteq DOMAIN done
      /\ \A r \in fade.before.running : \A a \in DOMAIN r.goal :
           a \in DOMAIN done /\ done[a] = r.goal[a]
  BY OverIs DEF Fades
<1> HIDE DEF done
<1>2. CutShort = [finished |-> done, running |-> {}, started |-> FALSE, before |-> end]
  <2>1. [Idle EXCEPT !.finished = done] = end
    BY DEF Idle
  <2> QED BY <2>1 DEF CutShort, done
<1> QED BY <1>1, <1>2 DEF Fades, Fading

\* The goals a frame may blend the parameters towards.
LEMMA PlayedIs ==
  ASSUME Fades(fade), NEW alpha \in 1..One, NEW f \in Played(alpha)
  PROVE  /\ f.goal \in Goals /\ f.alpha \in 1..One
         /\ \A g \in Played(One) : g.goal = f.goal
<1> One \in 1..One
  BY OneAssumption
<1>1. CASE fade.finished # <<>>
  BY <1>1 DEF Played, Fades, Fading
<1>2. CASE fade.finished = <<>>
  <2>1. PICK r \in fade.running : f = [goal |-> r.goal, alpha |-> alpha]
    BY <1>2 DEF Played
  <2>2. \A g \in Played(One) : \E q \in fade.running : g.goal = q.goal
    BY <1>2 DEF Played
  <2> QED BY <2>1, <2>2 DEF Fades, Fading, Running
<1> QED BY <1>1, <1>2

\* What a frame does to the parameters: each goes towards where the cue
\* leads it.
LEMMA BlendedTowardIs ==
  ASSUME NEW p, Registers(p), NEW goal \in Goals, NEW alpha \in 1..One
  PROVE  LET q == BlendedToward(p, goal, alpha)
         IN  /\ Registers(q) /\ DOMAIN q = DOMAIN p
             /\ \A a \in DOMAIN p : q[a].spec = p[a].spec
             /\ \A a \in DOMAIN p \cap DOMAIN goal : \A to \in Converted(p[a].spec.kind, goal[a]) :
                  Btw(p[a].current, q[a].target, to) /\ q[a].current \in {p[a].current, q[a].target}
<1> DEFINE q == BlendedToward(p, goal, alpha)
<1>1. DOMAIN q = DOMAIN p /\ q = [a \in DOMAIN q |-> q[a]]
  BY DEF BlendedToward
<1>2. \A a \in DOMAIN p : q[a] = IF a \in DOMAIN goal THEN Blended(p[a], goal[a], alpha) ELSE p[a]
  BY DEF BlendedToward
<1> HIDE DEF q
<1>3. ASSUME NEW a \in DOMAIN p
      PROVE  /\ Going(q[a]) /\ q[a].spec = p[a].spec
             /\ a \in DOMAIN goal => \A to \in Converted(p[a].spec.kind, goal[a]) :
                  Btw(p[a].current, q[a].target, to) /\ q[a].current \in {p[a].current, q[a].target}
  <2>1. Going(p[a])
    BY DEF Registers
  <2>2. CASE a \in DOMAIN goal
    <3> DEFINE s == p[a]
               v == goal[a]
    <3>1. v \in Values /\ q[a] = Blended(s, v, alpha)
      BY <1>2, <2>2, GoalsAre
    <3>2. Going(s) /\ s = p[a] /\ v = goal[a]
      BY <2>1
    <3> HIDE DEF s, v
    <3>3. LET z == Blended(s, v, alpha)
          IN  /\ Going(z) /\ z.spec = s.spec
              /\ \A to \in Converted(s.spec.kind, v) :
                   Btw(s.current, z.target, to) /\ z.current \in {s.current, z.target}
      BY <3>1, <3>2, BlendedIs
    <3> QED BY <3>1, <3>2, <3>3
  <2>3. CASE a \notin DOMAIN goal
    BY <1>2, <2>1, <2>3
  <2> QED BY <2>2, <2>3
<1> QED BY <1>1, <1>3 DEF Registers, q

LEMMA TickedIs ==
  ASSUME NEW p, Registers(p), NEW offsets, \A a \in DOMAIN offsets : offsets[a] \in Int,
         NEW gain \in 1..One
  PROVE  LET q == Ticked(Modulated(p, offsets), gain)
         IN  /\ Registers(q) /\ DOMAIN q = DOMAIN p
             /\ \A a \in DOMAIN p : q[a].spec = p[a].spec /\ Btw(p[a].current, q[a].current, p[a].target)
<1> DEFINE m == Modulated(p, offsets)
           q == Ticked(m, gain)
           x(a) == IF a \in DOMAIN offsets /\ ~Discrete(p[a].spec.kind) THEN offsets[a] ELSE 0
<1>1. DOMAIN m = DOMAIN p /\ \A a \in DOMAIN p : m[a] = [p[a] EXCEPT !.offset = x(a)]
  BY DEF Modulated
<1>2. \A a \in DOMAIN p : x(a) \in Int
  OBVIOUS
<1> HIDE DEF m, x
<1>3. DOMAIN q = DOMAIN p /\ q = [a \in DOMAIN q |-> q[a]] /\ \A a \in DOMAIN p : q[a] = Smoothed(m[a], gain)
  BY <1>1 DEF Ticked
<1> HIDE DEF q
<1>4. ASSUME NEW a \in DOMAIN p
      PROVE  Going(q[a]) /\ q[a].spec = p[a].spec /\ Btw(p[a].current, q[a].current, p[a].target)
  <2>1. Going(p[a])
    BY DEF Registers
  <2>2. Going(m[a]) /\ m[a].spec = p[a].spec /\ m[a].current = p[a].current /\ m[a].target = p[a].target
    <3> DEFINE s == p[a]
               y == x(a)
    <3>1. m[a] = [s EXCEPT !.offset = y] /\ y \in Int /\ Going(s) /\ s = p[a]
      BY <1>1, <1>2, <2>1
    <3> HIDE DEF s, y
    <3>2. /\ Going([s EXCEPT !.offset = y]) /\ [s EXCEPT !.offset = y].spec = s.spec
          /\ [s EXCEPT !.offset = y].current = s.current /\ [s EXCEPT !.offset = y].target = s.target
      BY <3>1, OffsetIs DEF Going, ParamStates
    <3> QED BY <3>1, <3>2
  <2> QED BY <1>3, <2>2, SmoothedIs
<1> QED BY <1>3, <1>4 DEF Registers, q, m

\* No frame takes a parameter further from its goal.
Forward ==
  /\ DOMAIN params' = DOMAIN params
  /\ \A a \in DOMAIN params : \A f \in Played(One) : a \in DOMAIN f.goal =>
       \A goal \in Converted(params[a].spec.kind, f.goal[a]) :
         Btw(params[a].current, params'[a].current, goal)

LEMMA FrameIs ==
  ASSUME Plays, NEW alpha \in Alphas, NEW gain \in Gains, Frame(alpha, gain, 1)
  PROVE  Plays' /\ Forward
<1> DEFINE again == Mod!Retriggered(mods)
           m == IF fade.started THEN Mod!RoutesApplied(again, (CHOOSE r \in fade.running : TRUE).routes) ELSE mods
           n == Mod!Evaluated(m, 1, 1, <<>>)
           left == IF fade.finished # <<>> THEN fade.running
                   ELSE {[r EXCEPT !.alpha = alpha] : r \in {q \in fade.running : alpha < One}}
           f == CHOOSE z \in Played(alpha) : TRUE
           b == IF Played(alpha) = {} THEN params ELSE BlendedToward(params, f.goal, f.alpha)
<1>1. /\ mods' = n /\ params' = Ticked(Modulated(b, Mod!Offsets(n)), gain) /\ show' = show
      /\ fade' = [finished |-> <<>>, running |-> left, started |-> FALSE,
                  before |-> [finished |-> <<>>, running |-> left]]
  BY DEF Frame, NoFade, Idle
<1>2. alpha \in 1..One /\ gain \in 1..One /\ 1 \in Nat
  BY SurfacesAssumption, OneAssumption
<1>3. Modulates(mods) /\ Registers(params) /\ Fades(fade) /\ show \in DOMAIN Shows
  BY DEF Plays
<1>4. Modulates(m)
  <2>1. CASE fade.started
    <3>1. (CHOOSE r \in fade.running : TRUE) \in fade.running
      BY <1>3, <2>1 DEF Fades
    <3>2. RouteStates((CHOOSE r \in fade.running : TRUE).routes)
      BY <1>3, <3>1 DEF Fades, Fading, Running
    <3>3. Modulates(again)
      BY <1>3, RetriggeredIs
    <3> HIDE DEF again
    <3> QED BY <2>1, <3>2, <3>3, RoutesAppliedIs DEF RouteStates
  <2>2. CASE ~fade.started
    BY <1>3, <2>2
  <2> QED BY <2>1, <2>2
<1> HIDE DEF m
<1>5. Modulates(n)
  BY <1>2, <1>4, EvaluatedIs
<1> HIDE DEF n
<1>6. \A a \in DOMAIN Mod!Offsets(n) : Mod!Offsets(n)[a] \in Int
  BY <1>5, OffsetsAre
<1>7. /\ Registers(b) /\ DOMAIN b = DOMAIN params /\ \A a \in DOMAIN params : b[a].spec = params[a].spec
      /\ \A a \in DOMAIN params : \A g \in Played(One) : a \in DOMAIN g.goal =>
           \A to \in Converted(params[a].spec.kind, g.goal[a]) :
             Btw(params[a].current, b[a].target, to) /\ b[a].current \in {params[a].current, b[a].target}
  <2>1. CASE Played(alpha) = {}
    <3>1. Played(One) = {}
      BY <2>1 DEF Played
    <3> QED BY <1>3, <2>1, <3>1
  <2>2. CASE Played(alpha) # {}
    <3>1. f \in Played(alpha)
      BY <2>2
    <3> HIDE DEF f
    <3>2. f.goal \in Goals /\ f.alpha \in 1..One /\ \A g \in Played(One) : g.goal = f.goal
      BY <1>2, <1>3, <3>1, PlayedIs
    <3>3. b = BlendedToward(params, f.goal, f.alpha)
      BY <2>2 DEF f
    <3> HIDE DEF b
    <3> DEFINE goal == f.goal
               by == f.alpha
    <3>4. goal \in Goals /\ by \in 1..One /\ b = BlendedToward(params, goal, by)
      BY <3>2, <3>3
    <3> HIDE DEF goal, by
    <3>5. /\ Registers(b) /\ DOMAIN b = DOMAIN params /\ \A a \in DOMAIN params : b[a].spec = params[a].spec
          /\ \A a \in DOMAIN params \cap DOMAIN goal : \A to \in Converted(params[a].spec.kind, goal[a]) :
               Btw(params[a].current, b[a].target, to) /\ b[a].current \in {params[a].current, b[a].target}
      BY <1>3, <3>4, BlendedTowardIs
    <3> QED BY <3>2, <3>5 DEF goal
  <2> QED BY <2>1, <2>2
<1> HIDE DEF b
<1>8. /\ Registers(params') /\ DOMAIN params' = DOMAIN b
      /\ \A a \in DOMAIN b : params'[a].spec = b[a].spec /\ Btw(b[a].current, params'[a].current, b[a].target)
  <2> DEFINE o == Mod!Offsets(n)
  <2>1. \A a \in DOMAIN o : o[a] \in Int
    BY <1>6
  <2>2. params' = Ticked(Modulated(b, o), gain)
    BY <1>1
  <2> HIDE DEF o
  <2> QED BY <1>2, <1>7, <2>1, <2>2, TickedIs
<1>9. Forward
  <2> SUFFICES ASSUME NEW a \in DOMAIN params, NEW g \in Played(One), a \in DOMAIN g.goal,
                      NEW to \in Converted(params[a].spec.kind, g.goal[a])
               PROVE  Btw(params[a].current, params'[a].current, to)
    BY <1>7, <1>8 DEF Forward
  <2>1. Btw(params[a].current, b[a].target, to) /\ b[a].current \in {params[a].current, b[a].target}
    BY <1>7
  <2>2. Btw(b[a].current, params'[a].current, b[a].target)
    BY <1>7, <1>8
  <2>3. Going(params[a]) /\ Going(b[a]) /\ Going(params'[a])
    BY <1>3, <1>7, <1>8 DEF Registers
  <2>4. params[a].current \in Int /\ params'[a].current \in Int /\ b[a].target \in Int
    BY <2>3 DEF Going, ParamStates
  <2>5. to \in Int
    <3>1. params[a].spec.kind \in Kinds
      BY <2>3, DeclaredKinds DEF Going, ParamStates
    <3>2. g.goal[a] \in Values /\ g.goal[a].x \in Int
      <4>1. One \in 1..One
        BY OneAssumption
      <4>2. g.goal \in Goals
        BY <1>3, <4>1, PlayedIs
      <4>3. g.goal[a] \in Values
        BY <4>2, GoalsAre
      <4> QED BY <4>3 DEF Values
    <3>3. to = Clamped(params[a].spec.kind, g.goal[a].x)
      BY <3>1, <3>2, ConvertedIs
    <3> QED BY <3>1, <3>2, <3>3, ClampedIs
  <2> QED BY <2>1, <2>2, <2>4, <2>5 DEF Btw
<1>10. Fades(fade')
  <2>1. ASSUME NEW r \in fade.running PROVE Running([r EXCEPT !.alpha = alpha])
    <3>1. Running(r) /\ alpha \in 0..One
      BY <1>2, <1>3 DEF Fades, Fading
    <3>2. [r EXCEPT !.alpha = alpha] = [goal |-> r.goal, alpha |-> alpha, routes |-> r.routes]
      BY <3>1 DEF Running
    <3> QED BY <3>1, <3>2 DEF Running
  <2>2. \A r, q \in fade.running : r = q
    BY <1>3 DEF Fades, Fading
  <2>3. \A r \in left : Running(r)
    BY <1>3, <2>1 DEF Fades, Fading
  <2>4. \A r, q \in left : r = q
    BY <2>2
  <2> HIDE DEF left
  <2> QED BY <1>1, <2>3, <2>4, NoGoal DEF Fades, Fading
<1> QED BY <1>1, <1>3, <1>5, <1>8, <1>9, <1>10 DEF Plays

----------------------------------------------------------------------------
(* The hub: what the engine may hold, with one fader on the pair 0 and 32. *)

Halves == 0..Coarse
BoundAddrs ==
  UNION {{b.addr : b \in {c \in Range(Shows[s].bindings) : c.type = "cc"}} : s \in DOMAIN Shows}
Bindings == {Shows[s].bindings : s \in DOMAIN Shows}

\* What the device sends, and what comes out of the pairs.
Notes == [type : {"note_on"}, note : {1}, velocity : {1}]
Raw == [type : {"cc"}, cc : {0, 32}, value : Halves] \cup Notes
Msgs == [type : {"cc14"}, cc : {0}, value : 0..Fine] \cup Notes

\* What comes out of the engine, and what reaches the bus.
Sets == [op : {"set"}, addr : BoundAddrs, value : [type : {"F"}, x : 0..Fine]]
Cmds == Sets \cup {[op |-> "go"]}
Events ==
  [type : {"command"}, cmd : Cmds] \cup [type : {"blocked", "engaged"}, addr : BoundAddrs]
    \cup [type : {"learned"}, binding : {CcBinding(0, TRUE), NoteBinding(1)}]
    \cup [type : {"connected", "disconnected"}]

FaderStates == [addr : BoundAddrs, engaged : BOOLEAN, last : {{x} : x \in 0..Fine}]
Hubs(e) ==
  /\ e = [bindings |-> e.bindings, pairs |-> {0}, pending |-> e.pending, lastMsb |-> e.lastMsb,
          logical |-> e.logical, faders |-> e.faders, armed |-> e.armed, capture |-> {}]
  /\ e.bindings \in Bindings /\ e.armed \in BOOLEAN
  /\ e.lastMsb = [c \in DOMAIN e.lastMsb |-> e.lastMsb[c]] /\ DOMAIN e.lastMsb \subseteq {0}
  /\ \A c \in DOMAIN e.lastMsb : e.lastMsb[c] \in Halves
  /\ e.pending = [c \in DOMAIN e.pending |-> e.pending[c]] /\ DOMAIN e.pending \subseteq DOMAIN e.lastMsb
  /\ \A c \in DOMAIN e.pending : e.pending[c] = [msb |-> e.lastMsb[c], age |-> 0]
  /\ \A a \in DOMAIN e.logical : e.logical[a] \in Int
  /\ DOMAIN e.faders \subseteq {0} /\ \A c \in DOMAIN e.faders : e.faders[c] \in FaderStates

\* A fader that moves a parameter the engine knows has come near its value or
\* gone past it.
Met(e, after, cmd) ==
  cmd.addr \in DOMAIN e.logical =>
    LET seen == Reported(e.faders) \cup Reported(after.faders)
        near == Fine \div Coarse
        known == e.logical[cmd.addr]
    IN  (\E p \in seen : p - near <= known) /\ (\E p \in seen : p + near >= known)

Fines == 0..Fine

LEMMA FineIs == Fine \in Nat \ {0} /\ Fine \div Coarse \in Nat /\ Coarse + 1 \in Nat \ {0}
<1>1. Coarse \in Nat /\ Coarse > 0
  BY CoarseAssumption
<1>2. Coarse * (Coarse + 2) \in Nat /\ Coarse * (Coarse + 2) > 0
  BY <1>1
<1> DEFINE f == Coarse * (Coarse + 2)
<1>3. f \in Nat /\ Fine = f
  BY <1>2 DEF Fine
<1> HIDE DEF f
<1>4. f \div Coarse \in Nat
  BY <1>1, <1>3
<1> QED BY <1>1, <1>2, <1>3, <1>4 DEF Fine

LEMMA WholeIs ==
  ASSUME NEW m \in Halves, NEW l \in Halves
  PROVE  m * (Coarse + 1) \in 0..Fine /\ m * (Coarse + 1) + l \in 0..Fine
<1>1. Coarse \in Nat /\ Coarse > 0
  BY CoarseAssumption
<1>2. m \in Nat /\ l \in Nat /\ m <= Coarse /\ l <= Coarse
  BY <1>1 DEF Halves
<1>3. m * (Coarse + 1) \in Nat
  BY <1>1, <1>2
<1>4. m * (Coarse + 1) <= Coarse * (Coarse + 1) /\ Coarse * (Coarse + 1) \in Nat
  BY <1>1, <1>2
<1>5. Coarse * (Coarse + 1) + Coarse = Fine
  BY <1>1 DEF Fine
<1> QED BY <1>1, <1>2, <1>3, <1>4, <1>5

\* A controller binding of a show is the fader; its scale is the whole range.
LEMMA BoundIs ==
  ASSUME NEW bs \in Bindings, NEW b \in Range(bs)
  PROVE  b = NoteBinding(b.note) \/ (b.addr \in BoundAddrs /\ b = Fader(b.addr))
<1>1. PICK s \in DOMAIN Shows : bs = Shows[s].bindings
  BY DEF Bindings
<1>2. b = IF b.type = "cc" THEN Fader(b.addr) ELSE NoteBinding(b.note)
  BY <1>1, FaderAssumption
<1>3. b.type = "cc" => b.addr \in BoundAddrs
  BY <1>1 DEF BoundAddrs
<1> QED BY <1>2, <1>3

LEMMA FaderIs ==
  ASSUME NEW a
  PROVE  Fader(a) = [type |-> "cc", cc |-> 0, wide |-> TRUE, addr |-> a, min |-> 0, max |-> Fine,
                     pickup |-> TRUE]
<1> DEFINE top == Fine
           yes == TRUE
           b == [type |-> "cc", cc |-> 0, wide |-> yes, addr |-> "", min |-> 0, max |-> top, pickup |-> yes]
           c == [b EXCEPT !.addr = a]
           d == [type |-> "cc", cc |-> 0, wide |-> yes, addr |-> a, min |-> 0, max |-> top, pickup |-> yes]
<1>1. Fader(a) = c
  BY DEF Fader, CcBinding
<1> HIDE DEF top, yes
<1>2. c = d
  <2>1. c = [x \in DOMAIN b |-> IF x = "addr" THEN a ELSE b[x]]
    OBVIOUS
  <2>2. DOMAIN b = DOMAIN d
    OBVIOUS
  <2>3. d = [x \in DOMAIN d |-> d[x]]
    OBVIOUS
  <2>4. \A x \in DOMAIN d : d[x] = IF x = "addr" THEN a ELSE b[x]
    <3>1. DOMAIN d = {"type", "cc", "wide", "addr", "min", "max", "pickup"}
      OBVIOUS
    <3>2. d["addr"] = a
      OBVIOUS
    <3>3. /\ d["type"] = b["type"] /\ d["cc"] = b["cc"] /\ d["wide"] = b["wide"]
          /\ d["min"] = b["min"] /\ d["max"] = b["max"] /\ d["pickup"] = b["pickup"]
      OBVIOUS
    <3> HIDE DEF d, b
    <3> QED BY <3>1, <3>2, <3>3
  <2> QED BY <2>1, <2>2, <2>3, <2>4
<1> QED BY <1>1, <1>2 DEF top, yes

\* The pairs of any show are the fader.
LEMMA PairsAre ==
  ASSUME NEW bs \in Bindings
  PROVE  LET wide == {i \in DOMAIN bs : bs[i].type = "cc" /\ bs[i].wide}
         IN  {bs[i].cc : i \in wide} \cap (0..31) = {0}
<1> DEFINE wide == {i \in DOMAIN bs : bs[i].type = "cc" /\ bs[i].wide}
<1>1. PICK s \in DOMAIN Shows : bs = Shows[s].bindings
  BY DEF Bindings
<1>2. PICK b \in Range(bs) : b.type = "cc"
  BY <1>1, FaderAssumption
<1>3. PICK i \in DOMAIN bs : b = bs[i]
  BY DEF Range
<1>4. ASSUME NEW j \in DOMAIN bs, bs[j].type = "cc" PROVE bs[j] = Fader(bs[j].addr)
  <2> DEFINE x == bs[j]
  <2>1. x \in Range(Shows[s].bindings) /\ x.type = "cc"
    BY <1>1, <1>4 DEF Range
  <2> HIDE DEF x
  <2>2. x = Fader(x.addr)
    BY <2>1, FaderAssumption
  <2> QED BY <2>2 DEF x
<1>5. \A j \in DOMAIN bs : bs[j].type = "cc" => bs[j].cc = 0 /\ bs[j].wide
  BY <1>4, FaderIs
<1>6. i \in wide /\ \A j \in wide : bs[j].cc = 0
  BY <1>2, <1>3, <1>5
<1> HIDE DEF wide
<1>7. {bs[j].cc : j \in wide} = {0}
  BY <1>6
<1> QED BY <1>7 DEF wide

\* The engine folds at most one message.
LEMMA FoldsNone ==
  ASSUME NEW r
  PROVE  FoldLeft(Chained, r, <<>>) = r
<1> DEFINE Body(f) == [S \in SUBSET DOMAIN <<>> |-> IF S = {} THEN r ELSE Chained(f[S \ {Max(S)}], <<>>[Max(S)])]
           g == CHOOSE f : f = Body(f)
           h == [S \in SUBSET DOMAIN <<>> |-> r]
<1>1. FoldLeft(Chained, r, <<>>) = g[DOMAIN <<>>]
  BY DEF FoldLeft, MapThenFoldSet
<1>2. h = Body(h)
  OBVIOUS
<1>3. g = Body(g)
  BY <1>2
<1> HIDE DEF g
<1>4. g[{}] = Body(g)[{}]
  BY <1>3
<1> QED BY <1>1, <1>4

LEMMA FoldsOne ==
  ASSUME NEW r, NEW m
  PROVE  FoldLeft(Chained, r, <<m>>) = Chained(r, m)
<1> DEFINE W == DOMAIN <<m>>
           Body(f) == [S \in SUBSET W |-> IF S = {} THEN r ELSE Chained(f[S \ {Max(S)}], <<m>>[Max(S)])]
           g == CHOOSE f : f = Body(f)
           h == [S \in SUBSET W |-> IF S = {} THEN r ELSE Chained(r, m)]
<1>1. FoldLeft(Chained, r, <<m>>) = g[W]
  BY DEF FoldLeft, MapThenFoldSet
<1>2. W = {1} /\ <<m>>[1] = m
  OBVIOUS
<1>3. Max({1}) = 1
  BY DEF Max
<1> HIDE DEF W
<1>4. h = Body(h)
  <2>1. ASSUME NEW S \in SUBSET W PROVE h[S] = Body(h)[S]
    <3>1. CASE S = {}
      BY <3>1
    <3>2. CASE S # {}
      <4>1. S = {1}
        BY <1>2, <3>2
      <4>2. S \ {Max(S)} = {} /\ <<m>>[Max(S)] = m
        BY <1>2, <1>3, <4>1
      <4>3. h[{}] = r
        OBVIOUS
      <4> QED BY <3>2, <4>2, <4>3
    <3> QED BY <3>1, <3>2
  <2> QED BY <2>1
<1>5. g = Body(g)
  BY <1>4
<1> HIDE DEF g
<1>6. g[{}] = r
  <2>1. g[{}] = Body(g)[{}]
    BY <1>5
  <2> QED BY <2>1
<1>7. g[W] = Body(g)[W]
  BY <1>5
<1>8. W \ {Max(W)} = {} /\ <<m>>[Max(W)] = m /\ W # {}
  BY <1>2, <1>3
<1>9. g[W] = Chained(g[W \ {Max(W)}], <<m>>[Max(W)])
  BY <1>7, <1>8
<1> QED BY <1>1, <1>6, <1>8, <1>9

LEMMA ShortSequences == SetToSeq({}) = <<>> /\ \A x : SetToSeq({x}) = <<x>>
<1>1. SetToSeq({}) = <<>>
  <2>1. Cardinality({}) = 0
    BY FS_EmptySet
  <2> DEFINE P(f) == f \in [1..0 -> {}] /\ IsInjective(f)
  <2>2. P(<<>>)
    BY DEF IsInjective
  <2>3. \A f : P(f) => f = <<>>
    OBVIOUS
  <2>4. SetToSeq({}) = CHOOSE f : P(f)
    BY <2>1 DEF SetToSeq
  <2> HIDE DEF P
  <2> QED BY <2>2, <2>3, <2>4
<1>2. ASSUME NEW x PROVE SetToSeq({x}) = <<x>>
  <2>1. Cardinality({x}) = 1
    BY FS_Singleton
  <2> DEFINE P(f) == f \in [1..1 -> {x}] /\ IsInjective(f)
  <2>2. P(<<x>>)
    BY DEF IsInjective
  <2>3. \A f : P(f) => f = <<x>>
    OBVIOUS
  <2>4. SetToSeq({x}) = CHOOSE f : P(f)
    BY <2>1 DEF SetToSeq
  <2> HIDE DEF P
  <2> QED BY <2>2, <2>3, <2>4
<1> QED BY <1>1, <1>2

\* Between two turns of the supervisor nothing waits too long.
LEMMA PairsWait ==
  ASSUME NEW e, Hubs(e)
  PROVE  FlushedPairs(e) = [e |-> e, out |-> <<>>]
<1>1. Overdue(e) = {}
  BY CoarseAssumption DEF Overdue, Hubs
<1>2. {Cc14(cc, e.pending[cc].msb * (Coarse + 1)) : cc \in Overdue(e)} = {}
  BY <1>1
<1>3. Restrict(e.pending, DOMAIN e.pending \ Overdue(e)) = e.pending
  BY <1>1 DEF Restrict, Hubs
<1>4. [e EXCEPT !.pending = Restrict(@, DOMAIN @ \ Overdue(e))] = e
  <2> DEFINE p == Restrict(e.pending, DOMAIN e.pending \ Overdue(e))
  <2>1. p = e.pending
    BY <1>3
  <2> HIDE DEF p
  <2>2. [e EXCEPT !.pending = p] = e
    BY <2>1 DEF Hubs
  <2> QED BY <2>2 DEF p
<1> QED BY <1>2, <1>4, ShortSequences DEF FlushedPairs

\* The message the pairs make of one of the device.
Made(e, msg) ==
  IF msg.type # "cc" THEN <<msg>>
  ELSE IF msg.cc = 0
  THEN IF 0 \in DOMAIN e.pending THEN <<Cc14(0, e.lastMsb[0] * (Coarse + 1))>> ELSE <<>>
  ELSE <<Cc14(0, (IF 0 \in DOMAIN e.lastMsb THEN e.lastMsb[0] ELSE 0) * (Coarse + 1) + msg.value)>>

LEMMA AssembledIs ==
  ASSUME NEW e, Hubs(e), NEW msg \in Raw
  PROVE  LET a == Assembled(e, msg)
         IN  /\ Hubs(a.e) /\ a.e.logical = e.logical /\ a.e.faders = e.faders
             /\ a.e.lastMsb = IF msg.type = "cc" /\ msg.cc = 0 THEN Put(e.lastMsb, 0, msg.value) ELSE e.lastMsb
             /\ a.out = Made(e, msg)
<1> DEFINE a == Assembled(e, msg)
           p == e.pending
<1>1. FlushedPairs(e) = [e |-> e, out |-> <<>>]
  BY PairsWait
<1>2. e.pairs = {0} /\ msg = msg
  BY DEF Hubs
<1>3. CASE msg.type = "cc" /\ msg.cc = 0
  <2> DEFINE w == Put(p, 0, [msb |-> msg.value, age |-> 0])
             l == Put(e.lastMsb, 0, msg.value)
  <2>1. a = [e |-> [e EXCEPT !.pending = w, !.lastMsb = l],
             out |-> IF 0 \in DOMAIN p THEN Append(<<>>, Cc14(0, p[0].msb * (Coarse + 1))) ELSE <<>>]
    BY <1>1, <1>2, <1>3 DEF Assembled
  <2>2. msg.value \in Halves
    BY <1>3 DEF Raw, Notes
  <2>3. /\ w = [c \in DOMAIN w |-> w[c]] /\ DOMAIN w = {0} /\ w[0] = [msb |-> msg.value, age |-> 0]
        /\ l = [c \in DOMAIN l |-> l[c]] /\ DOMAIN l = {0} /\ l[0] = msg.value
    BY DEF Put, Hubs
  <2>4. 0 \in DOMAIN p => p[0].msb = e.lastMsb[0]
    BY DEF Hubs
  <2> HIDE DEF w, l
  <2>5. [e EXCEPT !.pending = w, !.lastMsb = l] =
          [bindings |-> e.bindings, pairs |-> {0}, pending |-> w, lastMsb |-> l,
           logical |-> e.logical, faders |-> e.faders, armed |-> e.armed, capture |-> {}]
    <3> DEFINE o == {}
               d == {0}
    <3>1. e = [bindings |-> e.bindings, pairs |-> d, pending |-> e.pending, lastMsb |-> e.lastMsb,
               logical |-> e.logical, faders |-> e.faders, armed |-> e.armed, capture |-> o]
      BY DEF Hubs
    <3> HIDE DEF o, d
    <3> DEFINE f == [e EXCEPT !.pending = w]
               g == [f EXCEPT !.lastMsb = l]
    <3>2. f = [bindings |-> e.bindings, pairs |-> d, pending |-> w, lastMsb |-> e.lastMsb,
               logical |-> e.logical, faders |-> e.faders, armed |-> e.armed, capture |-> o]
      BY <3>1
    <3>3. [e EXCEPT !.pending = w, !.lastMsb = l] = g
      OBVIOUS
    <3> HIDE DEF f
    <3>4. g = [bindings |-> e.bindings, pairs |-> d, pending |-> w, lastMsb |-> l,
               logical |-> e.logical, faders |-> e.faders, armed |-> e.armed, capture |-> o]
      BY <3>2
    <3> QED BY <3>3, <3>4 DEF o, d
  <2>6. Hubs(a.e) /\ a.e.logical = e.logical /\ a.e.faders = e.faders /\ a.e.lastMsb = l
    <3>1. a.e = [bindings |-> e.bindings, pairs |-> {0}, pending |-> w, lastMsb |-> l,
                 logical |-> e.logical, faders |-> e.faders, armed |-> e.armed, capture |-> {}]
      BY <2>1, <2>5
    <3> HIDE DEF a
    <3> QED BY <2>2, <2>3, <3>1 DEF Hubs
  <2>7. a.out = IF 0 \in DOMAIN p THEN <<Cc14(0, p[0].msb * (Coarse + 1))>> ELSE <<>>
    BY <2>1
  <2> QED BY <1>3, <2>4, <2>6, <2>7 DEF Made, l
<1>4. CASE msg.type = "cc" /\ msg.cc = 32
  <2> DEFINE w == Restrict(p, DOMAIN p \ {0})
             m == IF 0 \in DOMAIN p THEN p[0].msb ELSE IF 0 \in DOMAIN e.lastMsb THEN e.lastMsb[0] ELSE 0
  <2>1. a = [e |-> [e EXCEPT !.pending = w], out |-> Append(<<>>, Cc14(0, m * (Coarse + 1) + msg.value))]
    <3>1. msg.cc - 32 = 0 /\ msg.cc \notin e.pairs /\ 0 \in e.pairs
      BY <1>2, <1>4
    <3> QED BY <1>1, <1>4, <3>1 DEF Assembled
  <2>2. w = [c \in DOMAIN w |-> w[c]] /\ DOMAIN w = {}
    BY DEF Restrict, Hubs
  <2>3. m = IF 0 \in DOMAIN e.lastMsb THEN e.lastMsb[0] ELSE 0
    BY DEF Hubs
  <2> HIDE DEF w, m
  <2>4. [e EXCEPT !.pending = w] =
          [bindings |-> e.bindings, pairs |-> {0}, pending |-> w, lastMsb |-> e.lastMsb,
           logical |-> e.logical, faders |-> e.faders, armed |-> e.armed, capture |-> {}]
    BY DEF Hubs
  <2>5. Hubs(a.e) /\ a.e.logical = e.logical /\ a.e.faders = e.faders /\ a.e.lastMsb = e.lastMsb
    <3>1. a.e = [bindings |-> e.bindings, pairs |-> {0}, pending |-> w, lastMsb |-> e.lastMsb,
                 logical |-> e.logical, faders |-> e.faders, armed |-> e.armed, capture |-> {}]
      BY <2>1, <2>4
    <3> HIDE DEF a
    <3> QED BY <2>2, <3>1 DEF Hubs
  <2>6. a.out = <<Cc14(0, m * (Coarse + 1) + msg.value)>>
    BY <2>1
  <2> QED BY <1>4, <2>3, <2>5, <2>6 DEF Made
<1>5. CASE msg.type # "cc"
  <2>1. a = [e |-> e, out |-> Append(<<>>, msg)]
    BY <1>1, <1>5 DEF Assembled
  <2> QED BY <1>5, <2>1 DEF Made
<1> QED BY <1>3, <1>4, <1>5 DEF Raw, Notes

LEMMA MadeIs ==
  ASSUME NEW e, Hubs(e), NEW msg \in Raw
  PROVE  Made(e, msg) = <<>> \/ \E m \in Msgs : Made(e, msg) = <<m>>
<1>1. Coarse \in Nat
  BY CoarseAssumption
<1>2. CASE msg.type # "cc"
  BY <1>2 DEF Made, Raw, Msgs
<1>3. CASE msg.type = "cc" /\ msg.cc = 0
  <2>1. CASE 0 \in DOMAIN e.pending
    <3> DEFINE v == e.lastMsb[0] * (Coarse + 1)
    <3>1. e.lastMsb[0] \in Halves
      BY <2>1 DEF Hubs
    <3>2. v \in 0..Fine
      BY <3>1, WholeIs DEF Halves
    <3>3. Made(e, msg) = <<Cc14(0, v)>>
      BY <1>3, <2>1 DEF Made
    <3> HIDE DEF v
    <3> QED BY <3>2, <3>3 DEF Msgs, Cc14
  <2> QED BY <1>3, <2>1 DEF Made
<1>4. CASE msg.type = "cc" /\ msg.cc # 0
  <2> DEFINE h == IF 0 \in DOMAIN e.lastMsb THEN e.lastMsb[0] ELSE 0
             v == h * (Coarse + 1) + msg.value
  <2>1. h \in Halves /\ msg.value \in Halves
    BY <1>1, <1>4 DEF Hubs, Halves, Raw, Notes
  <2> HIDE DEF h
  <2>2. v \in 0..Fine
    BY <2>1, WholeIs
  <2>3. Made(e, msg) = <<Cc14(0, v)>>
    BY <1>4 DEF Made, h
  <2> HIDE DEF v
  <2> QED BY <2>2, <2>3 DEF Msgs, Cc14
<1> QED BY <1>2, <1>3, <1>4

\* The engine with one of its parts replaced.
LEMMA ArmedIs ==
  ASSUME NEW e, Hubs(e), NEW b \in BOOLEAN
  PROVE  LET f == [e EXCEPT !.armed = b, !.capture = {}] IN
          /\ Hubs(f) /\ f.bindings = e.bindings /\ f.lastMsb = e.lastMsb /\ f.logical = e.logical
          /\ f.faders = e.faders
<1> DEFINE f == [e EXCEPT !.armed = b, !.capture = {}]
           g == [e EXCEPT !.armed = b]
<1>1. g = [bindings |-> e.bindings, pairs |-> {0}, pending |-> e.pending, lastMsb |-> e.lastMsb,
           logical |-> e.logical, faders |-> e.faders, armed |-> b, capture |-> {}]
  BY DEF Hubs
<1>2. f = [g EXCEPT !.capture = {}]
  OBVIOUS
<1> HIDE DEF g
<1>3. f = [bindings |-> e.bindings, pairs |-> {0}, pending |-> e.pending, lastMsb |-> e.lastMsb,
           logical |-> e.logical, faders |-> e.faders, armed |-> b, capture |-> {}]
  BY <1>1, <1>2
<1> HIDE DEF f
<1> QED BY <1>3 DEF Hubs, f

LEMMA LogicalIs ==
  ASSUME NEW e, Hubs(e), NEW a, NEW v \in Int
  PROVE  LET f == [e EXCEPT !.logical = Put(@, a, v)] IN
          /\ Hubs(f) /\ f.bindings = e.bindings /\ f.lastMsb = e.lastMsb /\ f.faders = e.faders
<1> DEFINE l == Put(e.logical, a, v)
           f == [e EXCEPT !.logical = l]
<1>1. \A x \in DOMAIN l : l[x] \in Int
  BY DEF Put, Hubs
<1> HIDE DEF l
<1>2. f = [bindings |-> e.bindings, pairs |-> {0}, pending |-> e.pending, lastMsb |-> e.lastMsb,
           logical |-> l, faders |-> e.faders, armed |-> e.armed, capture |-> {}]
  BY DEF Hubs
<1> HIDE DEF f
<1>3. Hubs(f) /\ f.bindings = e.bindings /\ f.lastMsb = e.lastMsb /\ f.faders = e.faders
  BY <1>1, <1>2 DEF Hubs
<1> QED BY <1>3 DEF f, l

LEMMA FaderSetIs ==
  ASSUME NEW e, Hubs(e), NEW s \in FaderStates
  PROVE  LET f == [e EXCEPT !.faders = Put(@, 0, s)] IN
          /\ Hubs(f) /\ f.bindings = e.bindings /\ f.lastMsb = e.lastMsb /\ f.logical = e.logical
          /\ 0 \in DOMAIN f.faders /\ f.faders[0] = s
<1> DEFINE l == Put(e.faders, 0, s)
           f == [e EXCEPT !.faders = l]
<1>1. DOMAIN l = {0} /\ l[0] = s
  BY DEF Put, Hubs
<1> HIDE DEF l
<1>2. f = [bindings |-> e.bindings, pairs |-> {0}, pending |-> e.pending, lastMsb |-> e.lastMsb,
           logical |-> e.logical, faders |-> l, armed |-> e.armed, capture |-> {}]
  BY DEF Hubs
<1> HIDE DEF f
<1>3. /\ Hubs(f) /\ f.bindings = e.bindings /\ f.lastMsb = e.lastMsb /\ f.logical = e.logical
      /\ 0 \in DOMAIN f.faders /\ f.faders[0] = s
  BY <1>1, <1>2 DEF Hubs
<1> QED BY <1>3 DEF f, l

LEMMA BoundToIs ==
  ASSUME NEW e, Hubs(e), NEW bs \in Bindings
  PROVE  LET f == [e EXCEPT !.bindings = bs] IN
          /\ Hubs(f) /\ f.bindings = bs /\ f.lastMsb = e.lastMsb /\ f.faders = e.faders
<1> DEFINE f == [e EXCEPT !.bindings = bs]
<1>1. f = [bindings |-> bs, pairs |-> {0}, pending |-> e.pending, lastMsb |-> e.lastMsb,
           logical |-> e.logical, faders |-> e.faders, armed |-> e.armed, capture |-> {}]
  BY DEF Hubs
<1> HIDE DEF f
<1>2. Hubs(f) /\ f.bindings = bs /\ f.lastMsb = e.lastMsb /\ f.faders = e.faders
  BY <1>1 DEF Hubs
<1> QED BY <1>2 DEF f

LEMMA NoneMoved == Moved(<<>>) = {} /\ <<>> \in Seq(Events)
BY DEF Moved

LEMMA MovedOne ==
  ASSUME NEW x
  PROVE  /\ \A c \in Moved(<<x>>) : x.type = "command" /\ c = x.cmd
         /\ \A y : y.type # "command" => Moved(<<y, x>>) = Moved(<<x>>)
<1>1. DOMAIN <<x>> = {1} /\ <<x>>[1] = x
  OBVIOUS
<1>2. ASSUME NEW y, y.type # "command" PROVE Moved(<<y, x>>) = Moved(<<x>>)
  <2>1. DOMAIN <<y, x>> = {1, 2} /\ <<y, x>>[1] = y /\ <<y, x>>[2] = x
    OBVIOUS
  <2>2. Moved(<<y, x>>) = IF x.type = "command" /\ x.cmd.op = "set" THEN {x.cmd} ELSE {}
    BY <1>2, <2>1 DEF Moved
  <2>3. Moved(<<x>>) = IF x.type = "command" /\ x.cmd.op = "set" THEN {x.cmd} ELSE {}
    BY <1>1 DEF Moved
  <2> QED BY <2>2, <2>3
<1>3. \A c \in Moved(<<x>>) : x.type = "command" /\ c = x.cmd
  BY <1>1 DEF Moved
<1> QED BY <1>2, <1>3

\* What a move to x makes of the engine.
Obtained(e, r, x) ==
  /\ Hubs(r.e) /\ r.e.bindings = e.bindings /\ r.e.lastMsb = e.lastMsb /\ r.out \in Seq(Events)
  /\ \A cmd \in Moved(r.out) : cmd.value.x = x /\ Met(e, r.e, cmd)

\* A fader of the engine is taken over.
LEMMA ControlMovedIs ==
  ASSUME NEW e, Hubs(e), NEW a \in BoundAddrs, NEW x \in Fines
  PROVE  Obtained(e, ControlMoved(e, Fader(a), x), x)
<1> DEFINE b == Fader(a)
           near == Fine \div Coarse
           on == Engages(e, 0, a, x, near)
           s == [addr |-> a, engaged |-> on, last |-> {x}]
           f == Filtered(e, 0, a, x, near)
           out == IF ~f.faders[0].engaged THEN <<[type |-> "blocked", addr |-> a]>>
                  ELSE IF 0 \in DOMAIN e.faders /\ e.faders[0].engaged THEN <<ParamSet(a, x)>>
                  ELSE <<[type |-> "engaged", addr |-> a], ParamSet(a, x)>>
           r == ControlMoved(e, b, x)
<1>1. Fine \in Nat \ {0} /\ near \in Nat /\ x \in Int /\ x \in 0..Fine
  BY FineIs DEF Fines
<1>2. r = [e |-> f, out |-> out]
  <2>1. b.cc = 0 /\ b.addr = a /\ b.min = 0 /\ b.max = Fine /\ b.pickup
    BY FaderIs
  <2>2. b.max > b.min /\ b.max - b.min = Fine
    BY <1>1, <2>1
  <2> HIDE DEF b
  <2> QED BY <2>1, <2>2 DEF ControlMoved
<1>3. on \in BOOLEAN
  BY DEF Engages
<1>4. s \in FaderStates
  BY <1>1, <1>3 DEF FaderStates
<1>5. f = [[e EXCEPT !.faders = Put(@, 0, s)] EXCEPT !.logical = IF on THEN Put(@, a, x) ELSE @]
  BY DEF Filtered
<1>6. /\ Hubs(f) /\ f.bindings = e.bindings /\ f.lastMsb = e.lastMsb
      /\ 0 \in DOMAIN f.faders /\ f.faders[0] = s
  <2> DEFINE g == [e EXCEPT !.faders = Put(@, 0, s)]
  <2>1. /\ Hubs(g) /\ g.bindings = e.bindings /\ g.lastMsb = e.lastMsb
        /\ 0 \in DOMAIN g.faders /\ g.faders[0] = s
    <3> HIDE DEF s
    <3> QED BY <1>4, FaderSetIs
  <2>2. CASE on
    <3>1. f = [g EXCEPT !.logical = Put(@, a, x)]
      BY <1>5, <2>2
    <3> HIDE DEF g, f, s
    <3> DEFINE h == [g EXCEPT !.logical = Put(@, a, x)]
    <3>2. Hubs(h) /\ h.bindings = g.bindings /\ h.lastMsb = g.lastMsb /\ h.faders = g.faders
      BY <1>1, <2>1, LogicalIs
    <3>3. f = h
      BY <3>1
    <3> HIDE DEF h
    <3> QED BY <2>1, <3>2, <3>3
  <2>3. CASE ~on
    <3>1. f = [g EXCEPT !.logical = @]
      BY <1>5, <2>3
    <3> HIDE DEF f
    <3>2. f = g
      <4> HIDE DEF g
      <4> QED BY <2>1, <3>1 DEF Hubs
    <3> QED BY <2>1, <3>2
  <2> QED BY <1>3, <2>2, <2>3
<1> HIDE DEF f
<1>7. [op |-> "set", addr |-> a, value |-> [type |-> "F", x |-> x]] \in Cmds
  BY <1>1 DEF Cmds, Sets
<1> DEFINE cmd == [op |-> "set", addr |-> a, value |-> [type |-> "F", x |-> x]]
<1>8. /\ ParamSet(a, x) \in Events /\ ParamSet(a, x).cmd = cmd
      /\ [type |-> "blocked", addr |-> a] \in Events /\ [type |-> "engaged", addr |-> a] \in Events
  BY <1>7 DEF ParamSet, Events
<1>9. out \in Seq(Events)
  BY <1>8
<1>10. \A c \in Moved(out) : c = cmd /\ on
  <2>1. \A c \in Moved(<<[type |-> "blocked", addr |-> a]>>) : FALSE
    BY MovedOne
  <2>2. Moved(<<[type |-> "engaged", addr |-> a], ParamSet(a, x)>>) = Moved(<<ParamSet(a, x)>>)
    BY MovedOne
  <2>3. \A c \in Moved(<<ParamSet(a, x)>>) : c = cmd
    BY <1>8, MovedOne
  <2>4. f.faders[0].engaged = on
    BY <1>6
  <2> HIDE DEF cmd, on
  <2> QED BY <2>1, <2>2, <2>3, <2>4
<1>11. ASSUME on PROVE Met(e, f, cmd)
  <2> DEFINE seen == Reported(e.faders) \cup Reported(f.faders)
             known == e.logical[a]
  <2> SUFFICES ASSUME a \in DOMAIN e.logical
               PROVE  (\E p \in seen : p - near <= known) /\ (\E p \in seen : p + near >= known)
    BY DEF Met
  <2>1. x \in seen
    BY <1>6 DEF Reported
  <2>2. known \in Int
    BY DEF Hubs
  <2>3. CASE Near(x, known, near)
    BY <1>1, <2>1, <2>2, <2>3 DEF Near
  <2>4. ASSUME NEW l \in FaderOf(e, 0, a).last PROVE l \in seen /\ l \in Int
    <3>1. 0 \in DOMAIN e.faders /\ FaderOf(e, 0, a) = e.faders[0]
      BY <2>4 DEF FaderOf, NewFader
    <3>2. e.faders[0] \in FaderStates
      BY <3>1 DEF Hubs
    <3>3. l \in Int
      BY <3>1, <3>2, FineIs DEF FaderStates
    <3>4. l \in Reported(e.faders)
      BY <3>1 DEF Reported
    <3> QED BY <3>3, <3>4
  <2>5. CASE FaderOf(e, 0, a).engaged /\ \A l \in FaderOf(e, 0, a).last : Near(known, l, near)
    <3>1. FaderOf(e, 0, a) = e.faders[0] /\ 0 \in DOMAIN e.faders
      BY <2>5 DEF FaderOf, NewFader
    <3>2. e.faders[0] \in FaderStates
      BY <3>1 DEF Hubs
    <3>3. PICK l \in FaderOf(e, 0, a).last : TRUE
      BY <3>1, <3>2 DEF FaderStates
    <3>4. Near(known, l, near) /\ l \in seen /\ l \in Int
      BY <2>4, <2>5, <3>3
    <3> HIDE DEF seen, known, near
    <3> QED BY <1>1, <2>2, <3>4 DEF Near
  <2>6. CASE \E l \in FaderOf(e, 0, a).last : (l <= known /\ x >= known) \/ (l >= known /\ x <= known)
    <3>1. PICK l \in FaderOf(e, 0, a).last : (l <= known /\ x >= known) \/ (l >= known /\ x <= known)
      BY <2>6
    <3>2. l \in seen /\ l \in Int
      BY <2>4, <3>1
    <3> HIDE DEF seen, known, near
    <3> QED BY <1>1, <2>1, <2>2, <3>1, <3>2
  <2> QED BY <1>11, <2>3, <2>5, <2>6 DEF Engages
<1> HIDE DEF on, out
<1>12. \A c \in Moved(out) : c.value.x = x /\ Met(e, f, c)
  BY <1>10, <1>11
<1> QED BY <1>2, <1>6, <1>9, <1>12 DEF Obtained

LEMMA Divides ==
  ASSUME NEW d \in Int, NEW f \in Nat \ {0}
  PROVE  (d * f) \div f = d
OBVIOUS

LEMMA ProcessedIs ==
  ASSUME NEW e, Hubs(e), NEW msg \in Msgs
  PROVE  LET r == Processed(e, msg)
         IN  /\ Hubs(r.e) /\ r.e.bindings = e.bindings /\ r.e.lastMsb = e.lastMsb
             /\ r.out \in Seq(Events)
             /\ \A cmd \in Moved(r.out) :
                  msg.type = "cc14" /\ cmd.value.x = msg.value /\ Met(e, r.e, cmd)
<1> DEFINE r == Processed(e, msg)
<1>1. LearnFlushed(e) = [e |-> e, out |-> <<>>]
  <2>1. e.capture = {}
    BY DEF Hubs
  <2> QED BY <2>1 DEF LearnFlushed, Nothing
<1>2. CASE e.armed
  <2> DEFINE d == Disarmed(e)
  <2>1. Hubs(d) /\ d.bindings = e.bindings /\ d.lastMsb = e.lastMsb
    BY ArmedIs DEF Disarmed
  <2>2. \E b \in {CcBinding(0, TRUE), NoteBinding(1)} :
          r = [e |-> d, out |-> <<[type |-> "learned", binding |-> b]>>]
    <3>1. r = LearnFed(e, msg)
      BY <1>2 DEF Processed
    <3>2. CASE msg.type = "note_on"
      <4>1. msg.note = 1
        BY <3>2 DEF Msgs, Notes
      <4>2. r = Captured(e, NoteBinding(1))
        BY <1>1, <3>1, <3>2, <4>1 DEF LearnFed
      <4> QED BY <4>2 DEF Captured
    <3>3. CASE msg.type = "cc14"
      <4>1. msg.cc = 0
        BY <3>3 DEF Msgs, Notes
      <4>2. r = Captured(e, CcBinding(0, TRUE))
        BY <1>1, <3>1, <3>3, <4>1 DEF LearnFed
      <4> QED BY <4>2 DEF Captured
    <3> QED BY <3>2, <3>3 DEF Msgs, Notes
  <2>3. PICK b \in {CcBinding(0, TRUE), NoteBinding(1)} :
          r = [e |-> d, out |-> <<[type |-> "learned", binding |-> b]>>]
    BY <2>2
  <2> DEFINE ev == [type |-> "learned", binding |-> b]
  <2>4. ev \in Events /\ ev.type # "command"
    BY DEF Events
  <2> HIDE DEF ev, d, r
  <2>5. r.e = d /\ r.out = <<ev>>
    BY <2>3 DEF ev
  <2>6. \A c \in Moved(<<ev>>) : FALSE
    BY <2>4, MovedOne
  <2>7. /\ Hubs(r.e) /\ r.e.bindings = e.bindings /\ r.e.lastMsb = e.lastMsb
        /\ r.out \in Seq(Events) /\ \A cmd \in Moved(r.out) : FALSE
    BY <2>1, <2>4, <2>5, <2>6
  <2> QED BY <2>7 DEF r
<1>3. CASE ~e.armed /\ msg.type = "cc14"
  <2> DEFINE found == FirstIn(e.bindings, LAMBDA b : Binds(b, msg.cc, msg.type = "cc14"))
             b == CHOOSE x \in found : TRUE
  <2>1. msg.cc = 0 /\ msg.value \in 0..Fine
    BY <1>3 DEF Msgs, Notes
  <2>2. r = IF found = {} THEN Nothing(e) ELSE ControlMoved(e, b, Scaled(msg.value, Fine, b))
    <3>1. r = IF found = {} THEN Nothing(e)
              ELSE ControlMoved(e, b, Scaled(msg.value, IF msg.type = "cc14" THEN Fine ELSE Coarse, b))
      <4> HIDE DEF found
      <4> QED BY <1>3 DEF Processed, found
    <3> QED BY <1>3, <3>1
  <2>3. CASE found = {}
    <3>1. r = [e |-> e, out |-> <<>>]
      BY <2>2, <2>3 DEF Nothing
    <3> HIDE DEF r
    <3>2. Moved(<<>>) = {} /\ <<>> \in Seq(Events)
      BY NoneMoved
    <3> QED BY <3>1, <3>2 DEF r
  <2>4. CASE found # {}
    <3>1. b \in Range(e.bindings) /\ b.type = "cc"
      <4>1. b \in found
        BY <2>4
      <4> HIDE DEF b
      <4> QED BY <4>1 DEF FirstIn, Binds, Range
    <3> HIDE DEF b
    <3>2. e.bindings \in Bindings
      BY DEF Hubs
    <3>3. b.addr \in BoundAddrs /\ b = Fader(b.addr)
      <4>1. NoteBinding(b.note).type = "note"
        BY DEF NoteBinding
      <4> QED BY <3>1, <3>2, <4>1, BoundIs
    <3>4. Scaled(msg.value, Fine, b) = msg.value
      <4>1. b.min = 0 /\ b.max = Fine
        BY <3>3, FaderIs
      <4>2. msg.value \in Int /\ Fine \in Nat \ {0}
        BY <2>1, FineIs
      <4>3. (msg.value * Fine) \div Fine = msg.value
        BY <4>2, Divides
      <4>4. Fine - 0 = Fine
        BY <4>2
      <4> QED BY <4>1, <4>2, <4>3, <4>4 DEF Scaled
    <3>5. r = ControlMoved(e, Fader(b.addr), msg.value)
      BY <2>2, <2>4, <3>3, <3>4
    <3> DEFINE at == b.addr
               x == msg.value
    <3>6. at \in BoundAddrs /\ x \in Fines /\ r = ControlMoved(e, Fader(at), x) /\ x = msg.value
      BY <2>1, <3>3, <3>5 DEF Fines
    <3> HIDE DEF at, x, r
    <3>7. Obtained(e, ControlMoved(e, Fader(at), x), x)
      BY <3>6, ControlMovedIs
    <3>8. Obtained(e, r, x)
      BY <3>6, <3>7
    <3> QED BY <1>3, <3>6, <3>8 DEF r, Obtained
  <2> QED BY <2>3, <2>4
<1>4. CASE ~e.armed /\ msg.type # "cc14"
  <2> DEFINE found == FirstIn(e.bindings, LAMBDA b : b.type = "note" /\ b.note = msg.note)
             b == CHOOSE x \in found : TRUE
  <2>1. msg.type = "note_on"
    BY <1>4 DEF Msgs, Notes
  <2>2. r = [e |-> e, out |-> IF found = {} THEN <<>> ELSE <<[type |-> "command", cmd |-> b.command]>>]
    BY <1>4, <2>1 DEF Processed, Resolved
  <2>3. CASE found = {}
    <3>1. r = [e |-> e, out |-> <<>>]
      BY <2>2, <2>3
    <3> HIDE DEF r
    <3>2. Moved(<<>>) = {} /\ <<>> \in Seq(Events)
      BY NoneMoved
    <3> QED BY <3>1, <3>2 DEF r
  <2>4. CASE found # {}
    <3>1. b \in Range(e.bindings) /\ b.type = "note"
      <4>1. b \in found
        BY <2>4
      <4> HIDE DEF b
      <4> QED BY <4>1 DEF FirstIn, Range
    <3>2. e.bindings \in Bindings
      BY DEF Hubs
    <3> HIDE DEF b
    <3>3. b = NoteBinding(b.note)
      <4>1. b = Fader(b.addr) => b.type = "cc"
        BY FaderIs
      <4> QED BY <3>1, <3>2, <4>1, BoundIs
    <3> DEFINE ev == [type |-> "command", cmd |-> b.command]
    <3>4. b.command = [op |-> "go"]
      BY <3>3 DEF NoteBinding
    <3>5. ev \in Events /\ Moved(<<ev>>) = {}
      BY <3>4 DEF Events, Cmds, Moved
    <3>6. r = [e |-> e, out |-> <<ev>>]
      BY <2>2, <2>4
    <3> HIDE DEF ev, r
    <3>7. /\ Hubs(r.e) /\ r.e.bindings = e.bindings /\ r.e.lastMsb = e.lastMsb
          /\ r.out \in Seq(Events) /\ Moved(r.out) = {}
      BY <3>5, <3>6
    <3> QED BY <3>7 DEF r
  <2> QED BY <2>3, <2>4
<1> QED BY <1>2, <1>3, <1>4 DEF Hubs

\* What the engine makes of a message of the device, or of the hand of time.
LEMMA ChainedIs ==
  ASSUME NEW e, Hubs(e), NEW out, out = <<>> \/ \E m \in Msgs : out = <<m>>
  PROVE  LET r == FoldLeft(Chained, [e |-> e, out |-> <<>>], out)
         IN  /\ Hubs(r.e) /\ r.e.bindings = e.bindings /\ r.e.lastMsb = e.lastMsb
             /\ r.out \in Seq(Events)
             /\ \A cmd \in Moved(r.out) :
                  out # <<>> /\ out[1].type = "cc14" /\ cmd.value.x = out[1].value /\ Met(e, r.e, cmd)
<1> DEFINE s == [e |-> e, out |-> <<>>]
           r == FoldLeft(Chained, s, out)
<1>1. CASE out = <<>>
  <2>1. r = s
    BY <1>1, FoldsNone
  <2>2. Moved(<<>>) = {} /\ <<>> \in Seq(Events)
    BY NoneMoved
  <2>3. s.e = e /\ s.out = <<>>
    OBVIOUS
  <2> HIDE DEF s, r
  <2>4. Hubs(r.e) /\ r.e.bindings = e.bindings /\ r.e.lastMsb = e.lastMsb /\ r.out \in Seq(Events) /\ Moved(r.out) = {}
    BY <2>1, <2>2, <2>3
  <2> QED BY <2>4 DEF r, s
<1>2. ASSUME NEW m \in Msgs, out = <<m>>
      PROVE  /\ Hubs(r.e) /\ r.e.bindings = e.bindings /\ r.e.lastMsb = e.lastMsb
             /\ r.out \in Seq(Events)
             /\ \A cmd \in Moved(r.out) :
                  out # <<>> /\ out[1].type = "cc14" /\ cmd.value.x = out[1].value /\ Met(e, r.e, cmd)
  <2> DEFINE n == Processed(e, m)
  <2>1. /\ Hubs(n.e) /\ n.e.bindings = e.bindings /\ n.e.lastMsb = e.lastMsb /\ n.out \in Seq(Events)
        /\ \A cmd \in Moved(n.out) : m.type = "cc14" /\ cmd.value.x = m.value /\ Met(e, n.e, cmd)
    BY ProcessedIs
  <2>2. r = [e |-> n.e, out |-> <<>> \o n.out]
    <3>1. r = Chained(s, m)
      BY <1>2, FoldsOne
    <3>2. Chained(s, m) = [e |-> n.e, out |-> <<>> \o n.out]
      BY DEF Chained
    <3> QED BY <3>1, <3>2
  <2>3. <<>> \o n.out = n.out
    BY <2>1
  <2>4. r.e = n.e /\ r.out = n.out
    BY <2>2, <2>3
  <2>5. out # <<>> /\ out[1] = m
    BY <1>2
  <2> HIDE DEF r, n, s
  <2> QED BY <2>1, <2>4, <2>5
<1> QED BY <1>1, <1>2

\* What a message of the device makes of the engine.
Arrived(e, raw, r) ==
  /\ Hubs(r.e) /\ r.e.bindings = e.bindings /\ r.out \in Seq(Events)
  /\ r.e.lastMsb = IF raw.type = "cc" /\ raw.cc = 0 THEN Put(e.lastMsb, 0, raw.value) ELSE e.lastMsb
  /\ \A cmd \in Moved(r.out) :
       /\ Made(e, raw) # <<>> /\ Made(e, raw)[1].type = "cc14" /\ cmd.value.x = Made(e, raw)[1].value
       /\ Met(e, r.e, cmd)

LEMMA HandledIs ==
  ASSUME NEW e, Hubs(e), NEW raw \in Raw
  PROVE  Arrived(e, raw, Handled(e, raw, AllCall))
<1> DEFINE a == Assembled(e, raw)
           s == [e |-> a.e, out |-> <<>>]
           r == FoldLeft(Chained, s, a.out)
<1>1. Parsed(raw) = {raw}
  BY DEF Parsed, Raw, Notes
<1>2. (CHOOSE m \in Parsed(raw) : TRUE) = raw /\ Parsed(raw) # {}
  BY <1>1
<1>3. raw.type # "sysex"
  BY DEF Raw, Notes
<1>4. Handled(e, raw, AllCall) = r
  BY <1>2, <1>3 DEF Handled
<1>5. /\ Hubs(a.e) /\ a.e.logical = e.logical /\ a.e.faders = e.faders
      /\ a.e.lastMsb = IF raw.type = "cc" /\ raw.cc = 0 THEN Put(e.lastMsb, 0, raw.value) ELSE e.lastMsb
      /\ a.out = Made(e, raw)
  BY AssembledIs
<1>6. a.e.bindings = e.bindings
  <2>1. FlushedPairs(e) = [e |-> e, out |-> <<>>]
    BY PairsWait
  <2> QED BY <2>1 DEF Assembled
<1>7. a.out = <<>> \/ \E m \in Msgs : a.out = <<m>>
  BY <1>5, MadeIs
<1> DEFINE b == a.e
           out == a.out
<1>8. /\ Hubs(r.e) /\ r.e.bindings = b.bindings /\ r.e.lastMsb = b.lastMsb
      /\ r.out \in Seq(Events)
      /\ \A cmd \in Moved(r.out) :
           out # <<>> /\ out[1].type = "cc14" /\ cmd.value.x = out[1].value /\ Met(b, r.e, cmd)
  <2>1. Hubs(b) /\ (out = <<>> \/ \E m \in Msgs : out = <<m>>)
    BY <1>5, <1>7
  <2>2. r = FoldLeft(Chained, [e |-> b, out |-> <<>>], out)
    OBVIOUS
  <2> HIDE DEF b, out
  <2> QED BY <2>1, <2>2, ChainedIs
<1>9. \A cmd : Met(b, r.e, cmd) <=> Met(e, r.e, cmd)
  BY <1>5 DEF Met
<1> HIDE DEF a, r
<1> QED BY <1>4, <1>5, <1>6, <1>8, <1>9 DEF Arrived

\* What a turn of the supervisor makes of it.
LEMMA FlushedIs ==
  ASSUME NEW e, Hubs(e)
  PROVE  LET r == Flushed(Aged(e, Timeout))
         IN  /\ Hubs(r.e) /\ r.e.bindings = e.bindings /\ r.e.lastMsb = e.lastMsb /\ r.out \in Seq(Events)
             /\ \A cmd \in Moved(r.out) : 0 \in DOMAIN e.lastMsb /\ cmd.value.x = e.lastMsb[0] * (Coarse + 1)
<1> DEFINE old == [c \in DOMAIN e.pending |-> [msb |-> e.lastMsb[c], age |-> Timeout]]
           g == Aged(e, Timeout)
           p == FlushedPairs(g)
           v == e.lastMsb[0] * (Coarse + 1)
           out == IF 0 \in DOMAIN e.pending THEN <<Cc14(0, v)>> ELSE <<>>
           b == p.e
<1>1. Timeout \in Nat \ {0} /\ Coarse \in Nat \ {0}
  BY CoarseAssumption
<1>2. g = [bindings |-> e.bindings, pairs |-> {0}, pending |-> old, lastMsb |-> e.lastMsb,
           logical |-> e.logical, faders |-> e.faders, armed |-> e.armed, capture |-> {}]
  <2> DEFINE older(q) == [q EXCEPT !.age = IF @ + Timeout < Timeout THEN @ + Timeout ELSE Timeout]
             young == [c \in DOMAIN e.pending |-> older(e.pending[c])]
  <2>1. young = old
    <3>1. ASSUME NEW c \in DOMAIN e.pending PROVE older(e.pending[c]) = [msb |-> e.lastMsb[c], age |-> Timeout]
      <4>1. e.pending[c] = [msb |-> e.lastMsb[c], age |-> 0]
        BY DEF Hubs
      <4> QED BY <1>1, <4>1
    <3> HIDE DEF older
    <3> QED BY <3>1
  <2>2. {older(q) : q \in e.capture} = {}
    BY DEF Hubs
  <2>3. g = [[e EXCEPT !.pending = young] EXCEPT !.capture = {older(q) : q \in e.capture}]
    BY DEF Aged
  <2> HIDE DEF young, older, g, old
  <2> DEFINE h == [e EXCEPT !.pending = old]
  <2>4. h = [bindings |-> e.bindings, pairs |-> {0}, pending |-> old, lastMsb |-> e.lastMsb,
             logical |-> e.logical, faders |-> e.faders, armed |-> e.armed, capture |-> {}]
    BY DEF Hubs
  <2> HIDE DEF h
  <2>5. g = [h EXCEPT !.capture = {}]
    BY <2>1, <2>2, <2>3 DEF h
  <2> QED BY <2>4, <2>5
<1>3. Overdue(g) = DOMAIN e.pending
  <2>1. g.pending = old
    BY <1>2
  <2> HIDE DEF g
  <2> QED BY <1>1, <2>1 DEF Overdue
<1> HIDE DEF g
<1>4. p.out = out
  <2>1. \A c \in DOMAIN e.pending : c = 0 /\ g.pending[c].msb = e.lastMsb[c]
    BY <1>2 DEF Hubs
  <2>2. p.out = SetToSeq({Cc14(c, g.pending[c].msb * (Coarse + 1)) : c \in DOMAIN e.pending})
    BY <1>3 DEF FlushedPairs
  <2>3. {Cc14(c, g.pending[c].msb * (Coarse + 1)) : c \in DOMAIN e.pending} =
          IF 0 \in DOMAIN e.pending THEN {Cc14(0, v)} ELSE {}
    BY <2>1
  <2> HIDE DEF v
  <2> QED BY <2>2, <2>3, ShortSequences
<1>5. b = [bindings |-> e.bindings, pairs |-> {0}, pending |-> <<>>, lastMsb |-> e.lastMsb,
           logical |-> e.logical, faders |-> e.faders, armed |-> e.armed, capture |-> {}]
  <2> DEFINE none == Restrict(g.pending, DOMAIN g.pending \ Overdue(g))
  <2>1. none = <<>>
    <3>1. DOMAIN g.pending \ Overdue(g) = {}
      BY <1>2, <1>3
    <3> QED BY <3>1 DEF Restrict
  <2>2. b = [g EXCEPT !.pending = none]
    BY DEF FlushedPairs
  <2> HIDE DEF none, b, p
  <2> QED BY <1>2, <2>1, <2>2
<1>6. Hubs(b) /\ b.bindings = e.bindings /\ b.lastMsb = e.lastMsb
  <2> HIDE DEF b
  <2> QED BY <1>5 DEF Hubs
<1>7. out = <<>> \/ \E m \in Msgs : out = <<m>>
  <2>1. ASSUME 0 \in DOMAIN e.pending PROVE Cc14(0, v) \in Msgs
    <3>1. e.lastMsb[0] \in Halves
      BY <2>1 DEF Hubs
    <3>2. v \in 0..Fine
      BY <1>1, <3>1, WholeIs DEF Halves
    <3> HIDE DEF v
    <3> QED BY <3>2 DEF Msgs, Cc14
  <2> HIDE DEF v
  <2> QED BY <2>1
<1> DEFINE r == FoldLeft(Chained, [e |-> b, out |-> <<>>], p.out)
           l == LearnFlushed(r.e)
<1>8. /\ Hubs(r.e) /\ r.e.bindings = b.bindings /\ r.e.lastMsb = b.lastMsb
      /\ r.out \in Seq(Events)
      /\ \A cmd \in Moved(r.out) : out # <<>> /\ out[1].type = "cc14" /\ cmd.value.x = out[1].value
  <2>1. r = FoldLeft(Chained, [e |-> b, out |-> <<>>], out)
    BY <1>4
  <2> HIDE DEF r, b, out
  <2>2. Hubs(b) /\ (out = <<>> \/ \E m \in Msgs : out = <<m>>)
    BY <1>6, <1>7
  <2> QED BY <2>1, <2>2, ChainedIs
<1> HIDE DEF r
<1>9. l = [e |-> r.e, out |-> <<>>]
  <2>1. r.e.capture = {}
    BY <1>8 DEF Hubs
  <2> QED BY <2>1 DEF LearnFlushed, Nothing
<1>10. Flushed(Aged(e, Timeout)) = [e |-> r.e, out |-> r.out]
  <2>1. Flushed(Aged(e, Timeout)) = [e |-> l.e, out |-> r.out \o l.out]
    BY DEF Flushed, r, l, g
  <2>2. r.out \o <<>> = r.out
    BY <1>8
  <2> HIDE DEF l
  <2> QED BY <1>9, <2>1, <2>2
<1>11. out # <<>> => 0 \in DOMAIN e.lastMsb /\ out[1].value = v
  BY DEF Hubs, Cc14
<1> HIDE DEF out, b
<1>12. \A cmd \in Moved(r.out) : 0 \in DOMAIN e.lastMsb /\ cmd.value.x = v
  BY <1>8, <1>11
<1> HIDE DEF v
<1> QED BY <1>6, <1>8, <1>10, <1>12 DEF v

----------------------------------------------------------------------------
(* The threads of the hub and the queues between them.                     *)

Addrs == BoundAddrs \cup {c.addr : c \in Orders}
CtlMsgs ==
  [op : {"bind"}, bindings : Bindings] \cup [op : {"logical"}, addr : Addrs, value : Int]
    \cup [op : {"arm", "disarm"}]
BusMsgs == [source : {"midi", "ui"}, cmd : Cmds \cup Orders]

LEMMA ReboundIs ==
  ASSUME NEW e, Hubs(e), NEW bs \in Bindings
  PROVE  Rebound(e, bs) = [e EXCEPT !.bindings = bs]
<1> DEFINE wide == {i \in DOMAIN bs : bs[i].type = "cc" /\ bs[i].wide}
           pairs == {bs[i].cc : i \in wide} \cap (0..31)
           p == Restrict(e.pending, DOMAIN e.pending \cap pairs)
           l == Restrict(e.lastMsb, DOMAIN e.lastMsb \cap pairs)
           f == [[[[e EXCEPT !.bindings = bs] EXCEPT !.pairs = pairs] EXCEPT !.pending = p] EXCEPT !.lastMsb = l]
<1>1. pairs = {0}
  BY PairsAre
<1>2. Rebound(e, bs) = f
  BY DEF Rebound
<1>3. p = e.pending /\ l = e.lastMsb
  <2> HIDE DEF pairs
  <2>1. DOMAIN e.pending \cap pairs = DOMAIN e.pending /\ DOMAIN e.lastMsb \cap pairs = DOMAIN e.lastMsb
    BY <1>1 DEF Hubs
  <2> QED BY <2>1 DEF Restrict, Hubs
<1> HIDE DEF p, l, pairs
<1>4. e.pairs = {0}
  BY DEF Hubs
<1> DEFINE g == [e EXCEPT !.bindings = bs]
<1>5. g = [bindings |-> bs, pairs |-> pairs, pending |-> p, lastMsb |-> l,
           logical |-> e.logical, faders |-> e.faders, armed |-> e.armed, capture |-> {}]
  BY <1>1, <1>3 DEF Hubs
<1>6. f = [[[g EXCEPT !.pairs = pairs] EXCEPT !.pending = p] EXCEPT !.lastMsb = l]
  OBVIOUS
<1> HIDE DEF g, f
<1>7. [g EXCEPT !.pairs = pairs] = g
  BY <1>5
<1>8. [g EXCEPT !.pending = p] = g
  BY <1>5
<1>9. [g EXCEPT !.lastMsb = l] = g
  BY <1>5
<1> QED BY <1>2, <1>6, <1>7, <1>8, <1>9 DEF g

LEMMA OrderedIs ==
  ASSUME NEW e, Hubs(e), NEW msg \in CtlMsgs
  PROVE  LET f == Ordered(e, msg)
         IN  /\ Hubs(f) /\ f.lastMsb = e.lastMsb
             /\ f.bindings = IF msg.op = "bind" THEN msg.bindings ELSE e.bindings
<1> DEFINE f == Ordered(e, msg)
<1>1. CASE msg.op = "bind"
  <2> DEFINE bs == msg.bindings
             g == [e EXCEPT !.bindings = bs]
  <2>1. bs \in Bindings
    BY <1>1 DEF CtlMsgs
  <2>2. f = Rebound(e, bs)
    BY <1>1 DEF Ordered
  <2> HIDE DEF bs, f
  <2>3. f = g
    BY <2>1, <2>2, ReboundIs
  <2>4. Hubs(g) /\ g.bindings = bs /\ g.lastMsb = e.lastMsb
    BY <2>1, BoundToIs
  <2> HIDE DEF g
  <2>5. Hubs(f) /\ f.bindings = bs /\ f.lastMsb = e.lastMsb
    BY <2>3, <2>4
  <2> QED BY <1>1, <2>5 DEF f, bs
<1>2. CASE msg.op = "logical"
  <2> DEFINE a == msg.addr
             v == msg.value
             g == [e EXCEPT !.logical = Put(@, a, v)]
  <2>1. v \in Int
    BY <1>2 DEF CtlMsgs
  <2>2. f = g
    BY <1>2 DEF Ordered, LogicalUpdated
  <2> HIDE DEF a, v, f
  <2>3. Hubs(g) /\ g.bindings = e.bindings /\ g.lastMsb = e.lastMsb
    BY <2>1, LogicalIs
  <2> HIDE DEF g
  <2>4. Hubs(f) /\ f.bindings = e.bindings /\ f.lastMsb = e.lastMsb
    BY <2>2, <2>3
  <2> QED BY <1>2, <2>4 DEF f
<1>3. CASE msg.op \in {"arm", "disarm"}
  <2> DEFINE b == msg.op = "arm"
             g == [e EXCEPT !.armed = b, !.capture = {}]
  <2>1. f = g
    <3>1. CASE msg.op = "arm"
      BY <3>1 DEF Ordered, Armed
    <3>2. CASE msg.op = "disarm"
      BY <3>2 DEF Ordered, Disarmed
    <3> QED BY <1>3, <3>1, <3>2
  <2>2. b \in BOOLEAN
    OBVIOUS
  <2> HIDE DEF b, f
  <2>3. Hubs(g) /\ g.bindings = e.bindings /\ g.lastMsb = e.lastMsb
    BY <2>2, ArmedIs
  <2> HIDE DEF g
  <2>4. Hubs(f) /\ f.bindings = e.bindings /\ f.lastMsb = e.lastMsb
    BY <2>1, <2>3
  <2> QED BY <1>3, <2>4 DEF f
<1> QED BY <1>1, <1>2, <1>3 DEF CtlMsgs

\* The session is told what there is room for; no command is lost.
LEMMA DispatchedIs ==
  ASSUME NEW events \in Seq(Events), midi \in Seq(Cmds), ui \in Seq(Events), Len(ui) <= EventsCap,
         Dispatched(events)
  PROVE  midi' \in Seq(Cmds) /\ ui' \in Seq(Events) /\ Len(ui') <= EventsCap
<1> DEFINE C == [midi : Seq(Cmds), ui : {u \in Seq(Events) : Len(u) <= EventsCap}]
           W == DOMAIN events
           t == [midi |-> midi, ui |-> ui]
           G == [z \in W \X C |-> Sent(z[2], events[z[1]])]
           ch == [S \in SUBSET W |-> Max(S)]
           Body(f) == [S \in SUBSET W |-> IF S = {} THEN t ELSE Sent(f[S \ {Max(S)}], events[Max(S)])]
           g == CHOOSE f : f = Body(f)
<1>1. W \in SUBSET Nat /\ IsFiniteSet(W) /\ \A i \in W : events[i] \in Events
  <2>1. W = 1..Len(events) /\ Len(events) \in Nat
    OBVIOUS
  <2>2. IsFiniteSet(1..Len(events))
    BY <2>1, FS_Interval
  <2> QED BY <2>1, <2>2
<1>2. FoldLeft(Sent, t, events) = g[W]
  BY DEF FoldLeft, MapThenFoldSet
<1>3. ASSUME NEW to \in C, NEW e \in Events PROVE Sent(to, e) \in C
  <2>1. /\ to = [midi |-> to.midi, ui |-> to.ui] /\ to.midi \in Seq(Cmds) /\ to.ui \in Seq(Events)
        /\ Len(to.ui) <= EventsCap
    OBVIOUS
  <2>2. CASE e.type = "command"
    <3>1. e.cmd \in Cmds
      BY <2>2 DEF Events
    <3>2. Sent(to, e) = [midi |-> Append(to.midi, e.cmd), ui |-> to.ui]
      BY <2>1, <2>2 DEF Sent
    <3>3. Append(to.midi, e.cmd) \in Seq(Cmds)
      BY <2>1, <3>1
    <3> QED BY <2>1, <3>2, <3>3
  <2>3. CASE e.type # "command" /\ Len(to.ui) < EventsCap
    <3>1. Sent(to, e) = [midi |-> to.midi, ui |-> Append(to.ui, e)]
      BY <2>1, <2>3 DEF Sent
    <3>2. Append(to.ui, e) \in Seq(Events) /\ Len(Append(to.ui, e)) = Len(to.ui) + 1
      BY <2>1
    <3>3. Len(to.ui) + 1 <= EventsCap
      BY <2>1, <2>3, SurfacesAssumption
    <3> QED BY <2>1, <3>1, <3>2, <3>3
  <2>4. CASE e.type # "command" /\ ~(Len(to.ui) < EventsCap)
    BY <2>1, <2>4 DEF Sent
  <2> QED BY <2>2, <2>3, <2>4
<1>4. t \in C
  OBVIOUS
<1> HIDE DEF C, t
<1>5. \A S \in (SUBSET W) \ {{}} : ch[S] \in S /\ ch[S] = Max(S)
  <2> HIDE DEF W
  <2> SUFFICES ASSUME NEW S \in (SUBSET W) \ {{}} PROVE Max(S) \in S
    OBVIOUS
  <2>1. S \in SUBSET Nat /\ IsFiniteSet(S) /\ S # {}
    BY <1>1, FS_Subset
  <2> QED BY <2>1, MaxIsIn
<1>6. G \in [W \X C -> C] /\ \A i \in W, x \in C : G[<<i, x>>] = Sent(x, events[i])
  BY <1>1, <1>3
<1> HIDE DEF W, G, ch
<1>7. PICK h \in [SUBSET W -> C] : Unfolds(h, SUBSET W, t, G, ch)
  BY <1>1, <1>4, <1>5, <1>6, FoldExists
<1>8. h = Body(h)
  <2>1. ASSUME NEW S \in SUBSET W PROVE h[S] = Body(h)[S]
    <3>1. CASE S = {}
      BY <1>7, <3>1 DEF Unfolds
    <3>2. CASE S # {}
      <4>1. ch[S] = Max(S) /\ ch[S] \in S /\ Max(S) \in W /\ S \ {Max(S)} \in SUBSET W
        BY <1>5, <3>2
      <4>2. h[S] = G[<<Max(S), h[S \ {Max(S)}]>>] /\ h[S \ {Max(S)}] \in C
        BY <1>7, <3>2, <4>1 DEF Unfolds
      <4> QED BY <1>6, <3>2, <4>1, <4>2
    <3> QED BY <3>1, <3>2
  <2> QED BY <2>1
<1>9. g = Body(g)
  BY <1>8
<1> HIDE DEF g
<1>10. g[{}] = t
  <2>1. g[{}] = Body(g)[{}]
    BY <1>9
  <2> QED BY <2>1
<1>11. ASSUME NEW S \in (SUBSET W) \ {{}}, g[S \ {ch[S]}] \in C PROVE g[S] \in C
  <2>1. g[S] = Body(g)[S]
    BY <1>9
  <2>2. g[S] = Sent(g[S \ {Max(S)}], events[Max(S)]) /\ Max(S) \in W /\ ch[S] = Max(S)
    BY <1>5, <2>1
  <2>3. events[Max(S)] \in Events
    BY <1>1, <2>2
  <2> QED BY <1>3, <1>11, <2>2, <2>3
<1>12. Closed(g, W, C, ch)
  BY <1>4, <1>5, <1>10, <1>11 DEF Closed
<1>13. g[W] \in C
  BY <1>1, <1>12, FoldKeeps
<1> DEFINE to == FoldLeft(Sent, t, events)
<1>14. midi' = to.midi /\ ui' = to.ui /\ to \in C
  BY <1>2, <1>13 DEF Dispatched, t
<1> HIDE DEF to
<1> QED BY <1>14 DEF C

----------------------------------------------------------------------------
(* The commands of the session.                                            *)

LEMMA PosedAllIs ==
  ASSUME NEW p, Registers(p), NEW a \in DOMAIN p, NEW v \in Values, NEW origin
  PROVE  LET q == Posed(p, a, v, origin)
         IN  Registers(q) /\ DOMAIN q = DOMAIN p /\ Value(q, a) \in Int
<1> DEFINE s == p[a]
           to == CHOOSE y \in Converted(s.spec.kind, v) : TRUE
           t == Snapped([s EXCEPT !.target = to, !.blending = FALSE])
           new == IF Converted(s.spec.kind, v) = {} THEN s ELSE t
           q == Posed(p, a, v, origin)
<1>1. Going(s)
  BY DEF Registers
<1>2. Going(new)
  <2>1. CASE Converted(s.spec.kind, v) = {}
    BY <1>1, <2>1
  <2>2. CASE Converted(s.spec.kind, v) # {}
    <3> HIDE DEF s
    <3>1. Going(t)
      BY <1>1, <2>2, PosedIs
    <3> HIDE DEF t
    <3> QED BY <2>2, <3>1
  <2> QED BY <2>1, <2>2
<1>3. q = p \/ q = [p EXCEPT ![a] = new]
  BY DEF Posed
<1> HIDE DEF q, new, s
<1>4. Registers(q) /\ DOMAIN q = DOMAIN p
  BY <1>2, <1>3 DEF Registers
<1>5. Value(q, a) \in Int
  <2>1. Going(q[a])
    BY <1>4 DEF Registers
  <2> DEFINE r == q[a]
             x == r.current + r.offset
  <2>2. x \in Int /\ r.spec.kind \in Kinds
    <3>1. r \in ParamStates
      BY <2>1 DEF Going
    <3> HIDE DEF r
    <3>2. r.current \in Int /\ r.offset \in Int /\ r.spec \in Declarations
      BY <3>1 DEF ParamStates
    <3> QED BY <3>2, DeclaredKinds
  <2>3. Value(q, a) = Clamped(r.spec.kind, x)
    BY <1>4 DEF Value, Shown
  <2> HIDE DEF r, x
  <2> QED BY <2>2, <2>3, ClampedIs
<1> QED BY <1>4, <1>5 DEF q

\* What the hub is told of a command: all of a new show, one thing at a time.
Told ==
  \/ ctl' = ctl /\ Shows[show'].bindings = Shows[show].bindings
  \/ \E m \in CtlMsgs :
       ctl' = Append(ctl, m) /\ IF m.op = "bind" THEN m.bindings = Shows[show'].bindings ELSE show' = show

LEMMA SetIs ==
  ASSUME Plays, NEW a \in Addrs, NEW v \in Values, NEW origin, Set(a, v, origin)
  PROVE  /\ Registers(params') /\ Modulates(mods') /\ DOMAIN params' = DOMAIN params
         /\ ctl' = ctl \/ \E m \in CtlMsgs : ctl' = Append(ctl, m) /\ m.op # "bind"
<1>1. CASE a \notin DOMAIN params
  BY <1>1 DEF Set, Plays
<1>2. CASE a \in DOMAIN params
  <2> DEFINE q == Posed(params, a, v, origin)
             x == Value(q, a)
             m == [op |-> "logical", addr |-> a, value |-> x]
  <2>1. Registers(q) /\ DOMAIN q = DOMAIN params /\ x \in Int
    BY <1>2, PosedAllIs DEF Plays
  <2>2. params' = q /\ ctl' = Append(ctl, m) /\ Knob(a, x)
    BY <1>2 DEF Set
  <2> HIDE DEF q
  <2> HIDE DEF x
  <2>3. Modulates(mods')
    <3>1. CASE a \in DOMAIN Shows[show].knobs
      <4> DEFINE ids == Shows[show].knobs[a]
      <4>1. mods' = Mod!DepthSet(mods, ids, x)
        BY <2>2, <3>1 DEF Knob
      <4> HIDE DEF ids
      <4> QED BY <2>1, <4>1, DepthSetIs DEF Plays
    <3>2. CASE a \notin DOMAIN Shows[show].knobs
      BY <2>2, <3>2 DEF Knob, Plays
    <3> QED BY <3>1, <3>2
  <2>4. m \in CtlMsgs /\ m.op # "bind"
    BY <2>1 DEF CtlMsgs
  <2> HIDE DEF m
  <2> QED BY <2>1, <2>2, <2>3, <2>4
<1> QED BY <1>1, <1>2

\* An edit keeps what plays.
Kept ==
  /\ \A a \in DOMAIN params \cap DOMAIN params' :
       params[a].spec.kind = params'[a].spec.kind =>
         Shown(params'[a]) = Shown(params[a]) /\ params'[a].blending = params[a].blending
  /\ \A m \in DOMAIN mods.mods \cap DOMAIN mods'.mods :
       mods.mods[m].cfg.type = mods'.mods[m].cfg.type =>
         mods'.mods[m].state.phase = mods.mods[m].state.phase

\* An edit lets the fade run, or puts it to its end.
Ended(op) ==
  LET old == Shows[show]  new == Shows[show'] IN
  /\ op = "edit" /\ new.cues = old.cues => fade' = fade
  /\ op = "edit" /\ new.cues # old.cues =>
       /\ DOMAIN fade.before.finished \subseteq DOMAIN fade'.finished
       /\ \A r \in fade.before.running : \A a \in DOMAIN r.goal :
            a \in DOMAIN fade'.finished /\ fade'.finished[a] = r.goal[a]

\* What a change of the show makes of the registry and the modulators.
LEMMA ChangeIs ==
  ASSUME Plays, NEW n \in DOMAIN Shows,
         params' \in {Rebuilt(params, Shows[n]), Patched(Rebuilt(params, Shows[n]), Shows[n])},
         mods' \in {mods, Mod!Loaded(mods, Shows[n].modulators, Shows[n].routes)}
  PROVE  Registers(params') /\ Modulates(mods') /\ Kept
<1> DEFINE r == Rebuilt(params, Shows[n])
           q == Patched(r, Shows[n])
           l == Mod!Loaded(mods, Shows[n].modulators, Shows[n].routes)
<1>1. /\ Registers(q) /\ \A a \in DOMAIN params \cap DOMAIN q : Same(params[a], q[a])
      /\ Registers(r) /\ \A a \in DOMAIN params \cap DOMAIN r : Same(params[a], r[a])
  BY RebuiltIs DEF Plays
<1>2. /\ Modulates(l)
      /\ \A m \in DOMAIN mods.mods \cap DOMAIN l.mods :
           mods.mods[m].cfg.type = l.mods[m].cfg.type => l.mods[m].state.phase = mods.mods[m].state.phase
  BY LoadedIs DEF Plays
<1> HIDE DEF q, l, r
<1>3. /\ Registers(params')
      /\ \A a \in DOMAIN params \cap DOMAIN params' : Same(params[a], params'[a])
  BY <1>1 DEF q, r
<1>4. /\ Modulates(mods')
      /\ \A m \in DOMAIN mods.mods \cap DOMAIN mods'.mods :
           mods.mods[m].cfg.type = mods'.mods[m].cfg.type =>
             mods'.mods[m].state.phase = mods.mods[m].state.phase
  BY <1>2 DEF Plays, l
<1> QED BY <1>3, <1>4 DEF Kept, Same, Shown

LEMMA EditIs ==
  ASSUME Plays, NEW n \in DOMAIN Shows, Edit(n)
  PROVE  Plays' /\ show' = n /\ Kept /\ Ended("edit")
<1>1. /\ params' \in {Rebuilt(params, Shows[n]), Patched(Rebuilt(params, Shows[n]), Shows[n])}
      /\ mods' \in {mods, Mod!Loaded(mods, Shows[n].modulators, Shows[n].routes)}
      /\ show' = n /\ fade' = IF Shows[n].cues = Shows[show].cues THEN fade ELSE CutShort
  BY DEF Edit, Follow
<1>2. Registers(params') /\ Modulates(mods') /\ Kept
  BY <1>1, ChangeIs
<1>3. Fades(fade') /\ Ended("edit")
  BY <1>1, CutShortIs DEF Plays, Ended
<1> QED BY <1>1, <1>2, <1>3 DEF Plays

LEMMA LoadIs ==
  ASSUME Plays, NEW n \in DOMAIN Shows, Load(n)
  PROVE  Plays' /\ show' = n /\ Kept
<1>1. /\ params' = Patched(Rebuilt(params, Shows[n]), Shows[n])
      /\ mods' = Mod!Loaded(mods, Shows[n].modulators, Shows[n].routes)
      /\ show' = n /\ fade' = NoFade
  BY DEF Load
<1>2. Registers(params') /\ Modulates(mods') /\ Kept
  BY <1>1, ChangeIs
<1> QED BY <1>1, <1>2, NoFadeIs DEF Plays

LEMMA ObeysIs ==
  ASSUME Plays, NEW origin, NEW cmd \in Cmds \cup Orders, Obeys(origin, cmd)
  PROVE  Plays' /\ Told /\ (cmd.op \in {"edit", "load"} => Kept /\ Ended(cmd.op))
<1>1. show \in DOMAIN Shows /\ Registers(params) /\ Modulates(mods) /\ Fades(fade)
  BY DEF Plays
<1>2. Obeyed(cmd)
  <2>1. CASE cmd \in Sets
    <3>1. cmd.op = "set" /\ cmd.value \in Values
      BY <2>1, FineIs DEF Sets, Values
    <3> QED BY <3>1 DEF Obeyed
  <2>2. CASE cmd = [op |-> "go"]
    BY <2>2 DEF Obeyed
  <2>3. CASE cmd \in Orders
    BY <2>3, ShowsAssumption
  <2> QED BY <2>1, <2>2, <2>3 DEF Cmds
<1>3. cmd.op = "set" \/ cmd.op = "nudge" => cmd.addr \in Addrs
  BY DEF Addrs, Cmds, Sets
<1>4. ASSUME NEW a \in Addrs, NEW v \in Values, Set(a, v, origin), UNCHANGED <<show, fade>>
      PROVE  Plays' /\ Told /\ show' = show
  BY <1>1, <1>4, SetIs DEF Plays, Told
<1>5. CASE cmd.op = "set"
  BY <1>2, <1>3, <1>4, <1>5 DEF Obeys, Obeyed
<1>6. CASE cmd.op = "nudge"
  <2> DEFINE a == cmd.addr
             v == [type |-> "F", x |-> params[a].target + cmd.delta]
  <2>1. a \in Addrs /\ cmd.delta \in Int
    BY <1>2, <1>3, <1>6 DEF Obeyed
  <2>2. Nudge(a, cmd.delta, origin) /\ UNCHANGED <<show, fade>>
    BY <1>6 DEF Obeys
  <2>3. CASE a \notin DOMAIN params \/ params[a].spec.kind.type \notin {"float", "int"}
    <3>1. UNCHANGED <<params, ctl, mods>>
      BY <2>2, <2>3 DEF Nudge
    <3> QED BY <1>1, <1>6, <2>2, <3>1 DEF Plays, Told
  <2>4. CASE ~(a \notin DOMAIN params \/ params[a].spec.kind.type \notin {"float", "int"})
    <3>1. Set(a, v, origin)
      BY <2>2, <2>4 DEF Nudge
    <3>2. v \in Values
      <4>1. Going(params[a])
        BY <1>1, <2>4 DEF Registers
      <4> DEFINE r == params[a]
                 x == r.target + cmd.delta
      <4>2. r \in ParamStates
        BY <4>1 DEF Going
      <4> HIDE DEF r
      <4>3. r.target \in Int
        BY <4>2 DEF ParamStates
      <4>4. x \in Int
        BY <2>1, <4>3
      <4>5. v = [type |-> "F", x |-> x]
        BY DEF r
      <4> HIDE DEF x, v
      <4> QED BY <4>4, <4>5 DEF Values
    <3> HIDE DEF v, a
    <3> QED BY <1>4, <1>6, <2>1, <2>2, <3>1, <3>2
  <2> QED BY <2>3, <2>4
<1>7. CASE cmd.op = "go"
  <2>1. PICK c \in Shows[show].cues : Go(c)
    BY <1>7 DEF Obeys
  <2>2. UNCHANGED <<show, params, mods, ctl>>
    BY <1>7 DEF Obeys
  <2>3. c \in Cues
    BY <1>1, <2>1 DEF Cues
  <2>4. Fades(fade')
    BY <1>1, <2>1, <2>3, GoIs
  <2> QED BY <1>1, <1>7, <2>2, <2>4 DEF Plays, Told
<1>8. CASE cmd.op \in {"edit", "load"}
  <2> DEFINE n == cmd.show
             m == [op |-> "bind", bindings |-> Shows[n].bindings]
  <2>1. n \in DOMAIN Shows /\ (cmd.op = "edit" => Edit(n)) /\ (cmd.op = "load" => Load(n))
    BY <1>2, <1>8 DEF Obeys, Obeyed
  <2> HIDE DEF n
  <2>2. Plays' /\ show' = n /\ Kept /\ Ended(cmd.op)
    <3>1. CASE cmd.op = "edit"
      BY <2>1, <3>1, EditIs
    <3>2. CASE cmd.op = "load"
      BY <2>1, <3>2, LoadIs DEF Ended
    <3> QED BY <1>8, <3>1, <3>2
  <2>3. ctl' = Append(ctl, m) \/ (ctl' = ctl /\ Shows[n].bindings = Shows[show].bindings)
    <3>1. CASE cmd.op = "edit"
      BY <2>1, <3>1 DEF Edit, PatchOf
    <3>2. CASE cmd.op = "load"
      BY <2>1, <3>2 DEF Load
    <3> QED BY <1>8, <3>1, <3>2
  <2>4. m \in CtlMsgs /\ m.op = "bind" /\ m.bindings = Shows[n].bindings
    BY <2>1 DEF CtlMsgs, Bindings
  <2> HIDE DEF m
  <2> QED BY <2>2, <2>3, <2>4 DEF Told
<1>9. CASE cmd.op = "learn"
  <2> DEFINE m == [op |-> IF cmd.on THEN "arm" ELSE "disarm"]
  <2>1. ctl' = Append(ctl, m) /\ UNCHANGED <<show, params, mods, fade>>
    BY <1>9 DEF Obeys
  <2>2. m \in CtlMsgs /\ m.op # "bind"
    <3>1. CASE cmd.on
      BY <3>1 DEF CtlMsgs
    <3>2. CASE ~cmd.on
      BY <3>2 DEF CtlMsgs
    <3> QED BY <3>1, <3>2
  <2> HIDE DEF m
  <2> QED BY <1>1, <1>9, <2>1, <2>2 DEF Plays, Told
<1> QED BY <1>2, <1>5, <1>6, <1>7, <1>8, <1>9 DEF Obeyed

----------------------------------------------------------------------------
(* The inductive invariant of the hub and of the session.                  *)

Hands ==
  /\ Hubs(engine) /\ hand \in Seq(Events) /\ turn \in Seq(Events) /\ ctl \in Seq(CtlMsgs)
  /\ midi \in Seq(Cmds) /\ bus \in Seq(BusMsgs) /\ ui \in Seq(Events)

Bounds ==
  /\ port \in BOOLEAN /\ device \in BOOLEAN /\ status \in {"inactif", "ok", "erreur"}
  /\ Len(ui) <= EventsCap /\ Len(bus) <= BusCap /\ drained \in 0..Budget

\* Each half on the wire is of a position of the device, and the second one
\* comes just after the first.
First(m) == m.type = "cc" /\ m.cc = 0
Second(m) == m.type = "cc" /\ m.cc = 32
Half(V, v) == \E p \in V : v = p \div (Coarse + 1)
OnWire ==
  /\ wire \in Seq(Raw) /\ visited \subseteq Fines
  /\ \A i \in DOMAIN wire : First(wire[i]) => Half(visited, wire[i].value)
  /\ \A i \in DOMAIN wire : Second(wire[i]) /\ i > 1 =>
       First(wire[i - 1]) /\ Whole(wire[i - 1], wire[i]) \in visited
  /\ wire # <<>> /\ Second(wire[1]) =>
       0 \in DOMAIN engine.lastMsb /\ engine.lastMsb[0] * (Coarse + 1) + wire[1].value \in visited
  /\ 0 \in DOMAIN engine.lastMsb => Half(visited, engine.lastMsb[0])

\* The last order of the session is the show.
Behind ==
  \/ engine.bindings = Shows[show].bindings /\ \A i \in DOMAIN ctl : ctl[i].op # "bind"
  \/ \E i \in DOMAIN ctl : /\ ctl[i].op = "bind" /\ ctl[i].bindings = Shows[show].bindings
                           /\ \A j \in DOMAIN ctl : j > i => ctl[j].op # "bind"

Travelled == Reported(engine.faders) \subseteq travel

IInv == Plays /\ Hands /\ Bounds /\ OnWire /\ PairsWhole /\ Behind /\ Travelled

LEMMA Queues ==
  ASSUME NEW S, NEW s \in Seq(S)
  PROVE  /\ s # <<>> => Head(s) \in S /\ Tail(s) \in Seq(S) /\ Len(Tail(s)) = Len(s) - 1 /\ Head(s) = s[1]
                          /\ DOMAIN Tail(s) = 1..(Len(s) - 1) /\ \A i \in 1..(Len(s) - 1) : Tail(s)[i] = s[i + 1]
         /\ \A x \in S : /\ Append(s, x) \in Seq(S) /\ Len(Append(s, x)) = Len(s) + 1
                         /\ DOMAIN Append(s, x) = 1..(Len(s) + 1)
                         /\ \A i \in 1..Len(s) : Append(s, x)[i] = s[i]
                         /\ Append(s, x)[Len(s) + 1] = x
         /\ DOMAIN s = 1..Len(s) /\ Len(s) \in Nat
OBVIOUS

\* What plays, whatever the surfaces and the hub do.
LEMMA PlaysStep ==
  ASSUME Plays, Hands, Bounds, [HNext]_<<vars, histVars>>
  PROVE  /\ Plays'
         /\ drained' > drained /\ Head(bus).cmd.op \in {"edit", "load"} =>
              Kept /\ Ended(Head(bus).cmd.op)
         /\ drained' <= drained => Forward \/ params' = params
<1> drained \in Nat
  BY SurfacesAssumption DEF Bounds
<1>1. CASE UNCHANGED playVars /\ drained' = drained
  BY <1>1 DEF playVars, Plays
<1>2. CASE Command
  <2> DEFINE b == Head(bus)
  <2>1. b \in BusMsgs
    BY <1>2, Queues DEF Hands, Command
  <2>2. Obeys(b.source, b.cmd) /\ drained' = drained + 1 /\ drained < Budget
    BY <1>2 DEF Command
  <2> HIDE DEF b
  <2>3. b.cmd \in Cmds \cup Orders
    BY <2>1 DEF BusMsgs
  <2>4. Plays' /\ (b.cmd.op \in {"edit", "load"} => Kept /\ Ended(b.cmd.op))
    BY <2>2, <2>3, ObeysIs
  <2>5. ~(drained' <= drained)
    BY <2>2
  <2> QED BY <2>4, <2>5 DEF b
<1>3. CASE Frames
  <2>1. PICK alpha \in Alphas, gain \in Gains : Frame(alpha, gain, 1)
    BY <1>3 DEF Frames
  <2>2. drained' = 0
    BY <2>1 DEF Frame
  <2> QED BY <2>1, <2>2, FrameIs
<1>4. CASE DeviceMoves
  BY <1>1, <1>4 DEF DeviceMoves, Move, Press, Unplug, Plug
<1>5. CASE OS
  BY <1>1, <1>5 DEF OS, Callback, CallbackSends
<1>6. CASE Hub
  BY <1>1, <1>6 DEF Hub, FollowOrder, Flush, SupervisorSends, Scan
<1>7. CASE Bridge \/ \E cmd \in Orders : Order(cmd)
  BY <1>1, <1>7 DEF Bridge, Order
<1>8. CASE UNCHANGED <<vars, histVars>>
  BY <1>1, <1>8 DEF vars
<1> QED BY <1>2, <1>3, <1>4, <1>5, <1>6, <1>7, <1>8 DEF HNext, Next

\* The hub and the queues.
LEMMA HandsStep ==
  ASSUME Plays, Hands, Bounds, OnWire, [HNext]_<<vars, histVars>>
  PROVE  Hands' /\ Bounds'
<1> USE DEF Hands, Bounds
<1>1. CASE DeviceMoves
  BY <1>1 DEF DeviceMoves, Move, Press, Unplug, Plug, hubVars
<1>2. CASE Callback
  <2> DEFINE raw == Head(wire)
             r == Handled(engine, raw, AllCall)
  <2>1. raw \in Raw
    BY <1>2, Queues DEF Callback, OnWire
  <2>2. engine' = r.e /\ hand' = r.out
    BY <1>2 DEF Callback
  <2>3. UNCHANGED <<device, port, turn, ctl, midi, ui, bus, status, drained>>
    BY <1>2 DEF Callback
  <2> HIDE DEF raw
  <2>4. Arrived(engine, raw, r)
    BY <2>1, HandledIs
  <2> HIDE DEF r
  <2> QED BY <2>2, <2>3, <2>4 DEF Arrived
<1>3. CASE CallbackSends
  <2>1. Dispatched(hand) /\ hand' = <<>>
    BY <1>3 DEF CallbackSends
  <2>2. UNCHANGED <<device, port, engine, turn, ctl, bus, status, drained>>
    BY <1>3 DEF CallbackSends
  <2>3. midi' \in Seq(Cmds) /\ ui' \in Seq(Events) /\ Len(ui') <= EventsCap
    BY <2>1, DispatchedIs
  <2> QED BY <2>1, <2>2, <2>3
<1>4. CASE FollowOrder
  <2> DEFINE m == Head(ctl)
  <2>1. m \in CtlMsgs /\ Tail(ctl) \in Seq(CtlMsgs)
    BY <1>4, Queues DEF FollowOrder
  <2>2. ctl' = Tail(ctl) /\ engine' = Ordered(engine, m)
    BY <1>4 DEF FollowOrder
  <2>3. UNCHANGED <<device, port, hand, turn, midi, ui, bus, status, drained>>
    BY <1>4 DEF FollowOrder
  <2> HIDE DEF m
  <2>4. Hubs(engine')
    BY <2>1, <2>2, OrderedIs
  <2> QED BY <2>1, <2>2, <2>3, <2>4
<1>5. CASE Flush
  <2> DEFINE r == Flushed(Aged(engine, Timeout))
  <2>1. engine' = r.e /\ turn' = r.out
    BY <1>5 DEF Flush
  <2>2. UNCHANGED <<device, port, hand, ctl, midi, ui, bus, status, drained>>
    BY <1>5 DEF Flush
  <2>3. Hubs(r.e) /\ r.out \in Seq(Events)
    BY FlushedIs
  <2> HIDE DEF r
  <2> QED BY <2>1, <2>2, <2>3
<1>6. CASE SupervisorSends
  <2>1. Dispatched(turn) /\ turn' = <<>>
    BY <1>6 DEF SupervisorSends
  <2>2. UNCHANGED <<device, port, engine, hand, ctl, bus, status, drained>>
    BY <1>6 DEF SupervisorSends
  <2>3. midi' \in Seq(Cmds) /\ ui' \in Seq(Events) /\ Len(ui') <= EventsCap
    BY <2>1, DispatchedIs
  <2> QED BY <2>1, <2>2, <2>3
<1>7. CASE Scan
  <2> DEFINE e == [type |-> IF device THEN "connected" ELSE "disconnected"]
  <2>1. e \in Events
    <3>1. CASE device
      BY <3>1 DEF Events
    <3>2. CASE ~device
      BY <3>2 DEF Events
    <3> QED BY <3>1, <3>2
  <2>2. port' = device /\ ui' = IF Len(ui) < EventsCap THEN Append(ui, e) ELSE ui
    BY <1>7 DEF Scan
  <2>3. UNCHANGED <<device, engine, hand, turn, ctl, midi, bus, status, drained>>
    BY <1>7 DEF Scan
  <2> HIDE DEF e
  <2>4. ui' \in Seq(Events) /\ Len(ui') <= EventsCap
    BY <2>1, <2>2, SurfacesAssumption, Queues
  <2> QED BY <2>2, <2>3, <2>4
<1>8. CASE Bridge
  <2> DEFINE m == [source |-> "midi", cmd |-> Head(midi)]
  <2>1. Head(midi) \in Cmds /\ Tail(midi) \in Seq(Cmds)
    BY <1>8, Queues DEF Bridge
  <2>2. m \in BusMsgs
    BY <2>1 DEF BusMsgs
  <2>3. midi' = Tail(midi) /\ bus' = Append(bus, m) /\ Len(bus) < BusCap
    BY <1>8 DEF Bridge
  <2>4. UNCHANGED <<device, port, engine, hand, turn, ctl, ui, status, drained>>
    BY <1>8 DEF Bridge
  <2> HIDE DEF m
  <2>5. bus' \in Seq(BusMsgs) /\ Len(bus') <= BusCap
    BY <2>2, <2>3, SurfacesAssumption, Queues
  <2> QED BY <2>1, <2>3, <2>4, <2>5
<1>9. ASSUME NEW cmd \in Orders, Order(cmd) PROVE Hands' /\ Bounds'
  <2> DEFINE m == [source |-> "ui", cmd |-> cmd]
  <2>1. m \in BusMsgs
    BY DEF BusMsgs
  <2>2. bus' = Append(bus, m) /\ Len(bus) < BusCap
    BY <1>9 DEF Order
  <2>3. UNCHANGED <<device, port, engine, hand, turn, ctl, midi, ui, status, drained>>
    BY <1>9 DEF Order, hubVars
  <2> HIDE DEF m
  <2>4. bus' \in Seq(BusMsgs) /\ Len(bus') <= BusCap
    BY <2>1, <2>2, SurfacesAssumption, Queues
  <2> QED BY <2>2, <2>3, <2>4
<1>10. CASE Command
  <2> DEFINE b == Head(bus)
  <2>1. b \in BusMsgs /\ Tail(bus) \in Seq(BusMsgs) /\ Len(Tail(bus)) = Len(bus) - 1 /\ Len(bus) \in Nat
    BY <1>10, Queues DEF Command
  <2>2. Obeys(b.source, b.cmd) /\ drained' = drained + 1 /\ drained < Budget /\ bus' = Tail(bus)
    BY <1>10 DEF Command
  <2>3. UNCHANGED <<device, port, engine, hand, turn, midi, ui, status>>
    BY <1>10 DEF Command
  <2> HIDE DEF b
  <2>4. b.cmd \in Cmds \cup Orders
    BY <2>1 DEF BusMsgs
  <2>5. Told
    BY <2>2, <2>4, ObeysIs
  <2>6. ctl' \in Seq(CtlMsgs)
    <3>1. CASE ctl' = ctl
      BY <3>1
    <3>2. ASSUME NEW m \in CtlMsgs, ctl' = Append(ctl, m) PROVE ctl' \in Seq(CtlMsgs)
      BY <3>2, Queues
    <3> QED BY <2>5, <3>1, <3>2 DEF Told
  <2>7. drained' \in 0..Budget /\ Len(bus') <= BusCap
    BY <2>1, <2>2, SurfacesAssumption
  <2> QED BY <2>1, <2>2, <2>3, <2>6, <2>7
<1>11. CASE Frames
  <2>1. PICK alpha \in Alphas, gain \in Gains : Frame(alpha, gain, 1)
    BY <1>11 DEF Frames
  <2>2. /\ status' = StatusAfter(ui) /\ ui' = <<>> /\ drained' = 0
        /\ UNCHANGED <<device, port, engine, hand, turn, ctl, midi, bus>>
    BY <2>1 DEF Frame
  <2>3. status' \in {"inactif", "ok", "erreur"}
    BY <2>2 DEF StatusAfter
  <2>4. drained' \in 0..Budget /\ Len(ui') <= EventsCap /\ ui' \in Seq(Events)
    BY <2>2, SurfacesAssumption
  <2> QED BY <2>2, <2>3, <2>4
<1>12. CASE UNCHANGED <<vars, histVars>>
  BY <1>12 DEF vars, hubVars
<1> QED BY <1>1, <1>2, <1>3, <1>4, <1>5, <1>6, <1>7, <1>8, <1>9, <1>10, <1>11, <1>12
        DEF HNext, Next, OS, Hub

\* The last order.
LEMMA BehindStep ==
  ASSUME Plays, Hands, Behind, [HNext]_<<vars, histVars>>, OnWire
  PROVE  Behind'
<1> USE DEF Behind
<1>1. CASE UNCHANGED <<engine, ctl, show>>
  BY <1>1
<1>2. CASE Callback
  <2> DEFINE raw == Head(wire)
             r == Handled(engine, raw, AllCall)
  <2>1. raw \in Raw
    BY <1>2, Queues DEF Callback, OnWire
  <2>2. engine' = r.e /\ UNCHANGED <<ctl, show>>
    BY <1>2 DEF Callback, playVars
  <2> HIDE DEF raw
  <2>3. Arrived(engine, raw, r)
    BY <2>1, HandledIs DEF Hands
  <2> HIDE DEF r
  <2>4. engine'.bindings = engine.bindings
    BY <2>2, <2>3 DEF Arrived
  <2> QED BY <2>2, <2>4
<1>3. CASE Flush
  <2> DEFINE r == Flushed(Aged(engine, Timeout))
  <2>1. engine' = r.e /\ UNCHANGED <<ctl, show>>
    BY <1>3 DEF Flush, playVars
  <2>2. r.e.bindings = engine.bindings
    BY FlushedIs DEF Hands
  <2> HIDE DEF r
  <2> QED BY <2>1, <2>2
<1>4. CASE FollowOrder
  <2> DEFINE m == Head(ctl)
             n == Len(ctl)
  <2>1. /\ m \in CtlMsgs /\ m = ctl[1] /\ DOMAIN ctl = 1..n /\ n \in Nat /\ n > 0
        /\ DOMAIN Tail(ctl) = 1..(n - 1) /\ \A i \in 1..(n - 1) : Tail(ctl)[i] = ctl[i + 1]
    BY <1>4, Queues DEF FollowOrder, Hands
  <2>2. ctl' = Tail(ctl) /\ engine' = Ordered(engine, m) /\ show' = show
    BY <1>4 DEF FollowOrder, playVars
  <2> HIDE DEF m, n
  <2>3. engine'.bindings = IF m.op = "bind" THEN m.bindings ELSE engine.bindings
    BY <2>1, <2>2, OrderedIs DEF Hands
  <2>4. DOMAIN ctl' = 1..(n - 1) /\ \A i \in 1..(n - 1) : ctl'[i] = ctl[i + 1]
    BY <2>1, <2>2
  <2>5. CASE engine.bindings = Shows[show].bindings /\ \A i \in DOMAIN ctl : ctl[i].op # "bind"
    <3>1. m.op # "bind"
      BY <2>1, <2>5
    <3>2. ASSUME NEW i \in DOMAIN ctl' PROVE ctl'[i].op # "bind"
      <4>1. i \in 1..(n - 1) /\ i + 1 \in 1..n
        BY <2>1, <2>4
      <4>2. ctl'[i] = ctl[i + 1] /\ i + 1 \in DOMAIN ctl
        BY <2>1, <2>4, <4>1
      <4> QED BY <2>5, <4>2
    <3> QED BY <2>2, <2>3, <2>5, <3>1, <3>2
  <2>6. ASSUME NEW i \in DOMAIN ctl, ctl[i].op = "bind", ctl[i].bindings = Shows[show].bindings,
               \A j \in DOMAIN ctl : j > i => ctl[j].op # "bind"
        PROVE  Behind'
    <3>1. CASE i = 1
      <4>1. engine'.bindings = Shows[show'].bindings
        BY <2>1, <2>2, <2>3, <2>6, <3>1
      <4>2. \A j \in DOMAIN ctl' : ctl'[j].op # "bind"
        BY <2>1, <2>4, <2>6, <3>1
      <4> QED BY <4>1, <4>2
    <3>2. CASE i # 1
      <4> DEFINE k == i - 1
      <4>1. k \in DOMAIN ctl' /\ ctl'[k] = ctl[i]
        BY <2>1, <2>4, <3>2
      <4>2. ASSUME NEW j \in DOMAIN ctl', j > k PROVE ctl'[j].op # "bind"
        <5> DEFINE l == j + 1
        <5>1. l \in DOMAIN ctl /\ l > i /\ ctl'[j] = ctl[l]
          BY <2>1, <2>4, <4>2
        <5> HIDE DEF l
        <5> QED BY <2>6, <5>1
      <4> HIDE DEF k
      <4> QED BY <2>2, <2>6, <4>1, <4>2
    <3> QED BY <3>1, <3>2
  <2> QED BY <2>5, <2>6
<1>5. CASE Command
  <2> DEFINE b == Head(bus)
             n == Len(ctl)
  <2>1. b \in BusMsgs
    BY <1>5, Queues DEF Hands, Command
  <2>2. Obeys(b.source, b.cmd) /\ engine' = engine
    BY <1>5 DEF Command
  <2> HIDE DEF b
  <2>3. b.cmd \in Cmds \cup Orders
    BY <2>1 DEF BusMsgs
  <2>4. Told
    BY <2>2, <2>3, ObeysIs
  <2>5. CASE ctl' = ctl /\ Shows[show'].bindings = Shows[show].bindings
    BY <2>2, <2>5
  <2>6. ASSUME NEW m \in CtlMsgs, ctl' = Append(ctl, m),
               IF m.op = "bind" THEN m.bindings = Shows[show'].bindings ELSE show' = show
        PROVE  Behind'
    <3>1. DOMAIN ctl = 1..n /\ n \in Nat
      BY Queues DEF Hands
    <3>2. DOMAIN ctl' = 1..(n + 1) /\ (\A i \in 1..n : ctl'[i] = ctl[i]) /\ ctl'[n + 1] = m
      BY <2>6, Queues DEF Hands
    <3> HIDE DEF n
    <3>3. CASE m.op = "bind"
      <4>1. \A j \in DOMAIN ctl' : ~(j > n + 1)
        BY <3>1, <3>2
      <4>2. n + 1 \in DOMAIN ctl'
        BY <3>1, <3>2
      <4> QED BY <2>6, <3>2, <3>3, <4>1, <4>2
    <3>4. CASE m.op # "bind"
      <4>1. \A j \in DOMAIN ctl' : j \in DOMAIN ctl \/ ctl'[j].op # "bind"
        BY <3>1, <3>2, <3>4
      <4>2. \A j \in DOMAIN ctl : j \in DOMAIN ctl' /\ ctl'[j] = ctl[j]
        BY <3>1, <3>2
      <4> QED BY <2>2, <2>6, <3>4, <4>1, <4>2
    <3> QED BY <3>3, <3>4
  <2> QED BY <2>4, <2>5, <2>6 DEF Told
<1>6. CASE Frames
  <2>1. PICK alpha \in Alphas, gain \in Gains : Frame(alpha, gain, 1)
    BY <1>6 DEF Frames
  <2> QED BY <1>1, <2>1 DEF Frame
<1>7. CASE DeviceMoves
  BY <1>1, <1>7 DEF DeviceMoves, Move, Press, Unplug, Plug, hubVars, playVars
<1>8. CASE CallbackSends \/ SupervisorSends \/ Scan
  BY <1>1, <1>8 DEF CallbackSends, SupervisorSends, Scan, playVars
<1>9. CASE Bridge \/ \E cmd \in Orders : Order(cmd)
  BY <1>1, <1>9 DEF Bridge, Order, hubVars, playVars
<1>10. CASE UNCHANGED <<vars, histVars>>
  BY <1>1, <1>10 DEF vars, hubVars, playVars
<1> QED BY <1>2, <1>3, <1>4, <1>5, <1>6, <1>7, <1>8, <1>9, <1>10 DEF HNext, Next, OS, Hub

\* The halves of a position.
LEMMA Parts ==
  ASSUME NEW p \in Fines
  PROVE  LET m == p \div (Coarse + 1)  l == p % (Coarse + 1)
         IN  /\ m \in Halves /\ l \in Halves
             /\ m * (Coarse + 1) + l = p /\ m * (Coarse + 1) = p - l
<1> DEFINE d == Coarse + 1
           m == p \div d
           l == p % d
<1>1. Coarse \in Nat /\ Coarse > 0 /\ d \in Nat /\ d > 0 /\ d = Coarse + 1
  BY CoarseAssumption
<1>2. p \in Nat /\ p <= Coarse * (Coarse + 2) /\ Coarse * (Coarse + 2) \in Nat
  BY <1>1, FineIs DEF Fines, Fine
<1>3. Coarse * (Coarse + 2) < d * d
  <2>1. d * d = Coarse * (Coarse + 2) + 1
    BY <1>1
  <2> QED BY <1>1, <1>2, <2>1
<1> HIDE DEF d
<1>4. m \in Nat /\ l \in 0..(d - 1) /\ p = d * m + l
  BY <1>1, <1>2
<1> HIDE DEF m, l
<1>5. m < d
  <2> SUFFICES ASSUME m >= d PROVE FALSE
    BY <1>1, <1>4
  <2>1. d * m >= d * d /\ d * d \in Nat /\ d * m \in Nat
    BY <1>1, <1>4
  <2> QED BY <1>2, <1>3, <1>4, <2>1
<1>6. m * d = d * m /\ m * d \in Nat
  BY <1>1, <1>4
<1>7. m \in Halves /\ l \in Halves
  BY <1>1, <1>4, <1>5 DEF Halves
<1>8. m * d + l = p /\ m * d = p - l
  BY <1>2, <1>4, <1>6
<1> QED BY <1>7, <1>8 DEF d, m, l

\* The value a half makes is of a position that was sent.
LEMMA HalfIs ==
  ASSUME visited \subseteq Fines, NEW v, Half(visited, v)
  PROVE  \E p \in visited : v * (Coarse + 1) = p - (p % (Coarse + 1))
<1>1. PICK p \in visited : v = p \div (Coarse + 1)
  BY DEF Half
<1>2. (p \div (Coarse + 1)) * (Coarse + 1) = p - (p % (Coarse + 1))
  BY <1>1, Parts
<1> QED BY <1>1, <1>2

\* The commands the engine makes of the head of the wire are whole.
LEMMA MadeWhole ==
  ASSUME Hands, OnWire, wire # <<>>,
         NEW out, out = Made(engine, wire[1]), out # <<>>, out[1].type = "cc14"
  PROVE  \E p \in visited : out[1].value = p \/ out[1].value = p - (p % (Coarse + 1))
<1> DEFINE raw == wire[1]
<1>1. raw \in Raw
  BY Queues DEF OnWire
<1>2. CASE First(raw)
  <2>1. 0 \in DOMAIN engine.pending /\ out[1] = Cc14(0, engine.lastMsb[0] * (Coarse + 1))
    BY <1>2 DEF Made, First
  <2>2. 0 \in DOMAIN engine.lastMsb
    BY <2>1 DEF Hands, Hubs
  <2>3. Half(visited, engine.lastMsb[0]) /\ visited \subseteq Fines
    BY <2>2 DEF OnWire
  <2>4. out[1].value = engine.lastMsb[0] * (Coarse + 1)
    BY <2>1 DEF Cc14
  <2> QED BY <2>3, <2>4, HalfIs
<1>3. CASE Second(raw)
  <2>1. 0 \in DOMAIN engine.lastMsb /\ engine.lastMsb[0] * (Coarse + 1) + raw.value \in visited
    BY <1>3 DEF OnWire
  <2>2. out[1] = Cc14(0, engine.lastMsb[0] * (Coarse + 1) + raw.value)
    BY <1>3, <2>1 DEF Made, Second
  <2>3. out[1].value = engine.lastMsb[0] * (Coarse + 1) + raw.value
    BY <2>2 DEF Cc14
  <2> QED BY <2>1, <2>3
<1>4. CASE ~First(raw) /\ ~Second(raw)
  <2>1. raw.type = "note_on"
    BY <1>1, <1>4 DEF Raw, Notes, First, Second
  <2>2. out[1].type = "note_on"
    BY <2>1 DEF Made
  <2> QED BY <2>2
<1> QED BY <1>2, <1>3, <1>4

WholeOf(x) == \E p \in visited : x = p \/ x = p - (p % (Coarse + 1))

\* What leaves the engine.
LEMMA CallbackIs ==
  ASSUME Hands, OnWire, Callback
  PROVE  /\ wire # <<>> /\ Hubs(engine') /\ wire' = Tail(wire)
         /\ engine'.lastMsb = IF First(wire[1]) THEN Put(engine.lastMsb, 0, wire[1].value) ELSE engine.lastMsb
         /\ \A cmd \in Moved(hand') : WholeOf(cmd.value.x) /\ Met(engine, engine', cmd)
         /\ UNCHANGED <<turn, ctl>>
<1> DEFINE raw == Head(wire)
           r == Handled(engine, raw, AllCall)
           out == Made(engine, wire[1])
<1>1. wire # <<>> /\ engine' = r.e /\ hand' = r.out /\ wire' = Tail(wire) /\ UNCHANGED <<turn, ctl>>
  BY DEF Callback
<1>2. raw \in Raw /\ raw = wire[1]
  BY <1>1, Queues DEF OnWire
<1>3. Arrived(engine, raw, r)
  BY <1>2, HandledIs DEF Hands
<1> HIDE DEF r
<1>4. /\ Hubs(engine')
      /\ engine'.lastMsb = IF raw.type = "cc" /\ raw.cc = 0 THEN Put(engine.lastMsb, 0, raw.value) ELSE engine.lastMsb
      /\ \A cmd \in Moved(hand') :
           out # <<>> /\ out[1].type = "cc14" /\ cmd.value.x = out[1].value /\ Met(engine, engine', cmd)
  BY <1>1, <1>2, <1>3 DEF Arrived
<1>5. out # <<>> /\ out[1].type = "cc14" => WholeOf(out[1].value)
  BY <1>1, MadeWhole DEF WholeOf
<1> HIDE DEF out
<1>6. \A cmd \in Moved(hand') : WholeOf(cmd.value.x) /\ Met(engine, engine', cmd)
  BY <1>4, <1>5
<1> QED BY <1>1, <1>2, <1>4, <1>6 DEF First

LEMMA FlushIs ==
  ASSUME Hands, OnWire, Flush
  PROVE  /\ Hubs(engine') /\ engine'.lastMsb = engine.lastMsb /\ UNCHANGED <<wire, hand, ctl>>
         /\ \A cmd \in Moved(turn') : WholeOf(cmd.value.x)
<1> DEFINE r == Flushed(Aged(engine, Timeout))
<1>1. engine' = r.e /\ turn' = r.out /\ UNCHANGED <<wire, hand, ctl>>
  BY DEF Flush
<1>2. /\ Hubs(r.e) /\ r.e.lastMsb = engine.lastMsb
      /\ \A cmd \in Moved(r.out) :
           0 \in DOMAIN engine.lastMsb /\ cmd.value.x = engine.lastMsb[0] * (Coarse + 1)
  BY FlushedIs DEF Hands
<1> HIDE DEF r
<1>3. ASSUME NEW cmd \in Moved(turn') PROVE WholeOf(cmd.value.x)
  <2>1. 0 \in DOMAIN engine.lastMsb /\ cmd.value.x = engine.lastMsb[0] * (Coarse + 1)
    BY <1>1, <1>2, <1>3
  <2>2. Half(visited, engine.lastMsb[0]) /\ visited \subseteq Fines
    BY <2>1 DEF OnWire
  <2> QED BY <2>1, <2>2, HalfIs DEF WholeOf
<1> QED BY <1>1, <1>2, <1>3

LEMMA Appends ==
  ASSUME NEW S, NEW s \in Seq(S), NEW x \in S, NEW y \in S
  PROVE  LET t == s \o <<x, y>>  n == Len(s)
         IN  /\ t \in Seq(S) /\ Len(t) = n + 2 /\ DOMAIN t = 1..(n + 2)
             /\ t[n + 1] = x /\ t[n + 2] = y /\ \A i \in 1..n : t[i] = s[i]
OBVIOUS

\* A position is sent, and only then.
LEMMA MoveIs ==
  ASSUME OnWire, NEW p \in Positions, Move(p), visited' = visited \cup SentNow
  PROVE  /\ visited \subseteq visited'
         /\ wire' \in Seq(Raw) /\ visited' \subseteq Fines
         /\ \/ wire' = wire
            \/ LET n == Len(wire)
               IN  /\ Len(wire') = n + 2 /\ DOMAIN wire' = 1..(n + 2) /\ \A i \in 1..n : wire'[i] = wire[i]
                   /\ First(wire'[n + 1]) /\ wire'[n + 1].value = p \div (Coarse + 1)
                   /\ Second(wire'[n + 2]) /\ Whole(wire'[n + 1], wire'[n + 2]) = p
                   /\ p \in visited'
<1> DEFINE m == p \div (Coarse + 1)
           l == p % (Coarse + 1)
           x == [type |-> "cc", cc |-> 0, value |-> m]
           y == [type |-> "cc", cc |-> 32, value |-> l]
           n == Len(wire)
<1>1. p \in Fines
  BY SurfacesAssumption DEF Fines
<1>2. m \in Halves /\ l \in Halves /\ m * (Coarse + 1) + l = p
  BY <1>1, Parts
<1>3. wire' = IF port THEN wire \o <<x, y>> ELSE wire
  BY DEF Move
<1> HIDE DEF m, l
<1>4. x \in Raw /\ y \in Raw
  BY <1>2 DEF Raw
<1>5. n \in Nat /\ wire \in Seq(Raw)
  BY DEF OnWire
<1>6. First(x) /\ Second(y) /\ Whole(x, y) = p /\ x.value = m
  BY <1>2 DEF First, Second, Whole
<1> HIDE DEF x, y
<1>7. CASE ~port
  <2>1. wire' = wire
    BY <1>3, <1>7
  <2>2. SentNow = {}
    BY <1>5, <2>1 DEF SentNow
  <2> QED BY <1>5, <2>1, <2>2 DEF OnWire
<1>8. CASE port
  <2> DEFINE t == wire \o <<x, y>>
  <2>1. /\ t \in Seq(Raw) /\ Len(t) = n + 2 /\ DOMAIN t = 1..(n + 2)
        /\ t[n + 1] = x /\ t[n + 2] = y /\ \A i \in 1..n : t[i] = wire[i]
    BY <1>4, <1>5, Appends
  <2>2. wire' = t
    BY <1>3, <1>8
  <2> HIDE DEF t
  <2>3. n + 2 - 1 = n + 1
    BY <1>5
  <2> HIDE DEF n
  <2>4. SentNow = {p}
    BY <1>6, <2>1, <2>2, <2>3 DEF SentNow, n
  <2>5. visited' = visited \cup {p} /\ visited' \subseteq Fines
    BY <1>1, <2>4 DEF OnWire
  <2> QED BY <1>6, <2>1, <2>2, <2>5 DEF m, n
<1> QED BY <1>7, <1>8

LEMMA WireStep ==
  ASSUME Hands, Bounds, OnWire, PairsWhole, [HNext]_<<vars, histVars>>
  PROVE  OnWire' /\ PairsWhole'
<1>1. Len(wire) \in Nat /\ wire \in Seq(Raw) /\ DOMAIN wire = 1..Len(wire)
  BY DEF OnWire
<1>2. \A x : \A V : WholeOf(x) /\ visited \subseteq V => \E p \in V : x = p \/ x = p - (p % (Coarse + 1))
  BY DEF WholeOf
<1>3. ASSUME visited \subseteq visited',
             \A cmd \in Moved(hand') \cup Moved(turn') : WholeOf(cmd.value.x)
      PROVE  PairsWhole'
  BY <1>2, <1>3 DEF PairsWhole
<1>4. \A cmd \in Moved(hand) \cup Moved(turn) : WholeOf(cmd.value.x)
  BY DEF PairsWhole, WholeOf
<1>5. ASSUME wire' = wire, engine'.lastMsb = engine.lastMsb, SentNow = {} => visited' = visited
      PROVE  OnWire' /\ visited' = visited
  <2>1. SentNow = {}
    <3> DEFINE n == Len(wire)
               m == Len(wire')
    <3>1. n \in Nat /\ m = n
      BY <1>1, <1>5
    <3>2. SentNow = IF m = n + 2 THEN {Whole(wire'[m - 1], wire'[m])} ELSE {}
      BY DEF SentNow
    <3> HIDE DEF m, n
    <3>3. ~(m = n + 2)
      BY <3>1
    <3> QED BY <3>2, <3>3
  <2> QED BY <1>5, <2>1 DEF OnWire, Half
<1>6. CASE UNCHANGED <<vars, histVars>>
  <2>1. visited' = visited /\ UNCHANGED <<wire, engine, hand, turn>>
    BY <1>6 DEF vars, hubVars, histVars
  <2> QED BY <1>3, <1>4, <1>5, <2>1
<1> SUFFICES ASSUME HNext PROVE OnWire' /\ PairsWhole'
  BY <1>6
<1>7. visited' = visited \cup SentNow /\ Next
  BY DEF HNext
<1>8. ASSUME UNCHANGED <<wire, engine>>,
             hand' = hand \/ hand' = <<>>, turn' = turn \/ turn' = <<>>
      PROVE  OnWire' /\ PairsWhole'
  <2>1. OnWire' /\ visited' = visited
    BY <1>5, <1>7, <1>8
  <2>2. \A cmd \in Moved(hand') \cup Moved(turn') : WholeOf(cmd.value.x)
    BY <1>4, <1>8, NoneMoved
  <2> QED BY <1>3, <2>1, <2>2
<1>9. ASSUME NEW p \in Positions, Move(p) PROVE OnWire' /\ PairsWhole'
  <2> DEFINE n == Len(wire)
  <2>1. UNCHANGED <<engine, hand, turn>>
    BY <1>9 DEF Move, hubVars
  <2>2. visited \subseteq visited' /\ wire' \in Seq(Raw) /\ visited' \subseteq Fines
    BY <1>7, <1>9, MoveIs
  <2>3. PairsWhole'
    BY <1>3, <1>4, <2>1, <2>2
  <2>4. CASE wire' = wire
    <3>1. engine'.lastMsb = engine.lastMsb
      BY <2>1
    <3> QED BY <1>5, <1>7, <2>3, <2>4, <3>1
  <2>5. CASE wire' # wire
    <3>1. /\ Len(wire') = n + 2 /\ DOMAIN wire' = 1..(n + 2) /\ \A i \in 1..n : wire'[i] = wire[i]
          /\ First(wire'[n + 1]) /\ wire'[n + 1].value = p \div (Coarse + 1)
          /\ Second(wire'[n + 2]) /\ Whole(wire'[n + 1], wire'[n + 2]) = p
          /\ p \in visited'
      BY <1>7, <1>9, <2>5, MoveIs
    <3>2. n \in Nat /\ DOMAIN wire = 1..n
      BY <1>1
    <3> HIDE DEF n
    <3>3. \A m : First(m) => ~Second(m)
      BY DEF First, Second
    <3>4. \A v : Half(visited, v) => Half(visited', v)
      BY <2>2 DEF Half
    <3>5. ASSUME NEW i \in DOMAIN wire', First(wire'[i]) PROVE Half(visited', wire'[i].value)
      <4>1. CASE i \in 1..n
        BY <3>1, <3>2, <3>4, <3>5, <4>1 DEF OnWire
      <4>2. CASE i = n + 1
        BY <3>1, <4>2 DEF Half
      <4>3. CASE i = n + 2
        BY <3>1, <3>3, <3>5, <4>3
      <4> QED BY <3>1, <3>2, <4>1, <4>2, <4>3
    <3>6. ASSUME NEW i \in DOMAIN wire', Second(wire'[i]), i > 1
          PROVE  First(wire'[i - 1]) /\ Whole(wire'[i - 1], wire'[i]) \in visited'
      <4>1. CASE i \in 1..n
        <5> DEFINE j == i - 1
        <5>1. j \in 1..n /\ wire'[j] = wire[j] /\ wire'[i] = wire[i]
          BY <3>1, <3>2, <3>6, <4>1
        <5>2. First(wire[j]) /\ Whole(wire[j], wire[i]) \in visited
          BY <3>2, <3>6, <4>1, <5>1 DEF OnWire
        <5> HIDE DEF j
        <5>3. First(wire'[j]) /\ Whole(wire'[j], wire'[i]) \in visited'
          BY <2>2, <5>1, <5>2
        <5> QED BY <5>3 DEF j
      <4>2. CASE i = n + 1
        BY <3>1, <3>3, <3>6, <4>2
      <4>3. CASE i = n + 2
        <5>1. i - 1 = n + 1
          BY <3>2, <4>3
        <5> QED BY <3>1, <4>3, <5>1
      <4> QED BY <3>1, <3>2, <4>1, <4>2, <4>3
    <3>7. wire' # <<>> /\ Second(wire'[1]) =>
            0 \in DOMAIN engine'.lastMsb /\ engine'.lastMsb[0] * (Coarse + 1) + wire'[1].value \in visited'
      <4>1. CASE n = 0
        BY <3>1, <3>3, <4>1
      <4>2. CASE n # 0
        <5>1. wire # <<>> /\ wire'[1] = wire[1]
          BY <3>1, <3>2, <4>2 DEF n
        <5> QED BY <2>1, <2>2, <5>1 DEF OnWire
      <4> QED BY <4>1, <4>2
    <3>8. 0 \in DOMAIN engine'.lastMsb => Half(visited', engine'.lastMsb[0])
      BY <2>1, <3>4 DEF OnWire
    <3>9. OnWire'
      BY <2>2, <3>5, <3>6, <3>7, <3>8 DEF OnWire, Half
    <3> QED BY <2>3, <3>9
  <2> QED BY <2>4, <2>5
<1>10. CASE Press(1)
  <2> DEFINE m == [type |-> "note_on", note |-> 1, velocity |-> 1]
             n == Len(wire)
  <2>1. wire' = (IF port THEN Append(wire, m) ELSE wire) /\ UNCHANGED <<engine, hand, turn>>
    BY <1>10 DEF Press, hubVars
  <2>2. m \in Raw /\ ~First(m) /\ ~Second(m)
    BY DEF Raw, Notes, First, Second
  <2> HIDE DEF m
  <2>3. CASE wire' = wire
    BY <1>8, <2>1, <2>3
  <2>4. CASE wire' = Append(wire, m)
    <3>1. /\ wire' \in Seq(Raw) /\ DOMAIN wire' = 1..(n + 1) /\ wire'[n + 1] = m /\ Len(wire') = n + 1
          /\ \A i \in 1..n : wire'[i] = wire[i]
      BY <2>2, <2>4, Queues DEF OnWire
    <3>2. n \in Nat /\ DOMAIN wire = 1..n
      BY <1>1
    <3>3. SentNow = {} /\ visited' = visited
      BY <1>7, <3>1, <3>2 DEF SentNow
    <3> HIDE DEF n
    <3>4. \A i \in DOMAIN wire' : First(wire'[i]) \/ Second(wire'[i]) => i \in 1..n
      BY <2>2, <3>1, <3>2
    <3>5. \A i \in DOMAIN wire' : First(wire'[i]) => Half(visited, wire'[i].value)
      BY <3>1, <3>2, <3>4 DEF OnWire
    <3>6. ASSUME NEW i \in DOMAIN wire', Second(wire'[i]), i > 1
          PROVE  First(wire'[i - 1]) /\ Whole(wire'[i - 1], wire'[i]) \in visited'
      <4> DEFINE j == i - 1
      <4>1. i \in 1..n
        BY <3>4, <3>6
      <4>2. j \in 1..n /\ wire'[j] = wire[j] /\ wire'[i] = wire[i]
        BY <3>1, <3>2, <3>6, <4>1
      <4>3. First(wire[j]) /\ Whole(wire[j], wire[i]) \in visited
        BY <3>2, <3>6, <4>1, <4>2 DEF OnWire
      <4> HIDE DEF j
      <4>4. First(wire'[j]) /\ Whole(wire'[j], wire'[i]) \in visited'
        BY <3>3, <4>2, <4>3
      <4> QED BY <4>4 DEF j
    <3>7. wire' # <<>> /\ Second(wire'[1]) =>
            0 \in DOMAIN engine.lastMsb /\ engine.lastMsb[0] * (Coarse + 1) + wire'[1].value \in visited
      <4>1. CASE n = 0
        BY <2>2, <3>1, <4>1
      <4>2. CASE n # 0
        <5>1. wire # <<>> /\ wire'[1] = wire[1]
          BY <3>1, <3>2, <4>2 DEF n
        <5> QED BY <5>1 DEF OnWire
      <4> QED BY <4>1, <4>2
    <3>8. OnWire'
      BY <2>1, <3>1, <3>3, <3>5, <3>6, <3>7 DEF OnWire, Half
    <3>9. PairsWhole'
      BY <1>3, <1>4, <2>1, <3>3
    <3> QED BY <3>8, <3>9
  <2> QED BY <2>1, <2>3, <2>4
<1>11. CASE Unplug
  <2>1. wire' = <<>> /\ UNCHANGED <<engine, hand, turn>>
    BY <1>11 DEF Unplug, hubVars
  <2>2. SentNow = {} /\ visited' = visited
    BY <1>1, <1>7, <2>1 DEF SentNow
  <2>3. OnWire'
    BY <2>1, <2>2 DEF OnWire, Half
  <2> QED BY <1>3, <1>4, <2>1, <2>2, <2>3
<1>12. CASE Callback
  <2> DEFINE n == Len(wire)
  <2>1. /\ wire # <<>> /\ Hubs(engine') /\ wire' = Tail(wire) /\ turn' = turn
        /\ engine'.lastMsb = IF First(wire[1]) THEN Put(engine.lastMsb, 0, wire[1].value) ELSE engine.lastMsb
        /\ \A cmd \in Moved(hand') : WholeOf(cmd.value.x)
    BY <1>12, CallbackIs
  <2>2. /\ wire' \in Seq(Raw) /\ Len(wire') = n - 1 /\ DOMAIN wire' = 1..(n - 1)
        /\ \A i \in 1..(n - 1) : wire'[i] = wire[i + 1]
    BY <2>1, Queues DEF OnWire
  <2>3. n \in Nat /\ n > 0 /\ DOMAIN wire = 1..n
    BY <1>1, <2>1
  <2>4. SentNow = {} /\ visited' = visited
    BY <1>7, <2>2, <2>3 DEF SentNow
  <2> HIDE DEF n
  <2>5. 0 \in DOMAIN engine'.lastMsb => Half(visited, engine'.lastMsb[0])
    <3>1. CASE First(wire[1])
      <4>1. engine'.lastMsb[0] = wire[1].value
        BY <2>1, <3>1 DEF Put
      <4> QED BY <2>3, <3>1, <4>1 DEF OnWire
    <3>2. CASE ~First(wire[1])
      BY <2>1, <3>2 DEF OnWire
    <3> QED BY <3>1, <3>2
  <2>6. \A i \in DOMAIN wire' : First(wire'[i]) => Half(visited, wire'[i].value)
    <3> SUFFICES ASSUME NEW i \in DOMAIN wire', First(wire'[i]) PROVE Half(visited, wire'[i].value)
      OBVIOUS
    <3> DEFINE j == i + 1
    <3>1. j \in DOMAIN wire /\ wire'[i] = wire[j]
      BY <2>2, <2>3
    <3> HIDE DEF j
    <3> QED BY <3>1 DEF OnWire
  <2>7. ASSUME NEW i \in DOMAIN wire', Second(wire'[i]), i > 1
        PROVE  First(wire'[i - 1]) /\ Whole(wire'[i - 1], wire'[i]) \in visited'
    <3> DEFINE j == i - 1
               k == i + 1
    <3>1. j \in 1..(n - 1) /\ k \in 1..n /\ k > 1 /\ k - 1 = i /\ j + 1 = i
      BY <2>2, <2>3, <2>7
    <3>2. wire'[i] = wire[k] /\ wire'[j] = wire[i]
      BY <2>2, <3>1
    <3> HIDE DEF j, k
    <3>3. First(wire[k - 1]) /\ Whole(wire[k - 1], wire[k]) \in visited
      BY <2>3, <2>7, <3>1, <3>2 DEF OnWire
    <3>4. First(wire'[j]) /\ Whole(wire'[j], wire'[i]) \in visited'
      BY <2>4, <3>1, <3>2, <3>3
    <3> QED BY <3>4 DEF j
  <2>8. wire' # <<>> /\ Second(wire'[1]) =>
          0 \in DOMAIN engine'.lastMsb /\ engine'.lastMsb[0] * (Coarse + 1) + wire'[1].value \in visited
    <3> SUFFICES ASSUME wire' # <<>>, Second(wire'[1])
                 PROVE  0 \in DOMAIN engine'.lastMsb
                        /\ engine'.lastMsb[0] * (Coarse + 1) + wire'[1].value \in visited
      OBVIOUS
    <3>1. n - 1 > 0
      <4>1. Len(wire') # 0
        BY <2>2
      <4> QED BY <2>2, <2>3, <4>1
    <3>2. wire'[1] = wire[2] /\ 2 \in DOMAIN wire
      BY <2>2, <2>3, <3>1
    <3>3. First(wire[1]) /\ Whole(wire[1], wire[2]) \in visited
      BY <3>2 DEF OnWire
    <3>4. 0 \in DOMAIN engine'.lastMsb /\ engine'.lastMsb[0] = wire[1].value
      BY <2>1, <3>3 DEF Put
    <3> QED BY <3>2, <3>3, <3>4 DEF Whole
  <2>9. OnWire'
    BY <2>2, <2>4, <2>5, <2>6, <2>7, <2>8 DEF OnWire, Half
  <2> QED BY <1>3, <1>4, <2>1, <2>4, <2>9
<1>13. CASE Flush
  <2>1. /\ engine'.lastMsb = engine.lastMsb /\ wire' = wire /\ hand' = hand
        /\ \A cmd \in Moved(turn') : WholeOf(cmd.value.x)
    BY <1>13, FlushIs
  <2>2. OnWire' /\ visited' = visited
    BY <1>5, <1>7, <2>1
  <2> QED BY <1>3, <1>4, <2>1, <2>2
<1>14. CASE FollowOrder
  <2> DEFINE m == Head(ctl)
  <2>1. m \in CtlMsgs /\ engine' = Ordered(engine, m) /\ UNCHANGED <<wire, hand, turn>>
    BY <1>14, Queues DEF FollowOrder, Hands
  <2> HIDE DEF m
  <2>2. engine'.lastMsb = engine.lastMsb
    BY <2>1, OrderedIs DEF Hands
  <2>3. OnWire' /\ visited' = visited
    BY <1>5, <1>7, <2>1, <2>2
  <2> QED BY <1>3, <1>4, <2>1, <2>3
<1>15. CASE CallbackSends \/ SupervisorSends \/ Scan \/ Plug
  BY <1>8, <1>15 DEF CallbackSends, SupervisorSends, Scan, Plug, hubVars
<1>16. CASE Bridge \/ (\E cmd \in Orders : Order(cmd)) \/ Command
  BY <1>8, <1>16 DEF Bridge, Order, Command, hubVars
<1>17. CASE Frames
  <2>1. PICK alpha \in Alphas, gain \in Gains : Frame(alpha, gain, 1)
    BY <1>17 DEF Frames
  <2> QED BY <1>8, <2>1 DEF Frame
<1> QED BY <1>7, <1>9, <1>10, <1>11, <1>12, <1>13, <1>14, <1>15, <1>16, <1>17
        DEF Next, DeviceMoves, OS, Hub

----------------------------------------------------------------------------
(* The theorems.                                                           *)

LEMMA ParamsOK ==
  ASSUME Registers(params)
  PROVE  ParamTypeOK(params)
<1> SUFFICES ASSUME NEW a \in DOMAIN params
             PROVE  LET s == params[a] IN
                      /\ {s.target, s.current, s.from, s.to, s.offset} \subseteq Int
                      /\ s.alpha \in 0..One /\ {s.blending, s.live} \subseteq BOOLEAN
                      /\ s.target = Clamped(s.spec.kind, s.target) /\ s.current = Clamped(s.spec.kind, s.current)
  BY DEF ParamTypeOK
<1> DEFINE s == params[a]
<1>1. s \in ParamStates /\ s.target = Clamped(s.spec.kind, s.target) /\ s.current = Clamped(s.spec.kind, s.current)
  BY DEF Registers, Going, Faithful
<1> HIDE DEF s
<1>2. /\ {s.target, s.current, s.from, s.to, s.offset} \subseteq Int
      /\ s.alpha \in 0..One /\ {s.blending, s.live} \subseteq BOOLEAN
  BY <1>1 DEF ParamStates
<1> QED BY <1>1, <1>2 DEF s

LEMMA Inits == HInit => IInv
<1> SUFFICES ASSUME HInit PROVE IInv
  OBVIOUS
<1> USE DEF HInit, Init
<1> DEFINE bs == Shows[1].bindings
           e == Rebound(NoEngine, bs)
<1>1. 1 \in DOMAIN Shows /\ bs \in Bindings
  BY ShowsAssumption DEF Bindings
<1>2. Plays
  <2>1. Registers(<<>>)
    BY DEF Registers
  <2>2. Registers(params)
    BY <1>1, <2>1, RebuiltIs
  <2>3. Modulates(Mod!NoEngine)
    <3>1. IsFiniteSet({})
      BY FS_EmptySet
    <3> QED BY <3>1 DEF Mod!NoEngine, Modulates
  <2>4. Modulates(mods)
    BY <1>1, <2>3, LoadedIs
  <2>6. Fades(fade)
    BY NoFadeIs
  <2> QED BY <1>1, <2>2, <2>4, <2>6 DEF Plays
<1>3. e = [bindings |-> bs, pairs |-> {0}, pending |-> <<>>, lastMsb |-> <<>>,
           logical |-> <<>>, faders |-> <<>>, armed |-> FALSE, capture |-> {}]
  <2> DEFINE wide == {i \in DOMAIN bs : bs[i].type = "cc" /\ bs[i].wide}
             pairs == {bs[i].cc : i \in wide} \cap (0..31)
             p == Restrict(<<>>, DOMAIN <<>> \cap pairs)
             no == FALSE
             f == [bindings |-> <<>>, pairs |-> {}, pending |-> <<>>, lastMsb |-> <<>>,
                   logical |-> <<>>, faders |-> <<>>, armed |-> no, capture |-> {}]
  <2>1. pairs = {0}
    BY <1>1, PairsAre
  <2>2. e = [[[[f EXCEPT !.bindings = bs] EXCEPT !.pairs = pairs] EXCEPT !.pending = p] EXCEPT !.lastMsb = p]
    BY DEF Rebound, NoEngine
  <2>3. p = <<>>
    BY DEF Restrict
  <2> DEFINE o == {}
             z == <<>>
  <2>9. f = [bindings |-> z, pairs |-> o, pending |-> z, lastMsb |-> z,
             logical |-> z, faders |-> z, armed |-> no, capture |-> o]
    OBVIOUS
  <2> HIDE DEF pairs, p, no, bs, e, o, z, f, HInit, Init
  <2> DEFINE g == [f EXCEPT !.bindings = bs]
             h == [g EXCEPT !.pairs = pairs]
             k == [h EXCEPT !.pending = p]
  <2>4. g = [bindings |-> bs, pairs |-> o, pending |-> z, lastMsb |-> z,
             logical |-> z, faders |-> z, armed |-> no, capture |-> o]
    BY <2>9
  <2>5. e = [k EXCEPT !.lastMsb = p]
    BY <2>2
  <2> HIDE DEF g
  <2>6. h = [bindings |-> bs, pairs |-> pairs, pending |-> z, lastMsb |-> z,
             logical |-> z, faders |-> z, armed |-> no, capture |-> o]
    BY <2>4
  <2> HIDE DEF h
  <2>7. k = [bindings |-> bs, pairs |-> pairs, pending |-> p, lastMsb |-> z,
             logical |-> z, faders |-> z, armed |-> no, capture |-> o]
    BY <2>6
  <2> HIDE DEF k
  <2>8. e = [bindings |-> bs, pairs |-> pairs, pending |-> p, lastMsb |-> p,
             logical |-> z, faders |-> z, armed |-> no, capture |-> o]
    BY <2>5, <2>7
  <2> QED BY <2>1, <2>3, <2>8 DEF no, o, z
<1>4. Hubs(engine)
  <2>1. engine = e
    OBVIOUS
  <2> HIDE DEF e, bs
  <2> QED BY <1>1, <1>3, <2>1 DEF Hubs
<1>5. engine.bindings = bs /\ engine.lastMsb = <<>> /\ engine.faders = <<>>
  <2> HIDE DEF e
  <2> QED BY <1>3 DEF e
<1>6. Hands
  BY <1>4 DEF Hands
<1>7. Bounds
  <2>1. /\ ui = <<>> /\ bus = <<>> /\ drained = 0 /\ status = "inactif"
        /\ port = FALSE /\ device = TRUE
    OBVIOUS
  <2> HIDE DEF HInit, Init, e, bs
  <2>2. Len(ui) = 0 /\ Len(bus) = 0
    BY <2>1
  <2>3. EventsCap \in Nat /\ BusCap \in Nat /\ Budget \in Nat
    BY SurfacesAssumption
  <2>4. Len(ui) <= EventsCap /\ Len(bus) <= BusCap
    BY <2>2, <2>3
  <2>5. drained \in 0..Budget
    BY <2>1, <2>3
  <2> QED BY <2>1, <2>4, <2>5 DEF Bounds
<1>8. OnWire
  BY <1>5 DEF OnWire
<1>9. PairsWhole
  BY NoneMoved DEF PairsWhole
<1>10. Behind
  BY <1>5 DEF Behind
<1>11. Travelled
  BY <1>5 DEF Travelled, Reported
<1> QED BY <1>2, <1>6, <1>7, <1>8, <1>9, <1>10, <1>11 DEF IInv

LEMMA Steps == IInv /\ [HNext]_<<vars, histVars>> => IInv'
<1> SUFFICES ASSUME IInv, [HNext]_<<vars, histVars>> PROVE IInv'
  OBVIOUS
<1> USE DEF IInv
<1>1. Plays'
  BY PlaysStep
<1>2. Hands' /\ Bounds'
  BY HandsStep
<1>3. OnWire' /\ PairsWhole'
  BY WireStep
<1>4. Behind'
  BY BehindStep
<1>5. Travelled'
  <2>1. CASE UNCHANGED <<vars, histVars>>
    BY <2>1 DEF Travelled, vars, hubVars, histVars, Reported
  <2>2. CASE HNext
    BY <2>2 DEF HNext, Travelled
  <2> QED BY <2>1, <2>2
<1> QED BY <1>1, <1>2, <1>3, <1>4, <1>5

LEMMA Invariance == HSpec => []IInv
<1>1. IInv /\ [HNext]_<<vars, histVars>> => IInv'
  BY Steps
<1> QED BY <1>1, Inits, PTL DEF HSpec

\* SurfacesInvariant: the registry and the queues are well formed, what the
\* hub sends to the show is made of the two halves of one position, and it
\* maps the show that is loaded (cc14.rs, hub.rs, registry.rs, session.rs).
THEOREM SurfacesHold == HSpec => []SurfacesInvariant
<1>1. IInv => SurfacesInvariant
  <2> SUFFICES ASSUME IInv PROVE SurfacesTypeOK /\ HubFollowsShow
    BY DEF IInv, SurfacesInvariant
  <2>1. SurfacesTypeOK
    BY ParamsOK DEF IInv, Plays, Bounds, SurfacesTypeOK
  <2>2. ASSUME ctl = <<>>
        PROVE  /\ engine.bindings = Shows[show].bindings
               /\ DOMAIN engine.pending \subseteq
                    {b.cc : b \in {c \in Range(Shows[show].bindings) : c.type = "cc"}}
    <3>1. engine.bindings = Shows[show].bindings
      BY <2>2 DEF IInv, Behind
    <3>2. show \in DOMAIN Shows /\ DOMAIN engine.pending \subseteq {0}
      BY DEF IInv, Plays, Hands, Hubs
    <3>3. PICK b \in Range(Shows[show].bindings) : b.type = "cc"
      BY <3>2, FaderAssumption
    <3>4. b = Fader(b.addr)
      BY <3>2, <3>3, FaderAssumption
    <3>5. b.cc = 0
      BY <3>4, FaderIs
    <3> QED BY <3>1, <3>2, <3>3, <3>5
  <2> QED BY <2>1, <2>2 DEF HubFollowsShow
<1> QED BY <1>1, Invariance, PTL

\* TakesOver: a fader moves a parameter whose value the engine knows only once
\* it has come near that value or gone past it (pickup.rs, engine.rs).
THEOREM FadersTakeOver == HSpec => TakesOver
<1> DEFINE A == hand = <<>> =>
             \A cmd \in Moved(hand') : cmd.addr \in DOMAIN engine.logical =>
               LET seen == travel \cup Reported(engine'.faders)
                   near == Fine \div Coarse
                   known == engine.logical[cmd.addr]
               IN  /\ \E p \in seen : p - near <= known
                   /\ \E p \in seen : p + near >= known
<1>1. IInv /\ [HNext]_<<vars, histVars>> => [A]_<<vars, histVars>>
  <2> SUFFICES ASSUME IInv, HNext, hand = <<>>, NEW cmd \in Moved(hand'), cmd.addr \in DOMAIN engine.logical
               PROVE  LET seen == travel \cup Reported(engine'.faders)
                          near == Fine \div Coarse
                          known == engine.logical[cmd.addr]
                      IN  /\ \E p \in seen : p - near <= known
                          /\ \E p \in seen : p + near >= known
    OBVIOUS
  <2>1. hand' # <<>>
    BY NoneMoved
  <2>2. Callback
    <3>1. DeviceMoves => hand' = hand
      BY DEF DeviceMoves, Move, Press, Unplug, Plug, hubVars
    <3>2. CallbackSends \/ FollowOrder \/ Flush \/ SupervisorSends \/ Scan => hand' = hand
      BY DEF CallbackSends, FollowOrder, Flush, SupervisorSends, Scan
    <3>3. Bridge \/ (\E c \in Orders : Order(c)) \/ Command => hand' = hand
      BY DEF Bridge, Order, Command, hubVars
    <3>4. Frames => hand' = hand
      BY DEF Frames, Frame
    <3> QED BY <2>1, <3>1, <3>2, <3>3, <3>4 DEF HNext, Next, OS, Hub
  <2>3. Met(engine, engine', cmd)
    BY <2>2, CallbackIs DEF IInv
  <2>4. Reported(engine.faders) \subseteq travel
    BY DEF IInv, Travelled
  <2> QED BY <2>3, <2>4 DEF Met
<1> QED BY <1>1, Invariance, PTL DEF HSpec, TakesOver

\* FadeMovesForward: no frame takes a parameter further from where the cue
\* leads it, whatever was done since the frame before (registry.rs,
\* blend_toward, set, tick).
THEOREM FadesMoveForward == HSpec => FadeMovesForward
<1> DEFINE A == \A a \in DOMAIN params : \A f \in Played(One) :
             drained' <= drained /\ a \in DOMAIN f.goal =>
               \A goal \in Converted(params[a].spec.kind, f.goal[a]) :
                 LET was == params[a].current  is == params'[a].current
                 IN  (is \in was..goal) \/ (is \in goal..was)
<1>1. IInv /\ [HNext]_<<vars, histVars>> => [A]_<<vars, histVars>>
  <2> SUFFICES ASSUME IInv, [HNext]_<<vars, histVars>>, drained' <= drained,
                      NEW a \in DOMAIN params, NEW f \in Played(One), a \in DOMAIN f.goal,
                      NEW goal \in Converted(params[a].spec.kind, f.goal[a])
               PROVE  (params'[a].current \in params[a].current..goal)
                        \/ (params'[a].current \in goal..params[a].current)
    OBVIOUS
  <2> DEFINE was == params[a].current
             is == params'[a].current
  <2>1. Plays /\ Plays' /\ (Forward \/ params' = params)
    BY PlaysStep, Steps DEF IInv
  <2>2. Going(params[a]) /\ was \in Int
    <3>1. Going(params[a])
      BY <2>1 DEF Plays, Registers
    <3> QED BY <3>1 DEF Going, ParamStates
  <2>3. goal \in Int
    <3>1. params[a].spec.kind \in Kinds
      BY <2>2, DeclaredKinds DEF Going, ParamStates
    <3>2. f.goal[a] \in Values /\ f.goal[a].x \in Int
      <4>1. One \in 1..One
        BY OneAssumption
      <4>2. f.goal \in Goals
        BY <2>1, <4>1, PlayedIs DEF Plays
      <4>3. f.goal[a] \in Values
        BY <4>2, GoalsAre
      <4> QED BY <4>3 DEF Values
    <3>3. goal = Clamped(params[a].spec.kind, f.goal[a].x)
      BY <3>1, <3>2, ConvertedIs
    <3> QED BY <3>1, <3>2, <3>3, ClampedIs
  <2>4. CASE params' = params
    <3>1. is = was
      BY <2>4
    <3> HIDE DEF is, was
    <3>2. (is \in was..goal) \/ (is \in goal..was)
      BY <2>2, <2>3, <3>1
    <3> QED BY <3>2 DEF is, was
  <2>5. CASE Forward
    <3>1. Btw(was, is, goal)
      BY <2>5 DEF Forward
    <3>2. is \in Int
      <4>1. a \in DOMAIN params'
        BY <2>5 DEF Forward
      <4>2. Going(params'[a])
        BY <2>1, <4>1 DEF Plays, Registers
      <4> QED BY <4>2 DEF Going, ParamStates
    <3> HIDE DEF is, was
    <3>3. (is \in was..goal) \/ (is \in goal..was)
      BY <2>2, <2>3, <3>1, <3>2 DEF Btw
    <3> QED BY <3>3 DEF is, was
  <2> QED BY <2>1, <2>4, <2>5
<1> QED BY <1>1, Invariance, PTL DEF HSpec, FadeMovesForward

\* EditKeepsPlaying: a change of the show takes nothing from what is shown
\* (registry.rs, register; modulation lib.rs, load), an edit lets the fade run
\* or, when it changes the cues, puts it to its end (cue lib.rs, load_hot).
THEOREM EditsKeepPlaying == HSpec => EditKeepsPlaying
<1> DEFINE A == drained' > drained /\ Head(bus).cmd.op \in {"edit", "load"} =>
             LET old == Shows[show]  new == Shows[show']  edited == Head(bus).cmd.op = "edit" IN
             /\ \A a \in DOMAIN params \cap DOMAIN params' :
                  params[a].spec.kind = params'[a].spec.kind =>
                    /\ Shown(params'[a]) = Shown(params[a])
                    /\ params'[a].blending = params[a].blending
             /\ \A m \in DOMAIN mods.mods \cap DOMAIN mods'.mods :
                  mods.mods[m].cfg.type = mods'.mods[m].cfg.type =>
                    mods'.mods[m].state.phase = mods.mods[m].state.phase
             /\ edited /\ new.cues = old.cues => fade' = fade
             /\ edited /\ new.cues # old.cues =>
                  /\ DOMAIN fade.before.finished \subseteq DOMAIN fade'.finished
                  /\ \A r \in fade.before.running : \A a \in DOMAIN r.goal :
                       a \in DOMAIN fade'.finished /\ fade'.finished[a] = r.goal[a]
<1>1. IInv /\ [HNext]_<<vars, histVars>> => [A]_<<vars, histVars>>
  <2> SUFFICES ASSUME IInv, [HNext]_<<vars, histVars>>,
                      drained' > drained, Head(bus).cmd.op \in {"edit", "load"}
               PROVE A
    OBVIOUS
  <2>1. Kept /\ Ended(Head(bus).cmd.op)
    BY PlaysStep DEF IInv
  <2> QED BY <2>1 DEF Kept, Ended
<1> QED BY <1>1, Invariance, PTL DEF HSpec, EditKeepsPlaying

----------------------------------------------------------------------------
(* The timecode of the same port, for every number of groups in a day,     *)
(* every capacity of the channel and any number of moves.                  *)

\* Of the constants, what the lemmas need.
Days == Groups \in Nat \ {0} /\ Spots \subseteq 0..(Groups - 1)

AllRates == Rates \cup {CHOOSE r \in Rates : TRUE}
PieceSet == [group : 0..(Groups - 1) \cup {Noise}, rate : AllRates]
Assemblers ==
  [data : [Pieces -> PieceSet], mask : SUBSET Pieces, prev : {{}} \cup {{p} : p \in Pieces},
   forward : BOOLEAN, locked : BOOLEAN, rate : SUBSET AllRates]
MtcEvents ==
  [type : {"locked"}, rate : AllRates] \cup [type : {"time", "full"}, time : Times] \cup [type : {"lost"}]

\* A time is that of the group that was collected, if all pieces are of one.
Honest(data, e) ==
  e.type = "time" =>
    /\ \A q \in Pieces : data[q].group # Noise
    /\ (\A q \in Pieces : data[q] = data[0]) =>
         e.time \in {2 * data[0].group, AddFrames(2 * data[0].group, 2)}

LEMMA DayIs ==
  ASSUME Days
  PROVE  /\ Day = 2 * Groups /\ Mixed = -2 /\ Noise = -1
         /\ \A g \in 0..(Groups - 1) : 2 * g \in 0..(Day - 1) /\ 2 * g # Mixed
         /\ \A t \in Times, n \in Int : AddFrames(t, n) \in Times
<1>1. Day = 2 * Groups /\ Day \in Nat \ {0} /\ Mixed = -2 /\ Noise = -1
  BY DEF Days, Day, Mixed, Noise
<1>2. \A g \in 0..(Groups - 1) : 2 * g \in 0..(Day - 1) /\ 2 * g # Mixed
  BY <1>1 DEF Days
<1>3. ASSUME NEW t \in Times, NEW n \in Int PROVE AddFrames(t, n) \in Times
  <2>1. CASE t = Mixed
    BY <2>1 DEF AddFrames, Times
  <2>2. CASE t # Mixed
    <3> DEFINE d == Day
    <3>1. d \in Nat \ {0} /\ t \in 0..(d - 1)
      BY <1>1, <1>3, <2>2 DEF Times
    <3>2. AddFrames(t, n) = (t + n) % d
      BY <2>2 DEF AddFrames
    <3>3. t + n \in Int
      BY <3>1
    <3> HIDE DEF d
    <3>4. (t + n) % d \in 0..(d - 1)
      BY <3>1, <3>3
    <3> QED BY <3>2, <3>4 DEF Times, d
  <2> QED BY <2>1, <2>2
<1> QED BY <1>1, <1>2, <1>3

\* What a full group gives: a time, a lock, or nothing.
LEMMA MtcAssembledIs ==
  ASSUME Days, NEW a \in Assemblers, NEW sane \in BOOLEAN
  PROVE  LET r == MtcAssembled(a, sane)
         IN  /\ r.asm \in Assemblers /\ r.asm.data = a.data /\ r.asm.prev = a.prev
             /\ r.asm.mask \in {a.mask, {}} /\ r.asm.forward = a.forward
             /\ r.out = <<>> \/ \E e \in MtcEvents : r.out = <<e>> /\ Honest(a.data, e) /\ r.asm.mask = a.mask
<1> DEFINE rate == a.data[7].rate
           begun == IF \A p \in Pieces : a.data[p] = a.data[0] THEN 2 * a.data[0].group ELSE Mixed
           time == IF a.forward THEN AddFrames(begun, 2) ELSE begun
           newly == ~a.locked \/ a.rate # {rate}
           noisy == \E p \in Pieces : a.data[p].group = Noise
           r == MtcAssembled(a, sane)
           e == IF newly THEN [type |-> "locked", rate |-> rate] ELSE [type |-> "time", time |-> time]
<1>1. r = IF (begun = Mixed /\ ~sane) \/ noisy
          THEN [asm |-> [a EXCEPT !.locked = FALSE, !.mask = {}], out |-> <<>>]
          ELSE [asm |-> [a EXCEPT !.locked = TRUE, !.rate = {rate}], out |-> <<e>>]
  BY DEF MtcAssembled
<1>2. \A p \in 0..7 : p \in Pieces
  BY DEF Pieces
<1>3. \A p \in Pieces : a.data[p] \in PieceSet
  BY DEF Assemblers
<1>4. rate \in AllRates
  BY <1>2, <1>3 DEF PieceSet
<1>5. CASE (begun = Mixed /\ ~sane) \/ noisy
  <2> HIDE DEF begun, noisy, rate, r, e
  <2>1. r.asm = [a EXCEPT !.locked = FALSE, !.mask = {}] /\ r.out = <<>>
    BY <1>1, <1>5
  <2> QED BY <2>1 DEF Assemblers, r
<1>6. CASE ~((begun = Mixed /\ ~sane) \/ noisy)
  <2>1. a.data[0].group \in 0..(Groups - 1)
    BY <1>2, <1>3, <1>6 DEF PieceSet
  <2>2. begun \in Times /\ (begun # Mixed => begun = 2 * a.data[0].group)
    BY <2>1, DayIs DEF Times
  <2> HIDE DEF begun
  <2>3. time \in Times
    BY <2>2, DayIs
  <2>4. e \in MtcEvents
    <3> HIDE DEF rate, time, newly
    <3> QED BY <1>4, <2>3 DEF MtcEvents
  <2>5. Honest(a.data, e)
    <3>1. ASSUME e.type = "time" PROVE e.time = time
      BY <3>1
    <3>2. (\A q \in Pieces : a.data[q] = a.data[0]) => begun = 2 * a.data[0].group
      BY DEF begun
    <3>3. \A q \in Pieces : a.data[q].group # Noise
      BY <1>6
    <3> HIDE DEF e
    <3> QED BY <3>1, <3>2, <3>3 DEF Honest
  <2> HIDE DEF noisy, rate, r, e
  <2>6. r.asm = [a EXCEPT !.locked = TRUE, !.rate = {rate}] /\ r.out = <<e>>
    BY <1>1, <1>6
  <2>7. r.asm \in Assemblers /\ r.asm.data = a.data /\ r.asm.prev = a.prev /\ r.asm.mask = a.mask
        /\ r.asm.forward = a.forward
    <3> DEFINE only == {rate}
    <3>1. only \in SUBSET AllRates
      BY <1>4
    <3>2. r.asm = [a EXCEPT !.locked = TRUE, !.rate = only]
      BY <2>6
    <3> HIDE DEF only
    <3> QED BY <3>1, <3>2 DEF Assemblers
  <2> QED BY <2>4, <2>5, <2>6, <2>7 DEF r
<1> QED BY <1>5, <1>6

\* The number of a piece goes on with what an assembler collects.
GoesOnIn(a, p) == \E x \in a.prev : IF a.forward THEN p = x + 1 ELSE p = x - 1

LEMMA QuarterFrameIs ==
  ASSUME Days, NEW a \in Assemblers, a.prev = {} => a.mask = {},
         NEW p \in Pieces, NEW piece \in PieceSet, NEW sane \in BOOLEAN
  PROVE  LET r == QuarterFrame(a, p, piece, sane)
         IN  /\ r.asm \in Assemblers /\ r.asm.prev = {p} /\ r.asm.data = [a.data EXCEPT ![p] = piece]
             /\ r.asm.mask \subseteq (IF GoesOnIn(a, p) THEN a.mask ELSE {}) \cup {p}
             /\ r.out = <<>> \/ \E e \in MtcEvents :
                  /\ r.out = <<e>> /\ Honest(r.asm.data, e) /\ (e.type = "time" => r.asm.mask = Pieces)
<1> DEFINE next(q) == \E x \in a.prev : q = (x + 1) % 8
           back(q) == \E x \in a.prev : q = (x + 7) % 8
           broken == a.prev # {} /\ ~next(p) /\ ~back(p)
           forward == IF next(p) THEN TRUE ELSE IF back(p) THEN FALSE ELSE a.forward
           kept == IF broken \/ forward # a.forward \/ p = (IF forward THEN 0 ELSE 7) THEN {} ELSE a.mask
           b == [a EXCEPT !.data[p] = piece, !.mask = kept \cup {p}, !.prev = {p},
                          !.forward = forward, !.locked = @ /\ ~broken]
           full == b.mask = Pieces /\ p = (IF forward THEN 7 ELSE 0)
           lost == [type |-> "lost"]
           r == QuarterFrame(a, p, piece, sane)
<1>1. r = IF broken /\ a.locked THEN [asm |-> b, out |-> <<lost>>]
          ELSE IF full THEN MtcAssembled(b, sane)
          ELSE [asm |-> b, out |-> <<>>]
  BY DEF QuarterFrame
<1>2. forward \in BOOLEAN /\ a.forward \in BOOLEAN /\ a.mask \in SUBSET Pieces
  BY DEF Assemblers
<1>3. kept \subseteq IF GoesOnIn(a, p) THEN a.mask ELSE {}
  <2>1. CASE a.prev = {}
    BY <2>1
  <2>2. ASSUME NEW x \in Pieces, a.prev = {x}, ~GoesOnIn(a, p) PROVE kept = {}
    <3>1. /\ next(p) <=> p = (x + 1) % 8
          /\ back(p) <=> p = (x + 7) % 8
          /\ IF a.forward THEN p # x + 1 ELSE p # x - 1
      BY <2>2 DEF GoesOnIn
    <3>2. x \in 0..7 /\ p \in 0..7
      BY DEF Pieces
    <3>3. ((x + 1) % 8 = IF x = 7 THEN 0 ELSE x + 1) /\ ((x + 7) % 8 = IF x = 0 THEN 7 ELSE x - 1)
      BY <3>2
    <3> HIDE DEF next, back
    <3>4. CASE a.forward
      BY <2>2, <3>1, <3>2, <3>3, <3>4
    <3>5. CASE ~a.forward
      BY <1>2, <2>2, <3>1, <3>2, <3>3, <3>5
    <3> QED BY <3>4, <3>5
  <2> HIDE DEF broken, forward
  <2>3. kept = {} \/ kept = a.mask
    OBVIOUS
  <2> HIDE DEF kept
  <2>4. a.prev = {} \/ \E x \in Pieces : a.prev = {x}
    BY DEF Assemblers
  <2> QED BY <2>1, <2>2, <2>3, <2>4
<1>4. kept \subseteq a.mask
  OBVIOUS
<1> HIDE DEF broken, forward, kept
<1>5. /\ b \in Assemblers /\ b.prev = {p} /\ b.data = [a.data EXCEPT ![p] = piece]
      /\ b.mask = kept \cup {p} /\ b.forward = forward
  <2>1. [a.data EXCEPT ![p] = piece] \in [Pieces -> PieceSet]
    BY DEF Assemblers
  <2>2. kept \cup {p} \in SUBSET Pieces
    BY <1>2, <1>4
  <2>3. {p} \in {{}} \cup {{q} : q \in Pieces}
    OBVIOUS
  <2>4. (a.locked /\ ~broken) \in BOOLEAN
    OBVIOUS
  <2> DEFINE data == [a.data EXCEPT ![p] = piece]
             mask == kept \cup {p}
             prev == {p}
             locked == a.locked /\ ~broken
  <2>5. b = [a EXCEPT !.data = data, !.mask = mask, !.prev = prev, !.forward = forward, !.locked = locked]
    OBVIOUS
  <2> HIDE DEF data, mask, prev, locked, b
  <2>6. data \in [Pieces -> PieceSet] /\ mask \in SUBSET Pieces /\ prev \in {{}} \cup {{q} : q \in Pieces}
        /\ locked \in BOOLEAN
    BY <2>1, <2>2, <2>3, <2>4 DEF data, mask, prev, locked
  <2>7. /\ b \in Assemblers /\ b.prev = prev /\ b.data = data /\ b.mask = mask /\ b.forward = forward
    BY <1>2, <2>5, <2>6 DEF Assemblers
  <2> QED BY <2>7 DEF data, mask, prev
<1> HIDE DEF b
<1>6. CASE broken /\ a.locked
  <2>1. r.asm = b /\ r.out = <<lost>> /\ lost \in MtcEvents /\ lost.type # "time"
    BY <1>1, <1>6 DEF MtcEvents
  <2> HIDE DEF r, lost
  <2>2. Honest(b.data, lost)
    BY <2>1 DEF Honest
  <2> QED BY <1>3, <1>5, <2>1, <2>2 DEF r
<1>7. CASE ~(broken /\ a.locked) /\ full
  <2> DEFINE s == MtcAssembled(b, sane)
  <2>1. /\ s.asm \in Assemblers /\ s.asm.data = b.data /\ s.asm.prev = b.prev /\ s.asm.mask \in {b.mask, {}}
        /\ s.out = <<>> \/ \E e \in MtcEvents : s.out = <<e>> /\ Honest(b.data, e) /\ s.asm.mask = b.mask
    BY <1>5, MtcAssembledIs
  <2>2. r = s /\ b.mask = Pieces
    BY <1>1, <1>7
  <2> HIDE DEF r, s
  <2> QED BY <1>3, <1>5, <2>1, <2>2 DEF r
<1>8. CASE ~(broken /\ a.locked) /\ ~full
  <2>1. r.asm = b /\ r.out = <<>>
    BY <1>1, <1>8
  <2> HIDE DEF r
  <2> QED BY <1>3, <1>5, <2>1 DEF r
<1> QED BY <1>6, <1>7, <1>8

Sources == [pos : 0..(8 * Groups - 1), dir : {-1, 0, 1}, rate : AllRates]

\* The piece the transport is at.
Here == [group |-> source.pos \div 8, rate |-> source.rate]

\* What is collected goes together: the last piece heard is the one the transport
\* is at, and all pieces are of its group, unless it moved unheard.
Collected ==
  /\ source \in Sources /\ asm \in Assemblers /\ unheard \in BOOLEAN /\ slipped \in BOOLEAN
  /\ chan \in Seq(MtcEvents)
  /\ asm.prev = {} => asm.mask = {}
  /\ ~unheard => \A x \in asm.prev : x = source.pos % 8
  /\ ~unheard /\ ~slipped => \A q \in asm.mask : asm.data[q].group = Noise \/ asm.data[q] = Here

\* The next piece of the tape, and when it is of the same group.
LEMMA NextPiece ==
  ASSUME Days, NEW at \in 0..(8 * Groups - 1), NEW dir \in {-1, 1}
  PROVE  LET pos == (at + dir) % (8 * Groups)
         IN  /\ pos \in 0..(8 * Groups - 1) /\ pos % 8 \in Pieces /\ pos \div 8 \in 0..(Groups - 1)
             /\ pos % 8 \in {(at % 8) + 1, (at % 8) - 1} => pos \div 8 = at \div 8
<1> DEFINE n == 8 * Groups
           pos == (at + dir) % n
<1>1. n \in Nat /\ n >= 8 /\ at \in 0..(n - 1)
  BY DEF Days
<1>2. pos = IF at + dir = n THEN 0 ELSE IF at + dir = -1 THEN n - 1 ELSE at + dir
  <2> HIDE DEF n
  <2>1. CASE at + dir = n
    BY <1>1, <2>1
  <2>2. CASE at + dir = -1
    BY <1>1, <2>2
  <2>3. CASE at + dir # n /\ at + dir # -1
    BY <1>1, <2>3
  <2> QED BY <2>1, <2>2, <2>3
<1>3. pos \in 0..(n - 1)
  BY <1>1, <1>2
<1> HIDE DEF pos
<1>4. pos % 8 \in 0..7 /\ pos \div 8 \in 0..(Groups - 1)
  BY <1>3 DEF Days
<1>5. ASSUME pos % 8 \in {(at % 8) + 1, (at % 8) - 1} PROVE pos \div 8 = at \div 8
  <2>0. Groups \in Nat \ {0} /\ (8 * Groups - 1) % 8 = 7 /\ 0 % 8 = 0
    BY DEF Days
  <2>1. CASE at + dir = n
    <3>1. at = 8 * Groups - 1 /\ pos = 0
      BY <1>1, <1>2, <2>1
    <3> QED BY <1>5, <2>0, <3>1
  <2>2. CASE at + dir = -1
    <3>1. pos = 8 * Groups - 1 /\ at = 0
      BY <1>1, <1>2, <2>2
    <3> QED BY <1>5, <2>0, <3>1
  <2>3. CASE at + dir # n /\ at + dir # -1
    <3>1. pos = at + dir /\ at \in Nat /\ pos \in Nat
      BY <1>1, <1>2, <1>3, <2>3
    <3> HIDE DEF n
    <3> QED BY <1>5, <3>1
  <2> QED BY <2>1, <2>2, <2>3
<1> QED BY <1>3, <1>4, <1>5 DEF pos, Pieces

LEMMA SentIs ==
  ASSUME NEW S, NEW c \in Seq(S), NEW out, out = <<>> \/ \E e \in S : out = <<e>>
  PROVE  /\ TrySent(c, out) \in Seq(S)
         /\ \A i \in DOMAIN TrySent(c, out) : i > Len(c) => out = <<TrySent(c, out)[i]>>
<1> DEFINE s == TrySent(c, out)
<1>1. s = c \/ s = c \o out
  BY DEF TrySent
<1>2. c \o <<>> = c /\ Len(c) \in Nat
  OBVIOUS
<1>3. CASE s = c
  BY <1>2, <1>3
<1>4. ASSUME NEW e \in S, out = <<e>>, s = c \o out
      PROVE  s \in Seq(S) /\ \A i \in DOMAIN s : i > Len(c) => out = <<s[i]>>
  <2>1. c \o <<e>> = Append(c, e)
    OBVIOUS
  <2>2. s = Append(c, e)
    BY <1>4, <2>1
  <2> HIDE DEF s
  <2>3. s \in Seq(S) /\ DOMAIN s = 1..(Len(c) + 1) /\ s[Len(c) + 1] = e
    BY <2>2
  <2> QED BY <1>2, <1>4, <2>3
<1> QED BY <1>1, <1>2, <1>3, <1>4

\* A piece that is heard joins those of its group.
LEMMA PieceJoins ==
  ASSUME Days, Collected, source.dir # 0,
         NEW pos, pos = (source.pos + source.dir) % (8 * Groups), source' = [source EXCEPT !.pos = pos],
         NEW group, group = pos \div 8 \/ group = Noise, NEW sane \in BOOLEAN,
         Hear(pos % 8, QuarterFrame(asm, pos % 8, [group |-> group, rate |-> source.rate], sane))
  PROVE  /\ Collected'
         /\ \A i \in DOMAIN chan' : i > Len(chan) /\ chan'[i].type = "time" =>
              chan'[i].time \in {2 * (source'.pos \div 8), AddFrames(2 * (source'.pos \div 8), 2)} \/ slipped'
<1> DEFINE p == pos % 8
           piece == [group |-> group, rate |-> source.rate]
           r == QuarterFrame(asm, p, piece, sane)
<1>0. /\ source \in Sources /\ asm \in Assemblers /\ unheard \in BOOLEAN /\ slipped \in BOOLEAN
      /\ chan \in Seq(MtcEvents) /\ (asm.prev = {} => asm.mask = {})
      /\ ~unheard => \A x \in asm.prev : x = source.pos % 8
      /\ ~unheard /\ ~slipped => \A q \in asm.mask : asm.data[q].group = Noise \/ asm.data[q] = Here
  BY DEF Collected
<1>1. /\ pos \in 0..(8 * Groups - 1) /\ p \in Pieces /\ pos \div 8 \in 0..(Groups - 1)
      /\ p \in {(source.pos % 8) + 1, (source.pos % 8) - 1} => pos \div 8 = source.pos \div 8
  <2>1. source.pos \in 0..(8 * Groups - 1) /\ source.dir \in {-1, 1}
    BY <1>0 DEF Sources
  <2> QED BY <2>1, NextPiece
<1>2. source' \in Sources /\ source'.pos = pos /\ source'.rate = source.rate /\ source.rate \in AllRates
  BY <1>0, <1>1 DEF Sources
<1>3. piece \in PieceSet
  BY <1>1, <1>2 DEF PieceSet
<1>4. /\ asm' = r.asm /\ chan' = TrySent(chan, r.out)
      /\ slipped' = (GoesOn(p) /\ (slipped \/ unheard)) /\ unheard' = FALSE
  BY DEF Hear
<1>5. GoesOn(p) <=> GoesOnIn(asm, p)
  BY DEF GoesOn, GoesOnIn
<1>6. /\ r.asm \in Assemblers /\ r.asm.prev = {p} /\ r.asm.data = [asm.data EXCEPT ![p] = piece]
      /\ r.asm.mask \subseteq (IF GoesOnIn(asm, p) THEN asm.mask ELSE {}) \cup {p}
      /\ r.out = <<>> \/ \E e \in MtcEvents :
           /\ r.out = <<e>> /\ Honest(r.asm.data, e) /\ (e.type = "time" => r.asm.mask = Pieces)
  <2>1. p \in Pieces /\ (asm.prev = {} => asm.mask = {}) /\ asm \in Assemblers
    BY <1>0, <1>1
  <2> HIDE DEF p, piece
  <2> QED BY <1>3, <2>1, QuarterFrameIs
<1>7. DOMAIN asm.data = Pieces /\ asm.mask \subseteq Pieces
  BY <1>0 DEF Assemblers
<1> DEFINE there == [group |-> pos \div 8, rate |-> source.rate]
<1> HIDE DEF r, p
<1>8. slipped' \in BOOLEAN /\ unheard' = FALSE /\ asm'.prev = {p} /\ asm' \in Assemblers
  BY <1>4, <1>6
<1>9. ASSUME ~slipped', NEW q \in asm'.mask
      PROVE  asm'.data[q].group = Noise \/ asm'.data[q] = there
  <2>1. CASE q = p
    <3>1. asm'.data[q] = piece
      BY <1>1, <1>4, <1>6, <1>7, <2>1
    <3> QED BY <3>1
  <2>2. CASE q # p
    <3>1. GoesOnIn(asm, p) /\ q \in asm.mask
      BY <1>4, <1>6, <1>9, <2>2
    <3>2. ~slipped /\ ~unheard
      BY <1>0, <1>4, <1>5, <1>9, <3>1
    <3>3. PICK x \in asm.prev : p \in {x + 1, x - 1}
      BY <3>1 DEF GoesOnIn
    <3>4. pos \div 8 = source.pos \div 8
      BY <1>0, <1>1, <3>2, <3>3
    <3>5. Here = there
      BY <3>4 DEF Here
    <3>6. asm'.data[q] = asm.data[q]
      BY <1>4, <1>6, <1>7, <2>2, <3>1
    <3> QED BY <1>0, <3>1, <3>2, <3>5, <3>6
  <2> QED BY <2>1, <2>2
<1>10. Here' = there
  BY <1>2 DEF Here
<1>11. /\ chan' \in Seq(MtcEvents)
       /\ \A i \in DOMAIN chan' : i > Len(chan) => r.out = <<chan'[i]>>
  BY <1>0, <1>4, <1>6, SentIs
<1>12. Collected'
  BY <1>2, <1>8, <1>9, <1>10, <1>11 DEF Collected, p
<1>13. ASSUME NEW i \in DOMAIN chan', i > Len(chan), chan'[i].type = "time", ~slipped'
       PROVE  chan'[i].time \in {2 * (pos \div 8), AddFrames(2 * (pos \div 8), 2)}
  <2> DEFINE e == chan'[i]
  <2>1. r.out = <<e>>
    BY <1>11, <1>13
  <2>2. PICK f \in MtcEvents : r.out = <<f>> /\ Honest(r.asm.data, f) /\ (f.type = "time" => r.asm.mask = Pieces)
    BY <1>6, <2>1
  <2>3. f = e
    BY <2>1, <2>2
  <2>4. Honest(asm'.data, e) /\ asm'.mask = Pieces
    BY <1>4, <1>13, <2>2, <2>3
  <2> HIDE DEF e
  <2>5. e.type = "time"
    BY <1>13 DEF e
  <2>6. \A q \in Pieces : asm'.data[q] = there
    BY <1>9, <1>13, <2>4, <2>5 DEF Honest
  <2>7. 0 \in Pieces /\ there.group = pos \div 8
    BY DEF Pieces
  <2> HIDE DEF there
  <2>8. e.time \in {2 * asm'.data[0].group, AddFrames(2 * asm'.data[0].group, 2)}
    BY <2>4, <2>5, <2>6, <2>7 DEF Honest
  <2> QED BY <2>6, <2>7, <2>8 DEF e
<1> QED BY <1>2, <1>12, <1>13

LEMMA CollectedInit == ASSUME Days, MtcInit PROVE Collected
<1>1. source = [pos |-> 8 * Groups - 1, dir |-> 1, rate |-> CHOOSE r \in Rates : TRUE]
      /\ unheard = FALSE /\ slipped = FALSE /\ asm = NewAssembler /\ chan = <<>>
  BY DEF MtcInit
<1>2. (CHOOSE r \in Rates : TRUE) \in AllRates
  BY DEF AllRates
<1>3. source \in Sources
  BY <1>1, <1>2 DEF Sources, Days
<1>4. NoPiece \in PieceSet
  BY <1>2 DEF PieceSet, NoPiece
<1>5. asm \in Assemblers /\ asm.mask = {} /\ asm.prev = {}
  BY <1>1, <1>4 DEF Assemblers, NewAssembler
<1>6. chan \in Seq(MtcEvents) /\ unheard \in BOOLEAN /\ slipped \in BOOLEAN
  <2>1. <<>> \in Seq(MtcEvents)
    OBVIOUS
  <2>2. chan = <<>> /\ unheard = FALSE /\ slipped = FALSE
    BY <1>1
  <2> QED BY <2>1, <2>2
<1>7. (\A x \in asm.prev : x = source.pos % 8)
      /\ \A q \in asm.mask : asm.data[q].group = Noise \/ asm.data[q] = Here
  BY <1>5
<1> QED BY <1>3, <1>5, <1>6, <1>7 DEF Collected

\* The time of what the assembler gives in a step.
OwnTimes == {2 * (source'.pos \div 8), AddFrames(2 * (source'.pos \div 8), 2)}
Comes == \A i \in DOMAIN chan' : i > Len(chan) /\ chan'[i].type = "time" => chan'[i].time \in OwnTimes \/ slipped'

LEMMA Stays == ASSUME Collected, chan' = chan \/ chan' = <<>> PROVE Comes
<1>1. DOMAIN chan = 1..Len(chan) /\ Len(chan) \in Nat
  BY DEF Collected
<1> QED BY <1>1 DEF Comes

\* What the transport does to what is collected when no piece is heard.
LEMMA MovedUnheard ==
  ASSUME Collected, source' \in Sources, unheard' = TRUE \/ (unheard' = unheard /\ Here' = Here /\ source'.pos = source.pos),
         UNCHANGED <<slipped, asm>>, chan' = chan \/ chan' = <<>>
  PROVE  Collected' /\ Comes
<1>1. Comes
  BY Stays
<1>2. chan \in Seq(MtcEvents) /\ unheard \in BOOLEAN /\ <<>> \in Seq(MtcEvents)
  BY DEF Collected
<1>3. chan' \in Seq(MtcEvents) /\ unheard' \in BOOLEAN
  BY <1>2
<1> QED BY <1>1, <1>3 DEF Collected

LEMMA PlaySteps == ASSUME Days, Collected, Play PROVE Collected' /\ Comes
<1> DEFINE pos == (source.pos + source.dir) % (8 * Groups)
           heard(g, sane) == QuarterFrame(asm, pos % 8, [group |-> g, rate |-> source.rate], sane)
<1>1. /\ source.dir # 0 /\ source' = [source EXCEPT !.pos = pos]
      /\ \/ \E sane \in BOOLEAN : Hear(pos % 8, heard(pos \div 8, sane))
         \/ Hear(pos % 8, heard(Noise, FALSE))
         \/ unheard' = TRUE /\ UNCHANGED <<asm, chan, slipped>>
  BY DEF Play
<1>2. CASE \E sane \in BOOLEAN : Hear(pos % 8, heard(pos \div 8, sane))
  <2>1. PICK sane \in BOOLEAN : Hear(pos % 8, heard(pos \div 8, sane))
    BY <1>2
  <2> QED BY <1>1, <2>1, PieceJoins DEF Comes, OwnTimes
<1>3. CASE Hear(pos % 8, heard(Noise, FALSE))
  BY <1>1, <1>3, PieceJoins DEF Comes, OwnTimes
<1>4. CASE unheard' = TRUE /\ UNCHANGED <<asm, chan, slipped>>
  <2>1. source \in Sources /\ source.pos \in 0..(8 * Groups - 1) /\ source.dir \in {-1, 1}
    BY <1>1 DEF Collected, Sources
  <2>2. pos \in 0..(8 * Groups - 1)
    BY <2>1, NextPiece
  <2> HIDE DEF pos
  <2>3. source' \in Sources
    BY <1>1, <2>1, <2>2 DEF Sources
  <2> QED BY <1>4, <2>3, MovedUnheard
<1> QED BY <1>1, <1>2, <1>3, <1>4

LEMMA Before ==
  ASSUME Days, NEW g \in 0..(Groups - 1)
  PROVE  (8 * g - 1) % (8 * Groups) \in 0..(8 * Groups - 1)
<1> DEFINE n == 8 * Groups
<1>1. n \in Nat \ {0} /\ 8 * g - 1 \in Int
  BY DEF Days
<1> HIDE DEF n
<1>2. (8 * g - 1) % n \in 0..(n - 1)
  BY <1>1
<1> QED BY <1>2 DEF n

LEMMA TurnSteps ==
  ASSUME Days, Collected, NEW dir \in {-1, 0, 1}, Turn(dir)
  PROVE  Collected' /\ Comes
<1>1. PICK pos \in {source.pos} \cup {(8 * (source.pos \div 8) - 1) % (8 * Groups) : d \in {0} \cap {source.dir}} :
        /\ source' = [source EXCEPT !.dir = dir, !.pos = pos]
        /\ unheard' = (unheard \/ pos # source.pos)
  BY DEF Turn
<1>2. UNCHANGED <<slipped, asm, chan>>
  BY DEF Turn
<1>3. source \in Sources /\ source.pos \in 0..(8 * Groups - 1) /\ unheard \in BOOLEAN
  BY DEF Collected, Sources
<1>4. source.pos \div 8 \in 0..(Groups - 1)
  BY <1>3 DEF Days
<1>5. pos \in 0..(8 * Groups - 1)
  BY <1>1, <1>3, <1>4, Before
<1>6. source' \in Sources /\ source'.pos = pos /\ source'.rate = source.rate
  BY <1>1, <1>3, <1>5 DEF Sources
<1>7. pos = source.pos => Here' = Here
  BY <1>6 DEF Here
<1>8. unheard' = TRUE \/ (unheard' = unheard /\ Here' = Here /\ source'.pos = source.pos)
  BY <1>1, <1>3, <1>6, <1>7
<1> QED BY <1>2, <1>6, <1>8, MovedUnheard

LEMMA LocateSteps ==
  ASSUME Days, Collected, NEW group \in Spots, NEW rate \in Rates, Locate(group, rate)
  PROVE  Collected' /\ Comes
<1>1. /\ source' = [source EXCEPT !.pos = (8 * group - 1) % (8 * Groups), !.rate = rate]
      /\ unheard' = TRUE /\ slipped' = slipped
  BY DEF Locate
<1>2. PICK time \in {2 * group, Noise} :
        asm' = FullFrame(asm, time, rate).asm /\ chan' = TrySent(chan, FullFrame(asm, time, rate).out)
  BY DEF Locate
<1>3. group \in 0..(Groups - 1) /\ rate \in AllRates /\ source \in Sources /\ asm \in Assemblers
      /\ chan \in Seq(MtcEvents) /\ slipped \in BOOLEAN
  BY DEF Days, AllRates, Collected
<1>4. source' \in Sources
  BY <1>1, <1>3, Before DEF Sources
<1>5. CASE time = Noise
  <2>1. asm' = asm /\ chan' = TrySent(chan, <<>>)
    BY <1>2, <1>5 DEF FullFrame
  <2>2. chan' = chan
    BY <1>3, <2>1 DEF TrySent
  <2> QED BY <1>1, <1>4, <2>1, <2>2, MovedUnheard
<1>6. CASE time # Noise
  <2> DEFINE e == [type |-> "full", time |-> time]
  <2>1. asm' = [asm EXCEPT !.mask = {}, !.prev = {}, !.locked = FALSE, !.rate = {rate}] /\ chan' = TrySent(chan, <<e>>)
    BY <1>2, <1>6 DEF FullFrame
  <2>2. asm' \in Assemblers /\ asm'.mask = {} /\ asm'.prev = {}
    BY <1>3, <2>1 DEF Assemblers
  <2>3. time \in Times
    BY <1>2, <1>3, <1>6, DayIs DEF Times
  <2>4. e \in MtcEvents /\ e.type # "time"
    BY <2>3 DEF MtcEvents
  <2> HIDE DEF e
  <2>5. /\ chan' \in Seq(MtcEvents)
        /\ \A i \in DOMAIN chan' : i > Len(chan) => <<e>> = <<chan'[i]>>
    BY <1>3, <2>1, <2>4, SentIs
  <2>6. Comes
    BY <2>4, <2>5 DEF Comes
  <2>7. Collected'
    BY <1>1, <1>3, <1>4, <2>2, <2>5 DEF Collected
  <2> QED BY <2>6, <2>7
<1> QED BY <1>5, <1>6

LEMMA CollectedSteps == ASSUME Days, Collected, [MtcNext]_mtcVars PROVE Collected' /\ Comes
<1>0. source \in Sources /\ (source' = source => Here' = Here)
  BY DEF Collected, Here
<1>1. CASE Play
  BY <1>1, PlaySteps
<1>2. CASE Silence
  <2>1. UNCHANGED <<source, unheard, slipped, asm, chan>>
    BY <1>2 DEF Silence
  <2> QED BY <1>0, <2>1, MovedUnheard
<1>3. CASE Tick
  <2>1. UNCHANGED <<source, unheard, slipped, asm>> /\ chan' = <<>>
    BY <1>3 DEF Tick
  <2> QED BY <1>0, <2>1, MovedUnheard
<1>4. ASSUME NEW dir \in {-1, 0, 1}, Turn(dir) PROVE Collected' /\ Comes
  BY <1>4, TurnSteps
<1>5. ASSUME NEW g \in Spots, NEW r \in Rates, Locate(g, r) PROVE Collected' /\ Comes
  BY <1>5, LocateSteps
<1>6. CASE UNCHANGED mtcVars
  <2>1. UNCHANGED <<source, unheard, slipped, asm, chan>>
    BY <1>6 DEF mtcVars
  <2> QED BY <1>0, <2>1, MovedUnheard
<1> QED BY <1>1, <1>2, <1>3, <1>4, <1>5, <1>6 DEF MtcNext

\* AssembledWasSent: a time is that of the group the transport is in, unless it
\* moved unheard and slipped into the numbers of a group under way, for any
\* number of losses, moves and rates (mtc.rs, quarter_frame and assemble).
THEOREM TimesWereSent == MtcSpec => AssembledWasSent
<1>0. Days
  BY TimecodeAssumption DEF Days
<1> DEFINE A == LET begun == 2 * (source'.pos \div 8)
                IN  \A i \in DOMAIN chan' : i > Len(chan) /\ chan'[i].type = "time" =>
                      chan'[i].time \in {begun, AddFrames(begun, 2)} \/ slipped'
<1>1. MtcInit => Collected
  BY <1>0, CollectedInit
<1>2. Collected /\ [MtcNext]_mtcVars => Collected'
  BY <1>0, CollectedSteps
<1>3. Collected /\ [MtcNext]_mtcVars => [A]_mtcVars
  BY <1>0, CollectedSteps DEF Comes, OwnTimes
<1> QED BY <1>1, <1>2, <1>3, PTL DEF MtcSpec, AssembledWasSent

----------------------------------------------------------------------------
(* The clock of the session.                                               *)

Clocks ==
  {c \in [rate : SUBSET AllRates, base : SUBSET [time : Times, at : Nat, running : BOOLEAN], signal : SUBSET Nat] :
     /\ \A x, y \in c.base : x = y
     /\ c.base # {} => c.signal # {}}

\* Its time was not received after n.
Past(c, n) == \A b \in c.base : b.at <= n

\* A clock shows one time.
Tells(c, n, time) == \A t \in Current(c, n) : t.time = time

LEMMA ClockIs ==
  ASSUME NEW c \in Clocks
  PROVE  /\ c.rate \in SUBSET AllRates /\ c.base \in SUBSET [time : Times, at : Nat, running : BOOLEAN]
         /\ c.signal \in SUBSET Nat /\ (\A x, y \in c.base : x = y) /\ (c.base # {} => c.signal # {})
BY DEF Clocks

LEMMA CurrentIs ==
  ASSUME Days, Freewheel \in Nat, NEW c \in Clocks, NEW n \in Nat
  PROVE  /\ \A t \in Current(c, n) : t.time \in Times /\ t.locked = Alive(c, n)
         /\ \A t, u \in Current(c, n) : t = u
         /\ Current(c, n) = {} <=> c.base = {}
<1> DEFINE until == IF Alive(c, n) THEN n ELSE (CHOOSE s \in c.signal : TRUE) + Freewheel
           elapsed(b) == IF until > b.at THEN until - b.at ELSE 0
           of(b) == IF ~b.running THEN b.time ELSE AddFrames(b.time, elapsed(b) \div 4)
           told(b) == [time |-> of(b), locked |-> Alive(c, n)]
<1>1. Current(c, n) = {told(b) : b \in c.base}
  BY DEF Current
<1>2. c.base # {} => until \in Nat
  <2>1. c.base # {} => (CHOOSE s \in c.signal : TRUE) \in Nat
    BY ClockIs
  <2> QED BY <2>1
<1>3. ASSUME NEW b \in c.base PROVE of(b) \in Times
  <2>1. until \in Nat /\ b.at \in Nat /\ b.time \in Times
    BY <1>2, <1>3, ClockIs
  <2> HIDE DEF until
  <2>2. elapsed(b) \in Nat
    BY <2>1
  <2>3. elapsed(b) \div 4 \in Int
    BY <2>2
  <2> HIDE DEF elapsed
  <2> QED BY <2>1, <2>3, DayIs
<1>4. \A b \in c.base : told(b).time \in Times /\ told(b).locked = Alive(c, n)
  <2> HIDE DEF of
  <2> QED BY <1>3
<1>5. \A x, y \in c.base : x = y
  BY ClockIs
<1> HIDE DEF told
<1> QED BY <1>1, <1>4, <1>5

\* A message but a position does not change the time that is told.
LEMMA FedIs ==
  ASSUME Days, Freewheel \in Nat, NEW c \in Clocks, NEW e \in MtcEvents, NEW n \in Nat
  PROVE  /\ Fed(c, e, n) \in Clocks /\ (Past(c, n) => Past(Fed(c, e, n), n))
         /\ \A x : e.type \notin {"time", "full"} /\ Tells(c, n, x) => Tells(Fed(c, e, n), n, x)
<1> DEFINE f == Fed(c, e, n)
           still == {t \in Current(c, n) : ~t.locked}
           frozen == {[time |-> t.time, at |-> n, running |-> FALSE] : t \in still}
           base == IF still = {} THEN c.base ELSE frozen
<1>1. CASE e.type = "locked"
  <2>1. f = [rate |-> {e.rate}, signal |-> {n}, base |-> base]
    BY <1>1 DEF Fed
  <2>2. e.rate \in AllRates
    BY <1>1 DEF MtcEvents
  <2>3. frozen \in SUBSET [time : Times, at : Nat, running : BOOLEAN]
    <3>1. \A t \in still : t.time \in Times
      BY CurrentIs
    <3>2. \A t \in still : [time |-> t.time, at |-> n, running |-> FALSE] \in [time : Times, at : Nat, running : BOOLEAN]
      BY <3>1
    <3> HIDE DEF still
    <3> QED BY <3>2
  <2>4. \A x, y \in frozen : x = y
    <3>1. \A t, u \in still : t = u
      BY CurrentIs
    <3> HIDE DEF still
    <3> QED BY <3>1
  <2>5. base \in SUBSET [time : Times, at : Nat, running : BOOLEAN] /\ \A x, y \in base : x = y
    BY <2>3, <2>4, ClockIs
  <2>6. f.base = base /\ f.signal = {n} /\ f.rate = {e.rate}
    BY <2>1
  <2>10. Past(c, n) => Past(f, n)
    <3>1. \A b \in frozen : b.at <= n
      OBVIOUS
    <3> HIDE DEF f, frozen
    <3> QED BY <2>6, <3>1 DEF Past
  <2> HIDE DEF base
  <2>7. f \in Clocks
    <3>1. f \in [rate : SUBSET AllRates, base : SUBSET [time : Times, at : Nat, running : BOOLEAN], signal : SUBSET Nat]
      BY <2>1, <2>2, <2>5
    <3> QED BY <2>5, <2>6, <3>1 DEF Clocks
  <2>8. ASSUME NEW x, Tells(c, n, x) PROVE Tells(f, n, x)
    <3>1. CASE still # {}
      <4>1. \A b \in f.base : ~b.running /\ b.time = x
        BY <2>6, <2>8, <3>1 DEF base, Tells
      <4> QED BY <4>1 DEF Tells, Current
    <3>2. CASE still = {} /\ c.base = {}
      <4>1. f.base = {}
        BY <2>6, <3>2 DEF base
      <4> QED BY <4>1 DEF Tells, Current
    <3>3. CASE still = {} /\ c.base # {}
      <4>1. Alive(c, n)
        BY <3>3, CurrentIs
      <4>2. n - n <= Freewheel
        OBVIOUS
      <4>3. Alive(f, n) /\ f.base = c.base
        BY <2>6, <3>3, <4>2 DEF base, Alive
      <4>4. Current(f, n) = Current(c, n)
        <5> HIDE DEF f
        <5> QED BY <4>1, <4>3 DEF Current
      <4> QED BY <2>8, <4>4 DEF Tells
    <3> QED BY <3>1, <3>2, <3>3
  <2> QED BY <2>7, <2>8, <2>10
<1>2. ASSUME e.type \in {"time", "full"} PROVE f \in Clocks /\ Past(f, n)
  <2> DEFINE b == [time |-> e.time, at |-> n, running |-> e.type = "time"]
  <2>1. f = [c EXCEPT !.base = {b}, !.signal = {n}]
    BY <1>2 DEF Fed
  <2>2. e.time \in Times
    BY <1>2 DEF MtcEvents
  <2>3. {b} \in SUBSET [time : Times, at : Nat, running : BOOLEAN]
    BY <2>2
  <2> HIDE DEF b, f
  <2>4. f \in [rate : SUBSET AllRates, base : SUBSET [time : Times, at : Nat, running : BOOLEAN], signal : SUBSET Nat]
        /\ f.base = {b} /\ f.signal = {n}
    BY <2>1, <2>3 DEF Clocks
  <2>5. b.at <= n
    BY DEF b
  <2> QED BY <2>4, <2>5 DEF Clocks, Past
<1>3. CASE e.type \notin {"locked", "time", "full"}
  <2>1. f = c
    BY <1>3 DEF Fed
  <2> QED BY <2>1
<1> HIDE DEF f
<1> QED BY <1>1, <1>2, <1>3 DEF f

\* drain_mtc keeps the clock well formed, and its time where no position waits.
Quiet(events) == \A i \in DOMAIN events : events[i].type \notin {"time", "full"}

LEMMA DrainedIs ==
  ASSUME Days, Freewheel \in Nat, NEW c \in Clocks, NEW events \in Seq(MtcEvents), NEW n \in Nat
  PROVE  /\ Drained(c, events, n) \in Clocks /\ (Past(c, n) => Past(Drained(c, events, n), n))
         /\ \A x : Quiet(events) /\ Tells(c, n, x) => Tells(Drained(c, events, n), n, x)
         /\ events = <<>> => Drained(c, events, n) = c
         /\ events # <<>> => \E d \in Clocks : Drained(c, events, n) = Fed(d, events[Len(events)], n)
<1> DEFINE l == Len(events)
           C == {d \in Clocks : /\ Past(c, n) => Past(d, n)
                              /\ \A x : Quiet(events) /\ Tells(c, n, x) => Tells(d, n, x)}
           Next1(f, i) == Fed(f[i - 1], events[i], n)
           Body(f, m) == [i \in 0..m |-> IF i = 0 THEN c ELSE Next1(f, i)]
           Ok(m) == \E f \in [0..m -> C] : f = Body(f, m)
           Bad == {m \in 0..l : ~Ok(m)}
<1>1. l \in Nat /\ DOMAIN events = 1..l /\ \A i \in 1..l : events[i] \in MtcEvents
  OBVIOUS
<1>2. ASSUME NEW d \in C, NEW i \in 1..l PROVE Fed(d, events[i], n) \in C
  <2>1. events[i] \in MtcEvents /\ (Quiet(events) => events[i].type \notin {"time", "full"})
    BY <1>1 DEF Quiet
  <2>2. d \in Clocks /\ (Past(c, n) => Past(d, n)) /\ \A x : Quiet(events) /\ Tells(c, n, x) => Tells(d, n, x)
    OBVIOUS
  <2>3. /\ Fed(d, events[i], n) \in Clocks /\ (Past(d, n) => Past(Fed(d, events[i], n), n))
        /\ \A x : events[i].type \notin {"time", "full"} /\ Tells(d, n, x) => Tells(Fed(d, events[i], n), n, x)
    BY <2>1, <2>2, FedIs
  <2> QED BY <2>1, <2>2, <2>3
<1>3. c \in C
  OBVIOUS
<1> HIDE DEF C, l
<1>4. Ok(0)
  <2> DEFINE f == [i \in 0..0 |-> c]
  <2>1. f \in [0..0 -> C]
    BY <1>3
  <2>2. f = Body(f, 0)
    OBVIOUS
  <2> QED BY <2>1, <2>2
<1>5. ASSUME NEW m \in Nat, m < l, Ok(m) PROVE Ok(m + 1)
  <2>1. PICK f \in [0..m -> C] : f = Body(f, m)
    BY <1>5
  <2> DEFINE last == Next1(f, m + 1)
             g == [i \in 0..(m + 1) |-> IF i \in 0..m THEN f[i] ELSE last]
  <2>2. m + 1 \in 1..l /\ m \in 0..m /\ (m + 1) - 1 = m /\ f[m] \in C
    BY <1>1, <1>5
  <2>3. last \in C
    BY <1>2, <2>2
  <2>4. g \in [0..(m + 1) -> C]
    <3> HIDE DEF last
    <3> QED BY <2>3
  <2>5. ASSUME NEW i \in 0..(m + 1) PROVE g[i] = IF i = 0 THEN c ELSE Next1(g, i)
    <3>1. CASE i \in 0..m
      <4>1. f[i] = IF i = 0 THEN c ELSE Next1(f, i)
        BY <2>1, <3>1
      <4>2. i # 0 => i - 1 \in 0..m /\ i - 1 \in 0..(m + 1)
        BY <3>1
      <4>3. g[i] = f[i] /\ (i # 0 => g[i - 1] = f[i - 1])
        BY <3>1, <4>2
      <4> HIDE DEF g
      <4> QED BY <4>1, <4>3
    <3>2. CASE i \notin 0..m
      <4>1. i = m + 1 /\ i # 0 /\ i - 1 = m
        BY <3>2
      <4>2. g[i] = last /\ g[m] = f[m]
        BY <2>2, <4>1
      <4>3. Next1(g, i) = last
        BY <2>2, <4>1, <4>2
      <4> HIDE DEF g, last
      <4> QED BY <4>1, <4>2, <4>3
    <3> QED BY <3>1, <3>2
  <2>6. g = Body(g, m + 1)
    <3>1. DOMAIN g = 0..(m + 1) /\ g = [i \in DOMAIN g |-> g[i]]
      OBVIOUS
    <3> HIDE DEF g
    <3> QED BY <2>5, <3>1
  <2> HIDE DEF g
  <2> QED BY <2>4, <2>6
<1>6. Ok(l)
  <2> HIDE DEF Ok
  <2> SUFFICES ASSUME Bad # {} PROVE FALSE
    BY <1>1
  <2>1. Bad \in SUBSET Nat
    BY <1>1
  <2>2. PICK m \in Bad : \A k \in Bad : m <= k
    BY <2>1, LeastNat
  <2>3. m \in 0..l /\ m # 0 /\ ~Ok(m)
    BY <1>4, <2>2
  <2>4. m - 1 \in Nat /\ m - 1 \in 0..l /\ m - 1 < l /\ ~(m <= m - 1) /\ (m - 1) + 1 = m
    BY <1>1, <2>3
  <2>5. Ok(m - 1)
    BY <2>2, <2>4
  <2>6. Ok((m - 1) + 1)
    BY <1>5, <2>4, <2>5
  <2> QED BY <2>3, <2>4, <2>6
<1> DEFINE fed == CHOOSE f : f = Body(f, l)
<1>7. fed = Body(fed, l) /\ Drained(c, events, n) = fed[l]
  <2>1. fed = Body(fed, l)
    BY <1>6
  <2>2. Drained(c, events, n) = fed[l]
    BY DEF Drained, l
  <2> QED BY <2>1, <2>2
<1> HIDE DEF fed
<1> DEFINE Wrong == {m \in 0..l : fed[m] \notin C}
<1>8. ASSUME NEW o \in 0..l PROVE fed[o] \in C
  <2> SUFFICES ASSUME Wrong # {} PROVE FALSE
    BY <1>8
  <2>1. Wrong \in SUBSET Nat
    BY <1>1
  <2>2. PICK m \in Wrong : \A k \in Wrong : m <= k
    BY <2>1, LeastNat
  <2>3. m \in 0..l /\ fed[m] \notin C /\ fed[m] = IF m = 0 THEN c ELSE Next1(fed, m)
    BY <1>7, <2>2
  <2>4. m # 0
    BY <1>3, <2>3
  <2>5. m - 1 \in 0..l /\ ~(m <= m - 1) /\ m \in 1..l
    BY <1>1, <2>3, <2>4
  <2>6. fed[m - 1] \in C
    BY <2>2, <2>5
  <2>7. Next1(fed, m) \in C
    BY <1>2, <2>5, <2>6
  <2> QED BY <2>3, <2>4, <2>7
<1>9. l = 0 => fed[l] = c
  BY <1>7
<1>10. l > 0 => \E d \in Clocks : fed[l] = Fed(d, events[l], n)
  <2>1. l > 0 => l - 1 \in 0..l /\ fed[l] = Next1(fed, l)
    BY <1>1, <1>7
  <2> QED BY <1>8, <2>1 DEF C
<1>11. fed[l] \in C
  BY <1>1, <1>8
<1>12. fed[l] \in Clocks /\ (Past(c, n) => Past(fed[l], n)) /\ \A x : Quiet(events) /\ Tells(c, n, x) => Tells(fed[l], n, x)
  BY <1>11 DEF C
<1> QED BY <1>1, <1>7, <1>9, <1>10, <1>12 DEF l

\* Without a signal, time that passes changes nothing.
LEMMA SilenceIs ==
  ASSUME Freewheel \in Nat, NEW c \in Clocks, NEW n \in Nat, ~Alive(c, n)
  PROVE  ~Alive(c, n + 1) /\ \A x : Tells(c, n, x) => Tells(c, n + 1, x)
<1>1. ~Alive(c, n + 1)
  <2>1. \A s \in c.signal : s \in Nat /\ ~(n - s <= Freewheel)
    BY ClockIs DEF Alive
  <2>2. \A s \in c.signal : ~((n + 1) - s <= Freewheel)
    BY <2>1
  <2> QED BY <2>2 DEF Alive
<1> DEFINE until == (CHOOSE s \in c.signal : TRUE) + Freewheel
           told(b) == [time |-> IF ~b.running THEN b.time
                                ELSE AddFrames(b.time, (IF until > b.at THEN until - b.at ELSE 0) \div 4),
                       locked |-> FALSE]
<1>2. \A m : ~Alive(c, m) => Current(c, m) = {told(b) : b \in c.base}
  <2> HIDE DEF Clocks
  <2>1. ASSUME NEW m, ~Alive(c, m) PROVE Current(c, m) = {told(b) : b \in c.base}
    <3>1. Alive(c, m) = FALSE
      BY <2>1 DEF Alive
    <3> QED BY <3>1 DEF Current
  <2> QED BY <2>1
<1> HIDE DEF told
<1>3. Current(c, n + 1) = Current(c, n)
  BY <1>1, <1>2
<1> QED BY <1>1, <1>3 DEF Tells

\* What is shown without a signal is what the clock tells until the next tick.
Stopped ==
  /\ clock \in Clocks /\ now \in Nat /\ Past(clock, now)
  /\ (\A s, t \in shown : s = t) /\ \A s \in shown : s.time \in Times
  /\ \A s \in shown : ~s.locked => ~Alive(clock, now) /\ Tells(clock, now, s.time)

LEMMA TickSteps ==
  ASSUME Days, Freewheel \in Nat, Collected, Stopped, Tick
  PROVE  Stopped' /\ \A s \in shown, t \in shown' : ~s.locked /\ t.time # s.time => ~Quiet(chan)
<1>1. /\ clock' = Drained(clock, chan, now) /\ now' = now
      /\ shown' = {[time |-> t.time, locked |-> t.locked, at |-> now] : t \in Current(clock', now)}
  BY DEF Tick
<1>2. clock \in Clocks /\ now \in Nat /\ chan \in Seq(MtcEvents) /\ Past(clock, now)
  BY DEF Stopped, Collected
<1>3. clock' \in Clocks /\ Past(clock', now) /\ \A x : Quiet(chan) /\ Tells(clock, now, x) => Tells(clock', now, x)
  BY <1>1, <1>2, DrainedIs
<1>4. ASSUME NEW s \in shown', ~s.locked PROVE ~Alive(clock', now) /\ Tells(clock', now, s.time)
  BY <1>1, <1>2, <1>3, <1>4, CurrentIs DEF Tells
<1>5. Stopped'
  <2>1. (\A s, t \in shown' : s = t) /\ \A s \in shown' : s.time \in Times
    BY <1>1, <1>2, <1>3, CurrentIs
  <2> QED BY <1>1, <1>2, <1>3, <1>4, <2>1 DEF Stopped
<1>6. ASSUME NEW s \in shown, NEW t \in shown', ~s.locked, Quiet(chan) PROVE t.time = s.time
  <2>1. Tells(clock, now, s.time)
    BY <1>6 DEF Stopped
  <2>2. Tells(clock', now, s.time)
    BY <1>3, <1>6, <2>1
  <2> QED BY <1>1, <2>2 DEF Tells
<1> QED BY <1>5, <1>6

LEMMA StoppedInit == ASSUME MtcInit PROVE Stopped
<1>1. clock = NewClock /\ shown = {} /\ now = 0
  BY DEF MtcInit
<1>2. clock \in Clocks /\ Past(clock, now)
  BY <1>1 DEF Clocks, NewClock, Past
<1> QED BY <1>1, <1>2 DEF Stopped

LEMMA StoppedSteps ==
  ASSUME Days, Freewheel \in Nat, Collected, Stopped, [MtcNext]_mtcVars
  PROVE  Stopped' /\ \A s \in shown, t \in shown' : ~s.locked /\ t.time # s.time => ~Quiet(chan)
<1>1. CASE UNCHANGED <<clock, shown>> /\ now' \in {now, now + 1}
  <2>1. clock \in Clocks /\ now \in Nat /\ now' \in Nat /\ (\A s, t \in shown : s = t)
        /\ \A s \in shown : s.time \in Times
    BY <1>1 DEF Stopped
  <2>4. Past(clock, now')
    <3>1. \A b \in clock.base : b.at \in Nat /\ b.at <= now
      BY <2>1, ClockIs DEF Stopped, Past
    <3> QED BY <1>1, <2>1, <3>1 DEF Past
  <2>2. ASSUME NEW s \in shown, ~s.locked PROVE ~Alive(clock, now') /\ Tells(clock, now', s.time)
    BY <1>1, <2>1, <2>2, SilenceIs DEF Stopped
  <2>3. Stopped'
    BY <1>1, <2>1, <2>2, <2>4 DEF Stopped
  <2> QED BY <1>1, <2>1, <2>3
<1>2. CASE Tick
  BY <1>2, TickSteps
<1>3. Play \/ Silence => UNCHANGED <<clock, shown>> /\ now' = now + 1
  BY DEF Play, Silence
<1>4. \A dir \in {-1, 0, 1} : Turn(dir) => UNCHANGED <<clock, shown, now>>
  BY DEF Turn
<1>5. \A g \in Spots, r \in Rates : Locate(g, r) => UNCHANGED <<clock, shown, now>>
  BY DEF Locate
<1>6. UNCHANGED mtcVars => UNCHANGED <<clock, shown, now>>
  BY DEF mtcVars
<1> QED BY <1>1, <1>2, <1>3, <1>4, <1>5, <1>6 DEF MtcNext

\* FrozenUntilPosition: once the signal is gone the time only moves with a
\* position received, whatever the silence lasted, and for any lock, loss or
\* move in between (mtc.rs, feed and current).
THEOREM FrozenTimeStays == MtcSpec => FrozenUntilPosition
<1>0. Days /\ Freewheel \in Nat
  BY TimecodeAssumption DEF Days
<1> DEFINE A == \A s \in shown, t \in shown' :
                  ~s.locked /\ t.time # s.time => \E i \in DOMAIN chan : chan[i].type \in {"time", "full"}
<1>1. MtcInit => Collected /\ Stopped
  BY <1>0, CollectedInit, StoppedInit
<1>2. Collected /\ Stopped /\ [MtcNext]_mtcVars => Collected' /\ Stopped'
  BY <1>0, CollectedSteps, StoppedSteps
<1>3. Collected /\ Stopped /\ [MtcNext]_mtcVars => [A]_mtcVars
  BY <1>0, StoppedSteps DEF Quiet
<1> QED BY <1>1, <1>2, <1>3, PTL DEF MtcSpec, FrozenUntilPosition

----------------------------------------------------------------------------
(* The time that is shown while the transport plays.                       *)

\* The pieces sent since the last group was full, and the time it had then.
Since == (source.pos + 1) % 8
Due == (2 * ((source.pos + 1) \div 8)) % Day

Waits ==
  /\ chan # <<>> /\ Since < ticked
  /\ chan[Len(chan)] = [type |-> "time", time |-> Due]
Given ==
  /\ chan = <<>>
  /\ \E at \in Nat : /\ at <= now /\ now <= at + Since
                     /\ clock.base = {[time |-> Due, at |-> at, running |-> TRUE]} /\ clock.signal = {at}

\* What so many pieces heard in a row have led to.
Tracked ==
  /\ steady \in 0..24 /\ ticked \in Nat
  /\ steady >= 1 => source.dir = 1 /\ asm.prev = {source.pos % 8}
  /\ steady >= 2 => asm.forward
  /\ steady >= (source.pos % 8) + 2 => \A j \in 0..(source.pos % 8) : j \in asm.mask /\ asm.data[j] = Here
  /\ steady >= 9 + Since => asm.locked /\ asm.rate = {source.rate}
  /\ steady >= 17 + Since => Waits \/ Given
  /\ ticked = 0 => shown = {[time |-> t.time, locked |-> t.locked, at |-> now] : t \in Current(clock, now)}

LEMMA Eights ==
  ASSUME NEW x \in Nat
  PROVE  /\ x % 8 \in 0..7 /\ (x + 1) % 8 = IF x % 8 = 7 THEN 0 ELSE (x % 8) + 1
         /\ (x + 1) % 8 = ((x % 8) + 1) % 8
         /\ (x + 1) \div 8 = IF x % 8 = 7 THEN (x \div 8) + 1 ELSE x \div 8
         /\ x \div 8 \in Nat
OBVIOUS

LEMMA NextNumber ==
  ASSUME Days, NEW at \in 0..(8 * Groups - 1), NEW pos, pos = (at + 1) % (8 * Groups)
  PROVE  /\ pos \in 0..(8 * Groups - 1) /\ pos % 8 \in 0..7 /\ at % 8 \in 0..7 /\ (at + 1) % 8 \in 0..7
         /\ pos % 8 = ((at % 8) + 1) % 8
         /\ pos % 8 # 0 => pos \div 8 = at \div 8 /\ at % 8 = (pos % 8) - 1
         /\ (at + 1) % 8 = pos % 8
         /\ (pos + 1) % 8 = IF pos % 8 = 7 THEN 0 ELSE (pos % 8) + 1
         /\ pos % 8 # 7 => (2 * ((pos + 1) \div 8)) % Day = (2 * ((at + 1) \div 8)) % Day
         /\ pos % 8 = 7 => (2 * ((pos + 1) \div 8)) % Day = AddFrames(2 * (pos \div 8), 2)
         /\ pos \div 8 \in 0..(Groups - 1)
<1> DEFINE n == 8 * Groups
           d == Day
<1>1. Groups \in Nat \ {0} /\ n \in Nat /\ n >= 8 /\ at \in 0..(n - 1) /\ d = 2 * Groups
  BY DayIs DEF Days
<1>0. pos = (at + 1) % n
  OBVIOUS
<1>2. pos = IF at + 1 = n THEN 0 ELSE at + 1
  <2> HIDE DEF n
  <2>1. CASE at + 1 = n
    BY <1>0, <1>1, <2>1
  <2>2. CASE at + 1 # n
    BY <1>0, <1>1, <2>2
  <2> QED BY <2>1, <2>2
<1>3. CASE at + 1 = n
  <2>1. pos = 0 /\ at = 8 * Groups - 1
    BY <1>1, <1>2, <1>3
  <2>2. at % 8 = 7 /\ (at + 1) % 8 = 0 /\ (at + 1) \div 8 = Groups
    BY <1>1, <2>1
  <2>3. d % d = 0 /\ 0 % d = 0
    <3> HIDE DEF d
    <3> QED BY <1>1
  <2>4. (2 * ((at + 1) \div 8)) % d = 0 /\ (2 * ((pos + 1) \div 8)) % d = 0
    BY <1>1, <2>1, <2>2, <2>3
  <2>5. pos % 8 = 0 /\ pos \div 8 = 0 /\ (pos + 1) % 8 = 1 /\ (7 + 1) % 8 = 0
    BY <2>1
  <2>6. (2 * ((pos + 1) \div 8)) % Day = (2 * ((at + 1) \div 8)) % Day
    BY <2>4
  <2>7. pos \in 0..(8 * Groups - 1) /\ pos \div 8 \in 0..(Groups - 1)
    BY <1>1, <2>1, <2>5
  <2>8. pos % 8 = ((at % 8) + 1) % 8 /\ at % 8 \in 0..7 /\ (at + 1) % 8 \in 0..7
    BY <2>2, <2>5
  <2> HIDE DEF d, n
  <2>9. (pos + 1) % 8 = (IF pos % 8 = 7 THEN 0 ELSE (pos % 8) + 1) /\ pos % 8 \in 0..7 /\ (at + 1) % 8 = pos % 8
    BY <2>2, <2>5
  <2>10. pos % 8 # 0 => pos \div 8 = at \div 8 /\ at % 8 = (pos % 8) - 1
    BY <2>5
  <2>11. pos % 8 = 7 => (2 * ((pos + 1) \div 8)) % Day = AddFrames(2 * (pos \div 8), 2)
    BY <2>5
  <2> QED BY <2>6, <2>7, <2>8, <2>9, <2>10, <2>11
<1>4. CASE at + 1 # n
  <2>1. pos = at + 1 /\ at \in Nat /\ pos \in 0..(8 * Groups - 1) /\ pos \in Nat
    BY <1>1, <1>2, <1>4
  <2>2. /\ pos % 8 \in 0..7 /\ (pos + 1) % 8 = (IF pos % 8 = 7 THEN 0 ELSE (pos % 8) + 1)
        /\ (pos + 1) \div 8 = (IF pos % 8 = 7 THEN (pos \div 8) + 1 ELSE pos \div 8) /\ pos \div 8 \in Nat
    BY <2>1, Eights
  <2>3. /\ at % 8 \in 0..7 /\ pos % 8 = (IF at % 8 = 7 THEN 0 ELSE (at % 8) + 1) /\ pos % 8 = ((at % 8) + 1) % 8
        /\ pos \div 8 = (IF at % 8 = 7 THEN (at \div 8) + 1 ELSE at \div 8) /\ at \div 8 \in Nat
    BY <2>1, Eights
  <2>4. pos \div 8 \in 0..(Groups - 1)
    BY <1>1, <2>1
  <2>5. AddFrames(2 * (pos \div 8), 2) = (2 * (pos \div 8) + 2) % Day
    BY <2>4, DayIs DEF AddFrames
  <2>6. pos % 8 = 7 => 2 * ((pos + 1) \div 8) = 2 * (pos \div 8) + 2
    BY <2>2
  <2>7. pos % 8 # 7 => (pos + 1) \div 8 = (at + 1) \div 8
    BY <2>1, <2>2
  <2>8. pos % 8 # 0 => pos \div 8 = at \div 8 /\ at % 8 = (pos % 8) - 1
    BY <2>2, <2>3
  <2> QED BY <2>1, <2>2, <2>3, <2>4, <2>5, <2>6, <2>7, <2>8
<1> QED BY <1>3, <1>4

\* The piece that comes next: b is what it is put in.
GoesWith(a, p, piece, sane, b) ==
  /\ b.data = [a.data EXCEPT ![p] = piece] /\ b.mask = (IF ~a.forward \/ p = 0 THEN {} ELSE a.mask) \cup {p}
  /\ b.prev = {p} /\ b.forward /\ b.locked = a.locked /\ b.rate = a.rate
  /\ QuarterFrame(a, p, piece, sane) =
       IF b.mask = Pieces /\ p = 7 THEN MtcAssembled(b, sane) ELSE [asm |-> b, out |-> <<>>]

LEMMA QuarterGoes ==
  ASSUME NEW a \in Assemblers, NEW x \in Pieces, a.prev = {x}, NEW p, p = (x + 1) % 8, NEW piece \in PieceSet, NEW sane
  PROVE  \E b \in Assemblers : GoesWith(a, p, piece, sane, b)
<1> DEFINE next(q) == \E y \in a.prev : q = (y + 1) % 8
           back(q) == \E y \in a.prev : q = (y + 7) % 8
           broken == a.prev # {} /\ ~next(p) /\ ~back(p)
           forward == IF next(p) THEN TRUE ELSE IF back(p) THEN FALSE ELSE a.forward
           kept == IF broken \/ forward # a.forward \/ p = (IF forward THEN 0 ELSE 7) THEN {} ELSE a.mask
           mask == kept \cup {p}
           data == [a.data EXCEPT ![p] = piece]
           locked == a.locked /\ ~broken
           b == [a EXCEPT !.data[p] = piece, !.mask = mask, !.prev = {p}, !.forward = forward, !.locked = @ /\ ~broken]
           lost == [type |-> "lost"]
<1>1. QuarterFrame(a, p, piece, sane) =
        IF broken /\ a.locked THEN [asm |-> b, out |-> <<lost>>]
        ELSE IF b.mask = Pieces /\ p = (IF forward THEN 7 ELSE 0) THEN MtcAssembled(b, sane)
        ELSE [asm |-> b, out |-> <<>>]
  BY DEF QuarterFrame
<1>2. next(p) /\ a.forward \in BOOLEAN /\ a.locked \in BOOLEAN
  BY DEF Assemblers
<1>3. broken = FALSE /\ forward = TRUE
  BY <1>2
<1>4. kept = IF ~a.forward \/ p = 0 THEN {} ELSE a.mask
  <2> HIDE DEF broken, forward
  <2> QED BY <1>2, <1>3
<1>5. locked = a.locked
  <2> HIDE DEF broken
  <2> QED BY <1>2, <1>3
<1>6. p \in Pieces /\ a.mask \in SUBSET Pieces
  BY DEF Pieces, Assemblers
<1>7. data \in [Pieces -> PieceSet] /\ mask \in SUBSET Pieces /\ {p} \in {{}} \cup {{q} : q \in Pieces}
  <2>1. data \in [Pieces -> PieceSet]
    BY <1>6 DEF Assemblers
  <2>2. kept \in SUBSET Pieces
    <3> HIDE DEF kept
    <3> QED BY <1>4, <1>6
  <2> HIDE DEF kept, data
  <2> QED BY <1>6, <2>1, <2>2
<1>8. b = [a EXCEPT !.data = data, !.mask = mask, !.prev = {p}, !.forward = TRUE, !.locked = locked]
  <2>1. b = [a EXCEPT !.data = data, !.mask = mask, !.prev = {p}, !.forward = forward, !.locked = locked]
    <3> HIDE DEF broken, forward, kept, mask
    <3> QED OBVIOUS
  <2> HIDE DEF b, data, mask, locked, forward
  <2> QED BY <1>3, <2>1
<1> HIDE DEF b, data, mask, locked, forward, broken, kept
<1>9. /\ b \in Assemblers /\ b.data = data /\ b.mask = mask /\ b.prev = {p} /\ b.forward = TRUE
      /\ b.locked = a.locked /\ b.rate = a.rate
  BY <1>2, <1>5, <1>7, <1>8 DEF Assemblers
<1>10. QuarterFrame(a, p, piece, sane) =
         IF b.mask = Pieces /\ p = 7 THEN MtcAssembled(b, sane) ELSE [asm |-> b, out |-> <<>>]
  BY <1>1, <1>3
<1> QED BY <1>4, <1>9, <1>10 DEF data, mask, GoesWith

\* A group that is full gives its time, or the lock.
LEMMA AssembledGoes ==
  ASSUME Days, NEW b \in Assemblers, b.forward, NEW here \in PieceSet, here.group # Noise,
         \A j \in Pieces : b.data[j] = here, NEW sane
  PROVE  /\ MtcAssembled(b, sane).asm = [b EXCEPT !.locked = TRUE, !.rate = {here.rate}]
         /\ b.locked /\ b.rate = {here.rate} =>
              MtcAssembled(b, sane).out = <<[type |-> "time", time |-> AddFrames(2 * here.group, 2)]>>
<1> DEFINE rate == b.data[7].rate
           begun == IF \A p \in Pieces : b.data[p] = b.data[0] THEN 2 * b.data[0].group ELSE Mixed
           time == IF b.forward THEN AddFrames(begun, 2) ELSE begun
           newly == ~b.locked \/ b.rate # {rate}
           noisy == \E p \in Pieces : b.data[p].group = Noise
           e == IF newly THEN [type |-> "locked", rate |-> rate] ELSE [type |-> "time", time |-> time]
<1>1. MtcAssembled(b, sane) =
        IF (begun = Mixed /\ ~sane) \/ noisy
          THEN [asm |-> [b EXCEPT !.locked = FALSE, !.mask = {}], out |-> <<>>]
          ELSE [asm |-> [b EXCEPT !.locked = TRUE, !.rate = {rate}], out |-> <<e>>]
  BY DEF MtcAssembled
<1>2. 0 \in Pieces /\ 7 \in Pieces
  BY DEF Pieces
<1>3. here.group \in 0..(Groups - 1)
  BY DEF PieceSet
<1>4. ~noisy /\ rate = here.rate /\ begun = 2 * here.group
  BY <1>2
<1>5. begun # Mixed
  BY <1>3, <1>4, DayIs
<1>6. time = AddFrames(2 * here.group, 2)
  BY <1>4
<1> HIDE DEF begun, noisy, rate, time
<1> QED BY <1>1, <1>4, <1>5, <1>6

\* A piece that is heard, and counts.
Heard(pos, r, sane) ==
  /\ source.dir = 1 /\ pos = (source.pos + 1) % (8 * Groups) /\ source' = [source EXCEPT !.pos = pos]
  /\ r = QuarterFrame(asm, pos % 8, [group |-> pos \div 8, rate |-> source.rate], sane)
  /\ asm' = r.asm /\ chan' = TrySent(chan, r.out) /\ (r.out = <<>> \/ Len(chan) < ChannelCap)
  /\ steady' \in 1..24 /\ steady' <= steady + 1 /\ now' = now + 1 /\ ticked' = ticked + 1
  /\ UNCHANGED <<clock, shown>>

LEMMA HeardTracks ==
  ASSUME Days, Collected, Tracked, now \in Nat, NEW pos, NEW r, NEW sane \in BOOLEAN, Heard(pos, r, sane)
  PROVE  Tracked'
<1> DEFINE p == pos % 8
           q == source.pos % 8
           here == [group |-> pos \div 8, rate |-> source.rate]
           e == [type |-> "time", time |-> Due']
           Goes(b) == GoesWith(asm, p, here, sane, b)
<1>1. source \in Sources /\ source.pos \in 0..(8 * Groups - 1) /\ asm \in Assemblers /\ chan \in Seq(MtcEvents)
      /\ source.rate \in AllRates /\ (asm.prev = {} => asm.mask = {})
  BY DEF Collected, Sources
<1>2. steady \in 0..24 /\ ticked \in Nat /\ steady' \in 1..24 /\ steady' <= steady + 1 /\ now' = now + 1 /\ ticked' = ticked + 1
  BY DEF Tracked, Heard
<1>3. /\ pos \in 0..(8 * Groups - 1) /\ p \in 0..7 /\ q \in 0..7 /\ Since \in 0..7
      /\ p = (q + 1) % 8 /\ Since = p
      /\ p # 0 => pos \div 8 = source.pos \div 8 /\ q = p - 1
      /\ (pos + 1) % 8 = IF p = 7 THEN 0 ELSE p + 1
      /\ p # 7 => (2 * ((pos + 1) \div 8)) % Day = Due
      /\ p = 7 => (2 * ((pos + 1) \div 8)) % Day = AddFrames(2 * (pos \div 8), 2)
      /\ pos \div 8 \in 0..(Groups - 1)
  <2>1. pos = (source.pos + 1) % (8 * Groups)
    BY DEF Heard
  <2> QED BY <1>1, <2>1, NextNumber DEF Since, Due
<1>4. source'.pos = pos /\ source'.dir = 1 /\ source'.rate = source.rate
  <2>1. source' = [source EXCEPT !.pos = pos] /\ source.dir = 1
    BY DEF Heard
  <2> QED BY <1>1, <2>1 DEF Sources
<1>5. p \in Pieces /\ here \in PieceSet /\ here.group # Noise /\ Here' = here
  <2>1. pos \div 8 # Noise
    BY <1>3, DayIs
  <2>2. p \in Pieces
    BY <1>3 DEF Pieces
  <2>3. here \in PieceSet
    BY <1>1, <1>3 DEF PieceSet
  <2>4. Here' = here
    BY <1>4 DEF Here
  <2> QED BY <2>1, <2>2, <2>3, <2>4
<1>6. /\ r = QuarterFrame(asm, p, here, sane) /\ asm' = r.asm /\ chan' = TrySent(chan, r.out)
      /\ r.out = <<>> \/ Len(chan) < ChannelCap
      /\ clock' = clock /\ shown' = shown
  BY DEF Heard
<1>7. Since' = (IF p = 7 THEN 0 ELSE p + 1) /\ (p # 7 => Due' = Due) /\ (p = 7 => Due' = AddFrames(2 * here.group, 2))
  BY <1>3, <1>4 DEF Since, Due
<1>8. asm'.prev = {p}
  <2>1. p \in Pieces /\ here \in PieceSet /\ (asm.prev = {} => asm.mask = {}) /\ asm \in Assemblers
    BY <1>1, <1>5
  <2> DEFINE s == QuarterFrame(asm, p, here, sane)
  <2> HIDE DEF p, here, Goes, q, e
  <2>2. /\ s.asm \in Assemblers /\ s.asm.prev = {p} /\ s.asm.data = [asm.data EXCEPT ![p] = here]
        /\ s.asm.mask \subseteq (IF GoesOnIn(asm, p) THEN asm.mask ELSE {}) \cup {p}
        /\ s.out = <<>> \/ \E f \in MtcEvents :
             /\ s.out = <<f>> /\ Honest(s.asm.data, f) /\ (f.type = "time" => s.asm.mask = Pieces)
    BY <2>1, QuarterFrameIs
  <2> QED BY <1>6, <2>2
<1>9. ASSUME steady >= 1 PROVE \E b \in Assemblers : Goes(b)
  <2>1. asm.prev = {q}
    BY <1>9 DEF Tracked
  <2>2. q \in Pieces /\ p = (q + 1) % 8
    BY <1>3 DEF Pieces
  <2> HIDE DEF p, here, q
  <2>3. asm \in Assemblers /\ here \in PieceSet
    BY <1>1, <1>5
  <2> QED BY <2>1, <2>2, <2>3, QuarterGoes
<1>10. p \in 0..7 /\ p \in Int /\ Since \in 0..7 /\ Since' \in 0..7 /\ Since = p
  BY <1>3, <1>7
<1>11. here.rate = source.rate
  OBVIOUS
<1>12. source'.pos % 8 = p
  BY <1>4
<1> HIDE DEF p, here, q, Goes, e
<1>13. ASSUME steady' >= 2 PROVE asm'.forward
  <2>1. steady >= 1
    BY <1>2, <1>13
  <2>2. PICK b \in Assemblers : Goes(b)
    BY <1>9, <2>1
  <2>3. MtcAssembled(b, sane).asm.forward = b.forward
    BY MtcAssembledIs
  <2>4. r.asm = MtcAssembled(b, sane).asm \/ r.asm = b
    BY <1>6, <2>2 DEF Goes, GoesWith
  <2> QED BY <1>6, <2>2, <2>3, <2>4 DEF Goes, GoesWith
\* the pieces of the group are there
<1>14. ASSUME steady' >= p + 2, NEW b \in Assemblers, Goes(b) PROVE \A j \in 0..p : j \in b.mask /\ b.data[j] = here
  <2>1. DOMAIN asm.data = Pieces /\ p \in b.mask /\ b.data = [asm.data EXCEPT ![p] = here]
    BY <1>1, <1>14 DEF Goes, GoesWith, Assemblers
  <2>2. b.data[p] = here
    BY <1>5, <2>1
  <2>3. CASE p = 0
    BY <2>1, <2>2, <2>3
  <2>4. CASE p # 0
    <3>1. steady >= 2 /\ steady >= q + 2 /\ q = p - 1
      BY <1>2, <1>3, <1>10, <1>14, <2>4
    <3>2. asm.forward
      BY <3>1 DEF Tracked
    <3>3. b.mask = asm.mask \cup {p}
      BY <1>14, <2>4, <3>2 DEF Goes, GoesWith
    <3>4. Here = here
      BY <1>3, <2>4 DEF Here, here
    <3>5. \A j \in 0..q : j \in asm.mask /\ asm.data[j] = here
      BY <3>1, <3>4 DEF Tracked, q
    <3>6. ASSUME NEW j \in 0..q PROVE j \in b.mask /\ b.data[j] = here
      <4>1. j # p /\ j \in Pieces
        BY <1>10, <3>1, <3>6 DEF Pieces
      <4> QED BY <2>1, <3>3, <3>5, <4>1
    <3>7. \A j \in 0..p : j = p \/ j \in 0..q
      BY <1>10, <3>1
    <3> QED BY <2>1, <2>2, <3>6, <3>7
  <2> QED BY <2>3, <2>4
\* a group that is full
<1>15. ASSUME p = 7, steady' >= 9, NEW b \in Assemblers, Goes(b)
       PROVE  /\ r.asm = [b EXCEPT !.locked = TRUE, !.rate = {source.rate}]
              /\ asm.locked /\ asm.rate = {source.rate} => r.out = <<e>>
  <2>1. steady' >= p + 2
    BY <1>15
  <2>2. \A j \in 0..7 : j \in b.mask /\ b.data[j] = here
    BY <1>14, <1>15, <2>1
  <2>3. b.mask = Pieces /\ \A j \in Pieces : b.data[j] = here
    <3>1. b.mask \subseteq Pieces
      BY DEF Assemblers
    <3> QED BY <2>2, <3>1 DEF Pieces
  <2>4. r = MtcAssembled(b, sane) /\ b.forward /\ b.locked = asm.locked /\ b.rate = asm.rate
    BY <1>6, <1>15, <2>3 DEF Goes, GoesWith
  <2>7. here \in PieceSet /\ here.group # Noise
    BY <1>5
  <2>5. /\ MtcAssembled(b, sane).asm = [b EXCEPT !.locked = TRUE, !.rate = {here.rate}]
        /\ b.locked /\ b.rate = {here.rate} => MtcAssembled(b, sane).out = <<[type |-> "time", time |-> AddFrames(2 * here.group, 2)]>>
    BY <2>3, <2>4, <2>7, AssembledGoes
  <2>6. e = [type |-> "time", time |-> AddFrames(2 * here.group, 2)]
    BY <1>7, <1>15 DEF e
  <2> QED BY <1>11, <2>4, <2>5, <2>6
<1>16. ASSUME steady' >= p + 2 PROVE \A j \in 0..p : j \in asm'.mask /\ asm'.data[j] = here
  <2>1. steady >= 1
    BY <1>2, <1>10, <1>16
  <2>2. PICK b \in Assemblers : Goes(b)
    BY <1>9, <2>1
  <2>3. r.asm.mask = b.mask /\ r.asm.data = b.data
    <3>1. CASE p = 7
      <4>1. steady' >= 9
        BY <1>2, <1>16, <3>1
      <4>2. r.asm = [b EXCEPT !.locked = TRUE, !.rate = {source.rate}]
        BY <1>15, <2>2, <3>1, <4>1
      <4> QED BY <4>2 DEF Assemblers
    <3>2. CASE p # 7
      BY <1>6, <2>2, <3>2 DEF Goes, GoesWith
    <3> QED BY <3>1, <3>2
  <2>4. \A j \in 0..p : j \in b.mask /\ b.data[j] = here
    BY <1>14, <1>16, <2>2
  <2> QED BY <1>6, <2>3, <2>4
<1>17. ASSUME steady' >= 9 + Since' PROVE asm'.locked /\ asm'.rate = {source.rate}
  <2>1. steady >= 1
    BY <1>2, <1>7, <1>10, <1>17
  <2>2. PICK b \in Assemblers : Goes(b)
    BY <1>9, <2>1
  <2>3. CASE p = 7
    <3>1. steady' >= 9
      BY <1>2, <1>7, <1>17, <2>3
    <3>2. r.asm = [b EXCEPT !.locked = TRUE, !.rate = {source.rate}]
      BY <1>15, <2>2, <2>3, <3>1
    <3> QED BY <1>6, <3>2 DEF Assemblers
  <2>4. CASE p # 7
    <3>1. steady >= 9 + Since
      BY <1>2, <1>7, <1>10, <1>17, <2>4
    <3>2. asm.locked /\ asm.rate = {source.rate}
      BY <3>1 DEF Tracked
    <3>3. r.asm = b
      BY <1>6, <2>2, <2>4 DEF Goes, GoesWith
    <3> QED BY <1>6, <2>2, <3>2, <3>3 DEF Goes, GoesWith
  <2> QED BY <2>3, <2>4
<1>18. ASSUME steady' >= 17 + Since' PROVE Waits' \/ Given'
  <2>1. steady >= 1
    BY <1>2, <1>7, <1>10, <1>18
  <2>2. PICK b \in Assemblers : Goes(b)
    BY <1>9, <2>1
  <2>3. CASE p = 7
    <3>1. steady' >= 9 /\ steady >= 9 + Since
      BY <1>2, <1>7, <1>10, <1>18, <2>3
    <3>2. asm.locked /\ asm.rate = {source.rate}
      BY <3>1 DEF Tracked
    <3>3. r.out = <<e>>
      BY <1>15, <2>2, <2>3, <3>1, <3>2
    <3>4. chan' = chan \o <<e>>
      BY <1>6, <3>3 DEF TrySent
    <3>5. chan' = Append(chan, e)
      BY <1>1, <3>4
    <3>6. chan' # <<>> /\ chan'[Len(chan')] = e
      BY <1>1, <3>5
    <3>7. Since' < ticked'
      BY <1>2, <1>7, <2>3
    <3> QED BY <3>6, <3>7 DEF Waits, e
  <2>4. CASE p # 7
    <3>1. r.out = <<>>
      BY <1>6, <2>2, <2>4 DEF Goes, GoesWith
    <3>2. chan' = chan
      BY <1>1, <1>6, <3>1 DEF TrySent
    <3>3. Since' = Since + 1 /\ Due' = Due
      BY <1>7, <1>10, <2>4
    <3>4. steady >= 17 + Since
      BY <1>2, <1>10, <1>18, <3>3
    <3>5. CASE Waits
      <4>1. Since' < ticked'
        BY <1>2, <1>10, <3>3, <3>5 DEF Waits
      <4> QED BY <3>2, <3>3, <3>5, <4>1 DEF Waits
    <3>6. CASE Given
      <4>1. PICK at \in Nat : /\ at <= now /\ now <= at + Since
                              /\ clock.base = {[time |-> Due, at |-> at, running |-> TRUE]} /\ clock.signal = {at}
        BY <3>6 DEF Given
      <4>2. at <= now' /\ now' <= at + Since'
        BY <1>2, <1>10, <3>3, <4>1
      <4>3. chan' = <<>>
        BY <3>2, <3>6 DEF Given
      <4> QED BY <1>6, <3>3, <4>1, <4>2, <4>3 DEF Given
    <3>7. Waits \/ Given
      BY <3>4 DEF Tracked
    <3> QED BY <3>5, <3>6, <3>7
  <2> QED BY <2>3, <2>4
<1>19. steady' \in 0..24 /\ ticked' \in Nat /\ ticked' # 0
  BY <1>2
<1> QED BY <1>4, <1>5, <1>8, <1>12, <1>13, <1>16, <1>17, <1>18, <1>19 DEF Tracked

\* A step that ends the run of pieces, and shows nothing new.
LEMMA EndsTrack ==
  ASSUME Tracked, source' \in Sources, steady' = 0,
         ticked' = ticked + 1 \/ UNCHANGED <<ticked, clock, shown, now>>
  PROVE  Tracked'
<1>1. ticked \in Nat /\ ticked' \in Nat
  BY DEF Tracked
<1>2. source'.pos % 8 \in 0..7 /\ Since' \in 0..7
  <2>1. source'.pos \in Nat
    BY DEF Sources
  <2>2. source'.pos % 8 \in 0..7 /\ (source'.pos + 1) % 8 \in 0..7
    BY <2>1
  <2> QED BY <2>2 DEF Since
<1>3. ticked' = 0 => shown' = {[time |-> t.time, locked |-> t.locked, at |-> now'] : t \in Current(clock', now')}
  <2>1. CASE ticked' = ticked + 1
    BY <1>1, <2>1
  <2>2. CASE UNCHANGED <<ticked, clock, shown, now>>
    BY <2>2 DEF Tracked
  <2> QED BY <2>1, <2>2
<1>4. /\ ~(steady' >= 1) /\ ~(steady' >= 2) /\ ~(steady' >= (source'.pos % 8) + 2)
      /\ ~(steady' >= 9 + Since') /\ ~(steady' >= 17 + Since')
  <2>1. source'.pos % 8 \in 0..7
    BY <1>2
  <2>2. PICK m \in 0..7 : m = Since'
    BY <1>2
  <2>3. PICK k \in 0..7 : k = source'.pos % 8
    BY <2>1
  <2>4. ~(0 >= 1) /\ ~(0 >= 2) /\ ~(0 >= k + 2) /\ ~(0 >= 9 + m) /\ ~(0 >= 17 + m)
    OBVIOUS
  <2> QED BY <2>2, <2>3, <2>4
<1> QED BY <1>1, <1>3, <1>4 DEF Tracked

LEMMA PlayTracks ==
  ASSUME Days, Collected, Tracked, now \in Nat, Play
  PROVE  Tracked'
<1> DEFINE pos == (source.pos + source.dir) % (8 * Groups)
           heard(g, sane) == QuarterFrame(asm, pos % 8, [group |-> g, rate |-> source.rate], sane)
<1>1. /\ source' = [source EXCEPT !.pos = pos]
      /\ \/ \E sane \in BOOLEAN :
              LET r == heard(pos \div 8, sane)
              IN  /\ Hear(pos % 8, r)
                  /\ steady' = IF source.dir = 1 /\ (r.out = <<>> \/ Len(chan) < ChannelCap) THEN Capped(steady + 1) ELSE 0
         \/ steady' = 0
  BY DEF Play
<1>2. now' = now + 1 /\ ticked' = ticked + 1 /\ UNCHANGED <<clock, shown>>
  BY DEF Play
<1>3. source' \in Sources
  BY PlaySteps DEF Collected
<1>4. CASE steady' = 0
  BY <1>2, <1>3, <1>4, EndsTrack
<1>5. CASE steady' # 0
  <2>1. PICK sane \in BOOLEAN :
          LET r == heard(pos \div 8, sane)
          IN  /\ Hear(pos % 8, r)
              /\ steady' = IF source.dir = 1 /\ (r.out = <<>> \/ Len(chan) < ChannelCap) THEN Capped(steady + 1) ELSE 0
    BY <1>1, <1>5
  <2> DEFINE r == heard(pos \div 8, sane)
  <2>2. source.dir = 1 /\ (r.out = <<>> \/ Len(chan) < ChannelCap) /\ steady' = Capped(steady + 1)
    BY <1>5, <2>1
  <2>3. asm' = r.asm /\ chan' = TrySent(chan, r.out)
    BY <2>1 DEF Hear
  <2>4. steady' \in 1..24 /\ steady' <= steady + 1
    <3>1. steady \in 0..24
      BY DEF Tracked
    <3> HIDE DEF r
    <3> QED BY <2>2, <3>1 DEF Capped
  <2>5. pos = (source.pos + 1) % (8 * Groups) /\ r = QuarterFrame(asm, pos % 8, [group |-> pos \div 8, rate |-> source.rate], sane)
    BY <2>2
  <2> HIDE DEF r, pos
  <2>6. Heard(pos, r, sane)
    BY <1>1, <1>2, <2>2, <2>3, <2>4, <2>5 DEF Heard
  <2> QED BY <2>6, HeardTracks
<1> QED BY <1>4, <1>5

LEMMA TickTracks ==
  ASSUME Days, Freewheel \in Nat, Collected, Stopped, Tracked, Tick
  PROVE  Tracked'
<1>1. /\ UNCHANGED <<source, steady, asm, now>> /\ ticked' = 0 /\ chan' = <<>> /\ clock' = Drained(clock, chan, now)
      /\ shown' = {[time |-> t.time, locked |-> t.locked, at |-> now] : t \in Current(clock', now)}
  BY DEF Tick
<1>2. /\ clock \in Clocks /\ now \in Nat /\ chan \in Seq(MtcEvents) /\ ticked \in Nat /\ steady \in 0..24
      /\ source.pos \in Nat
  BY DEF Stopped, Collected, Tracked, Sources
<1>3. Since' = Since /\ Due' = Due /\ Here' = Here /\ Since \in 0..7
  <2>1. (source.pos + 1) % 8 \in 0..7
    BY <1>2
  <2> QED BY <1>1, <2>1 DEF Since, Due, Here
<1>4. ASSUME Waits PROVE Given'
  <2> DEFINE last == chan[Len(chan)]
  <2>1. PICK d \in Clocks : clock' = Fed(d, last, now)
    BY <1>1, <1>2, <1>4, DrainedIs DEF Waits
  <2>2. last = [type |-> "time", time |-> Due]
    BY <1>4 DEF Waits
  <2>3. last.type = "time" /\ last.time = Due
    BY <2>2
  <2> HIDE DEF last
  <2>4. clock' = [d EXCEPT !.base = {[time |-> Due, at |-> now, running |-> TRUE]}, !.signal = {now}]
    BY <2>1, <2>3 DEF Fed
  <2>5. clock'.base = {[time |-> Due, at |-> now, running |-> TRUE]} /\ clock'.signal = {now}
    BY <2>4 DEF Clocks
  <2>6. now <= now' /\ now' <= now + Since'
    BY <1>1, <1>2, <1>3
  <2> QED BY <1>1, <1>2, <1>3, <2>5, <2>6 DEF Given
<1>5. ASSUME Given PROVE Given'
  <2>1. clock' = clock
    BY <1>1, <1>2, <1>5, DrainedIs DEF Given
  <2> QED BY <1>1, <1>3, <1>5, <2>1 DEF Given
<1>6. steady' >= 17 + Since' => Given'
  <2>1. steady' >= 17 + Since' => Waits \/ Given
    BY <1>1, <1>3 DEF Tracked
  <2> QED BY <1>4, <1>5, <2>1
<1>7. /\ steady' >= 1 => source'.dir = 1 /\ asm'.prev = {source'.pos % 8}
      /\ steady' >= 2 => asm'.forward
      /\ steady' >= (source'.pos % 8) + 2 => \A j \in 0..(source'.pos % 8) : j \in asm'.mask /\ asm'.data[j] = Here'
      /\ steady' >= 9 + Since' => asm'.locked /\ asm'.rate = {source'.rate}
  BY <1>1, <1>3 DEF Tracked
<1>8. ticked' \in Nat /\ steady' \in 0..24
  BY <1>1, <1>2
<1>9. shown' = {[time |-> t.time, locked |-> t.locked, at |-> now'] : t \in Current(clock', now')}
  BY <1>1
<1> QED BY <1>6, <1>7, <1>8, <1>9 DEF Tracked

LEMMA TrackedInit == ASSUME Days, MtcInit PROVE Tracked
<1>1. source = [pos |-> 8 * Groups - 1, dir |-> 1, rate |-> CHOOSE r \in Rates : TRUE]
      /\ steady = 0 /\ ticked = 0 /\ shown = {} /\ clock = NewClock
  BY DEF MtcInit
<1>2. source.pos \in Nat
  BY <1>1 DEF Days
<1>3. source.pos % 8 \in 0..7 /\ Since \in 0..7
  BY <1>2 DEF Since
<1>4. Current(clock, now) = {}
  BY <1>1 DEF Current, NewClock
<1>5. shown = {[time |-> t.time, locked |-> t.locked, at |-> now] : t \in Current(clock, now)}
  BY <1>1, <1>4
<1>6. /\ ~(steady >= 1) /\ ~(steady >= 2) /\ ~(steady >= (source.pos % 8) + 2)
      /\ ~(steady >= 9 + Since) /\ ~(steady >= 17 + Since)
  BY <1>1, <1>3
<1> QED BY <1>1, <1>5, <1>6 DEF Tracked

LEMMA TrackedSteps ==
  ASSUME Days, Freewheel \in Nat, Collected, Stopped, Tracked, [MtcNext]_mtcVars
  PROVE  Tracked'
<1>0. source' \in Sources /\ now \in Nat
  BY CollectedSteps DEF Collected, Stopped
<1>1. CASE Play
  BY <1>0, <1>1, PlayTracks
<1>2. CASE Silence
  <2>1. source.dir = 0 /\ steady' = steady /\ ticked' = ticked + 1
    BY <1>2 DEF Silence
  <2>2. steady = 0
    BY <2>1 DEF Tracked
  <2> QED BY <1>0, <2>1, <2>2, EndsTrack
<1>3. CASE Tick
  BY <1>3, TickTracks
<1>4. ASSUME NEW dir \in {-1, 0, 1}, Turn(dir) PROVE Tracked'
  <2>1. steady' = 0 /\ UNCHANGED <<ticked, clock, shown, now>>
    BY <1>4 DEF Turn
  <2> QED BY <1>0, <2>1, EndsTrack
<1>5. ASSUME NEW g \in Spots, NEW r \in Rates, Locate(g, r) PROVE Tracked'
  <2>1. steady' = 0 /\ UNCHANGED <<ticked, clock, shown, now>>
    BY <1>5 DEF Locate
  <2> QED BY <1>0, <2>1, EndsTrack
<1>6. CASE UNCHANGED mtcVars
  <2>1. UNCHANGED <<source, steady, asm, chan, clock, shown, now, ticked>>
    BY <1>6 DEF mtcVars
  <2> QED BY <2>1 DEF Tracked, Since, Due, Here, Waits, Given
<1> QED BY <1>1, <1>2, <1>3, <1>4, <1>5, <1>6 DEF MtcNext

\* The channel never holds more than it can.
LEMMA ChannelSteps ==
  ASSUME Days, ChannelCap \in Nat, Collected, Len(chan) <= ChannelCap, [MtcNext]_mtcVars
  PROVE  Len(chan') <= ChannelCap
<1> DEFINE Short(out) == out = <<>> \/ \E e \in MtcEvents : out = <<e>>
<1>1. chan \in Seq(MtcEvents) /\ asm \in Assemblers /\ (asm.prev = {} => asm.mask = {}) /\ source \in Sources
  BY DEF Collected
<1>2. ASSUME NEW out, Short(out), chan' = TrySent(chan, out) PROVE Len(chan') <= ChannelCap
  <2>1. CASE chan' = chan
    BY <2>1
  <2>2. CASE chan' # chan
    <3>1. Len(chan) < ChannelCap /\ chan' = chan \o out
      BY <1>2, <2>2 DEF TrySent
    <3>2. PICK e \in MtcEvents : out = <<e>>
      BY <1>1, <1>2, <2>2, <3>1
    <3>3. chan' = Append(chan, e)
      BY <1>1, <3>1, <3>2
    <3>4. Len(chan') = Len(chan) + 1 /\ Len(chan) \in Nat
      BY <1>1, <3>3
    <3> QED BY <3>1, <3>4
  <2> QED BY <2>1, <2>2
<1>3. CASE Play
  <2> DEFINE pos == (source.pos + source.dir) % (8 * Groups)
             heard(g, sane) == QuarterFrame(asm, pos % 8, [group |-> g, rate |-> source.rate], sane)
  <2>1. \/ \E sane \in BOOLEAN : Hear(pos % 8, heard(pos \div 8, sane))
        \/ Hear(pos % 8, heard(Noise, FALSE))
        \/ chan' = chan
    BY <1>3 DEF Play
  <2>2. source.pos \in 0..(8 * Groups - 1) /\ source.dir \in {-1, 1} /\ source.rate \in AllRates
    BY <1>1, <1>3 DEF Play, Sources
  <2>3. pos % 8 \in Pieces /\ pos \div 8 \in 0..(Groups - 1)
    BY <2>2, NextPiece
  <2> HIDE DEF pos
  <2>4. ASSUME NEW g \in {pos \div 8, Noise}, NEW sane \in BOOLEAN, Hear(pos % 8, heard(g, sane))
        PROVE  Len(chan') <= ChannelCap
    <3> DEFINE p == pos % 8
               piece == [group |-> g, rate |-> source.rate]
               r == QuarterFrame(asm, p, piece, sane)
    <3>1. p \in Pieces /\ piece \in PieceSet
      BY <2>2, <2>3 DEF PieceSet
    <3>2. /\ r.asm \in Assemblers /\ r.asm.prev = {p} /\ r.asm.data = [asm.data EXCEPT ![p] = piece]
          /\ r.asm.mask \subseteq (IF GoesOnIn(asm, p) THEN asm.mask ELSE {}) \cup {p}
          /\ r.out = <<>> \/ \E e \in MtcEvents :
               /\ r.out = <<e>> /\ Honest(r.asm.data, e) /\ (e.type = "time" => r.asm.mask = Pieces)
      BY <1>1, <3>1, QuarterFrameIs
    <3>3. chan' = TrySent(chan, r.out)
      BY <2>4 DEF Hear
    <3> HIDE DEF r
    <3>4. Short(r.out)
      BY <3>2
    <3> HIDE DEF Short
    <3> QED BY <1>2, <3>3, <3>4
  <2> QED BY <2>1, <2>4
<1>4. ASSUME NEW g \in Spots, NEW rate \in Rates, Locate(g, rate) PROVE Len(chan') <= ChannelCap
  <2>1. PICK time \in {2 * g, Noise} : chan' = TrySent(chan, FullFrame(asm, time, rate).out)
    BY <1>4 DEF Locate
  <2> DEFINE out == FullFrame(asm, time, rate).out
  <2>2. Short(out)
    <3>1. CASE time = Noise
      BY <3>1 DEF FullFrame
    <3>2. CASE time # Noise
      <4> DEFINE e == [type |-> "full", time |-> time]
      <4>1. out = <<e>>
        BY <3>2 DEF FullFrame
      <4>2. time \in Times
        BY <2>1, <3>2, DayIs DEF Days, Times
      <4>3. e \in MtcEvents
        BY <4>2 DEF MtcEvents
      <4> HIDE DEF e, out
      <4> QED BY <4>1, <4>3
    <3> QED BY <3>1, <3>2
  <2> HIDE DEF out, Short
  <2> QED BY <1>2, <2>1, <2>2 DEF out
<1>5. CASE UNCHANGED chan
  BY <1>5
<1>6. CASE chan' = <<>>
  BY <1>6
<1>7. Silence => UNCHANGED chan
  BY DEF Silence
<1>8. Tick => chan' = <<>>
  BY DEF Tick
<1>9. \A dir \in {-1, 0, 1} : Turn(dir) => UNCHANGED chan
  BY DEF Turn
<1>10. UNCHANGED mtcVars => UNCHANGED chan
  BY DEF mtcVars
<1> HIDE DEF Short
<1> QED BY <1>3, <1>4, <1>5, <1>6, <1>7, <1>8, <1>9, <1>10 DEF MtcNext

LEMMA TimecodeTyped ==
  ASSUME Rates # {}, Collected, Stopped, Len(chan) <= ChannelCap
  PROVE  TimecodeTypeOK
<1>1. AllRates = Rates
  BY DEF AllRates
<1>2. source.pos \in 0..(8 * Groups - 1) /\ source.dir \in {-1, 0, 1} /\ source.rate \in Rates
  BY <1>1 DEF Collected, Sources
<1>3. asm.mask \subseteq Pieces /\ asm.prev \subseteq Pieces /\ asm.rate \subseteq Rates
  BY <1>1 DEF Collected, Assemblers
<1>4. clock.rate \subseteq Rates /\ \A b \in clock.base : b.time \in Times /\ b.at <= now /\ clock.signal # {}
  BY <1>1, ClockIs DEF Stopped, Past
<1>5. \A t \in shown : t.time \in Times
  BY DEF Stopped
<1> QED BY <1>2, <1>3, <1>4, <1>5 DEF TimecodeTypeOK

\* What was counted is what is shown: at most the quarter frames since the last
\* group are missing from it.
LEMMA ShownIs ==
  ASSUME Days, Freewheel \in Nat, Freewheel >= 7, Collected, Stopped, Tracked
  PROVE  TracksSource
<1> SUFFICES ASSUME steady = 24, ticked = 0
             PROVE  \E t \in shown : t.locked /\ (Position - t.time) % Day \in {0, 1}
  BY DEF TracksSource
<1> DEFINE x == source.pos + 1
           d == Day
<1>1. source.pos \in 0..(8 * Groups - 1) /\ now \in Nat /\ Groups \in Nat \ {0} /\ d = 2 * Groups
  BY DayIs DEF Collected, Sources, Stopped, Days
<1>2. x \in 1..(8 * Groups) /\ x \in Nat /\ x % 8 \in 0..7 /\ Since = x % 8
  BY <1>1 DEF Since
<1>3. Since \in 0..7 /\ Since \in Nat
  BY <1>2
<1>4. Given
  <2>1. steady >= 17 + Since /\ ~(Since < ticked)
    BY <1>3
  <2> QED BY <2>1 DEF Tracked, Waits
<1>5. PICK at \in Nat : /\ at <= now /\ now <= at + Since
                        /\ clock.base = {[time |-> Due, at |-> at, running |-> TRUE]} /\ clock.signal = {at}
  BY <1>4 DEF Given
<1> DEFINE m == now - at
<1>6. m \in 0..7 /\ m \in Nat /\ m <= Since /\ now - at <= Freewheel
  BY <1>1, <1>3, <1>5
<1>7. Alive(clock, now) = TRUE
  BY <1>5, <1>6 DEF Alive
<1>8. Current(clock, now) = {[time |-> AddFrames(Due, (IF now > at THEN now - at ELSE 0) \div 4), locked |-> TRUE]}
  <2> DEFINE b == [time |-> Due, at |-> at, running |-> TRUE]
             told(c) == [time |-> IF ~c.running THEN c.time
                                  ELSE LET elapsed == IF now > c.at THEN now - c.at ELSE 0
                                       IN  AddFrames(c.time, elapsed \div 4),
                         locked |-> TRUE]
  <2>1. Current(clock, now) = {told(c) : c \in clock.base}
    BY <1>7 DEF Current
  <2>2. told(b) = [time |-> AddFrames(Due, (IF now > at THEN now - at ELSE 0) \div 4), locked |-> TRUE]
    OBVIOUS
  <2>3. clock.base = {b}
    BY <1>5
  <2> HIDE DEF b, told
  <2> QED BY <2>1, <2>2, <2>3
<1>9. (IF now > at THEN now - at ELSE 0) = m
  BY <1>1, <1>5
<1> DEFINE time == AddFrames(Due, m \div 4)
<1>10. PICK t \in shown : t.locked = TRUE /\ t.time = time
  <2>1. shown = {[time |-> t.time, locked |-> t.locked, at |-> now] : t \in Current(clock, now)}
    BY DEF Tracked
  <2> HIDE DEF time
  <2>2. Current(clock, now) = {[time |-> time, locked |-> TRUE]}
    BY <1>8, <1>9 DEF time
  <2> DEFINE y == [time |-> time, locked |-> TRUE]
             t == [time |-> y.time, locked |-> y.locked, at |-> now]
  <2>3. t \in shown
    <3> HIDE DEF y
    <3>1. y \in Current(clock, now)
      BY <2>2 DEF y
    <3> QED BY <2>1, <3>1
  <2>4. t.locked = TRUE /\ t.time = time
    OBVIOUS
  <2> HIDE DEF t
  <2> QED BY <2>3, <2>4
<1>11. Position = (x \div 4) % d
  <2>1. steady >= 1
    OBVIOUS
  <2>2. source.dir = 1
    BY <2>1 DEF Tracked
  <2> QED BY <2>2 DEF Position
<1> DEFINE u == x \div 4
           w == 2 * (x \div 8)
           v == m \div 4
<1>12. /\ u \in Nat /\ w \in Nat /\ v \in Nat /\ u <= 2 * Groups
       /\ u = w + (x % 8) \div 4 /\ v \in {0, 1} /\ v <= (x % 8) \div 4 /\ (x % 8) \div 4 \in {0, 1}
       /\ (u = 2 * Groups => x % 8 = 0)
  <2> HIDE DEF x
  <2>1. x \div 8 \in Nat /\ x % 8 \in 0..7 /\ x = 8 * (x \div 8) + (x % 8)
    BY <1>2
  <2>2. u = w + (x % 8) \div 4
    BY <1>2
  <2>3. u \in Nat /\ u <= 2 * Groups /\ (u = 2 * Groups => x % 8 = 0)
    BY <1>1, <1>2
  <2>4. m \in 0..7 /\ m <= x % 8
    BY <1>2, <1>6
  <2> HIDE DEF m, x
  <2>5. v \in {0, 1} /\ v <= (x % 8) \div 4 /\ (x % 8) \div 4 \in {0, 1}
    BY <2>1, <2>4
  <2> QED BY <2>1, <2>2, <2>3, <2>5
<1>13. Due = w % d
  BY DEF Due
<1>14. d \in Nat /\ d >= 2 /\ d = 2 * Groups
  BY <1>1
<1>15. Due \in 0..(d - 1)
  <2> HIDE DEF w, d
  <2> QED BY <1>12, <1>13, <1>14
<1>16. time = (Due + v) % d
  <2>1. Due # Mixed
    BY <1>15, DayIs
  <2> QED BY <2>1 DEF AddFrames
<1> HIDE DEF u, w, v, d, x, time, m
<1>17. CASE u = d
  <2>1. (x % 8) \div 4 = 0
    BY <1>12, <1>14, <1>17
  <2>2. w = d /\ v = 0
    BY <1>12, <1>14, <1>17, <2>1
  <2>3. d % d = 0 /\ 0 % d = 0
    BY <1>14
  <2>4. Due = 0 /\ Position = 0 /\ time = 0
    BY <1>11, <1>13, <1>16, <1>17, <2>2, <2>3 DEF u
  <2>5. (Position - t.time) % d = 0
    BY <1>10, <2>3, <2>4
  <2> QED BY <1>10, <2>5 DEF d
<1>18. CASE u # d
  <2>1. u < d /\ w <= u /\ w + v <= u /\ u - (w + v) \in {0, 1}
    BY <1>12, <1>14, <1>18
  <2>2. \A y \in Nat : y < d => y % d = y
    BY <1>14
  <2>3. Due = w /\ Position = u /\ time = w + v
    <3>1. u % d = u /\ w % d = w /\ (w + v) % d = w + v
      BY <1>12, <1>14, <2>1, <2>2
    <3> QED BY <1>11, <1>13, <1>16, <3>1 DEF u
  <2>4. (u - (w + v)) % d = u - (w + v)
    BY <1>14, <2>1, <2>2
  <2> QED BY <1>10, <2>1, <2>3, <2>4 DEF d
<1> QED BY <1>17, <1>18

\* TimecodeInvariant: after three groups with nothing lost the cues are told the
\* time of the transport, at most a frame late, for any number of groups in the
\* day, any channel, however late the session reads it and whatever was lost
\* before; the channel is bounded (mtc.rs; Session::update_timecode).
THEOREM TimeIsTracked == MtcSpec => []TimecodeInvariant
<1>0. Days /\ Rates # {} /\ ChannelCap \in Nat /\ Freewheel \in Nat /\ Freewheel >= 7
  BY TimecodeAssumption DEF Days
<1> DEFINE Inv == Collected /\ Stopped /\ Tracked /\ Len(chan) <= ChannelCap
<1>1. MtcInit => Inv
  <2>1. MtcInit => Len(chan) <= ChannelCap
    BY <1>0 DEF MtcInit
  <2> QED BY <1>0, <2>1, CollectedInit, StoppedInit, TrackedInit
<1>2. Inv /\ [MtcNext]_mtcVars => Inv'
  BY <1>0, CollectedSteps, StoppedSteps, TrackedSteps, ChannelSteps
<1>3. Inv => TimecodeInvariant
  BY <1>0, TimecodeTyped, ShownIs DEF TimecodeInvariant
<1> HIDE DEF Inv
<1> QED BY <1>1, <1>2, <1>3, PTL DEF MtcSpec
==============================================================================
