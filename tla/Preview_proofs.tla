---------------------------- MODULE Preview_proofs ----------------------------
(***************************************************************************)
(* Proofs about Preview, for every set of monitors, every setting and      *)
(* every capacity: the queues and counters are well formed, a frame fits   *)
(* what receives it, and a unit is relayed under the configuration of its  *)
(* own encoder or not at all.                                              *)
(***************************************************************************)
EXTENDS Preview, FiniteSetTheorems, SequenceTheorems, WellFoundedInduction, NaturalsInduction, TLAPS

\* The values of the variables.
Picture(c, s) == [dims |-> c.dims, stream |-> s]
Units == [gen : Nat, key : BOOLEAN]
Messages == [is : {"config", "au"}, gen : Nat, key : BOOLEAN]
Backlogs == {<<>>} \cup {<<Picture(c, "program")>> : c \in Settings}
Encoders ==
  [cfg : Settings, gen : Nat \ {0}, queue : Backlogs, aus : Seq(Units), alive : BOOLEAN, n : Nat]
Jobs == {[frame |-> Picture(c, s), standby |-> (s = "standby")] : c \in Settings, s \in Streams}
Dims == {0} \cup {c.dims : c \in Settings}
Channels == [dims : Dims, last : {NoFrame} \cup {Picture(c, s) : c \in Settings, s \in Streams}]
Connections ==
  [at : {"closed", "subscribed", "on", "leaving"}, inbox : Seq(Messages), missed : BOOLEAN,
   gen : Nat, dec : {"none", "fresh", "running"}, gotKey : BOOLEAN, opens : Nat]
Histories == [spawns : Nat, changes : Nat]

\* An encoder that was launched: its backlog is of its size, and what it
\* gives has its number.
Launchable(e) ==
  /\ e \in Encoders
  /\ e.queue = <<>> \/ e.queue = <<Picture(e.cfg, "program")>>
  /\ Len(e.aus) <= AuCap /\ \A i \in DOMAIN e.aus : e.aus[i].gen = e.gen

Encoding ==
  /\ cfg \in Settings
  /\ enc = NoEnc \/ Launchable(enc)
  /\ seen \in 0..Cardinality(Viewers)
  /\ waiting \in BOOLEAN /\ (waiting => enc = NoEnc)
  /\ bounds \in Histories

\* A channel holds a picture of its stream, at its size.
Holds(r, s) == r \in Channels /\ (r.last = NoFrame \/ r.last = [dims |-> r.dims, stream |-> s])
Reading ==
  /\ readback \in [Streams -> Channels] /\ \A s \in Streams : Holds(readback[s], s)
  /\ pboBroken \in BOOLEAN
  /\ jobs \in Seq(Jobs) /\ Len(jobs) <= JobCap

\* The configuration that holds before the i-th message of a backlog is that
\* of the encoder g, or there is none yet.
Fits(inbox, start, i, g) ==
  /\ (\A j \in 1..(i - 1) : inbox[j].is # "config") => start \in {0, g}
  /\ \A j \in 1..(i - 1) :
       /\ inbox[j].is = "config"
       /\ \A k \in (j + 1)..(i - 1) : inbox[k].is # "config"
       => inbox[j].gen \in {0, g}

\* What a connection that lost nothing may rely on: its units have their
\* configuration, and the units to come of an encoder will.
UnitsFit(c) ==
  \A i \in DOMAIN c.inbox : c.inbox[i].is = "au" => Fits(c.inbox, c.gen, i, c.inbox[i].gen)
Informed(c, e) ==
  Subscribed(c) /\ e # NoEnc => Fits(c.inbox, c.gen, Len(c.inbox) + 1, e.gen)
Follows(c, e) ==
  /\ c \in Connections /\ Len(c.inbox) <= RingCap
  /\ ~c.missed => UnitsFit(c) /\ Informed(c, e)
Watching == viewer \in [Viewers -> Connections] /\ \A v \in Viewers : Follows(viewer[v], enc)

IInv == Encoding /\ Reading /\ Watching

----------------------------------------------------------------------------
(* The connections that are counted, and what an encoder is.               *)

\* There are no more of them than monitors.
LEMMA ClientsBounded == Clients \in 0..Cardinality(Viewers)
<1> DEFINE V == {v \in Viewers : viewer[v].at \in {"on", "leaving"}}
<1>1. V \in SUBSET Viewers /\ IsFiniteSet(Viewers)
  BY PreviewAssumption
<1> HIDE DEF V
<1>2. IsFiniteSet(V) /\ Cardinality(V) <= Cardinality(Viewers)
  BY <1>1, FS_Subset
<1>3. Cardinality(V) \in Nat /\ Cardinality(Viewers) \in Nat
  BY <1>1, <1>2, FS_CardinalityType
<1> QED BY <1>2, <1>3 DEF Clients, V

\* An encoder that was launched is not the absence of one.
LEMMA EncodersAreThere ==
  ASSUME NEW e, Launchable(e)
  PROVE  /\ e # NoEnc /\ e.gen # 0 /\ e.gen \in Nat /\ e.cfg \in Settings
         /\ e.aus \in Seq(Units) /\ e.alive \in BOOLEAN /\ e.n \in Nat
<1>1. e \in Encoders
  BY DEF Launchable
<1>2. e.gen # 0 /\ e.gen \in Nat /\ e.cfg \in Settings
      /\ e.aus \in Seq(Units) /\ e.alive \in BOOLEAN /\ e.n \in Nat
  BY <1>1 DEF Encoders
<1>3. NoEnc.gen = 0
  BY DEF NoEnc
<1> QED BY <1>2, <1>3

\* A new encoder has nothing to encode and nothing to give.
LEMMA NewEncoderLaunchable ==
  ASSUME NEW g \in Nat \ {0}, cfg \in Settings
  PROVE  Launchable(NewEncoder(g)) /\ NewEncoder(g).gen = g
<1> DEFINE e == NewEncoder(g)
           none == <<>>
<1>1. e = [cfg |-> cfg, gen |-> g, queue |-> none, aus |-> none, alive |-> TRUE, n |-> 0]
  BY DEF NewEncoder
<1>2. none \in Backlogs /\ none \in Seq(Units) /\ Len(none) = 0 /\ DOMAIN none = {}
  BY DEF Backlogs
<1> HIDE DEF none
<1>3. e \in Encoders
  BY <1>1, <1>2 DEF Encoders
<1>4. e.queue = none /\ e.aus = none /\ e.gen = g
  BY <1>1
<1>5. none = <<>>
  BY DEF none
<1> HIDE DEF e
<1>6. Len(e.aus) <= AuCap /\ \A i \in DOMAIN e.aus : e.aus[i].gen = e.gen
  BY <1>2, <1>4, PreviewAssumption
<1> QED BY <1>3, <1>4, <1>5, <1>6 DEF Launchable, e

\* A frame goes to an encoder of its size, and waits alone.
LEMMA FedLaunchable ==
  ASSUME NEW e, Launchable(e), cfg \in Settings,
         NEW f, f = NoFrame \/ f = Picture(cfg, "program")
  PROVE  Launchable(Fed(e, f)) /\ Fed(e, f).gen = e.gen
<1>1. CASE Fed(e, f) = e
  BY <1>1
<1>2. CASE Fed(e, f) # e
  <2> DEFINE q == <<f>>
  <2>1. f # NoFrame /\ cfg.dims = e.cfg.dims /\ Fed(e, f) = [e EXCEPT !.queue = q]
    BY <1>2 DEF Fed, Pushed
  <2>2. f = Picture(e.cfg, "program") /\ e.cfg \in Settings
    BY <2>1, EncodersAreThere DEF Picture
  <2>3. q = <<Picture(e.cfg, "program")>> /\ q \in Backlogs
    BY <2>2 DEF Backlogs
  <2> HIDE DEF q
  <2>4. /\ Fed(e, f) \in Encoders /\ Fed(e, f).queue = q /\ Fed(e, f).aus = e.aus
        /\ Fed(e, f).gen = e.gen /\ Fed(e, f).cfg = e.cfg
    BY <2>1, <2>3 DEF Launchable, Encoders
  <2> QED BY <2>3, <2>4 DEF Launchable
<1> QED BY <1>1, <1>2

LEMMA FedNothing ==
  ASSUME NEW f
  PROVE  Fed(NoEnc, f) = NoEnc
BY DEF Fed

----------------------------------------------------------------------------
(* manage_h264.                                                            *)

\* Messages about an encoder: units, after its configuration when it has to
\* be told.
Says(msgs, g, told) ==
  /\ msgs \in Seq(Messages) /\ \A i \in DOMAIN msgs : msgs[i].gen = g
  /\ told => Len(msgs) > 0 /\ msgs[1].is = "config"

\* What the session makes of its encoder: the one it had, or one it tells
\* everyone of.
Managing(m) ==
  /\ m.enc = NoEnc \/ (Launchable(m.enc) /\ \E told \in BOOLEAN :
       /\ Says(m.msgs, m.enc.gen, told)
       /\ told \/ (enc # NoEnc /\ enc.gen = m.enc.gen))
  /\ m.enc = NoEnc => m.msgs = <<>>
  /\ m.seen \in 0..Cardinality(Viewers)
  /\ m.waiting \in BOOLEAN /\ (m.waiting => m.enc = NoEnc)

LEMMA ConfigIsMessage ==
  ASSUME NEW g \in Nat
  PROVE  Config(g) \in Messages /\ Config(g).gen = g /\ Config(g).is = "config"
BY DEF Config, Messages

LEMMA UnitsAreMessages ==
  ASSUME NEW g \in Nat, NEW aus \in Seq(Units), \A i \in DOMAIN aus : aus[i].gen = g
  PROVE  Says([i \in DOMAIN aus |-> Au(aus[i])], g, FALSE)
<1> DEFINE s == [i \in DOMAIN aus |-> Au(aus[i])]
<1>1. \A u \in Units : Au(u) \in Messages /\ Au(u).gen = u.gen
  BY DEF Au, Units, Messages
<1>2. DOMAIN aus = 1..Len(aus) /\ Len(aus) \in Nat /\ \A i \in DOMAIN aus : aus[i] \in Units
  OBVIOUS
<1>3. \A i \in DOMAIN aus : Au(aus[i]) \in Messages /\ Au(aus[i]).gen = g
  BY <1>1, <1>2, Zenon
<1>4. s \in [1..Len(aus) -> Messages] /\ DOMAIN s = DOMAIN aus
  BY <1>2, <1>3
<1>5. \A i \in DOMAIN s : s[i].gen = g
  BY <1>3, <1>4
<1> HIDE DEF s
<1>6. s \in Seq(Messages)
  BY <1>2, <1>4
<1> QED BY <1>5, <1>6 DEF Says, s

LEMMA SaysAppend ==
  ASSUME NEW g \in Nat, NEW s, Says(s, g, FALSE)
  PROVE  Says(<<Config(g)>> \o s, g, TRUE) /\ Says(<<>> \o s, g, FALSE)
<1> DEFINE c == Config(g)
           a == <<c>> \o s
<1>1. c \in Messages /\ c.gen = g /\ c.is = "config"
  BY ConfigIsMessage
<1>2. s \in Seq(Messages) /\ \A i \in DOMAIN s : s[i].gen = g
  BY DEF Says
<1> HIDE DEF c
<1>3. /\ a \in Seq(Messages) /\ Len(a) = Len(s) + 1 /\ a[1] = c
      /\ \A i \in DOMAIN a \ {1} : i - 1 \in DOMAIN s /\ a[i] = s[i - 1]
  BY <1>1, <1>2
<1>4. <<>> \o s = s
  BY <1>2
<1> HIDE DEF a
<1>5. Len(a) > 0 /\ \A i \in DOMAIN a : a[i].gen = g
  BY <1>1, <1>2, <1>3
<1>6. Says(a, g, TRUE)
  BY <1>1, <1>3, <1>5 DEF Says
<1> QED BY <1>4, <1>6 DEF Says, a, c

\* The encoder announced, and the units it gave sent.
LEMMA AnnouncedSays ==
  ASSUME NEW m, Launchable(m.enc), m.seen \in Nat
  PROVE  Says(Announced(m), m.enc.gen, Clients > m.seen)
<1> DEFINE u == [i \in DOMAIN m.enc.aus |-> Au(m.enc.aus[i])]
           g == m.enc.gen
           none == <<>>
           one == <<Config(g)>>
<1>1. g \in Nat /\ m.enc.aus \in Seq(Units) /\ \A i \in DOMAIN m.enc.aus : m.enc.aus[i].gen = g
  BY EncodersAreThere DEF Launchable
<1>2. Says(u, g, FALSE)
  BY <1>1, UnitsAreMessages
<1>3. Announced(m) = (IF Clients > m.seen THEN one ELSE none) \o u
  BY DEF Announced
<1> HIDE DEF u
<1>4. Says(one \o u, g, TRUE) /\ Says(none \o u, g, FALSE)
  BY <1>1, <1>2, SaysAppend
<1> HIDE DEF one, none, g
<1>5. CASE Clients > m.seen
  <2>1. Announced(m) = one \o u
    BY <1>3, <1>5
  <2>2. (Clients > m.seen) = TRUE
    BY <1>5
  <2> QED BY <1>4, <2>1, <2>2 DEF g
<1>6. CASE ~(Clients > m.seen)
  <2>1. Announced(m) = none \o u
    BY <1>3, <1>6
  <2>2. (Clients > m.seen) = FALSE
    BY <1>6
  <2> QED BY <1>4, <2>1, <2>2 DEF g
<1> QED BY <1>5, <1>6

\* The encoder after its settings, its death and its delay were looked at.
LEMMA RenewedFacts ==
  ASSUME Encoding, NEW spawned \in BOOLEAN
  PROVE  LET m == Renewed(spawned)
         IN  /\ m.enc = NoEnc \/ Launchable(m.enc)
             /\ m.seen \in 0..Cardinality(Viewers)
             /\ m.waiting \in BOOLEAN /\ (m.waiting => m.enc = NoEnc)
             /\ m.enc # NoEnc => m.seen = 0 \/ (enc # NoEnc /\ m.enc.gen = enc.gen)
<1> DEFINE m == Renewed(spawned)
           new == NewEncoder(bounds.spawns + 1)
<1>1. bounds.spawns + 1 \in Nat \ {0} /\ cfg \in Settings
  BY DEF Encoding, Histories
<1>2. Launchable(new)
  BY <1>1, NewEncoderLaunchable
<1> HIDE DEF new
<1>3. \/ m = Kept \/ (m = [Kept EXCEPT !.enc = NoEnc, !.waiting = TRUE]) \/ m = Launched(spawned)
  BY DEF Renewed
<1>4. CASE m = Kept
  BY <1>4, EncodersAreThere DEF Kept, Encoding
<1>5. CASE m = [Kept EXCEPT !.enc = NoEnc, !.waiting = TRUE]
  BY <1>5 DEF Kept, Encoding
<1>6. CASE m = Launched(spawned)
  <2>1. Cardinality(Viewers) \in Nat
    BY PreviewAssumption, FS_CardinalityType
  <2>2. CASE spawned
    <3>1. Launched(spawned).enc = new /\ Launched(spawned).seen = 0 /\ ~Launched(spawned).waiting
          /\ Launched(spawned).waiting \in BOOLEAN
      BY <2>2 DEF Launched, new
    <3>2. m.enc = new /\ m.seen = 0 /\ ~m.waiting /\ m.waiting \in BOOLEAN
      BY <1>6, <3>1
    <3> HIDE DEF m
    <3>3. m.seen \in 0..Cardinality(Viewers)
      BY <2>1, <3>2
    <3> QED BY <1>2, <3>2, <3>3 DEF m
  <2>3. CASE ~spawned
    BY <1>6, <2>3 DEF Launched, Encoding
  <2> QED BY <2>2, <2>3
<1> QED BY <1>3, <1>4, <1>5, <1>6

LEMMA ManagedFacts ==
  ASSUME Encoding, NEW spawned \in BOOLEAN
  PROVE  Managing(Managed(spawned))
<1> DEFINE r == Renewed(spawned)
           m == Managed(spawned)
           none == <<>>
<1>1. Clients \in Nat /\ Cardinality(Viewers) \in Nat /\ Clients <= Cardinality(Viewers)
  BY ClientsBounded, PreviewAssumption, FS_CardinalityType
<1>2. /\ r.enc = NoEnc \/ Launchable(r.enc)
      /\ r.seen \in 0..Cardinality(Viewers)
      /\ r.waiting \in BOOLEAN /\ (r.waiting => r.enc = NoEnc)
      /\ r.enc # NoEnc => r.seen = 0 \/ (enc # NoEnc /\ r.enc.gen = enc.gen)
  BY RenewedFacts
<1>3. CASE Clients = 0
  <2>1. m.enc = NoEnc /\ m.msgs = <<>> /\ m.seen = 0 /\ ~m.waiting /\ m.waiting \in BOOLEAN
    BY <1>3 DEF Managed
  <2> HIDE DEF m
  <2> QED BY <1>1, <2>1 DEF Managing, m
<1>4. CASE Clients # 0 /\ r.enc = NoEnc
  <2>1. m.enc = NoEnc /\ m.msgs = <<>> /\ m.seen = r.seen /\ m.waiting = r.waiting
    BY <1>4 DEF Managed
  <2> HIDE DEF r, m
  <2> QED BY <1>2, <2>1 DEF Managing, m
<1>5. CASE Clients # 0 /\ r.enc # NoEnc
  <2> DEFINE e == [r.enc EXCEPT !.aus = none]
             a == Announced(r)
  <2>1. m = [enc |-> e, seen |-> Clients, waiting |-> r.waiting, msgs |-> a]
    BY <1>5 DEF Managed
  <2>2. Launchable(r.enc)
    BY <1>2, <1>5
  <2>3. Says(a, r.enc.gen, Clients > r.seen)
    BY <1>2, <2>2, AnnouncedSays
  <2>4. none \in Seq(Units) /\ Len(none) = 0 /\ DOMAIN none = {}
    OBVIOUS
  <2> HIDE DEF none, r, a
  <2>5. Launchable(e) /\ e.gen = r.enc.gen
    <3>1. e \in Encoders /\ e.queue = r.enc.queue /\ e.aus = none /\ e.cfg = r.enc.cfg /\ e.gen = r.enc.gen
      BY <2>2, <2>4 DEF Launchable, Encoders
    <3>2. Len(e.aus) <= AuCap /\ \A i \in DOMAIN e.aus : e.aus[i].gen = e.gen
      BY <2>4, <3>1, PreviewAssumption
    <3> QED BY <2>2, <3>1, <3>2 DEF Launchable
  <2> HIDE DEF e
  <2>6. m.enc = e /\ m.seen = Clients /\ m.waiting = r.waiting /\ m.msgs = a
    BY <2>1
  <2>7. (Clients > r.seen) \/ (enc # NoEnc /\ enc.gen = e.gen)
    BY <1>1, <1>2, <1>5, <2>5
  <2>8. (Clients > r.seen) \in BOOLEAN
    OBVIOUS
  <2>9. e # NoEnc
    BY <2>5, EncodersAreThere
  <2>10. ~m.waiting /\ m.waiting \in BOOLEAN
    BY <1>2, <1>5, <2>6
  <2>11. \E told \in BOOLEAN : Says(m.msgs, m.enc.gen, told) /\ (told \/ (enc # NoEnc /\ enc.gen = m.enc.gen))
    BY <2>3, <2>5, <2>6, <2>7, <2>8
  <2> HIDE DEF m
  <2> QED BY <1>1, <2>5, <2>6, <2>9, <2>10, <2>11 DEF Managing, m
<1> QED BY <1>3, <1>4, <1>5

----------------------------------------------------------------------------
(* The backlog of a connection.                                            *)

\* What a backlog holds when messages come behind it.
LEMMA Behind ==
  ASSUME NEW s \in Seq(Messages), NEW t \in Seq(Messages)
  PROVE  /\ s \o t \in Seq(Messages) /\ Len(s \o t) = Len(s) + Len(t)
         /\ Len(s) \in Nat /\ Len(t) \in Nat
         /\ \A j \in 1..Len(s) : (s \o t)[j] = s[j]
         /\ \A j \in (Len(s) + 1)..(Len(s) + Len(t)) : j - Len(s) \in 1..Len(t) /\ (s \o t)[j] = t[j - Len(s)]
OBVIOUS

\* The messages of before keep their configuration.
LEMMA FitsBefore ==
  ASSUME NEW s \in Seq(Messages), NEW t \in Seq(Messages), NEW start, NEW g,
         NEW i \in 1..(Len(s) + 1), Fits(s, start, i, g)
  PROVE  Fits(s \o t, start, i, g)
<1> DEFINE a == s \o t
           n == Len(s)
<1>1. n \in Nat /\ \A j \in 1..n : a[j] = s[j]
  BY Behind
<1> HIDE DEF a, n
<1>2. i \in 1..(n + 1)
  BY DEF n
<1>3. \A j \in 1..(i - 1) : a[j] = s[j] /\ \A k \in (j + 1)..(i - 1) : a[k] = s[k]
  BY <1>1, <1>2
<1> QED BY <1>3 DEF Fits, a

\* Those that come about an encoder have its configuration, and so will the
\* next ones: it comes with them, or it was there.
LEMMA FitsAfter ==
  ASSUME NEW s \in Seq(Messages), NEW t, NEW start, NEW g, NEW told \in BOOLEAN, Says(t, g, told),
         ~told => Fits(s, start, Len(s) + 1, g),
         NEW i \in (Len(s) + 1)..(Len(s) + Len(t) + 1), told => i # Len(s) + 1
  PROVE  Fits(s \o t, start, i, g)
<1> DEFINE a == s \o t
           n == Len(s)
           l == Len(t)
<1>0. t \in Seq(Messages)
  BY DEF Says
<1>1. /\ n \in Nat /\ l \in Nat
      /\ \A j \in 1..n : a[j] = s[j]
      /\ \A j \in (n + 1)..(n + l) : j - n \in 1..l /\ a[j] = t[j - n]
  BY <1>0, Behind
<1>2. DOMAIN t = 1..l
  BY <1>0
<1>3. \A j \in (n + 1)..(n + l) : a[j].gen = g
  BY <1>1, <1>2 DEF Says
<1>4. told => l > 0 /\ a[n + 1].is = "config"
  <2>1. told => l > 0 /\ t[1].is = "config"
    BY DEF Says
  <2>2. l > 0 => a[n + 1] = t[1]
    BY <1>1
  <2> QED BY <2>1, <2>2
<1>5. i \in (n + 1)..(n + l + 1) /\ (told => i # n + 1) /\ (~told => Fits(s, start, n + 1, g))
  OBVIOUS
<1> HIDE DEF a, n, l
<1>6. ASSUME \A j \in 1..(i - 1) : a[j].is # "config"
      PROVE  start \in {0, g}
  <2>1. ~told
    <3>1. told => n + 1 \in 1..(i - 1)
      BY <1>1, <1>5
    <3> QED BY <1>4, <1>6, <3>1
  <2>2. \A j \in 1..((n + 1) - 1) : s[j].is # "config"
    BY <1>1, <1>5, <1>6
  <2> QED BY <1>5, <2>1, <2>2 DEF Fits
<1>7. ASSUME NEW j \in 1..(i - 1), a[j].is = "config", \A k \in (j + 1)..(i - 1) : a[k].is # "config"
      PROVE  a[j].gen \in {0, g}
  <2>1. CASE j > n
    BY <1>1, <1>3, <1>5, <2>1
  <2>2. CASE j <= n
    <3>1. ~told
      <4>1. told => n + 1 \in (j + 1)..(i - 1)
        BY <1>1, <1>5, <2>2
      <4> QED BY <1>4, <1>7, <4>1
    <3>2. j \in 1..((n + 1) - 1) /\ a[j] = s[j]
      BY <1>1, <1>5, <2>2
    <3>3. \A k \in (j + 1)..((n + 1) - 1) : k \in (j + 1)..(i - 1) /\ a[k] = s[k]
      BY <1>1, <1>5, <3>2
    <3>4. \A k \in (j + 1)..((n + 1) - 1) : s[k].is # "config"
      BY <1>7, <3>3
    <3>5. s[j].is = "config"
      BY <1>7, <3>2
    <3>6. Fits(s, start, n + 1, g)
      BY <1>5, <3>1
    <3> QED BY <3>2, <3>4, <3>5, <3>6 DEF Fits
  <2> QED BY <1>1, <1>5, <2>1, <2>2
<1> QED BY <1>6, <1>7 DEF Fits, a

\* A connection that hears of an encoder.
LEMMA ReceivedFollows ==
  ASSUME NEW c, Follows(c, enc), NEW e, NEW told \in BOOLEAN, NEW t, Says(t, e.gen, told),
         e # NoEnc, told \/ (enc # NoEnc /\ enc.gen = e.gen)
  PROVE  Follows(Received(c, t), e)
<1> DEFINE s == c.inbox
           a == s \o t
           kept == SubSeq(a, Len(a) - RingCap + 1, Len(a))
           d == Received(c, t)
<1>1. c \in Connections /\ s \in Seq(Messages) /\ t \in Seq(Messages) /\ Len(s) <= RingCap
  BY DEF Follows, Connections, Says
<1>2. a \in Seq(Messages) /\ Len(a) = Len(s) + Len(t) /\ Len(s) \in Nat /\ Len(t) \in Nat
  BY <1>1, Behind
<1>3. RingCap \in Nat \ {0}
  BY PreviewAssumption
<1>4. CASE ~Subscribed(c) \/ t = <<>>
  <2>1. d = c
    BY <1>4 DEF Received
  <2>2. ~Subscribed(c) \/ ~told
    BY <1>4 DEF Says
  <2>3. ~c.missed => Informed(c, e)
    BY <2>2 DEF Follows, Informed
  <2> QED BY <2>1, <2>3 DEF Follows
<1>5. CASE Subscribed(c) /\ t # <<>> /\ ~(Len(a) <= RingCap)
  <2> DEFINE n == Len(a)
  <2>1. d = [c EXCEPT !.inbox = kept, !.missed = TRUE]
    BY <1>5 DEF Received
  <2>2. n \in Nat /\ n - RingCap + 1 \in 1..n
    BY <1>2, <1>3, <1>5
  <2>3. kept \in Seq(Messages) /\ Len(kept) = RingCap
    BY <1>2, <1>3, <2>2
  <2> HIDE DEF kept, n, d
  <2>4. d \in Connections /\ d.inbox = kept /\ d.missed
    BY <1>1, <2>1, <2>3 DEF Connections
  <2>5. Follows(d, e)
    BY <1>3, <2>3, <2>4 DEF Follows
  <2> QED BY <2>5 DEF d
<1>6. CASE Subscribed(c) /\ t # <<>> /\ Len(a) <= RingCap
  <2>1. d = [c EXCEPT !.inbox = a]
    BY <1>6 DEF Received
  <2> HIDE DEF a, d
  <2>2. /\ d \in Connections /\ d.inbox = a /\ d.missed = c.missed /\ d.gen = c.gen
    BY <1>1, <1>2, <2>1 DEF Connections
  <2>3. ASSUME ~c.missed
        PROVE  UnitsFit(d) /\ Informed(d, e)
    <3>1. ~told => Fits(s, c.gen, Len(s) + 1, e.gen)
      BY <1>6, <2>3 DEF Follows, Informed
    <3>2. \A i \in (Len(s) + 1)..(Len(s) + Len(t) + 1) :
            (told => i # Len(s) + 1) => Fits(a, c.gen, i, e.gen)
      BY <1>1, <3>1, FitsAfter DEF a
    <3>3. Informed(d, e)
      <4>1. Len(a) + 1 \in (Len(s) + 1)..(Len(s) + Len(t) + 1) /\ (told => Len(a) + 1 # Len(s) + 1)
        BY <1>2 DEF Says
      <4> QED BY <2>2, <3>2, <4>1 DEF Informed
    <3>4. ASSUME NEW i \in DOMAIN a, a[i].is = "au"
          PROVE  Fits(a, c.gen, i, a[i].gen)
      <4>0. i \in 1..Len(a)
        BY <1>2
      <4>1. CASE i <= Len(s)
        <5>1. i \in DOMAIN s /\ i \in 1..(Len(s) + 1) /\ a[i] = s[i]
          BY <1>1, <1>2, <4>0, <4>1, Behind DEF a
        <5>2. Fits(s, c.gen, i, s[i].gen)
          BY <2>3, <3>4, <5>1 DEF Follows, UnitsFit
        <5> QED BY <1>1, <5>1, <5>2, FitsBefore DEF a
      <4>2. CASE i > Len(s)
        <5>1. i \in (Len(s) + 1)..(Len(s) + Len(t))
          BY <1>2, <4>0, <4>2
        <5>2. i - Len(s) \in 1..Len(t) /\ a[i] = t[i - Len(s)]
          BY <1>1, <5>1, Behind DEF a
        <5>3. a[i].gen = e.gen
          BY <1>1, <5>2 DEF Says
        <5>4. told => i # Len(s) + 1
          <6>1. i = Len(s) + 1 => i - Len(s) = 1
            BY <1>2
          <6> QED BY <3>4, <5>2, <6>1 DEF Says
        <5>5. i \in (Len(s) + 1)..(Len(s) + Len(t) + 1)
          BY <1>2, <5>1
        <5> QED BY <3>2, <5>3, <5>4, <5>5
      <4> QED BY <1>2, <4>0, <4>1, <4>2
    <3>5. UnitsFit(d)
      BY <2>2, <3>4 DEF UnitsFit
    <3> QED BY <3>3, <3>5
  <2>4. Follows(d, e)
    BY <1>6, <2>2, <2>3 DEF Follows
  <2> QED BY <2>4 DEF d
<1> QED BY <1>4, <1>5, <1>6

----------------------------------------------------------------------------
(* What a connection and its monitor do.                                   *)

\* The first message leaves the backlog; a configuration becomes the one
\* that holds.
LEMMA FitsTail ==
  ASSUME NEW s \in Seq(Messages), s # <<>>, NEW start, NEW g, NEW now,
         now = (IF s[1].is = "config" THEN s[1].gen ELSE start),
         NEW i \in 2..(Len(s) + 1), Fits(s, start, i, g)
  PROVE  Fits(Tail(s), now, i - 1, g)
<1> DEFINE t == Tail(s)
           n == Len(s)
<1>1. n \in Nat /\ n > 0 /\ i \in 2..(n + 1)
  OBVIOUS
<1>2. \A j \in 1..(n - 1) : t[j] = s[j + 1]
  OBVIOUS
<1> HIDE DEF t, n
<1>3. \A j \in 1..(i - 2) : j + 1 \in 2..(i - 1) /\ t[j] = s[j + 1]
  BY <1>1, <1>2
<1>4. \A k \in 2..(i - 1) : k - 1 \in 1..(i - 2) /\ t[k - 1] = s[k]
  BY <1>1, <1>2
<1>5. ASSUME \A j \in 1..(i - 2) : t[j].is # "config"
      PROVE  now \in {0, g}
  <2>1. \A k \in 2..(i - 1) : s[k].is # "config"
    BY <1>4, <1>5
  <2>2. CASE s[1].is = "config"
    <3>1. 1 \in 1..(i - 1) /\ \A k \in (1 + 1)..(i - 1) : s[k].is # "config"
      BY <1>1, <2>1
    <3> QED BY <2>2, <3>1 DEF Fits
  <2>3. CASE s[1].is # "config"
    <3>1. \A k \in 1..(i - 1) : s[k].is # "config"
      <4>1. \A k \in 1..(i - 1) : k = 1 \/ k \in 2..(i - 1)
        BY <1>1
      <4> QED BY <2>1, <2>3, <4>1
    <3> QED BY <2>3, <3>1 DEF Fits
  <2> QED BY <2>2, <2>3
<1>6. ASSUME NEW j \in 1..(i - 2), t[j].is = "config", \A k \in (j + 1)..(i - 2) : t[k].is # "config"
      PROVE  t[j].gen \in {0, g}
  <2>1. j + 1 \in 1..(i - 1) /\ t[j] = s[j + 1]
    BY <1>1, <1>3
  <2>2. \A k \in ((j + 1) + 1)..(i - 1) : k - 1 \in (j + 1)..(i - 2) /\ t[k - 1] = s[k]
    BY <1>1, <1>4
  <2>3. \A k \in ((j + 1) + 1)..(i - 1) : s[k].is # "config"
    BY <1>6, <2>2
  <2> QED BY <1>6, <2>1, <2>3 DEF Fits
<1>7. (i - 1) - 1 = i - 2
  BY <1>1
<1> QED BY <1>5, <1>6, <1>7 DEF Fits, t

\* Only the backlog, the configuration that holds and the losses matter.
LEMMA FollowsSame ==
  ASSUME NEW c, NEW e, Follows(c, e), NEW d \in Connections,
         d.inbox = c.inbox, d.gen = c.gen, d.missed = c.missed, Subscribed(d) => Subscribed(c)
  PROVE  Follows(d, e)
BY DEF Follows, UnitsFit, Informed

\* A connection with no backlog and no configuration.
LEMMA FollowsEmpty ==
  ASSUME NEW e, NEW d \in Connections, d.inbox = <<>>, d.gen = 0
  PROVE  Follows(d, e)
<1> DEFINE none == <<>>
<1>1. Len(none) = 0 /\ DOMAIN none = {}
  OBVIOUS
<1>2. d.inbox = none
  OBVIOUS
<1> HIDE DEF none
<1>3. Len(d.inbox) <= RingCap /\ UnitsFit(d)
  BY <1>1, <1>2, PreviewAssumption DEF UnitsFit
<1>4. Informed(d, e)
  <2>1. (Len(d.inbox) + 1) - 1 = 0
    BY <1>1, <1>2
  <2>2. 1..((Len(d.inbox) + 1) - 1) = {}
    BY <2>1
  <2> QED BY <2>2 DEF Informed, Fits
<1> QED BY <1>3, <1>4 DEF Follows

\* A connection that was just made, and a monitor that leaves.
LEMMA ClosedIsEmpty ==
  ASSUME NEW n \in Nat, NEW at \in {"subscribed", "leaving"}
  PROVE  LET d == [Closed EXCEPT !.at = at, !.opens = n]
         IN  d \in Connections /\ d.inbox = <<>> /\ d.gen = 0 /\ d.at = at
<1> DEFINE none == <<>>
<1>1. none \in Seq(Messages)
  OBVIOUS
<1>2. Closed = [at |-> "closed", inbox |-> none, missed |-> FALSE, gen |-> 0, dec |-> "none",
                gotKey |-> FALSE, opens |-> 0]
  BY DEF Closed
<1> HIDE DEF none
<1>3. Closed.inbox = none /\ Closed.gen = 0 /\ Closed \in Connections
  BY <1>1, <1>2 DEF Connections
<1>4. LET d == [Closed EXCEPT !.at = at, !.opens = n]
      IN  d \in Connections /\ d.inbox = none /\ d.gen = 0 /\ d.at = at
  BY <1>3 DEF Connections
<1> QED BY <1>4 DEF none

LEMMA LeftIsEmpty ==
  ASSUME NEW c \in Connections
  PROVE  /\ Left(c) \in Connections /\ Left(c).inbox = <<>> /\ Left(c).gen = 0
         /\ Left(c).at = "leaving"
<1>1. c.opens \in Nat /\ Left(c) = [Closed EXCEPT !.at = "leaving", !.opens = c.opens]
  BY DEF Connections, Left
<1> DEFINE n == c.opens
<1> HIDE DEF n
<1>2. LET d == [Closed EXCEPT !.at = "leaving", !.opens = n]
      IN  d \in Connections /\ d.inbox = <<>> /\ d.gen = 0 /\ d.at = "leaving"
  BY <1>1, ClosedIsEmpty DEF n
<1> QED BY <1>1, <1>2, Zenon DEF n

\* What a monitor makes of the first message.
LEMMA RelayFollows ==
  ASSUME NEW v \in Viewers, Watching, Relay(v)
  PROVE  viewer' = [viewer EXCEPT ![v] = viewer'[v]] /\ Follows(viewer'[v], enc)
<1> DEFINE w == viewer[v]
           s == w.inbox
           t == Tail(s)
           msg == Head(s)
           c == [w EXCEPT !.inbox = t]
           d == CASE msg.is = "config" -> Configured(c, msg)
                  [] msg.is = "au" /\ c.dec = "none" -> c
                  [] msg.is = "au" /\ c.dec # "none" -> Decoded(c, msg)
<1>1. Follows(w, enc) /\ w \in Connections /\ s \in Seq(Messages) /\ s # <<>> /\ w.at = "on"
  BY DEF Watching, Follows, Connections, Relay
<1>2. viewer' = [viewer EXCEPT ![v] = d] /\ v \in DOMAIN viewer
  <2>1. Becomes(v, d)
    BY Zenon DEF Relay
  <2> HIDE DEF d
  <2> QED BY <2>1 DEF Becomes, Watching
<1>3. viewer'[v] = d /\ viewer' = [viewer EXCEPT ![v] = viewer'[v]]
  <2> HIDE DEF d
  <2> QED BY <1>2
<1>4. t \in Seq(Messages) /\ Len(t) = Len(s) - 1 /\ Len(s) \in Nat /\ Len(s) > 0 /\ msg = s[1]
      /\ 1 \in DOMAIN s
  BY <1>1
<1>5. \A i \in DOMAIN t : i + 1 \in DOMAIN s /\ t[i] = s[i + 1]
  BY <1>1
<1>6. msg \in Messages /\ msg.gen \in Nat /\ msg.is \in {"config", "au"}
  <2>1. s[1] \in Messages
    BY <1>1, <1>4
  <2> QED BY <1>4, <2>1 DEF Messages
<1> HIDE DEF t, msg, d
<1>7. c \in Connections /\ c.inbox = t /\ c.gen = w.gen /\ c.missed = w.missed /\ c.at = "on"
  BY <1>1, <1>4 DEF Connections
<1> HIDE DEF c
<1>8. ASSUME NEW x \in Connections, x.inbox = t, x.missed = w.missed,
             x.gen = (IF s[1].is = "config" THEN s[1].gen ELSE w.gen)
      PROVE  Follows(x, enc)
  <2>1. Len(t) <= RingCap
    BY <1>1, <1>4, PreviewAssumption DEF Follows
  <2>2. ASSUME ~w.missed, NEW i \in DOMAIN t, t[i].is = "au"
        PROVE  Fits(t, x.gen, i, t[i].gen)
    <3>1. i + 1 \in DOMAIN s /\ t[i] = s[i + 1] /\ i + 1 \in 2..(Len(s) + 1) /\ (i + 1) - 1 = i
      <4>1. i \in 1..Len(t)
        BY <1>4
      <4> QED BY <1>4, <1>5, <4>1
    <3>2. Fits(s, w.gen, i + 1, s[i + 1].gen)
      BY <1>1, <2>2, <3>1 DEF Follows, UnitsFit
    <3>3. Fits(t, x.gen, (i + 1) - 1, s[i + 1].gen)
      BY <1>1, <1>8, <3>1, <3>2, FitsTail DEF t
    <3> QED BY <3>1, <3>3
  <2>3. ASSUME ~w.missed, enc # NoEnc
        PROVE  Fits(t, x.gen, Len(t) + 1, enc.gen)
    <3>1. Fits(s, w.gen, Len(s) + 1, enc.gen)
      BY <1>1, <2>3 DEF Follows, Informed, Subscribed
    <3>2. Len(s) + 1 \in 2..(Len(s) + 1) /\ (Len(s) + 1) - 1 = Len(t) + 1
      BY <1>4
    <3>3. Fits(t, x.gen, (Len(s) + 1) - 1, enc.gen)
      BY <1>1, <1>8, <3>1, <3>2, FitsTail DEF t
    <3> QED BY <3>2, <3>3
  <2> QED BY <1>8, <2>1, <2>2, <2>3 DEF Follows, UnitsFit, Informed
<1>9. CASE msg.is = "config"
  <2>1. d = [c EXCEPT !.gen = msg.gen, !.dec = "fresh"]
    <3>1. d = Configured(c, msg)
      BY <1>9 DEF d
    <3> QED BY <3>1 DEF Configured
  <2>2. d \in Connections /\ d.inbox = t /\ d.missed = w.missed /\ d.gen = msg.gen
    BY <1>6, <1>7, <2>1 DEF Connections
  <2> QED BY <1>3, <1>4, <1>8, <1>9, <2>2
<1>10. CASE msg.is # "config"
  <2>1. \/ d = c \/ d = Left(c) \/ d = [c EXCEPT !.gotKey = TRUE, !.dec = "running"]
    BY <1>6, <1>10 DEF d, Decoded
  <2>2. CASE d = c
    BY <1>3, <1>4, <1>7, <1>8, <1>10, <2>2
  <2>3. CASE d = Left(c)
    BY <1>3, <1>7, <2>3, LeftIsEmpty, FollowsEmpty
  <2>4. CASE d = [c EXCEPT !.gotKey = TRUE, !.dec = "running"]
    <3>1. d \in Connections /\ d.inbox = t /\ d.missed = w.missed /\ d.gen = w.gen
      BY <1>7, <2>4 DEF Connections
    <3> QED BY <1>3, <1>4, <1>8, <1>10, <3>1
  <2> QED BY <2>1, <2>2, <2>3, <2>4
<1> QED BY <1>9, <1>10

\* A step of one connection.
LEMMA TurnsKeep ==
  ASSUME IInv, NEW v \in Viewers, NEW d, Becomes(v, d), Follows(d, enc)
  PROVE  IInv'
<1>1. viewer \in [Viewers -> Connections] /\ \A x \in Viewers : Follows(viewer[x], enc)
  BY DEF IInv, Watching
<1>2. viewer' = [viewer EXCEPT ![v] = d] /\ UNCHANGED <<cfg, encoder, drawing, bounds>> /\ d \in Connections
  BY DEF Becomes, Follows
<1>3. viewer' \in [Viewers -> Connections] /\ \A x \in Viewers : viewer'[x] = IF x = v THEN d ELSE viewer[x]
  BY <1>1, <1>2
<1>4. enc' = enc
  BY <1>2 DEF encoder
<1>5. Watching'
  <2>1. \A x \in Viewers : Follows(viewer'[x], enc)
    BY <1>1, <1>3
  <2> QED BY <1>3, <1>4, <2>1 DEF Watching
<1>6. Encoding' /\ Reading'
  BY <1>2 DEF IInv, Encoding, Reading, encoder, drawing
<1> QED BY <1>5, <1>6 DEF IInv

LEMMA ConnectionStep ==
  ASSUME IInv, NEW v \in Viewers,
         Subscribe(v) \/ Count(v) \/ Relay(v) \/ Watchdog(v) \/ Leave(v) \/ Drop(v)
  PROVE  IInv'
<1> DEFINE w == viewer[v]
<1>1. Follows(w, enc) /\ w \in Connections
  BY DEF IInv, Watching, Follows
<1>2. w.opens \in Nat
  BY <1>1 DEF Connections
<1>3. CASE Subscribe(v)
  <2> DEFINE d == [Closed EXCEPT !.at = "subscribed", !.opens = w.opens + 1]
  <2>1. Becomes(v, d) /\ w.opens + 1 \in Nat
    BY <1>2, <1>3 DEF Subscribe
  <2>2. d \in Connections /\ d.inbox = <<>> /\ d.gen = 0
    BY <2>1, ClosedIsEmpty
  <2> HIDE DEF d
  <2>3. Follows(d, enc)
    BY <2>2, FollowsEmpty
  <2> QED BY <2>1, <2>3, TurnsKeep
<1>4. CASE Count(v)
  <2> DEFINE d == [w EXCEPT !.at = "on"]
  <2>1. Becomes(v, d) /\ w.at = "subscribed"
    BY <1>4 DEF Count
  <2>2. d \in Connections /\ d.inbox = w.inbox /\ d.gen = w.gen /\ d.missed = w.missed
    BY <1>1 DEF Connections
  <2> HIDE DEF d
  <2>3. Follows(d, enc)
    BY <1>1, <2>1, <2>2, FollowsSame DEF Subscribed
  <2> QED BY <2>1, <2>3, TurnsKeep
<1>5. CASE Relay(v)
  <2>1. Follows(viewer'[v], enc)
    BY <1>5, RelayFollows DEF IInv
  <2>2. \E d : Becomes(v, d)
    BY <1>5 DEF Relay
  <2>3. PICK d : Becomes(v, d)
    BY <2>2
  <2>4. viewer'[v] = d
    BY <2>3 DEF Becomes, IInv, Watching
  <2> QED BY <2>1, <2>3, <2>4, TurnsKeep
<1>6. CASE Watchdog(v)
  <2>1. Becomes(v, Left(w))
    BY <1>6 DEF Watchdog
  <2>2. Follows(Left(w), enc)
    BY <1>1, LeftIsEmpty, FollowsEmpty
  <2> QED BY <2>1, <2>2, TurnsKeep
<1>7. CASE Leave(v)
  <2> DEFINE l == Left(w)
             d == [l EXCEPT !.at = IF w.at = "on" THEN "leaving" ELSE "closed"]
  <2>1. Becomes(v, d)
    BY <1>7 DEF Leave
  <2>2. l \in Connections /\ l.inbox = <<>> /\ l.gen = 0
    BY <1>1, LeftIsEmpty
  <2> HIDE DEF l
  <2>3. d \in Connections /\ d.inbox = l.inbox /\ d.gen = l.gen
    BY <2>2 DEF Connections
  <2> HIDE DEF d
  <2>4. Follows(d, enc)
    BY <2>2, <2>3, FollowsEmpty
  <2> QED BY <2>1, <2>4, TurnsKeep
<1>8. CASE Drop(v)
  <2> DEFINE d == [w EXCEPT !.at = "closed"]
  <2>1. Becomes(v, d)
    BY <1>8 DEF Drop
  <2>2. d \in Connections /\ d.inbox = w.inbox /\ d.gen = w.gen /\ d.missed = w.missed /\ d.at = "closed"
    BY <1>1 DEF Connections
  <2> HIDE DEF d
  <2>3. Follows(d, enc)
    BY <1>1, <2>2, FollowsSame DEF Subscribed
  <2> QED BY <2>1, <2>3, TurnsKeep
<1> QED BY <1>3, <1>4, <1>5, <1>6, <1>7, <1>8

----------------------------------------------------------------------------
(* The pictures read back.                                                 *)

\* A reading gives a picture of its stream at the size of the moment, or
\* nothing, and leaves its channel with a picture of its stream at its size.
LEMMA ReadFacts ==
  ASSUME NEW s \in Streams, Holds(readback[s], s), cfg \in Settings, NEW maps \in BOOLEAN
  PROVE  /\ Read(s, maps) = NoFrame \/ Read(s, maps) = Picture(cfg, s)
         /\ Holds(ReadThrough(s), s)
<1> DEFINE p == Picture(cfg, s)
           c == Channel(s)
           d == [c EXCEPT !.last = p]
           none == NoFrame
<1>1. Drawn(s) = p
  BY DEF Drawn, Picture
<1>2. p \in {Picture(x, t) : x \in Settings, t \in Streams} /\ cfg.dims \in Dims
      /\ p = [dims |-> cfg.dims, stream |-> s]
  BY DEF Dims, Picture
<1> HIDE DEF p, none
<1>3. c \in Channels /\ c.dims = cfg.dims /\ (c.last = none \/ c.last = p)
  <2>1. CASE readback[s].dims = cfg.dims
    <3>1. c = readback[s]
      BY <2>1 DEF Channel
    <3> QED BY <1>2, <2>1, <3>1 DEF Holds, none
  <2>2. CASE readback[s].dims # cfg.dims
    <3>1. c = [dims |-> cfg.dims, last |-> none]
      BY <2>2 DEF Channel, none
    <3> QED BY <1>2, <3>1 DEF Channels, none
  <2> QED BY <2>1, <2>2
<1> HIDE DEF c
<1>4. d \in Channels /\ d.dims = cfg.dims /\ d.last = p
  BY <1>2, <1>3 DEF Channels
<1> HIDE DEF d
<1>5. Read(s, maps) = none \/ Read(s, maps) = p
  BY <1>1, <1>3 DEF Read, c, none
<1>6. ReadThrough(s) = readback[s] \/ ReadThrough(s) = d
  BY <1>1 DEF ReadThrough, c, d
<1>7. Holds(d, s)
  BY <1>2, <1>4 DEF Holds
<1> QED BY <1>5, <1>6, <1>7 DEF p, none

\* A picture that was read goes to the worker with its stream.
LEMMA SubmittedFacts ==
  ASSUME NEW q \in Seq(Jobs), Len(q) <= JobCap, cfg \in Settings, NEW s \in Streams,
         NEW f, f = NoFrame \/ f = Picture(cfg, s)
  PROVE  Submitted(q, f, s = "standby") \in Seq(Jobs) /\ Len(Submitted(q, f, s = "standby")) <= JobCap
<1> DEFINE j == [frame |-> f, standby |-> (s = "standby")]
           r == Submitted(q, f, s = "standby")
<1>1. CASE f = NoFrame \/ Len(q) >= JobCap
  BY <1>1 DEF Submitted
<1>2. CASE ~(f = NoFrame \/ Len(q) >= JobCap)
  <2>1. j \in Jobs /\ r = Append(q, j) /\ Len(q) < JobCap
    BY <1>2, PreviewAssumption DEF Submitted, Jobs
  <2> HIDE DEF j, r
  <2>2. r \in Seq(Jobs) /\ Len(r) <= JobCap
    BY <2>1, PreviewAssumption
  <2> QED BY <2>2 DEF r
<1> QED BY <1>1, <1>2

LEMMA SubmittedNothing ==
  ASSUME NEW q, NEW b
  PROVE  Submitted(q, NoFrame, b) = q
BY DEF Submitted

----------------------------------------------------------------------------
(* The encoder seen from the connections.                                  *)

\* What a connection may rely on does not depend on what the encoder holds.
LEMMA FollowsNumber ==
  ASSUME NEW c, NEW e, Follows(c, e), NEW f, f = NoEnc \/ (e # NoEnc /\ f.gen = e.gen)
  PROVE  Follows(c, f)
BY DEF Follows, Informed

LEMMA WatchingNumber ==
  ASSUME Watching, UNCHANGED viewer, enc' = NoEnc \/ (enc # NoEnc /\ enc'.gen = enc.gen)
  PROVE  Watching'
<1>1. \A v \in Viewers : Follows(viewer[v], enc)
  BY DEF Watching
<1>2. \A v \in Viewers : Follows(viewer[v], enc')
  BY <1>1, FollowsNumber
<1> QED BY <1>2 DEF Watching

LEMMA ReadingSame ==
  ASSUME Reading, UNCHANGED drawing
  PROVE  Reading'
BY DEF Reading, drawing

----------------------------------------------------------------------------
(* The steps of the session and of the encoder.                            *)

\* What the session says of its encoder reaches every connection.
LEMMA BroadcastKeeps ==
  ASSUME IInv, NEW m, Managing(m), Broadcast(m.msgs),
         enc' = NoEnc \/ (m.enc # NoEnc /\ enc'.gen = m.enc.gen), m.enc = NoEnc => enc' = NoEnc
  PROVE  Watching'
<1>1. viewer \in [Viewers -> Connections] /\ \A v \in Viewers : Follows(viewer[v], enc)
  BY DEF IInv, Watching
<1>2. viewer' = [v \in Viewers |-> Received(viewer[v], m.msgs)]
  BY DEF Broadcast
<1>3. CASE m.enc = NoEnc
  <2>1. m.msgs = <<>> /\ enc' = NoEnc
    BY <1>3 DEF Managing
  <2>2. \A v \in Viewers : viewer'[v] = viewer[v]
    BY <1>2, <2>1 DEF Received
  <2>3. viewer' = viewer
    BY <1>1, <1>2, <2>2
  <2> QED BY <2>1, <2>3, WatchingNumber DEF IInv
<1>4. CASE m.enc # NoEnc
  <2>1. PICK told \in BOOLEAN : Says(m.msgs, m.enc.gen, told) /\ (told \/ (enc # NoEnc /\ enc.gen = m.enc.gen))
    BY <1>4 DEF Managing
  <2>2. ASSUME NEW v \in Viewers
        PROVE  Follows(viewer'[v], enc') /\ viewer'[v] \in Connections
    <3>1. Follows(Received(viewer[v], m.msgs), m.enc)
      BY <1>1, <1>4, <2>1, ReceivedFollows
    <3>2. Follows(viewer'[v], m.enc)
      BY <1>2, <3>1
    <3>3. Follows(viewer'[v], enc')
      BY <1>4, <3>2, FollowsNumber
    <3> QED BY <3>3 DEF Follows
  <2>3. viewer' \in [Viewers -> Connections]
    BY <1>2, <2>2
  <2> QED BY <2>2, <2>3 DEF Watching
<1> QED BY <1>3, <1>4

LEMMA TickStep ==
  ASSUME IInv, NEW due \in SUBSET Streams, NEW spawned \in BOOLEAN, NEW maps \in BOOLEAN,
         RenderPreviews(due, spawned, maps)
  PROVE  IInv'
<1> DEFINE m == Managed(spawned)
           p == IF "program" \in due THEN Read("program", maps) ELSE NoFrame
           s == IF "standby" \in due THEN Read("standby", maps) ELSE NoFrame
           e == Fed(m.enc, p)
<1>1. /\ enc' = e /\ seen' = m.seen /\ waiting' = m.waiting
      /\ readback' = [t \in Streams |-> IF t \in due THEN ReadThrough(t) ELSE readback[t]]
      /\ jobs' = Submitted(Submitted(jobs, p, FALSE), s, TRUE)
      /\ Broadcast(m.msgs)
      /\ bounds' = [bounds EXCEPT !.spawns = IF m.enc.gen > @ THEN m.enc.gen ELSE @]
      /\ UNCHANGED <<cfg, pboBroken>>
  BY DEF RenderPreviews
<1>2. Encoding /\ Reading /\ Watching
  BY DEF IInv
<1>3. Managing(m)
  BY <1>2, ManagedFacts
<1>4. cfg \in Settings /\ \A t \in Streams : Holds(readback[t], t)
  BY <1>2 DEF Encoding, Reading
<1>5. /\ p = NoFrame \/ p = Picture(cfg, "program")
      /\ s = NoFrame \/ s = Picture(cfg, "standby")
  BY <1>4, ReadFacts DEF Streams
<1>6. \A t \in Streams : Holds(ReadThrough(t), t)
  BY <1>4, ReadFacts
<1> HIDE DEF m, p, s
<1>7. /\ e = NoEnc \/ (m.enc # NoEnc /\ Launchable(e) /\ e.gen = m.enc.gen)
      /\ m.enc = NoEnc => e = NoEnc
  BY <1>3, <1>4, <1>5, FedLaunchable, FedNothing, EncodersAreThere DEF Managing
<1> HIDE DEF e
<1>8. Encoding'
  <2>1. m.enc.gen \in Nat
    <3>1. NoEnc.gen = 0
      BY DEF NoEnc
    <3> QED BY <1>3, <3>1, EncodersAreThere DEF Managing
  <2>2. bounds' \in Histories
    BY <1>1, <1>2, <2>1 DEF Encoding, Histories
  <2>3. seen' \in 0..Cardinality(Viewers) /\ waiting' \in BOOLEAN /\ (waiting' => enc' = NoEnc)
    BY <1>1, <1>3, <1>7 DEF Managing
  <2>4. cfg' \in Settings /\ (enc' = NoEnc \/ Launchable(enc'))
    BY <1>1, <1>4, <1>7
  <2> QED BY <2>2, <2>3, <2>4 DEF Encoding, Launchable
<1>9. Reading'
  <2>1. readback' \in [Streams -> Channels] /\ \A t \in Streams : Holds(readback'[t], t)
    <3>1. \A t \in Streams : readback'[t] = IF t \in due THEN ReadThrough(t) ELSE readback[t]
      BY <1>1
    <3>2. \A t \in Streams : Holds(readback'[t], t)
      BY <1>4, <1>6, <3>1
    <3>3. \A t \in Streams : readback'[t] \in Channels
      BY <3>2 DEF Holds
    <3>4. readback' = [t \in Streams |-> readback'[t]]
      BY <1>1
    <3> QED BY <3>2, <3>3, <3>4
  <2>2. jobs \in Seq(Jobs) /\ Len(jobs) <= JobCap
    BY <1>2 DEF Reading
  <2> DEFINE q == Submitted(jobs, p, FALSE)
             r == Submitted(q, s, TRUE)
  <2>3. ("program" = "standby") = FALSE /\ ("standby" = "standby") = TRUE
        /\ "program" \in Streams /\ "standby" \in Streams
    BY DEF Streams
  <2>4. q \in Seq(Jobs) /\ Len(q) <= JobCap
    <3>1. Submitted(jobs, p, "program" = "standby") \in Seq(Jobs)
          /\ Len(Submitted(jobs, p, "program" = "standby")) <= JobCap
      BY <1>4, <1>5, <2>2, <2>3, SubmittedFacts
    <3> QED BY <2>3, <3>1
  <2> HIDE DEF q
  <2>5. r \in Seq(Jobs) /\ Len(r) <= JobCap
    <3>1. Submitted(q, s, "standby" = "standby") \in Seq(Jobs)
          /\ Len(Submitted(q, s, "standby" = "standby")) <= JobCap
      BY <1>4, <1>5, <2>3, <2>4, SubmittedFacts
    <3> QED BY <2>3, <3>1
  <2>6. jobs' = r /\ pboBroken' \in BOOLEAN
    BY <1>1, <1>2 DEF q, Reading
  <2> QED BY <2>1, <2>5, <2>6 DEF Reading, Holds
<1>10. Watching'
  BY <1>1, <1>3, <1>7, BroadcastKeeps
<1> QED BY <1>8, <1>9, <1>10 DEF IInv

\* The unit of a frame, if there is room for it.
LEMMA EncodeStep ==
  ASSUME IInv, Encode
  PROVE  IInv'
<1> DEFINE u == [gen |-> enc.gen, key |-> enc.n = 0]
           a == Given(enc.aus, u)
           n == (enc.n + 1) % Gop
           none == <<>>
           e == [enc EXCEPT !.queue = none, !.aus = a, !.n = n]
<1>1. /\ enc # NoEnc /\ Launchable(enc) /\ enc' = e
      /\ UNCHANGED <<cfg, seen, waiting, drawing, viewer, bounds>>
  BY DEF Encode, IInv, Encoding
<1>2. /\ enc.gen \in Nat /\ enc.aus \in Seq(Units) /\ enc.n \in Nat /\ Len(enc.aus) <= AuCap
      /\ \A i \in DOMAIN enc.aus : enc.aus[i].gen = enc.gen
  BY <1>1, EncodersAreThere DEF Launchable
<1>3. u \in Units /\ u.gen = enc.gen
  BY <1>2 DEF Units
<1>4. n \in Nat /\ none \in Backlogs /\ none = <<>>
  BY <1>2, PreviewAssumption DEF Backlogs
<1> HIDE DEF u, n, none
<1>5. a \in Seq(Units) /\ Len(a) <= AuCap /\ \A i \in DOMAIN a : a[i].gen = enc.gen
  <2>1. CASE Len(enc.aus) >= AuCap
    BY <1>2, <2>1 DEF Given
  <2>2. CASE ~(Len(enc.aus) >= AuCap)
    <3>1. a = Append(enc.aus, u)
      BY <2>2 DEF Given
    <3>2. /\ a \in Seq(Units) /\ Len(a) = Len(enc.aus) + 1
          /\ \A i \in DOMAIN a : (i \in DOMAIN enc.aus /\ a[i] = enc.aus[i]) \/ a[i] = u
      BY <1>2, <1>3, <3>1
    <3> QED BY <1>2, <1>3, <2>2, <3>2, PreviewAssumption
  <2> QED BY <2>1, <2>2
<1> HIDE DEF a
<1>6. /\ e \in Encoders /\ e.queue = none /\ e.aus = a /\ e.gen = enc.gen /\ e.cfg = enc.cfg
  BY <1>1, <1>4, <1>5 DEF Launchable, Encoders
<1> HIDE DEF e
<1>7. Launchable(e)
  BY <1>4, <1>5, <1>6 DEF Launchable
<1>8. e # NoEnc
  BY <1>7, EncodersAreThere
<1>9. Encoding'
  BY <1>1, <1>7, <1>8 DEF IInv, Encoding, Launchable
<1>10. Watching'
  BY <1>1, <1>6, WatchingNumber DEF IInv
<1> QED BY <1>1, <1>9, <1>10, ReadingSame DEF IInv

LEMMA DieStep ==
  ASSUME IInv, Die
  PROVE  IInv'
<1> DEFINE e == [enc EXCEPT !.alive = FALSE]
<1>1. /\ enc # NoEnc /\ Launchable(enc) /\ enc' = e
      /\ bounds' = [bounds EXCEPT !.changes = @ + 1]
      /\ UNCHANGED <<cfg, seen, waiting, drawing, viewer>>
  BY DEF Die, IInv, Encoding
<1>2. /\ e \in Encoders /\ e.queue = enc.queue /\ e.aus = enc.aus /\ e.gen = enc.gen /\ e.cfg = enc.cfg
  BY <1>1 DEF Launchable, Encoders
<1> HIDE DEF e
<1>3. Launchable(e)
  BY <1>1, <1>2 DEF Launchable
<1>4. bounds' \in Histories
  BY <1>1 DEF IInv, Encoding, Histories
<1>5. Encoding'
  BY <1>1, <1>3, <1>4 DEF IInv, Encoding, Launchable
<1>6. Watching'
  BY <1>1, <1>2, WatchingNumber DEF IInv
<1> QED BY <1>1, <1>5, <1>6, ReadingSame DEF IInv

\* The other steps of the session and of its threads.
LEMMA SessionStep ==
  ASSUME IInv, Headless \/ RetryElapsed \/ EncodeJpeg \/ SettingsUpdate
  PROVE  IInv'
<1>1. CASE Headless
  <2>1. enc' = NoEnc /\ UNCHANGED <<cfg, seen, waiting, drawing, viewer, bounds>>
    BY <1>1 DEF Headless
  <2>2. Encoding'
    BY <2>1 DEF IInv, Encoding
  <2> QED BY <2>1, <2>2, WatchingNumber, ReadingSame DEF IInv
<1>2. CASE RetryElapsed
  <2>1. waiting' = FALSE /\ UNCHANGED <<cfg, enc, seen, drawing, viewer, bounds>>
    BY <1>2 DEF RetryElapsed
  <2>2. Encoding' /\ Watching'
    BY <2>1 DEF IInv, Encoding, Launchable, Watching
  <2> QED BY <2>1, <2>2, ReadingSame DEF IInv
<1>3. CASE EncodeJpeg
  <2>1. jobs # <<>> /\ jobs' = Tail(jobs) /\ UNCHANGED <<cfg, encoder, readback, pboBroken, viewer, bounds>>
    BY <1>3 DEF EncodeJpeg
  <2>2. jobs' \in Seq(Jobs) /\ Len(jobs') <= JobCap
    BY <2>1, PreviewAssumption DEF IInv, Reading
  <2>3. Encoding' /\ Watching'
    BY <2>1 DEF IInv, Encoding, Launchable, Watching, encoder
  <2>4. Reading'
    BY <2>1, <2>2 DEF IInv, Reading
  <2> QED BY <2>3, <2>4 DEF IInv
<1>4. CASE SettingsUpdate
  <2>1. cfg' \in Settings /\ bounds' = [bounds EXCEPT !.changes = @ + 1]
        /\ UNCHANGED <<encoder, drawing, viewer>>
    BY <1>4 DEF SettingsUpdate
  <2>2. bounds' \in Histories
    BY <2>1 DEF IInv, Encoding, Histories
  <2>3. Encoding' /\ Watching'
    BY <2>1, <2>2 DEF IInv, Encoding, Launchable, Watching, encoder
  <2> QED BY <2>1, <2>3, ReadingSame DEF IInv
<1> QED BY <1>1, <1>2, <1>3, <1>4

LEMMA InvInit == Init => IInv
<1> SUFFICES ASSUME Init PROVE IInv
  OBVIOUS
<1> DEFINE none == <<>>
<1>1. none \in Seq(Jobs) /\ Len(none) = 0
  OBVIOUS
<1>2. Encoding
  <2>1. Cardinality(Viewers) \in Nat
    BY PreviewAssumption, FS_CardinalityType
  <2>2. bounds \in Histories
    BY DEF Init, Histories
  <2>3. ~waiting /\ waiting \in BOOLEAN /\ seen = 0 /\ enc = NoEnc /\ cfg \in Settings
    BY PreviewAssumption DEF Init
  <2> QED BY <2>1, <2>2, <2>3 DEF Encoding
<1>3. Reading
  <2>1. NoChannel \in Channels /\ NoChannel.last = NoFrame
    BY DEF NoChannel, Channels, Dims
  <2>2. readback \in [Streams -> Channels] /\ \A s \in Streams : Holds(readback[s], s)
    BY <2>1 DEF Init, Holds
  <2>3. jobs = none /\ pboBroken \in BOOLEAN
    BY DEF Init
  <2> HIDE DEF none
  <2> QED BY <1>1, <2>2, <2>3, PreviewAssumption DEF Reading
<1>4. Watching
  <2>1. Closed \in Connections /\ Closed.inbox = <<>> /\ Closed.gen = 0
    BY DEF Closed, Connections
  <2>2. viewer = [v \in Viewers |-> Closed] /\ Follows(Closed, enc)
    BY <2>1, FollowsEmpty DEF Init
  <2> QED BY <2>1, <2>2 DEF Watching
<1> QED BY <1>2, <1>3, <1>4 DEF IInv

LEMMA InvStep == IInv /\ [Next]_vars => IInv'
<1> SUFFICES ASSUME IInv, [Next]_vars PROVE IInv'
  OBVIOUS
<1>1. CASE Tick
  BY <1>1, TickStep DEF Tick
<1>2. CASE Encode
  BY <1>2, EncodeStep
<1>3. CASE Die
  BY <1>3, DieStep
<1>4. CASE Headless \/ RetryElapsed \/ EncodeJpeg \/ SettingsUpdate
  BY <1>4, SessionStep
<1>5. CASE \E v \in Viewers : Subscribe(v) \/ Count(v) \/ Relay(v) \/ Watchdog(v) \/ Leave(v) \/ Drop(v)
  BY <1>5, ConnectionStep
<1>6. CASE UNCHANGED vars
  <2>1. UNCHANGED <<cfg, enc, seen, waiting, readback, pboBroken, jobs, viewer, bounds>>
    BY <1>6 DEF vars
  <2> QED BY <2>1 DEF IInv, Encoding, Launchable, Reading, Holds, Watching
<1> QED BY <1>1, <1>2, <1>3, <1>4, <1>5, <1>6 DEF Next

\* Every queue is bounded, the encoder is only ever fed pictures of its own
\* size and of the program, and each picture goes to the viewers of its
\* stream, whatever is edited between a drawing and its reading
\* (manage_h264, read_preview_rgba_async, feed_h264).
THEOREM FramesGoWhereTheyFit == Spec => []PreviewInvariant
<1>1. IInv => PreviewInvariant
  <2> SUFFICES ASSUME IInv PROVE PreviewInvariant
    OBVIOUS
  <2> USE DEF IInv, Encoding, Reading, Watching
  <2>1. ASSUME enc # NoEnc
        PROVE  enc.cfg \in Settings /\ Len(enc.queue) <= 1 /\ Len(enc.aus) <= AuCap
               /\ \A i \in DOMAIN enc.queue : enc.queue[i] = [dims |-> enc.cfg.dims, stream |-> "program"]
    <3>1. Launchable(enc)
      BY <2>1
    <3>2. CASE enc.queue = <<>>
      BY <3>1, <3>2, EncodersAreThere DEF Launchable
    <3>3. CASE enc.queue = <<Picture(enc.cfg, "program")>>
      BY <3>1, <3>3, EncodersAreThere DEF Launchable, Picture
    <3> QED BY <3>1, <3>2, <3>3 DEF Launchable
  <2>2. PreviewTypeOK
    BY <2>1 DEF PreviewTypeOK, Follows
  <2>3. ASSUME NEW i \in DOMAIN jobs
        PROVE  jobs[i].standby <=> jobs[i].frame.stream = "standby"
    <3>1. jobs[i] \in Jobs
      OBVIOUS
    <3>2. PICK c \in Settings, s \in Streams : jobs[i] = [frame |-> Picture(c, s), standby |-> (s = "standby")]
      BY <3>1 DEF Jobs
    <3> DEFINE p == Picture(c, s)
               b == (s = "standby")
    <3>3. p.stream = s /\ jobs[i] = [frame |-> p, standby |-> b]
      BY <3>2 DEF Picture
    <3>4. b <=> s = "standby"
      OBVIOUS
    <3> HIDE DEF p, b
    <3>5. jobs[i].frame = p /\ jobs[i].standby = b
      BY <3>3
    <3> QED BY <3>3, <3>4, <3>5, Zenon
  <2> QED BY <2>1, <2>2, <2>3 DEF PreviewInvariant, FramesFit
<1> QED BY <1>1, InvInit, InvStep, PTL DEF Spec

\* The last configuration before a message, if there is one.
LEMMA LastConfig ==
  ASSUME NEW n \in Nat, NEW I \in SUBSET (1..n), I # {}
  PROVE  \E j \in I : \A k \in I : k <= j
<1> DEFINE Gaps == {g \in 0..n : n - g \in I}
<1>1. PICK i \in I : TRUE
  OBVIOUS
<1>2. n - i \in 0..n /\ n - (n - i) = i
  BY <1>1
<1>3. Gaps \in SUBSET Nat /\ Gaps # {}
  <2>1. n - i \in Gaps
    BY <1>1, <1>2
  <2>2. \A g \in Gaps : g \in Nat
    OBVIOUS
  <2> QED BY <2>1, <2>2
<1>4. PICK g \in Gaps : \A h \in Gaps : g <= h
  <2> HIDE DEF Gaps
  <2>1. PICK x \in Gaps : \A y \in Gaps : ~(<<y, x>> \in OpToRel(<, Nat))
    BY <1>3, NatLessThanWellFounded, WFMin
  <2>2. \A y \in Gaps : ~(y < x)
    BY <1>3, <2>1 DEF OpToRel
  <2> QED BY <1>3, <2>2
<1>5. ASSUME NEW k \in I PROVE k <= n - g
  <2>1. n - k \in 0..n /\ n - (n - k) = k
    OBVIOUS
  <2>2. g <= n - k
    BY <1>4, <2>1
  <2> QED BY <2>1, <2>2
<1> QED BY <1>4, <1>5

\* What fits is what Before() finds.
LEMMA FitsIsBefore ==
  ASSUME NEW c \in Connections, NEW i \in DOMAIN c.inbox, NEW g, Fits(c.inbox, c.gen, i, g)
  PROVE  Before(c, i) \in {0, g}
<1> DEFINE I == {j \in 1..(i - 1) : c.inbox[j].is = "config"}
           Latest(j) == \A k \in I : k <= j
<1>1. i \in Nat /\ i - 1 \in Nat
  BY DEF Connections
<1>2. CASE I = {}
  <2>1. Before(c, i) = c.gen
    BY <1>2 DEF Before
  <2>2. \A j \in 1..(i - 1) : c.inbox[j].is # "config"
    BY <1>2
  <2> QED BY <2>1, <2>2 DEF Fits
<1>3. CASE I # {}
  <2> DEFINE j == CHOOSE x \in I : Latest(x)
  <2>1. Before(c, i) = c.inbox[j].gen
    BY <1>3 DEF Before
  <2>2. \E x \in I : Latest(x)
    BY <1>1, <1>3, LastConfig
  <2>3. j \in I /\ Latest(j)
    BY <2>2
  <2> HIDE DEF j
  <2>4. j \in 1..(i - 1) /\ c.inbox[j].is = "config"
    BY <2>3
  <2>5. \A k \in (j + 1)..(i - 1) : c.inbox[k].is # "config"
    <3>1. \A k \in (j + 1)..(i - 1) : k \in 1..(i - 1) /\ ~(k <= j)
      BY <1>1, <2>4
    <3> QED BY <2>3, <3>1
  <2> QED BY <2>1, <2>4, <2>5 DEF Fits
<1> QED BY <1>2, <1>3

\* A connection that lost nothing relays no unit under the configuration of
\* another encoder, at every restart of ffmpeg and however late a monitor
\* joins: an encoder is announced to all when it is launched, and to those
\* that come when they are more (manage_h264, handle_h264).
THEOREM UnitsAreAnnounced == Spec => []UnderItsConfig
<1>1. IInv => UnderItsConfig
  BY FitsIsBefore DEF IInv, Watching, Follows, UnitsFit, UnderItsConfig
<1> QED BY <1>1, InvInit, InvStep, PTL DEF Spec

================================================================================
