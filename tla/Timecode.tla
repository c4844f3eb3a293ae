-------------------------------- MODULE Timecode --------------------------------
(***************************************************************************)
(* MIDI timecode, from the pieces of the cable to the time the session     *)
(* gives to the cues (crates/control-midi/src/mtc.rs, core/src/timecode.rs,*)
(* Session::update_timecode): the assembler of quarter frames on the       *)
(* thread of the MIDI port, the bounded channel, the clock that runs on    *)
(* between two messages and for a while after the last one.                *)
(*                                                                         *)
(* A time is a number of frames, modulo a day; the unit of time is the     *)
(* quarter of a frame, the interval between two pieces.  A piece carries   *)
(* the group it belongs to, or Noise when its bits give no time.           *)
(***************************************************************************)
EXTENDS Integers, Sequences

CONSTANTS
  Rates,        \* rates of the source
  Groups,       \* groups of eight pieces in a day: a group is two frames
  Freewheel,    \* FREEWHEEL_S
  ChannelCap,   \* MTC_CAP
  Late,         \* bound: time between two ticks of the session
  Spots,        \* bound: groups the transport goes to
  MaxMoves,     \* bound: moves of the transport, pieces lost or spoilt
  MaxTime       \* bound

ASSUME TimecodeAssumption ==
  /\ {Groups, Freewheel, ChannelCap, Late} \subseteq Nat \ {0} /\ {MaxMoves, MaxTime} \subseteq Nat
  /\ Rates # {}
  /\ Freewheel >= 7   \* it outlasts the pieces between two times
  /\ Spots \subseteq 0..(Groups - 1)

----------------------------------------------------------------------------
(* Times of day: [h, m, s, f] at a nominal rate; in drop frame the frames  *)
(* 0 and 1 of a minute do not exist, but every tenth minute.               *)

TotalMinutes(t) == 60 * t.h + t.m
ToFrames(t, fps, drop) ==
  (60 * TotalMinutes(t) + t.s) * fps + t.f
    - (IF drop THEN 2 * (TotalMinutes(t) - TotalMinutes(t) \div 10) ELSE 0)

FramesPerDay(fps, drop) == IF drop THEN 2589408 ELSE 86400 * fps

FromFrames(frames, fps, drop) ==
  LET n == frames % FramesPerDay(fps, drop)
      m == n % 17982
      extra == IF m > 1 THEN 2 * ((m - 2) \div 1798) ELSE 0
      k == IF drop THEN n + 18 * (n \div 17982) + extra ELSE n
  IN  [h |-> k \div (fps * 3600), m |-> (k \div (fps * 60)) % 60, s |-> (k \div fps) % 60, f |-> k % fps]

IsValid(t, fps, drop) ==
  /\ t.h < 24 /\ t.m < 60 /\ t.s < 60 /\ t.f < fps
  /\ ~(drop /\ t.s = 0 /\ t.f < 2 /\ t.m % 10 # 0)

\* A number of frames gives a label that exists, and comes back from it:
\* where labels are dropped, at the hours and at midnight.
ASSUME LabelsComeBack ==
  \A rate \in {<<24, FALSE>>, <<25, FALSE>>, <<30, FALSE>>, <<30, TRUE>>} :
    LET day == FramesPerDay(rate[1], rate[2])
    IN  \A n \in (0..4000) \cup (17970..18010) \cup (107880..107920) \cup ((day - 40)..(day + 40)) :
          LET t == FromFrames(n, rate[1], rate[2])
          IN  IsValid(t, rate[1], rate[2]) /\ ToFrames(t, rate[1], rate[2]) = n % day

----------------------------------------------------------------------------
(* The assembler (MtcAssembler).                                           *)

Pieces == 0..7
Noise == -1     \* no time
Mixed == -2     \* a time made of the pieces of two groups
Day == 2 * Groups
AddFrames(t, delta) == IF t = Mixed THEN Mixed ELSE (t + delta) % Day

NoPiece == [group |-> Noise, rate |-> CHOOSE r \in Rates : TRUE]
NewAssembler ==
  [data |-> [p \in Pieces |-> NoPiece], mask |-> {}, prev |-> {}, forward |-> TRUE, locked |-> FALSE, rate |-> {}]

\* Mutant: the time is the one that was sent when the group began.
MtcAssembled_Begun(a, sane) ==
  LET rate == a.data[7].rate
      newly == ~a.locked \/ a.rate # {rate}
  IN  IF \E p \in Pieces : a.data[p].group = Noise
      THEN [asm |-> [a EXCEPT !.locked = FALSE, !.mask = {}], out |-> <<>>]
      ELSE [asm |-> [a EXCEPT !.locked = TRUE, !.rate = {rate}],
            out |-> <<IF newly THEN [type |-> "locked", rate |-> rate]
                      ELSE [type |-> "time", time |-> 2 * a.data[0].group]>>]

\* assemble: a full group; the transport is two frames further when it goes
\* forward.  sane: the pieces of two groups give a time that exists.
MtcAssembled(a, sane) ==
  LET rate == a.data[7].rate
      begun == IF \A p \in Pieces : a.data[p] = a.data[0] THEN 2 * a.data[0].group ELSE Mixed
      time == IF a.forward THEN AddFrames(begun, 2) ELSE begun
      newly == ~a.locked \/ a.rate # {rate}
  IN  IF (begun = Mixed /\ ~sane) \/ \E p \in Pieces : a.data[p].group = Noise
      THEN [asm |-> [a EXCEPT !.locked = FALSE, !.mask = {}], out |-> <<>>]
      ELSE [asm |-> [a EXCEPT !.locked = TRUE, !.rate = {rate}],
            out |-> <<IF newly THEN [type |-> "locked", rate |-> rate]
                      ELSE [type |-> "time", time |-> time]>>]

\* Mutant: a group does not start anew at its first piece.
QuarterFrame_Kept(a, p, piece, sane) ==
  LET next(q) == \E x \in a.prev : q = (x + 1) % 8
      back(q) == \E x \in a.prev : q = (x + 7) % 8
      forward == IF next(p) THEN TRUE ELSE IF back(p) THEN FALSE ELSE a.forward
      b == [a EXCEPT !.data[p] = piece, !.prev = {p}, !.forward = forward,
                     !.mask = (IF forward # a.forward THEN {} ELSE @) \cup {p}]
  IN  IF b.mask = Pieces /\ p = (IF forward THEN 7 ELSE 0) THEN MtcAssembled(b, sane)
      ELSE [asm |-> b, out |-> <<>>]

\* quarter_frame: a piece that is not a neighbour of the last one breaks the
\* sequence; a group starts anew at its first piece and at a change of direction.
QuarterFrame(a, p, piece, sane) ==
  LET next(q) == \E x \in a.prev : q = (x + 1) % 8
      back(q) == \E x \in a.prev : q = (x + 7) % 8
      broken == a.prev # {} /\ ~next(p) /\ ~back(p)
      forward == IF next(p) THEN TRUE ELSE IF back(p) THEN FALSE ELSE a.forward
      kept == IF broken \/ forward # a.forward \/ p = (IF forward THEN 0 ELSE 7) THEN {} ELSE a.mask
      b == [a EXCEPT !.data[p] = piece, !.mask = kept \cup {p}, !.prev = {p},
                     !.forward = forward, !.locked = @ /\ ~broken]
  IN  IF broken /\ a.locked THEN [asm |-> b, out |-> <<[type |-> "lost"]>>]
      ELSE IF b.mask = Pieces /\ p = (IF forward THEN 7 ELSE 0) THEN MtcAssembled(b, sane)
      ELSE [asm |-> b, out |-> <<>>]

\* full_frame: a position at rest.
FullFrame(a, time, rate) ==
  IF time = Noise THEN [asm |-> a, out |-> <<>>]
  ELSE [asm |-> [a EXCEPT !.mask = {}, !.prev = {}, !.locked = FALSE, !.rate = {rate}],
        out |-> <<[type |-> "full", time |-> time]>>]

----------------------------------------------------------------------------
(* The clock (MtcClock): base is {} before the first position.             *)

NewClock == [rate |-> {}, base |-> {}, signal |-> {}]

Alive(c, now) == \E s \in c.signal : now - s <= Freewheel

\* current: {} , or the time and whether the signal is there.
Current(c, now) ==
  {[time |-> IF ~b.running THEN b.time
             ELSE LET until == IF Alive(c, now) THEN now ELSE (CHOOSE s \in c.signal : TRUE) + Freewheel
                      elapsed == IF until > b.at THEN until - b.at ELSE 0
                  IN  AddFrames(b.time, elapsed \div 4),
    locked |-> Alive(c, now)] : b \in c.base}

\* Mutant: the clock takes the signal back without a look at the time that passed.
Fed_Jumps(c, e, now) ==
  CASE e.type = "locked" -> [c EXCEPT !.rate = {e.rate}, !.signal = {now}]
    [] e.type = "time" -> [c EXCEPT !.base = {[time |-> e.time, at |-> now, running |-> TRUE]}, !.signal = {now}]
    [] e.type = "full" -> [c EXCEPT !.base = {[time |-> e.time, at |-> now, running |-> FALSE]}, !.signal = {now}]
    [] OTHER -> c

\* feed: a lock after the freewheel freezes the time where it stopped.
Fed(c, e, now) ==
  LET still == {t \in Current(c, now) : ~t.locked}
  IN  CASE e.type = "locked" ->
             [rate |-> {e.rate}, signal |-> {now},
              base |-> IF still = {} THEN c.base
                       ELSE {[time |-> t.time, at |-> now, running |-> FALSE] : t \in still}]
        [] e.type = "time" -> [c EXCEPT !.base = {[time |-> e.time, at |-> now, running |-> TRUE]}, !.signal = {now}]
        [] e.type = "full" -> [c EXCEPT !.base = {[time |-> e.time, at |-> now, running |-> FALSE]}, !.signal = {now}]
        [] OTHER -> c

\* drain_mtc: what waits in the channel goes to the clock.
Drained(c, events, now) ==
  LET fed[n \in 0..Len(events)] == IF n = 0 THEN c ELSE Fed(fed[n - 1], events[n], now)
  IN  fed[Len(events)]

----------------------------------------------------------------------------
VARIABLES
  source,   \* the transport: its position in quarter frames, direction and rate
  steady,   \* for how long it has played forward with nothing lost
  unheard,  \* it has moved since the last piece that was heard
  slipped,  \* a piece of the group that is being collected came after such a move
  asm, chan, clock,
  shown,    \* what the session tells the cues, the time, the lock, and its time
  now, ticked, moves

mtcVars == <<source, steady, unheard, slipped, asm, chan, clock, shown, now, ticked, moves>>

Capped(n) == IF n > 3 * 8 THEN 3 * 8 ELSE n
\* Mutant: the channel has no bound.
TrySent_Unbounded(chn, out) == chn \o out

\* try_send: what a full channel cannot take is lost.
TrySent(chn, out) == IF Len(chn) < ChannelCap THEN chn \o out ELSE chn
Moves == moves < MaxMoves /\ moves' = moves + 1

\* The number of a piece goes on with the group that is being collected.
GoesOn(p) == \E x \in asm.prev : IF asm.forward THEN p = x + 1 ELSE p = x - 1

\* The piece p is heard, and r is what the assembler makes of it.
Hear(p, r) ==
  /\ asm' = r.asm /\ chan' = TrySent(chan, r.out)
  /\ slipped' = (GoesOn(p) /\ (slipped \/ unheard)) /\ unheard' = FALSE

\* The transport sends the next piece, or it is lost or spoilt.
Play ==
  /\ source.dir # 0 /\ now < MaxTime /\ ticked < Late
  /\ now' = now + 1 /\ ticked' = ticked + 1
  /\ LET pos == (source.pos + source.dir) % (8 * Groups)
         heard(g, sane) == QuarterFrame(asm, pos % 8, [group |-> g, rate |-> source.rate], sane)
     IN  /\ source' = [source EXCEPT !.pos = pos]
         /\ \/ /\ \E sane \in BOOLEAN :
                    LET r == heard(pos \div 8, sane)
                    IN  /\ Hear(pos % 8, r)
                        /\ steady' = IF source.dir = 1 /\ (r.out = <<>> \/ Len(chan) < ChannelCap)
                                     THEN Capped(steady + 1) ELSE 0
               /\ UNCHANGED moves
            \/ Moves /\ steady' = 0 /\ Hear(pos % 8, heard(Noise, FALSE))
            \/ Moves /\ steady' = 0 /\ unheard' = TRUE /\ UNCHANGED <<asm, chan, slipped>>
  /\ UNCHANGED <<clock, shown>>

Silence ==
  /\ source.dir = 0 /\ now < MaxTime /\ ticked < Late
  /\ now' = now + 1 /\ ticked' = ticked + 1
  /\ UNCHANGED <<source, steady, unheard, slipped, asm, chan, clock, shown, moves>>

\* The transport stops, starts, turns; one that starts again may begin its
\* group again.
Turn(dir) ==
  /\ dir # source.dir /\ Moves /\ steady' = 0
  /\ \E pos \in {source.pos} \cup {(8 * (source.pos \div 8) - 1) % (8 * Groups) : d \in {0} \cap {source.dir}} :
       /\ source' = [source EXCEPT !.dir = dir, !.pos = pos]
       /\ unheard' = (unheard \/ pos # source.pos)
  /\ UNCHANGED <<slipped, asm, chan, clock, shown, now, ticked>>

\* It goes elsewhere, at rest or not, and says so.
Locate(group, rate) ==
  /\ Moves /\ steady' = 0
  /\ source' = [source EXCEPT !.pos = (8 * group - 1) % (8 * Groups), !.rate = rate]
  /\ \E time \in {2 * group, Noise} :
       LET r == FullFrame(asm, time, rate) IN asm' = r.asm /\ chan' = TrySent(chan, r.out)
  /\ unheard' = TRUE
  /\ UNCHANGED <<slipped, clock, shown, now, ticked>>

\* The tick of the session: the channel into the clock, and what the cues and
\* the pages are told (update_timecode).
Tick ==
  /\ ticked' = 0 /\ chan' = <<>>
  /\ clock' = Drained(clock, chan, now)
  /\ shown' = {[time |-> t.time, locked |-> t.locked, at |-> now] : t \in Current(clock', now)}
  /\ UNCHANGED <<source, steady, unheard, slipped, asm, now, moves>>

MtcInit ==
  /\ source = [pos |-> 8 * Groups - 1, dir |-> 1, rate |-> CHOOSE r \in Rates : TRUE]
  /\ steady = 0 /\ unheard = FALSE /\ slipped = FALSE /\ asm = NewAssembler /\ chan = <<>> /\ clock = NewClock /\ shown = {}
  /\ now = 0 /\ ticked = 0 /\ moves = 0

MtcNext ==
  \/ Play \/ Silence \/ Tick
  \/ \E dir \in {-1, 0, 1} : Turn(dir)
  \/ \E g \in Spots, r \in Rates : Locate(g, r)

MtcSpec == MtcInit /\ [][MtcNext]_mtcVars

----------------------------------------------------------------------------
Times == 0..(Day - 1) \cup {Mixed}

TimecodeTypeOK ==
  /\ source.pos \in 0..(8 * Groups - 1) /\ source.dir \in {-1, 0, 1} /\ source.rate \in Rates
  /\ asm.mask \subseteq Pieces /\ asm.prev \subseteq Pieces /\ asm.rate \cup clock.rate \subseteq Rates
  /\ Len(chan) <= ChannelCap
  /\ \A b \in clock.base : b.time \in Times /\ b.at <= now /\ clock.signal # {}
  /\ \A t \in shown : t.time \in Times

\* The position of the transport when the last piece was sent.
Position == IF source.dir = 1 THEN ((source.pos + 1) \div 4) % Day ELSE source.pos \div 4

\* A time that comes out of the assembler is that of the group the transport
\* is in: spoilt pieces make no time, and pieces of two groups only when the
\* transport moved unheard between them, and came back to a piece whose
\* number goes on from the last one (MtcAssembler::quarter_frame).
AssembledWasSent ==
  [][LET begun == 2 * (source'.pos \div 8)
     IN  \A i \in DOMAIN chan' : i > Len(chan) /\ chan'[i].type = "time" =>
           chan'[i].time \in {begun, AddFrames(begun, 2)} \/ slipped']_mtcVars

\* When the transport has played for three groups with nothing lost, the cues
\* are told its time, at most one frame late (MtcClock::current).
TracksSource ==
  steady = 24 /\ ticked = 0 =>
    \E t \in shown : t.locked /\ (Position - t.time) % Day \in {0, 1}

\* After the freewheel the time is frozen: it only moves again with a position
\* received, never with the time the silence lasted (MtcClock::feed).
FrozenUntilPosition ==
  [][\A s \in shown, t \in shown' :
       ~s.locked /\ t.time # s.time => \E i \in DOMAIN chan : chan[i].type \in {"time", "full"}]_mtcVars

\* The assembler, the channel and the clock are well formed, and a clock that
\* claims to be locked shows the position of the transport.
TimecodeInvariant == TimecodeTypeOK /\ TracksSource
=============================================================================
