----------------------------- MODULE Modulation -----------------------------
(***************************************************************************)
(* The modulators (crates/modulation/src/lib.rs), as operators on an       *)
(* engine [mods, routes]: what each modulator has accumulated, and the     *)
(* routes from a modulator to a parameter.                                 *)
(*                                                                         *)
(* Time is counted in quarters of the cycle of a 1 Hz oscillator, a phase  *)
(* in steps of a cycle; the wave is a table (the two noises are left out). *)
(* The spectrum is a function from the bins to their magnitudes; decays    *)
(* and envelopes go a fraction of the way at each step of time.            *)
(***************************************************************************)
EXTENDS Integers, Sequences, SequencesExt, FiniteSetsExt, Functions

CONSTANTS
  One,        \* 1.0
  Cycle       \* steps of a phase in one cycle

\* The tables of eval_wave, for the phases of a cycle cut in four.
Wave == [sine   |-> <<0, One, 0, -One>>,
         tri    |-> <<0, One, 0, -One>>,
         square |-> <<One, One, -One, -One>>,
         saw    |-> <<-One, -(One \div 2), 0, One \div 2>>]

\* fresh_state.
FreshState(cfg) ==
  [phase |-> IF cfg.type = "lfo" THEN cfg.phase % Cycle ELSE 0, env |-> 0, agc |-> 0, value |-> 0]

\* Mutant of load: every oscillator starts again.
Carried_Restarted(engine, id, cfg) == FreshState(cfg)

\* load: the phase and the envelope of a modulator of the same kind are kept.
Carried(engine, id, cfg) ==
  IF id \in DOMAIN engine.mods /\ engine.mods[id].cfg.type = cfg.type
  THEN [engine.mods[id].state EXCEPT !.value = 0] ELSE FreshState(cfg)

\* load: the routes start again from the depths of the show, all enabled.
Loaded(engine, cfgs, routes) ==
  [mods   |-> [id \in DOMAIN cfgs |-> [cfg |-> cfgs[id], state |-> Carried(engine, id, cfgs[id])]],
   routes |-> [r \in DOMAIN routes |->
                 [route |-> routes[r], depth |-> routes[r].depth, enabled |-> TRUE]]]

NoEngine == [mods |-> <<>>, routes |-> <<>>]

\* retrigger: on each GO the oscillators go back to their configured phase.
Retriggered(engine) ==
  [engine EXCEPT !.mods = [id \in DOMAIN @ |-> LET m == @[id] IN
     IF m.cfg.type = "lfo" THEN [m EXCEPT !.state.phase = m.cfg.phase % Cycle] ELSE m]]

\* apply_route_states: the states of the routes a cue carries.
RoutesApplied(engine, states) ==
  [engine EXCEPT !.routes = [r \in DOMAIN @ |->
     IF r \in DOMAIN states
     THEN [@[r] EXCEPT !.depth = states[r].depth, !.enabled = states[r].enabled] ELSE @[r]]]

DepthSet(engine, ids, depth) ==
  [engine EXCEPT !.routes = [r \in DOMAIN @ |->
     IF r \in ids THEN [@[r] EXCEPT !.depth = depth] ELSE @[r]]]

\* resolve_freq: fixed, or a number of cycles per beat.
Freq(cfg, bpm) == IF cfg.sync THEN bpm * cfg.freq ELSE cfg.freq

\* band_raw: the bins of the band, both ends included.
BandRaw(spectrum, low, high) ==
  FoldSet(LAMBDA bin, sum : sum + spectrum[bin], 0, DOMAIN spectrum \cap (low..high))

\* agc_normalize: the maximum slides down slowly and goes up at once; a
\* maximum that is silence gives 0.
AgcTau == 4          \* AGC_TAU_S, in steps of time
AgcSilence == 0      \* AGC_SILENCE
Agc(agc, raw, dt) == LET slid == agc - (agc * dt) \div AgcTau IN IF raw > slid THEN raw ELSE slid
Normalized(agc, raw) == IF agc <= AgcSilence THEN 0 ELSE (raw * One) \div agc

\* The target of the envelope, and a step of envelope_step towards it.
Loudness(cfg, level) ==
  LET above == IF level > cfg.floor THEN (level - cfg.floor) * cfg.gain ELSE 0
  IN  IF above > One THEN One ELSE above
Followed(env, target, cfg, dt) ==
  LET gain == IF target > env THEN cfg.attack ELSE cfg.release
  IN  IF dt = 0 /\ gain < One THEN env ELSE env + ((target - env) * gain) \div One

\* One modulator over a time step: the phase is accumulated, never computed
\* from the time.
Advanced(m, dt, bpm, spectrum) ==
  LET cfg == m.cfg
      phase == (m.state.phase + Freq(cfg, bpm) * dt) % Cycle
      raw == BandRaw(spectrum, cfg.low, cfg.high)
      agc == IF cfg.normalize THEN Agc(m.state.agc, raw, dt) ELSE m.state.agc
      level == IF cfg.normalize THEN Normalized(agc, raw) ELSE raw
      env == Followed(m.state.env, Loudness(cfg, level), cfg, dt)
  IN  CASE cfg.type = "lfo" ->
             [m EXCEPT !.state.phase = phase,
                       !.state.value = Wave[cfg.wave][1 + (phase * 4) \div Cycle]]
        [] cfg.type = "band" -> [m EXCEPT !.state.agc = agc, !.state.env = env, !.state.value = env]
        [] cfg.type = "timecode" -> [m EXCEPT !.state.value = 0]

Evaluated(engine, dt, bpm, spectrum) ==
  [engine EXCEPT !.mods = [id \in DOMAIN @ |-> Advanced(@[id], dt, bpm, spectrum)]]

Live(engine) ==
  {r \in DOMAIN engine.routes :
     engine.routes[r].enabled /\ engine.routes[r].route.source \in DOMAIN engine.mods}

\* The offsets by address: the enabled routes, in the order of the show.
Aggregated(acc, signal, depth, mode) ==
  CASE mode = "add"     -> acc + (signal * depth) \div One
    [] mode = "mul"     -> (acc * (One - depth + (signal * depth) \div One)) \div One
    [] mode = "replace" -> (signal * depth) \div One

Offsets(engine) ==
  LET targets == {engine.routes[r].route.target : r \in Live(engine)}
      to(a) == {r \in Live(engine) : engine.routes[r].route.target = a}
      Add(r, acc) == Aggregated(acc, engine.mods[engine.routes[r].route.source].state.value,
                                engine.routes[r].depth, engine.routes[r].route.mode)
  IN  [a \in targets |-> MapThenFoldSet(Add, 0, LAMBDA r : r, Max, to(a))]

----------------------------------------------------------------------------
(* Tap tempo (crates/modulation/src/tap.rs), on [last, gaps]: the time of   *)
(* the last tap, {} before the first, and the last gaps between two.        *)

ResetGap == 20       \* RESET_GAP_S, in tenths of a second
MaxGaps == 7         \* MAX_INTERVALS
MinGaps == 3         \* MIN_INTERVALS

NoTap == [last |-> {}, gaps |-> <<>>]

Tapped(tap, now) ==
  LET gap == now - (CHOOSE t \in tap.last : TRUE)
      room == IF Len(tap.gaps) = MaxGaps THEN Tail(tap.gaps) ELSE tap.gaps
  IN  [last |-> {now},
       gaps |-> IF tap.last = {} THEN tap.gaps
                ELSE IF gap <= 0 \/ gap > ResetGap THEN <<>> ELSE Append(room, gap)]

\* Twice the median of the gaps, {} when there are too few; the tempo is 60
\* divided by the median, so none either when the median is 0.
Median2(tap) ==
  LET sorted == SortSeq(tap.gaps, <)  n == Len(sorted)
      twice == IF n % 2 = 1 THEN 2 * sorted[(n + 1) \div 2]
               ELSE sorted[n \div 2] + sorted[n \div 2 + 1]
  IN  IF n < MinGaps THEN {} ELSE {twice} \ {0}
=============================================================================
