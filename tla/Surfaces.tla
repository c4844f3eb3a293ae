------------------------------- MODULE Surfaces -------------------------------
(***************************************************************************)
(* A MIDI surface on the wire, and the parameters of the show it plays     *)
(* with.  Five threads:                                                    *)
(*   - the callback of the operating system, which hands a message to the  *)
(*     engine under its lock and sends what comes out after unlocking;     *)
(*   - the supervisor of the hub, which takes the orders of the session,   *)
(*     sends what waited too long, and watches the ports;                  *)
(*   - the bridge, which waits for room on the bus of commands;            *)
(*   - the other surfaces (web, OSC), which put commands on the same bus;  *)
(*   - the session, which drains the bus and then plays one frame: the     *)
(*     fade of the cue, the modulation, the smoothing.                     *)
(*                                                                         *)
(* The engine of cues is its own model (CueEngine); here it is the fade of *)
(* the parameters it asks for, at an alpha that only grows, and the last   *)
(* frame at 1.0 when it is over or cut short: by another GO, by an edit of *)
(* the cues.  An undo, a redo or a load drops it where it is.              *)
(***************************************************************************)
EXTENDS MidiEngine, Registry, FiniteSets

CONSTANTS
  Cycle,        \* steps of a phase in one cycle
  Shows,        \* versions of the show an edit may lead to, the first is loaded
  Positions,    \* positions the 14-bit fader is moved to
  Orders,       \* commands the other surfaces may send
  Alphas,       \* alphas of a fade a frame may see
  MaxInputs,    \* bound: moves of the fader, notes, unpluggings, commands
  EventsCap,    \* EVENTS_CAP
  BusCap,       \* capacity of the bus of commands
  Budget        \* CMD_BUDGET_PER_TICK

ASSUME SurfacesAssumption ==
  /\ Cycle \in Nat \ {0} /\ Positions \subseteq 0..Fine
  /\ One \in Alphas /\ Alphas \subseteq 1..One
  /\ {EventsCap, BusCap, Budget} \subseteq Nat \ {0}

Mod == INSTANCE Modulation

\* A show gives an address, and a patch, to a parameter once; its routes are
\* numbered, its cues carry values and the states of routes.
Specified(specs) ==
  /\ \A s \in specs : s.kind \in Kinds /\ s.default \in Values /\ s.smoothing \in Nat
  /\ \A s, t \in specs : s.addr = t.addr => s = t
Overrides(patch) ==
  /\ \A o \in patch : o.ms \in Nat
  /\ \A o, q \in patch : o.addr = q.addr => o = q
Modulating(cfg) ==
  \/ /\ cfg.type = "lfo" /\ cfg.wave \in DOMAIN Mod!Wave
     /\ {cfg.phase, cfg.freq} \subseteq Int /\ cfg.sync \in BOOLEAN
  \/ /\ cfg.type = "band" /\ cfg.normalize \in BOOLEAN
     /\ {cfg.low, cfg.high, cfg.floor, cfg.gain, cfg.attack, cfg.release} \subseteq Int
  \/ cfg.type = "timecode"
Routed(r) == r.depth \in Int /\ r.mode \in {"add", "mul", "replace"}
Carries(cue) ==
  /\ cue.params \in [DOMAIN cue.params -> Values]
  /\ \A r \in DOMAIN cue.routes : cue.routes[r].depth \in Int /\ cue.routes[r].enabled \in BOOLEAN
Obeyed(cmd) ==
  \/ cmd.op = "set" /\ cmd.value \in Values
  \/ cmd.op = "nudge" /\ cmd.delta \in Int
  \/ cmd.op = "go"
  \/ cmd.op \in {"edit", "load"} /\ cmd.show \in DOMAIN Shows
  \/ cmd.op = "learn" /\ cmd.on \in BOOLEAN

Declares(s) ==
  /\ Specified(s.specs) /\ Overrides(s.overrides)
  /\ \A m \in DOMAIN s.modulators : Modulating(s.modulators[m])
  /\ DOMAIN s.routes \subseteq Nat /\ IsFiniteSet(DOMAIN s.routes)
  /\ \A r \in DOMAIN s.routes : Routed(s.routes[r])
  /\ \A cue \in s.cues : Carries(cue)

ASSUME ShowsAssumption ==
  /\ 1 \in DOMAIN Shows /\ \A s \in DOMAIN Shows : Declares(Shows[s])
  /\ \A cmd \in Orders : Obeyed(cmd)

VARIABLES
  wire,       \* messages of the device not yet handed to the callback
  device,     \* plugged in
  port,       \* the hub holds the input port open
  engine,     \* the engine, under its lock
  hand,       \* what the callback has yet to send
  turn,       \* what the supervisor has yet to send
  ctl,        \* orders of the session to the hub
  midi,       \* commands on their way to the bridge
  bus,        \* commands on the bus
  ui,         \* events of the hub for the session
  status,     \* ProtocolStatus.midi
  show,       \* the version of the show
  params,     \* the registry
  mods,       \* the modulators
  fade,       \* what the engine of cues asks of the parameters
  drained,    \* commands drained in this frame
  inputs

hubVars == <<engine, hand, turn, ctl, midi, ui>>
playVars == <<show, params, mods, fade>>
vars == <<wire, device, port, hubVars, bus, status, playVars, drained, inputs>>

----------------------------------------------------------------------------
(* What a show declares.                                                   *)

\* The registrations of a show: one for each of its addresses.
Declared(p, specs) ==
  LET spec(a) == CHOOSE s \in specs : s.addr = a
      addrs == {s.addr : s \in specs}
  IN  [a \in DOMAIN p \cup addrs |-> IF a \in addrs THEN Registered(p, a, spec(a))[a] ELSE p[a]]

\* rebuild_registry: every address of the show, then the purge of the others,
\* except those of a slice, a material or a modulator that is still there.
Rebuilt(p, s) ==
  LET all == Declared(p, s.specs)
  IN  Unregistered(all, DOMAIN all \ ({spec.addr : spec \in s.specs} \cup s.kept))

\* What an edit has to touch for the patch, or the modulation, to be loaded again.
PatchOf(s) == <<s.bindings, s.overrides, s.settings>>
ModulationOf(s) == <<s.modulators, s.routes>>

\* push_patch: the smoothing the DMX patch imposes.  Nothing lifts it.
Patched(p, s) ==
  LET patch(a) == CHOOSE o \in s.overrides : o.addr = a
      addrs == {o.addr : o \in s.overrides}
  IN  [a \in DOMAIN p |-> IF a \in addrs THEN Forced(p, a, {patch(a).ms})[a] ELSE p[a]]

\* before: what the engine of cues had without the GOs of this frame.
Idle == [finished |-> <<>>, running |-> {}]
NoFade == [finished |-> <<>>, running |-> {}, started |-> FALSE, before |-> Idle]

Init ==
  /\ wire = <<>> /\ device = TRUE /\ port = FALSE
  /\ engine = Rebound(NoEngine, Shows[1].bindings)      \* the first order is followed
  /\ hand = <<>> /\ turn = <<>> /\ ctl = <<>>
  /\ midi = <<>> /\ bus = <<>> /\ ui = <<>> /\ status = "inactif"
  /\ show = 1
  /\ params = Patched(Rebuilt(<<>>, Shows[1]), Shows[1])
  /\ mods = Mod!Loaded(Mod!NoEngine, Shows[1].modulators, Shows[1].routes)
  /\ fade = NoFade /\ drained = 0
  /\ inputs = 0

----------------------------------------------------------------------------
(* The device.  A fader sends the MSB and then the LSB of where it is.      *)

Move(p) ==
  /\ device /\ inputs < MaxInputs /\ inputs' = inputs + 1
  /\ wire' = IF port THEN wire \o <<[type |-> "cc", cc |-> 0, value |-> p \div (Coarse + 1)],
                                    [type |-> "cc", cc |-> 32, value |-> p % (Coarse + 1)]>>
             ELSE wire
  /\ UNCHANGED <<device, port, hubVars, bus, status, playVars, drained>>

Press(note) ==
  /\ device /\ inputs < MaxInputs /\ inputs' = inputs + 1
  /\ wire' = IF port THEN Append(wire, [type |-> "note_on", note |-> note, velocity |-> 1]) ELSE wire
  /\ UNCHANGED <<device, port, hubVars, bus, status, playVars, drained>>

Unplug ==
  /\ device /\ inputs < MaxInputs /\ inputs' = inputs + 1
  /\ device' = FALSE /\ wire' = <<>>
  /\ UNCHANGED <<port, hubVars, bus, status, playVars, drained>>

Plug ==
  /\ ~device /\ device' = TRUE
  /\ UNCHANGED <<wire, port, hubVars, bus, status, playVars, drained, inputs>>

----------------------------------------------------------------------------
(* The callback.                                                           *)

\* The engine takes the message; the lock is released before the sends.
Callback ==
  /\ port /\ wire # <<>> /\ hand = <<>>
  /\ wire' = Tail(wire)
  /\ LET r == Handled(engine, Head(wire), AllCall)
     IN  engine' = r.e /\ hand' = r.out
  /\ UNCHANGED <<device, port, turn, ctl, midi, ui, bus, status, playVars, drained, inputs>>

\* dispatch: commands to the bridge, the rest to the session while there is room.
Sent(to, e) ==
  IF e.type = "command" THEN [to EXCEPT !.midi = Append(@, e.cmd)]
  ELSE IF Len(to.ui) < EventsCap THEN [to EXCEPT !.ui = Append(@, e)] ELSE to
Dispatched(events) ==
  LET to == FoldLeft(Sent, [midi |-> midi, ui |-> ui], events) IN midi' = to.midi /\ ui' = to.ui

CallbackSends ==
  /\ hand # <<>> /\ hand' = <<>> /\ Dispatched(hand)
  /\ UNCHANGED <<wire, device, port, engine, turn, ctl, bus, status, playVars, drained, inputs>>

----------------------------------------------------------------------------
(* The supervisor: orders, then what is overdue, then the ports.           *)

Ordered(e, msg) ==
  CASE msg.op = "bind"   -> Rebound(e, msg.bindings)
    [] msg.op = "logical" -> LogicalUpdated(e, msg.addr, msg.value)
    [] msg.op = "arm"    -> Armed(e)
    [] msg.op = "disarm" -> Disarmed(e)

FollowOrder ==
  /\ turn = <<>> /\ ctl # <<>>
  /\ ctl' = Tail(ctl) /\ engine' = Ordered(engine, Head(ctl))
  /\ UNCHANGED <<wire, device, port, hand, turn, midi, ui, bus, status, playVars, drained, inputs>>

\* The hand of time: a tick of the supervisor is longer than the window.
Flush ==
  /\ turn = <<>>
  /\ LET r == Flushed(Aged(engine, Timeout))
     IN  /\ engine' = r.e /\ turn' = r.out
         /\ r.e # engine \/ r.out # <<>>
  /\ UNCHANGED <<wire, device, port, hand, ctl, midi, ui, bus, status, playVars, drained, inputs>>

SupervisorSends ==
  /\ turn # <<>> /\ turn' = <<>> /\ Dispatched(turn)
  /\ UNCHANGED <<wire, device, port, engine, hand, ctl, bus, status, playVars, drained, inputs>>

\* The scan: a port that is gone is closed, and one that is there is opened,
\* in the same turn.  Closing waits for the callback.
Scan ==
  /\ turn = <<>> /\ port # device
  /\ port => hand = <<>>
  /\ port' = device
  /\ ui' = IF Len(ui) < EventsCap
           THEN Append(ui, [type |-> IF device THEN "connected" ELSE "disconnected"]) ELSE ui
  /\ UNCHANGED <<wire, device, engine, hand, turn, ctl, midi, bus, status, playVars, drained, inputs>>

----------------------------------------------------------------------------
(* The bridge and the other surfaces: both wait for room on the bus.       *)

Bridge ==
  /\ midi # <<>> /\ Len(bus) < BusCap
  /\ midi' = Tail(midi) /\ bus' = Append(bus, [source |-> "midi", cmd |-> Head(midi)])
  /\ UNCHANGED <<wire, device, port, engine, hand, turn, ctl, ui, status, playVars, drained, inputs>>

Order(cmd) ==
  /\ inputs < MaxInputs /\ Len(bus) < BusCap /\ inputs' = inputs + 1
  /\ bus' = Append(bus, [source |-> "ui", cmd |-> cmd])
  /\ UNCHANGED <<wire, device, port, hubVars, status, playVars, drained>>

----------------------------------------------------------------------------
(* The session: one command, or the end of the frame.                      *)

\* apply_mod_param: a knob of a modulator is written in the show, loaded again.
Knob(addr, value) ==
  mods' = IF addr \in DOMAIN Shows[show].knobs
          THEN Mod!DepthSet(mods, Shows[show].knobs[addr], value) ELSE mods

\* param_set: the hub is told the value that is shown, smoothing and
\* modulation included.
Set(addr, v, source) ==
  IF addr \notin DOMAIN params THEN UNCHANGED <<params, ctl, mods>>
  ELSE /\ params' = Posed(params, addr, v, source)
       /\ ctl' = Append(ctl, [op |-> "logical", addr |-> addr, value |-> Value(params', addr)])
       /\ Knob(addr, Value(params', addr))

\* ParamNudge: from the target, neither smoothed nor modulated.
Nudge(addr, delta, source) ==
  IF addr \notin DOMAIN params \/ params[addr].spec.kind.type \notin {"float", "int"}
  THEN UNCHANGED <<params, ctl, mods>>
  ELSE Set(addr, [type |-> "F", x |-> params[addr].target + delta], source)

\* The snapshots of two cues that end in one tick: the last one wins.
Joined(goal, before) ==
  [a \in DOMAIN goal \cup DOMAIN before |-> IF a \in DOMAIN goal THEN goal[a] ELSE before[a]]

\* activate: the fade in progress jumps to its end.
Over(f) == FoldSet(LAMBDA r, acc : Joined(r.goal, acc), f.finished, f.running)

\* A GO: the fade in progress jumps to its end, the next one starts.
Go(cue) ==
  fade' = [fade EXCEPT !.finished = Over(fade),
                       !.running = {[goal |-> cue.params, alpha |-> 0, routes |-> cue.routes]},
                       !.started = TRUE]

\* Mutant of load_hot: the cues are loaded cold.
CutShort_Cold == NoFade

\* load_hot: the fade in progress jumps to its end too, and the GOs of this
\* frame, which wait for the tick, are forgotten with the old cues.
CutShort ==
  LET end == [Idle EXCEPT !.finished = Over(fade.before)]
  IN  [finished |-> end.finished, running |-> {}, started |-> FALSE, before |-> end]

\* after_model_change: the registry follows the show, and of the patch, the
\* modulation and the cues, those that are edited.
Follow(s) ==
  LET old == Shows[show]  new == Shows[s]  built == Rebuilt(params, new) IN
  /\ show' = s
  /\ params' = IF PatchOf(new) = PatchOf(old) THEN built ELSE Patched(built, new)
  /\ mods' = IF ModulationOf(new) = ModulationOf(old) THEN mods
             ELSE Mod!Loaded(mods, new.modulators, new.routes)
  /\ fade' = IF new.cues = old.cues THEN fade ELSE CutShort

\* Mutant of after_model_change: the hub is not told of the bindings.
Edit_Unbound(s) == Follow(s) /\ UNCHANGED ctl

\* An edit of the show: the hub is told of the patch when it is edited.
Edit(s) ==
  /\ Follow(s)
  /\ ctl' = IF PatchOf(Shows[s]) = PatchOf(Shows[show]) THEN ctl
            ELSE Append(ctl, [op |-> "bind", bindings |-> Shows[s].bindings])

\* An undo, a redo, a load (rebuild_all): everything follows the show, and the
\* cues are loaded cold: the fade in progress stops where it is.
Load(s) ==
  /\ show' = s
  /\ params' = Patched(Rebuilt(params, Shows[s]), Shows[s])
  /\ mods' = Mod!Loaded(mods, Shows[s].modulators, Shows[s].routes)
  /\ ctl' = Append(ctl, [op |-> "bind", bindings |-> Shows[s].bindings])
  /\ fade' = NoFade

Obeys(source, cmd) ==
  CASE cmd.op = "set"   -> Set(cmd.addr, cmd.value, source) /\ UNCHANGED <<show, fade>>
    [] cmd.op = "nudge" -> Nudge(cmd.addr, cmd.delta, source) /\ UNCHANGED <<show, fade>>
    [] cmd.op = "go"    -> /\ \E c \in Shows[show].cues : Go(c)
                           /\ UNCHANGED <<show, params, mods, ctl>>
    [] cmd.op = "edit"  -> Edit(cmd.show)
    [] cmd.op = "load"  -> Load(cmd.show)
    [] cmd.op = "learn" -> /\ ctl' = Append(ctl, [op |-> IF cmd.on THEN "arm" ELSE "disarm"])
                           /\ UNCHANGED <<show, params, mods, fade>>

Command ==
  /\ drained < Budget /\ bus # <<>>
  /\ drained' = drained + 1 /\ bus' = Tail(bus)
  /\ Obeys(Head(bus).source, Head(bus).cmd)
  /\ UNCHANGED <<wire, device, port, engine, hand, turn, midi, ui, status, inputs>>

\* The fade the frame plays, as [goal, alpha], or nothing.
Played(alpha) ==
  IF fade.finished # <<>> THEN {[goal |-> fade.finished, alpha |-> One]}
  ELSE {[goal |-> r.goal, alpha |-> alpha] : r \in fade.running}

StatusAfter(events) ==
  LET known == {i \in DOMAIN events : events[i].type \in {"connected", "disconnected"}}
  IN  IF known = {} THEN status
      ELSE IF events[Max(known)].type = "connected" THEN "ok" ELSE "erreur"

\* The frame: cue, modulation, parameters, and the events of the hub.
Frame(alpha, gain, dt) ==
  /\ drained = Budget \/ bus = <<>>
  /\ \A r \in fade.running : alpha > r.alpha
  /\ fade.finished # <<>> \/ fade.running = {} => alpha = One
  /\ LET m == IF fade.started THEN Mod!RoutesApplied(Mod!Retriggered(mods),
                                     (CHOOSE r \in fade.running : TRUE).routes) ELSE mods
         n == Mod!Evaluated(m, dt, 1, <<>>)
         blended == IF Played(alpha) = {} THEN params
                    ELSE LET f == CHOOSE f \in Played(alpha) : TRUE
                         IN  BlendedToward(params, f.goal, f.alpha)
     IN  /\ mods' = n
         /\ params' = Ticked(Modulated(blended, Mod!Offsets(n)), gain)
  /\ LET left == IF fade.finished # <<>> THEN fade.running
                 ELSE {[r EXCEPT !.alpha = alpha] : r \in {q \in fade.running : alpha < One}}
     IN  fade' = [NoFade EXCEPT !.running = left, !.before.running = left]
  /\ status' = StatusAfter(ui) /\ ui' = <<>> /\ drained' = 0
  /\ UNCHANGED <<wire, device, port, engine, hand, turn, ctl, midi, bus, show, inputs>>

Frames == \E alpha \in Alphas, gain \in Gains : Frame(alpha, gain, 1)

----------------------------------------------------------------------------
DeviceMoves == \/ \E p \in Positions : Move(p)
               \/ Press(1)
               \/ Unplug \/ Plug
Hub == FollowOrder \/ Flush \/ SupervisorSends \/ Scan
OS == Callback \/ CallbackSends
Next == DeviceMoves \/ OS \/ Hub \/ Bridge \/ (\E cmd \in Orders : Order(cmd)) \/ Command \/ Frames

Spec == Init /\ [][Next]_vars
=============================================================================
