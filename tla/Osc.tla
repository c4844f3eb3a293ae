--------------------------------- MODULE Osc ---------------------------------
(***************************************************************************)
(* The pure part of the OSC surface (crates/control-osc): from a datagram  *)
(* to commands, and from the events of the show to the messages sent back. *)
(*                                                                         *)
(* A number is an integer, or "nan" when a text cannot be read; a number   *)
(* of cue is counted in thousandths.  A message that is not understood     *)
(* gives {}.                                                               *)
(***************************************************************************)
EXTENDS Integers, Sequences, SequencesExt, Functions, TLC

CONSTANTS
  MaxBundles,   \* MAX_BUNDLES
  Throttle,     \* THROTTLE_INTERVAL
  LastCue       \* the largest number of cue (u32::MAX thousandths)

ASSUME OscAssumption == {MaxBundles, Throttle, LastCue} \subseteq Nat

----------------------------------------------------------------------------
(* Datagrams (packet.rs): bundles inside bundles.  Their number is counted *)
(* before anything is decoded, and bounds the recursion.                   *)

RECURSIVE Bundles(_), Flattened(_)

Bundles(packet) ==
  IF packet.type = "message" THEN 0
  ELSE FoldLeft(LAMBDA n, inner : n + Bundles(inner), 1, packet.content)

Flattened(packet) ==
  IF packet.type = "message" THEN <<packet>>
  ELSE FoldLeft(LAMBDA out, inner : out \o Flattened(inner), <<>>, packet.content)

----------------------------------------------------------------------------
(* Messages (map.rs).                                                      *)

\* float_arg: the types that read as a number; cue_number_arg leaves out the
\* booleans and rounds to thousandths.
Number(args, types) ==
  IF args = <<>> \/ args[1].type \notin types \/ args[1].value = "nan" THEN {} ELSE {args[1].value}
FloatArg(args) == Number(args, {"float", "double", "int", "long", "bool", "string"})
CueArg(args) ==
  {n \in Number(args, {"string", "int", "long", "float", "double"}) : n >= 0 /\ n <= LastCue}

\* map_message.  An address of a parameter has lost its prefix.
Mapped(m) ==
  CASE m.addr = "cue/go"      -> {[op |-> "go"]}
    [] m.addr = "cue/back"    -> {[op |-> "back"]}
    [] m.addr = "cue/goto"    -> {[op |-> "goto", cue |-> n] : n \in CueArg(m.args)}
    [] m.addr = "bpm/tap"     -> {[op |-> "tap"]}
    [] m.addr = "bpm"         -> {[op |-> "bpm", bpm |-> x] : x \in FloatArg(m.args)}
    [] m.addr = "master"      -> {[op |-> "set", addr |-> "master/intensity", value |-> x] : x \in FloatArg(m.args)}
    [] m.addr = "dbo"         -> {[op |-> "dbo", fade |-> x] : x \in FloatArg(m.args)}
    [] m.addr = "dbo/release" -> {[op |-> "dbo_release"]}
    [] m.addr = "param"       -> IF m.param = "" THEN {}
                                 ELSE {[op |-> "set", addr |-> m.param, value |-> x] : x \in FloatArg(m.args)}
    [] OTHER                  -> {}

\* handle_datagram: the commands of a datagram, in the order of its messages.
Understood(packet) ==
  IF packet.type = "unreadable" \/ Bundles(packet) > MaxBundles THEN <<>>
  ELSE FoldLeft(LAMBDA out, m : out \o SetToSeq(Mapped(m)), <<>>, Flattened(packet))

----------------------------------------------------------------------------
(* Warnings (ratelimit.rs): one in a window, whatever the threads; the     *)
(* ones kept back are counted.                                             *)

WarnAllowed(limiter, now, window) ==
  IF limiter.last = 0 \/ now - limiter.last >= window
  THEN [yes |-> TRUE, count |-> limiter.muted,
        limiter |-> [last |-> IF now > 1 THEN now ELSE 1, muted |-> 0]]
  ELSE [yes |-> FALSE, count |-> 0, limiter |-> [limiter EXCEPT !.muted = @ + 1]]

----------------------------------------------------------------------------
(* Feedback (feedback.rs), on [sent, at]: the last value sent on each      *)
(* address, and when a progress was last sent on it.                       *)

NoFeedback == [sent |-> <<>>, at |-> <<>>]

\* push_if_changed, and push_progress that may also wait.
PushIfChanged(f, addr, value) ==
  IF addr \in DOMAIN f.sent /\ f.sent[addr] = value THEN f
  ELSE [f EXCEPT !.sent = addr :> value @@ @]

\* Mutant of push_progress: a value that is held back starts the wait again.
PushProgress_Restarts(f, addr, value, now) ==
  IF addr \in DOMAIN f.at /\ now - f.at[addr] < Throttle THEN [f EXCEPT !.at[addr] = now]
  ELSE IF addr \in DOMAIN f.sent /\ f.sent[addr] = value THEN f
  ELSE [sent |-> addr :> value @@ f.sent, at |-> addr :> now @@ f.at]

PushProgress(f, addr, value, now) ==
  IF \/ addr \in DOMAIN f.at /\ now - f.at[addr] < Throttle
     \/ addr \in DOMAIN f.sent /\ f.sent[addr] = value
  THEN f
  ELSE [sent |-> addr :> value @@ f.sent, at |-> addr :> now @@ f.at]

\* translate: what has been sent once the event is.
Translated(f, event, now) ==
  CASE event.type = "cue"      -> PushIfChanged(f, "active", event.active)
    [] event.type = "standby"  -> PushIfChanged(f, "standby", event.standby)
    [] event.type = "progress" -> PushProgress(f, "progress", event.progress, now)
    [] event.type = "status"   ->
         LET a == PushIfChanged(f, "active", event.active)
             b == PushIfChanged(a, "standby", event.standby)
             c == PushProgress(b, "progress", event.progress, now)
         IN  PushProgress(c, "remaining", event.remaining, now)
    [] OTHER                   -> f
=============================================================================
