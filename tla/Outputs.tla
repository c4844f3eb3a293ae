-------------------------------- MODULE Outputs --------------------------------
(***************************************************************************)
(* The output windows (crates/app/src/gfx.rs): made again when the         *)
(* activated outputs change, followed from monitor to monitor, and the     *)
(* series of frames that could not be presented, after which the card is   *)
(* taken for lost.                                                         *)
(*                                                                         *)
(* A monitor has a name and a place on the desktop; it may be unplugged    *)
(* and come back elsewhere.  The system then moves its windows to the      *)
(* first monitor, the operator's, which stays.                             *)
(***************************************************************************)
EXTENDS Integers, SequencesExt

CONSTANTS
  MonitorOrder,  \* the monitors, as the system enumerates them
  NameOf,        \* their names, NoName where the system gives none
  NoName,
  Positions,     \* places on the desktop
  Places,        \* those of the monitors at first
  OutputIds,     \* outputs of the show, in order
  Configs,       \* what they may be set to: [enabled, fullscreen, monitor]
  Start,         \* their settings at first
  FatalStreak,   \* GL_FAIL_STREAK_FATAL
  MaxPlugs,      \* bounds: cables unplugged or plugged,
  MaxEdits       \* outputs edited

Monitors == ToSet(MonitorOrder)
Outputs == ToSet(OutputIds)
NoMonitor == "none"
Desk == Head(MonitorOrder)

ASSUME OutputsAssumption ==
  /\ MonitorOrder \in Seq(Monitors) /\ MonitorOrder # <<>> /\ OutputIds \in Seq(Outputs)
  /\ Start \in [Outputs -> Configs] /\ Places \in [Monitors -> Positions] /\ NoMonitor \notin Monitors
  /\ FatalStreak \in Nat \ {0} /\ MaxPlugs \in Nat /\ MaxEdits \in Nat

VARIABLES
  plugged,   \* the place of each monitor that is there
  outputs,   \* show.outputs
  dirty,     \* outputs_dirty
  gl,        \* "none", "ready" (Gfx.gl) or "failed" (Gfx.failed)
  windows,   \* GlState.windows
  streak,    \* fail_streak, no further than FatalStreak
  since,     \* fail_since: "none", "young" or, after GL_FAIL_DURATION_FATAL, "old"
  lit,       \* a window was presented since fail_since was set
  fatal,     \* Gfx.fatal: "none", "reset" or "failures"
  moves

screens == <<plugged, outputs, dirty, gl, windows, moves>>
failures == <<streak, since, lit, fatal>>

NoSpec == [name |-> NoName, pos |-> -1]

\* The elements of a sequence that are in a set.
Kept(seq, set) ==
  LET kept[n \in 0..Len(seq)] == IF n = 0 THEN <<>>
                                 ELSE IF seq[n] \in set THEN Append(kept[n - 1], seq[n]) ELSE kept[n - 1]
  IN  kept[Len(seq)]

Enumerated == Kept(MonitorOrder, DOMAIN plugged)
SpecOf(m) == [name |-> NameOf[m], pos |-> plugged[m]]

\* find_monitor(): name and place, else the name alone, else, without a
\* name, the place.
FindMonitor(want) ==
  LET First(P(_)) == LET i == SelectInSeq(Enumerated, P) IN IF i = 0 THEN NoMonitor ELSE Enumerated[i]
      exact == First(LAMBDA m : SpecOf(m) = want)
  IN  IF exact # NoMonitor THEN exact
      ELSE IF want.name # NoName THEN First(LAMBDA m : NameOf[m] = want.name)
      ELSE First(LAMBDA m : plugged[m] = want.pos)

\* create_window(): full screen on the monitor of that index, or where the
\* system puts it; the monitor it is on is remembered.
Window(o, vsync) ==
  LET c == outputs[o]
      at == IF c.fullscreen /\ c.monitor \in DOMAIN Enumerated THEN Enumerated[c.monitor] ELSE Desk
  IN  [output |-> o, vsync |-> vsync, full |-> c.fullscreen, at |-> at, fallback |-> FALSE,
       target |-> IF c.fullscreen THEN SpecOf(at) ELSE NoSpec]

Enabled == Kept(OutputIds, {o \in Outputs : outputs[o].enabled})

\* The windows of the activated outputs but those that cannot be created;
\* the first output has the vertical synchronisation.
WindowsBut(refused) ==
  LET made == Kept(Enabled, Outputs \ refused)
  IN  [i \in DOMAIN made |-> Window(made[i], made[i] = Enabled[1])]

\* ensure_windows(): nothing when the windows are those of the activated
\* outputs, by their ids alone; works: the card could be initialised.
EnsureWindows(works, refused) ==
  LET fresh == gl = "none" /\ Enabled # <<>>
      state == IF fresh THEN (IF works THEN "ready" ELSE "failed") ELSE gl
      ready == IF fresh /\ works THEN <<Window(Enabled[1], TRUE)>> ELSE windows
      same == ready # <<>> /\ [i \in DOMAIN ready |-> ready[i].output] = Enabled
  IN  [gl |-> state, windows |-> IF state # "ready" \/ same THEN ready ELSE WindowsBut(refused)]

OnTarget(w) ==
  \/ w.at = NoMonitor
  \/ w.at \in DOMAIN plugged /\ (SpecOf(w.at) = w.target \/ (w.target.name # NoName /\ NameOf[w.at] = w.target.name))

\* A mutant: a window that fell back stays as it is.
Polled_Stays(w) ==
  LET found == FindMonitor(w.target)
  IN  IF ~w.full \/ w.target = NoSpec \/ OnTarget(w) \/ w.fallback THEN w
      ELSE IF found # NoMonitor THEN [w EXCEPT !.at = found, !.fallback = FALSE]
      ELSE [w EXCEPT !.fallback = TRUE]

\* poll_monitors(), for a window: back to its monitor when it is there,
\* else out of full screen where the system put it.
Polled(w) ==
  LET found == FindMonitor(w.target)
  IN  IF ~w.full \/ w.target = NoSpec \/ (OnTarget(w) /\ ~w.fallback) THEN w
      ELSE IF found # NoMonitor THEN [w EXCEPT !.at = found, !.fallback = FALSE]
      ELSE [w EXCEPT !.fallback = TRUE]

PollMonitors(ws) == [i \in DOMAIN ws |-> Polled(ws[i])]

\* render_outputs(): the order, the window with vertical synchronisation last.
RenderOrder ==
  LET all == [i \in DOMAIN windows |-> i]
  IN  SelectSeq(all, LAMBDA i : ~windows[i].vsync) \o SelectSeq(all, LAMBDA i : windows[i].vsync)
----------------------------------------------------------------------------
(* Frames that could not be presented.                                     *)

\* fail_streak, as far as it matters.
Capped(n) == IF n > FatalStreak THEN FatalStreak ELSE n

\* A mutant: the series is forgotten, not when it began.
Success_Since(n) ==
  /\ streak' = Capped(n) /\ lit' = lit
  /\ since' = IF n > 0 /\ since = "none" THEN "young" ELSE since

\* note_gl_success(), and n failures in the frame after it.
Success(n) ==
  streak' = Capped(n) /\ since' = (IF n = 0 THEN "none" ELSE "young") /\ lit' = FALSE

\* note_gl_failure(), n times.
Failures(n) ==
  /\ streak' = Capped(streak + n)
  /\ since' = IF since = "none" THEN "young" ELSE since
  /\ lit' = (lit /\ since # "none")

\* check_fatal_failure().
Fatal == IF fatal = "none" /\ streak' >= FatalStreak /\ since' = "old" THEN "failures" ELSE fatal

\* Two seconds of failures.
Age == since = "young" /\ since' = "old" /\ UNCHANGED <<screens, streak, lit, fatal>>
----------------------------------------------------------------------------
(* The hall.                                                               *)

OutputsInit ==
  /\ plugged = Places
  /\ outputs = Start /\ dirty = TRUE /\ windows = <<>>
  /\ gl \in {"none", "failed"}   \* failed: --headless, or no event loop
  /\ streak = 0 /\ since = "none" /\ lit = FALSE /\ fatal = "none"
  /\ moves = [plugs |-> 0, edits |-> 0]

\* A projector goes dark or is unplugged: its windows go to the operator's.
Unplug(m) ==
  /\ m \in DOMAIN plugged \ {Desk} /\ moves.plugs < MaxPlugs
  /\ plugged' = [n \in DOMAIN plugged \ {m} |-> plugged[n]]
  /\ windows' = [i \in DOMAIN windows |-> IF windows[i].at = m THEN [windows[i] EXCEPT !.at = Desk] ELSE windows[i]]
  /\ moves' = [moves EXCEPT !.plugs = @ + 1]
  /\ UNCHANGED <<outputs, dirty, gl, failures>>

Plug(m, pos) ==
  /\ m \in Monitors \ DOMAIN plugged /\ moves.plugs < MaxPlugs
  /\ \A n \in DOMAIN plugged : plugged[n] # pos
  /\ plugged' = [n \in DOMAIN plugged \cup {m} |-> IF n = m THEN pos ELSE plugged[n]]
  /\ moves' = [moves EXCEPT !.plugs = @ + 1]
  /\ UNCHANGED <<outputs, dirty, gl, windows, failures>>

\* An edit of an output, or its window closed outside of a performance.
SetOutput(o, c) ==
  /\ moves.edits < MaxEdits /\ outputs[o] # c
  /\ outputs' = [outputs EXCEPT ![o] = c]
  /\ dirty' = TRUE
  /\ moves' = [moves EXCEPT !.edits = @ + 1]
  /\ UNCHANGED <<plugged, gl, windows, failures>>
----------------------------------------------------------------------------
(* Properties.                                                             *)

\* An output in full screen that is not on the monitor it was on, though
\* that monitor is there.
Astray(o) ==
  \E i \in DOMAIN windows :
    LET w == windows[i] found == FindMonitor(w.target)
    IN  w.output = o /\ w.full /\ found # NoMonitor /\ (w.fallback \/ w.at # found)
===============================================================================
