--------------------------- MODULE SurfacesHistory ---------------------------
(***************************************************************************)
(* Surfaces with what its properties need to remember: where the fader     *)
(* has been.  It is the pair 0 and 32, bound to one parameter.             *)
(***************************************************************************)
EXTENDS Surfaces

\* The fader goes through the whole range of its parameter and is taken over.
Fader(addr) == [CcBinding(0, TRUE) EXCEPT !.addr = addr]
ASSUME FaderAssumption ==
  \A s \in DOMAIN Shows :
    LET bindings == Range(Shows[s].bindings)
    IN  /\ Shows[s].bindings \in Seq(bindings)
        /\ \A b \in bindings : b = IF b.type = "cc" THEN Fader(b.addr) ELSE NoteBinding(b.note)
        /\ \E b \in bindings : b.type = "cc"

VARIABLES
  visited,    \* positions the device has sent
  travel      \* what the engine has seen of the fader since it last learnt a
              \* new value of the parameter

histVars == <<visited, travel>>

Whole(m, l) == m.value * (Coarse + 1) + l.value
SentNow == LET n == Len(wire') IN
  IF n = Len(wire) + 2 THEN {Whole(wire'[n - 1], wire'[n])} ELSE {}

Reported(faders) == UNION {faders[c].last : c \in DOMAIN faders \cap {0}}

HInit == Init /\ visited = {} /\ travel = {}
HNext ==
  /\ Next
  /\ visited' = visited \cup SentNow
  /\ travel' = Reported(engine'.faders) \cup IF engine'.logical = engine.logical THEN travel ELSE {}
HSpec == HInit /\ [][HNext]_<<vars, histVars>>

----------------------------------------------------------------------------
\* The commands to move a parameter that are among events.
Moved(events) ==
  {events[i].cmd : i \in {j \in DOMAIN events : events[j].type = "command" /\ events[j].cmd.op = "set"}}

\* Type invariant of the surfaces and of the parameters.
SurfacesTypeOK ==
  /\ port \in BOOLEAN /\ device \in BOOLEAN /\ status \in {"inactif", "ok", "erreur"}
  /\ Len(ui) <= EventsCap /\ Len(bus) <= BusCap /\ drained \in 0..Budget
  /\ show \in DOMAIN Shows /\ ParamTypeOK(params)

\* The two halves of a 14-bit move are put together whole or the first goes
\* alone, whatever the supervisor flushes between them and however often the
\* device is unplugged: no command carries the half of one move with the half
\* of another (cc14.rs, feed and flush, called from two threads).
PairsWhole ==
  \A cmd \in Moved(hand) \cup Moved(turn) :
    \E p \in visited : cmd.value.x = p \/ cmd.value.x = p - (p % (Coarse + 1))

\* Soft takeover: a fader moves a parameter whose value the engine knows only
\* if, since it knows that value, it has come near it or gone past it
\* (pickup.rs).  A value set from elsewhere is never made to jump.
TakesOver ==
  [][hand = <<>> =>
       \A cmd \in Moved(hand') : cmd.addr \in DOMAIN engine.logical =>
         LET seen == travel \cup Reported(engine'.faders)
             near == Fine \div Coarse
             now == engine.logical[cmd.addr]
         IN  /\ \E p \in seen : p - near <= now
             /\ \E p \in seen : p + near >= now]_<<vars, histVars>>

\* While a cue fades, no frame takes a parameter further from where the cue
\* leads it, within its range, whatever the surfaces, an edit or another GO did since the frame
\* before (blend_toward with set: the fade starts again from what is shown).
FadeMovesForward ==
  [][\A a \in DOMAIN params : \A f \in Played(One) :
       drained' <= drained /\ a \in DOMAIN f.goal =>
         \A goal \in Converted(params[a].spec.kind, f.goal[a]) :
           LET was == params[a].current  is == params'[a].current
           IN  (is \in was..goal) \/ (is \in goal..was)]_<<vars, histVars>>

\* A change of the show takes nothing from what is shown: the parameters that
\* stay keep their value, half of a fade included, and an oscillator that stays
\* keeps its phase (rebuild_registry, Engine::load).  An edit that leaves the
\* cues alone lets the fade run, with the GOs of the frame; one that changes
\* them puts the fade the parameters are in to its end in the next frame, with
\* what other edits of the frame have ended (load_hot: never between two sets of
\* cues).  Only an undo, a redo or a load, which loads the cues cold, may leave
\* the parameters where the fade was.
EditKeepsPlaying ==
  [][drained' > drained /\ Head(bus).cmd.op \in {"edit", "load"} =>
       LET old == Shows[show]  new == Shows[show']  edited == Head(bus).cmd.op = "edit" IN
       /\ \A a \in DOMAIN params \cap DOMAIN params' :
            params[a].spec.kind = params'[a].spec.kind =>
              /\ Shown(params'[a]) = Shown(params[a])
              /\ params'[a].blending = params[a].blending
       /\ \A m \in DOMAIN mods.mods \cap DOMAIN mods'.mods :
            mods.mods[m].cfg.type = mods'.mods[m].cfg.type =>
              mods'.mods[m].state.phase = mods.mods[m].state.phase
       /\ edited /\ new.cues = old.cues => fade' = fade
       /\ edited /\ new.cues # old.cues =>
            /\ DOMAIN fade.before.finished \subseteq DOMAIN fade'.finished
            /\ \A r \in fade.before.running : \A a \in DOMAIN r.goal :
                 a \in DOMAIN fade'.finished /\ fade'.finished[a] = r.goal[a]]_<<vars, histVars>>

\* When its orders are followed, the hub maps the show that is loaded, and
\* waits for no half of a controller that is not mapped any more: each edit
\* reaches it, in order (after_model_change, set_bindings).
HubFollowsShow ==
  ctl = <<>> => /\ engine.bindings = Shows[show].bindings
                /\ DOMAIN engine.pending \subseteq
                     {b.cc : b \in {c \in Range(Shows[show].bindings) : c.type = "cc"}}

\* Every state of the hub is well formed, what it has sent to the show is made of
\* the two halves of one position, and it maps the show that is loaded.
SurfacesInvariant == SurfacesTypeOK /\ PairsWhole /\ HubFollowsShow
=============================================================================
