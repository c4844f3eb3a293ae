----------------------------- MODULE CueEngine -----------------------------
(***************************************************************************)
(* The cue engine (crates/cue/src/lib.rs): the list of cues, the cue on    *)
(* programme (deck A), the cue in standby, the running entry transition    *)
(* towards deck B, automatic follows, the emergency fade to black (panic)  *)
(* and the timecode chase.                                                 *)
(*                                                                         *)
(* The engine is owned by one thread.  Between two frames the session      *)
(* latches commands and may replace the cue list; once per frame it calls  *)
(* tick(), which runs apply_pending, the end-of-transition test,           *)
(* check_chase and check_follow in that order.  tick() is split here into  *)
(* one action per function it calls; "phase" is its program counter, so    *)
(* these actions run in program order with nothing of the session between  *)
(* them.                                                                   *)
(*                                                                         *)
(* A cue list is a function from cue numbers to cues: CueAdd replaces a    *)
(* cue of the same number, so numbers are unique, and the engine's sorted  *)
(* vector and its indices are the numbers in increasing order.             *)
(*                                                                         *)
(* Time.  The code stores instants and reads only differences "now - t"    *)
(* that it compares with a duration or clamps at it.  The model stores     *)
(* the elapsed times, each stopped at the largest value that is read, so   *)
(* time itself is unbounded and the state space finite.                    *)
(***************************************************************************)
EXTENDS Integers, Sequences, SequencesExt, FiniteSetsExt

CONSTANTS
  Numbers,      \* cue numbers
  CueLists,     \* the cue lists that load and load_hot may be given
  Addrs, Values,\* parameter addresses and their values
  Slices,       \* slices whose media can end (the media_eof oracle)
  Deltas,       \* time that may pass between two ticks
  Fades,        \* fade times given to panic
  Full,         \* the black level 1.0, in steps of the model
  MaxWait,      \* no cue waits longer: bound of the follow clock
  MaxPending,   \* bound on the commands latched between two ticks
  Rates,        \* timecode rates, in frames per unit of time
  MaxFrames,    \* bound on the incoming timecode position
  SeekFwd,      \* TC_SEEK_FWD_S
  Freewheel     \* TC_FREEWHEEL_S

NoCue == 0      \* None, where the code has an Option<usize> or Option<CueNumber>

ASSUME NumbersAssumption == Numbers \subseteq Nat \ {0}

Kinds == {"cut", "crossfade", "through_black"}
Transitions == [kind : Kinds, dur : Nat]
TcTimes == [s : Nat, f : Nat]
ParamMaps == UNION {[A -> Values] : A \in SUBSET Addrs}

\* A cue.  media are the slices whose playback ends with FollowNext; trigger is
\* an Option<TcTime>, a set of at most one position.
Cues ==
  [armed : BOOLEAN, transition : Transitions,
   follow : {"manual", "wait", "after_media"}, wait : 0..MaxWait,
   media : SUBSET Slices, gotoAfter : Numbers \cup {NoCue},
   trigger : SUBSET TcTimes, params : ParamMaps]

ASSUME CueListsAssumption ==
  \A l \in CueLists : DOMAIN l \subseteq Numbers /\ l \in [DOMAIN l -> Cues]

ASSUME BoundsAssumption ==
  /\ Deltas \subseteq Nat /\ Fades \subseteq Nat /\ Rates \subseteq Nat
  /\ Full \in Nat \ {0} /\ MaxWait \in Nat /\ MaxPending \in Nat
  /\ MaxFrames \in Nat /\ SeekFwd \in Nat /\ Freewheel \in Nat

Commands ==
  [op : {"go", "back"}] \cup [op : {"goto", "standby"}, cue : Numbers]
    \cup [op : {"panic"}, fade : Fades]

\* The timecode state a tick is given: none, or a position at a rate.
TcStates == {<<>>} \cup [frames : 0..MaxFrames, rate : Rates, locked : BOOLEAN]

VARIABLES
  cues,     \* the cue list
  show,     \* [active, standby, transition, cueAge, followFired, finished, events]
  panic,    \* the emergency fade: [on, fade, elapsed, from]
  chase,    \* the chased timecode: {} or {[frames, rate, locked, fw]}
  pending,  \* commands latched since the last tick
  fired,    \* cues chase_advance has still to go through, in this tick
  phase     \* where tick() is

vars == <<cues, show, panic, chase, pending, fired, phase>>

----------------------------------------------------------------------------
(* Helpers.                                                                *)

\* Mutant: clocks that are not stopped.
AtMost_NoCap(x, cap) == x

AtMost(x, cap) == IF x <= cap THEN x ELSE cap

NoTransition == [to |-> NoCue, kind |-> "cut", dur |-> 0, elapsed |-> 0]
NoPanic == [on |-> FALSE, fade |-> 0, elapsed |-> 0, from |-> 0]
NoSnapshot == [given |-> FALSE, map |-> <<>>]
CutTransition == [kind |-> "cut", dur |-> 0]     \* Transition::default()

\* BTreeMap::extend: the entries of g win.
Extended(f, g) ==
  [a \in DOMAIN f \cup DOMAIN g |-> IF a \in DOMAIN g THEN g[a] ELSE f[a]]

Event(type, cue) == [type |-> type, cue |-> cue]

ArmedAfter(l, i) == {n \in DOMAIN l : n > i /\ l[n].armed}
FirstOf(S) == IF S = {} THEN NoCue ELSE Min(S)

\* Mutant: goto_after is forgotten.
StandbyAfter_NoLoop(l, i) == FirstOf(ArmedAfter(l, i))

\* standby_after: the goto_after target if it exists, armed or not, otherwise
\* the next armed cue.
StandbyAfter(l, i) ==
  IF l[i].gotoAfter \in DOMAIN l THEN l[i].gotoAfter ELSE FirstOf(ArmedAfter(l, i))

\* Mutant: the snapshot of the last activation replaces the earlier ones.
Activated_LastSnapshotOnly(l, s, i) ==
  [s EXCEPT !.transition = NoTransition, !.active = i, !.standby = StandbyAfter(l, i),
            !.cueAge = 0, !.followFired = FALSE,
            !.finished = [given |-> TRUE, map |-> l[i].params],
            !.events = Append(@, Event("finished", i))]

\* activate: the entry transition of cue i ends.
Activated(l, s, i) ==
  LET next == StandbyAfter(l, i)
      armed == IF l[i].follow # "manual" /\ next # NoCue
               THEN <<Event("follow_armed", i)>> ELSE <<>>
  IN  [s EXCEPT !.transition = NoTransition, !.active = i, !.standby = next,
                !.cueAge = 0, !.followFired = FALSE,
                !.finished = [given |-> TRUE, map |-> Extended(s.finished.map, l[i].params)],
                !.events = @ \o <<Event("finished", i)>> \o armed]

\* snap_transition: the running transition jumps to its end.
Snapped(l, s) ==
  IF s.transition.to = NoCue THEN s ELSE Activated(l, s, s.transition.to)

\* start_go: a cut takes effect at once, anything else starts a transition.
Started(l, s, to, tr) ==
  LET e == [s EXCEPT !.events = Append(@, Event("started", to))]
  IN  IF tr.kind = "cut" \/ tr.dur = 0
      THEN Activated(l, e, to)
      ELSE [e EXCEPT !.transition = [to |-> to, kind |-> tr.kind,
                                     dur |-> tr.dur, elapsed |-> 0]]

Warned(s) == [s EXCEPT !.events = Append(@, Event("warning", NoCue))]

\* The cue on deck B during a transition, otherwise the one on deck A.
OnAir(s) == IF s.transition.to # NoCue THEN s.transition.to ELSE s.active

\* eval_transition, the black of a through_black (linear curve).
TransBlack(s) ==
  LET tr == s.transition
  IN  IF tr.to = NoCue \/ tr.kind # "through_black" THEN 0
      ELSE IF 2 * tr.elapsed < tr.dur THEN (Full * 2 * tr.elapsed) \div tr.dur
           ELSE (Full * 2 * (tr.dur - tr.elapsed)) \div tr.dur

PanicBlack(p) ==
  IF ~p.on THEN 0
  ELSE IF p.fade = 0 THEN Full
       ELSE p.from + ((Full - p.from) * p.elapsed) \div p.fade

Larger(x, y) == IF x >= y THEN x ELSE y

\* What tick() returns (numeric blend values left out): the decks, the black
\* level, the parameter snapshot with whether it is posed exactly (alpha 1).
Frame ==
  LET tr == show.transition
  IN  [deckA   |-> show.active,
       deckB   |-> IF tr.to # NoCue THEN tr.to ELSE show.standby,
       black   |-> Larger(TransBlack(show), PanicBlack(panic)),
       params  |-> IF show.finished.given THEN show.finished.map
                   ELSE IF tr.to # NoCue THEN cues[tr.to].params ELSE <<>>,
       exact   |-> show.finished.given,
       freezeB |-> tr.to # NoCue /\ tr.kind = "through_black" /\ 2 * tr.elapsed < tr.dur]

----------------------------------------------------------------------------
(* Between two ticks: the session latches commands and loads cue lists.    *)

Enqueue(c) ==
  /\ phase = "idle" /\ Len(pending) < MaxPending
  /\ pending' = Append(pending, c)
  /\ UNCHANGED <<cues, show, panic, chase, fired, phase>>

Fresh(l) ==
  [active |-> NoCue, standby |-> FirstOf({n \in DOMAIN l : l[n].armed}),
   transition |-> NoTransition, cueAge |-> 0, followFired |-> FALSE,
   finished |-> NoSnapshot, events |-> <<>>]

\* load: a new show.
Load(l) ==
  /\ phase = "idle"
  /\ cues' = l /\ show' = Fresh(l)
  /\ panic' = NoPanic /\ chase' = {} /\ pending' = <<>>
  /\ UNCHANGED <<fired, phase>>

\* Mutants of load_hot: the standby is kept without looking for it in the new
\* list; the follow is armed again; the fade is not brought to its end first;
\* the standby goes back to the first armed cue.
HotReloaded_BlindStandby(l) ==
  [Fresh(l) EXCEPT !.active = IF show.active \in DOMAIN l THEN show.active ELSE NoCue,
                   !.standby = Snapped(cues, show).standby]
HotReloaded_FollowRearmed(l) ==
  LET s == Snapped(cues, show)
  IN  IF s.active \in DOMAIN l THEN [s EXCEPT !.followFired = FALSE,
                                             !.standby = StandbyAfter(l, s.active)]
      ELSE Fresh(l)
HotReloaded_NoSnap(l) ==
  IF show.active \in DOMAIN l
  THEN [Fresh(l) EXCEPT !.active = show.active, !.cueAge = show.cueAge,
                        !.followFired = show.followFired,
                        !.standby = StandbyAfter(l, show.active)]
  ELSE Fresh(l)
HotReloaded_FirstStandby(l) ==
  LET s == Snapped(cues, show)
  IN  [Fresh(l) EXCEPT !.active = IF s.active \in DOMAIN l THEN s.active ELSE NoCue,
                       !.events = s.events, !.finished = s.finished]

\* load_hot: an edit of the cue list while it plays.  The running transition
\* jumps to its end, the position is kept by cue number, and load() has
\* emptied the latched commands.
HotReloaded(l) ==
  LET s == Snapped(cues, show)
      kept == [Fresh(l) EXCEPT !.events = s.events, !.finished = s.finished]
      armed == s.standby \in DOMAIN l /\ l[s.standby].armed
  IN  IF s.active \in DOMAIN l
      THEN [kept EXCEPT !.active = s.active, !.cueAge = s.cueAge,
                        !.followFired = s.followFired,
                        !.standby = IF armed THEN s.standby ELSE StandbyAfter(l, s.active)]
      ELSE [kept EXCEPT !.standby = IF armed THEN s.standby ELSE @]

LoadHot(l) ==
  /\ phase = "idle"
  /\ cues' = l /\ show' = HotReloaded(l) /\ pending' = <<>>
  /\ UNCHANGED <<panic, chase, fired, phase>>

----------------------------------------------------------------------------
(* tick(): the clock advances, then apply_pending.                         *)

Older(s, d) ==
  [s EXCEPT !.cueAge = AtMost(@ + d, MaxWait),
            !.transition.elapsed = AtMost(@ + d, s.transition.dur)]

BeginTick(d) ==
  /\ phase = "idle" /\ phase' = "pending"
  /\ show' = Older(show, d)
  /\ panic' = [panic EXCEPT !.elapsed = AtMost(@ + d, panic.fade)]
  /\ chase' = {[c EXCEPT !.fw = {[f EXCEPT !.elapsed = AtMost(@ + d, Freewheel)] : f \in c.fw}]
                : c \in chase}
  /\ UNCHANGED <<cues, pending, fired>>

Applying(op) == phase = "pending" /\ pending # <<>> /\ Head(pending).op = op

\* A manual command takes effect: it snaps, releases the panic and goes.
ManualGo(to, tr) ==
  /\ show' = Started(cues, Snapped(cues, show), to, tr)
  /\ panic' = NoPanic /\ pending' = Tail(pending)
  /\ UNCHANGED <<cues, chase, fired, phase>>

\* Mutant: a refused command snaps the fade before it is found impossible.
Refuse_Snaps ==
  /\ show' = Warned(Snapped(cues, show)) /\ pending' = Tail(pending)
  /\ UNCHANGED <<cues, panic, chase, fired, phase>>
\* A command that cannot be obeyed: a warning and nothing else.
Refuse ==
  /\ show' = Warned(show) /\ pending' = Tail(pending)
  /\ UNCHANGED <<cues, panic, chase, fired, phase>>

ApplyGo ==
  LET to == IF show.transition.to # NoCue THEN StandbyAfter(cues, show.transition.to)
            ELSE show.standby
  IN  /\ Applying("go")
      /\ IF to = NoCue THEN Refuse ELSE ManualGo(to, cues[to].transition)

ArmedBefore(i) == {n \in DOMAIN cues : n < i /\ cues[n].armed}

ApplyBack ==
  LET from == OnAir(show)
  IN  /\ Applying("back")
      /\ \/ /\ from = NoCue \/ ArmedBefore(from) = {}
            /\ Refuse
         \/ /\ from # NoCue
            /\ \E p \in ArmedBefore(from) :
                 /\ \A q \in ArmedBefore(from) : q <= p
                 /\ ManualGo(p, cues[from].transition)

ApplyGoto ==
  /\ Applying("goto")
  /\ LET n == Head(pending).cue
     IN  IF n \in DOMAIN cues THEN ManualGo(n, cues[n].transition) ELSE Refuse

ApplyStandby ==
  /\ Applying("standby")
  /\ LET n == Head(pending).cue
     IN  IF n \in DOMAIN cues
         THEN /\ show' = [show EXCEPT !.standby = n]
              /\ pending' = Tail(pending)
              /\ UNCHANGED <<cues, panic, chase, fired, phase>>
         ELSE Refuse

\* Mutant: every panic starts from no black.
ApplyPanic_FromZero ==
  /\ Applying("panic")
  /\ panic' = [on |-> TRUE, fade |-> Head(pending).fade, elapsed |-> 0, from |-> 0]
  /\ show' = [show EXCEPT !.events = Append(@, Event("panic", NoCue))]
  /\ pending' = Tail(pending)
  /\ UNCHANGED <<cues, chase, fired, phase>>

ApplyPanic ==
  /\ Applying("panic")
  /\ panic' = [on |-> TRUE, fade |-> Head(pending).fade, elapsed |-> 0,
               from |-> Larger(PanicBlack(panic), TransBlack(show))]
  /\ show' = [show EXCEPT !.events = Append(@, Event("panic", NoCue))]
  /\ pending' = Tail(pending)
  /\ UNCHANGED <<cues, chase, fired, phase>>

ApplyPending == ApplyGo \/ ApplyBack \/ ApplyGoto \/ ApplyStandby \/ ApplyPanic

\* Mutant: the end of the transition is missed when it falls on the tick.
FinishTransition_Late ==
  /\ phase = "pending" /\ pending = <<>> /\ phase' = "chase"
  /\ show' = IF show.transition.elapsed > show.transition.dur
             THEN Snapped(cues, show) ELSE show
  /\ UNCHANGED <<cues, panic, chase, pending, fired>>

\* Has the running transition reached its end?
FinishTransition ==
  /\ phase = "pending" /\ pending = <<>> /\ phase' = "chase"
  /\ show' = IF show.transition.elapsed >= show.transition.dur
             THEN Snapped(cues, show) ELSE show
  /\ UNCHANGED <<cues, panic, chase, pending, fired>>

----------------------------------------------------------------------------
(* check_chase.                                                            *)

ToFrames(t, rate) == t.s * rate + t.f
Triggers == {n \in DOMAIN cues : cues[n].armed /\ cues[n].trigger # {}}
At(n, rate) == ToFrames(CHOOSE t \in cues[n].trigger : TRUE, rate)

\* chase_triggers sorts by position, then by place in the list.
NotAfter(m, n, rate) ==
  At(m, rate) < At(n, rate) \/ (At(m, rate) = At(n, rate) /\ m <= n)

\* chase_advance collects the triggers in (from, to]; ChaseCut and ChaseFire
\* go through them.
Advance(from, to, rate) ==
  /\ fired' = {n \in Triggers : At(n, rate) > from /\ At(n, rate) <= to}
  /\ phase' = IF fired' = {} THEN "follow" ELSE "fire"
  /\ UNCHANGED <<cues, show, panic, pending>>

\* chase_seek: cue up the last trigger at or before the position.
SeekTo(n) ==
  show' = IF show.transition.to = NoCue /\ show.active = n THEN show
          ELSE IF show.transition.to = n THEN Snapped(cues, show)
               ELSE Started(cues, Snapped(cues, show), n, cues[n].transition)

\* chase_seek before the first trigger: nothing on programme.
SeekBlack(rate) ==
  IF OnAir(show) = NoCue \/ Triggers = {} THEN show' = show
  ELSE \E first \in Triggers :
         /\ \A n \in Triggers : NotAfter(first, n, rate)
         /\ show' = [show EXCEPT !.transition = NoTransition, !.active = NoCue,
                                 !.followFired = FALSE, !.standby = first]

\* Mutant: a trigger exactly at the position is not reached.
Seek_Strict(frames, rate) ==
  LET past == {n \in Triggers : At(n, rate) < frames}
  IN  /\ IF past = {} THEN SeekBlack(rate)
         ELSE \E last \in past :
                /\ \A n \in past : NotAfter(n, last, rate)
                /\ SeekTo(last)
      /\ phase' = "follow"
      /\ UNCHANGED <<cues, panic, pending, fired>>

Seek(frames, rate) ==
  LET past == {n \in Triggers : At(n, rate) <= frames}
  IN  /\ IF past = {} THEN SeekBlack(rate)
         ELSE \E last \in past :
                /\ \A n \in past : NotAfter(n, last, rate)
                /\ SeekTo(last)
      /\ phase' = "follow"
      /\ UNCHANGED <<cues, panic, pending, fired>>

Continuous(c, tc) == c.locked /\ c.rate = tc.rate

ChaseLocked(tc) ==
  /\ phase = "chase" /\ tc # <<>> /\ tc.locked
  /\ chase' = {[frames |-> tc.frames, rate |-> tc.rate, locked |-> TRUE, fw |-> {}]}
  /\ \/ \E c \in chase :
          /\ Continuous(c, tc)
          /\ \/ /\ tc.frames > c.frames /\ tc.frames - c.frames <= SeekFwd * tc.rate
                /\ Advance(c.frames, tc.frames, tc.rate)
             \/ /\ tc.frames < c.frames \/ tc.frames - c.frames > SeekFwd * tc.rate
                /\ Seek(tc.frames, tc.rate)
             \/ /\ tc.frames = c.frames
                /\ phase' = "follow"
                /\ UNCHANGED <<cues, show, panic, pending, fired>>
     \/ /\ \A c \in chase : ~Continuous(c, tc)
        /\ Seek(tc.frames, tc.rate)

\* The freewheel in progress (it starts with the first unlocked tick), and the
\* position it has reached.
FreewheelOf(c) == IF c.locked THEN {[elapsed |-> 0, from |-> c.frames]} ELSE c.fw
Estimate(c) ==
  IF FreewheelOf(c) = {} THEN c.frames
  ELSE LET f == CHOOSE f \in FreewheelOf(c) : TRUE
       IN  Larger(c.frames, f.from + f.elapsed * c.rate)

\* Signal lost: the position runs on for Freewheel, then the chase is
\* suspended.  Nothing on programme is interrupted.
ChaseUnlocked(tc) ==
  /\ phase = "chase" /\ tc # <<>> /\ ~tc.locked
  /\ \/ /\ chase = {} /\ chase' = {} /\ phase' = "follow"
        /\ UNCHANGED <<cues, show, panic, pending, fired>>
     \/ \E c \in chase :
          /\ chase' = {[c EXCEPT !.locked = FALSE, !.frames = Estimate(c),
                                 !.fw = {f \in FreewheelOf(c) : f.elapsed < Freewheel}]}
          /\ Advance(c.frames, Estimate(c), c.rate)

ChaseOff ==
  /\ phase = "chase"
  /\ chase' = {} /\ phase' = "follow"
  /\ UNCHANGED <<cues, show, panic, pending, fired>>

CheckChase(tc) ==
  \/ tc = <<>> /\ ChaseOff
  \/ ChaseLocked(tc)
  \/ ChaseUnlocked(tc)

ChaseRate == (CHOOSE c \in chase : TRUE).rate

\* Mutant: a cue fired by the timecode releases the panic, as a manual GO does.
ChaseFire_Releases ==
  /\ phase = "fire"
  /\ \E n \in fired :
       /\ \A m \in fired : NotAfter(n, m, ChaseRate)
       /\ show' = Started(cues, Snapped(cues, show), n, cues[n].transition)
       /\ fired' = fired \ {n}
  /\ panic' = NoPanic
  /\ phase' = IF fired' = {} THEN "follow" ELSE "fire"
  /\ UNCHANGED <<cues, chase, pending>>

\* The first of the cues passed: cut if others follow, played if it is the last.
ChaseFire ==
  /\ phase = "fire"
  /\ \E n \in fired :
       /\ \A m \in fired : NotAfter(n, m, ChaseRate)
       /\ show' = Started(cues, Snapped(cues, show), n,
                          IF fired = {n} THEN cues[n].transition ELSE CutTransition)
       /\ fired' = fired \ {n}
  /\ phase' = IF fired' = {} THEN "follow" ELSE "fire"
  /\ UNCHANGED <<cues, panic, chase, pending>>

----------------------------------------------------------------------------
(* check_follow, and the end of tick().                                    *)

\* Mutant: a wait that has just elapsed is not due.
FollowDue_Strict(eof) ==
  LET c == cues[show.active]
  IN  \/ c.follow = "wait" /\ show.cueAge > c.wait
      \/ c.follow = "after_media" /\ c.media \cap eof # {}

FollowDue(eof) ==
  LET c == cues[show.active]
  IN  \/ c.follow = "wait" /\ show.cueAge >= c.wait
      \/ c.follow = "after_media" /\ c.media \cap eof # {}

CheckFollow(eof) ==
  /\ phase = "follow" /\ phase' = "frame"
  /\ IF show.transition.to = NoCue /\ ~show.followFired
        /\ show.active # NoCue /\ FollowDue(eof)
     THEN LET s == [show EXCEPT !.followFired = TRUE]
              to == show.standby
          IN  show' = IF to = NoCue THEN Warned(s)
                      ELSE Started(cues, [s EXCEPT !.events = Append(@, Event("follow_fired", to))],
                                   to, cues[to].transition)
     ELSE show' = show
  /\ UNCHANGED <<cues, panic, chase, pending, fired>>

\* tick() returns Frame: the events and the finished snapshots are taken.
EmitFrame ==
  /\ phase = "frame" /\ phase' = "idle"
  /\ show' = [show EXCEPT !.events = <<>>, !.finished = NoSnapshot]
  /\ UNCHANGED <<cues, panic, chase, pending, fired>>

TickStep ==
  \/ \E d \in Deltas : BeginTick(d)
  \/ ApplyPending
  \/ FinishTransition
  \/ \E tc \in TcStates : CheckChase(tc)
  \/ ChaseFire
  \/ \E eof \in SUBSET Slices : CheckFollow(eof)
  \/ EmitFrame

SessionStep ==
  \/ \E c \in Commands : Enqueue(c)
  \/ \E l \in CueLists : Load(l) \/ LoadHot(l)

Init ==
  /\ cues \in CueLists /\ show = Fresh(cues)
  /\ panic = NoPanic /\ chase = {} /\ pending = <<>>
  /\ fired = {} /\ phase = "idle"

Next == TickStep \/ SessionStep

\* The render loop calls tick() once per frame for as long as the program runs.
Spec == Init /\ [][Next]_vars /\ WF_vars(TickStep)
----------------------------------------------------------------------------
(* Properties.                                                             *)

CueOrNone == Numbers \cup {NoCue}
EventTypes == {"started", "finished", "follow_armed", "follow_fired", "panic", "warning"}
Events == [type : EventTypes, cue : CueOrNone]
Snapshots == [given : BOOLEAN, map : ParamMaps]
RunningTransitions == [to : CueOrNone, kind : Kinds, dur : Nat, elapsed : Nat]

Shows ==
  [active : CueOrNone, standby : CueOrNone,
   transition : RunningTransitions,
   cueAge : 0..MaxWait, followFired : BOOLEAN,
   finished : Snapshots, events : Seq(Events)]

ChaseStates ==
  [frames : Nat, rate : Rates, locked : BOOLEAN,
   fw : SUBSET [elapsed : 0..Freewheel, from : Nat]]

\* Type invariant.
TypeOK ==
  /\ cues \in CueLists
  /\ show \in Shows
  /\ panic \in [on : BOOLEAN, fade : Nat, elapsed : Nat, from : 0..Full]
  /\ panic.elapsed <= panic.fade
  /\ chase \subseteq ChaseStates
  /\ pending \in Seq(Commands) /\ Len(pending) <= MaxPending
  /\ fired \subseteq Numbers
  /\ phase \in {"idle", "pending", "chase", "fire", "follow", "frame"}

\* The cue on programme, the standby, the transition's target and the cues the
\* chase has still to fire are always cues of the current list: cues[i] never
\* panics, whatever edits arrived between two ticks.
IndicesInRange ==
  /\ {show.active, show.standby, show.transition.to} \subseteq DOMAIN cues \cup {NoCue}
  /\ fired \subseteq DOMAIN cues

\* A stored transition is a real one: never a cut, never of zero length, never
\* past its end once the tick has looked at it.
TransitionRuns ==
  LET tr == show.transition
  IN  tr.to # NoCue => /\ tr.kind # "cut" /\ tr.dur > 0 /\ tr.elapsed <= tr.dur
                       /\ phase # "pending" => tr.elapsed < tr.dur

\* A fade in progress is cut short only for a cue that starts in its place, a
\* seek of the timecode or a change of the cue list; a refused command, a
\* panic or a follow leaves it alone.
FadeNotCutShort ==
  [][ /\ show.transition.to # NoCue
      /\ show.transition.elapsed < show.transition.dur
      /\ show'.transition.to # show.transition.to
      => \/ \E i \in DOMAIN show'.events :
              i > Len(show.events) /\ show'.events[i].type = "started"
         \/ phase = "chase" /\ chase' # {}
         \/ phase = "idle" /\ phase' = "idle" ]_vars

\* Once engaged, the emergency black never gets lighter while it lasts, a second
\* panic included, and it starts no lighter than what is displayed.
PanicNeverLightens ==
  [][ panic'.on => PanicBlack(panic') >= IF panic.on THEN PanicBlack(panic) ELSE TransBlack(show) ]_vars

\* Only a GO, BACK or GOTO of the operator that is obeyed, or a new show,
\* releases the black: never a follow, the timecode or an edit.
PanicReleasedByOperator ==
  [][ panic.on /\ ~panic'.on =>
        \/ /\ phase = "pending" /\ Head(pending).op \in {"go", "back", "goto"}
           /\ \E i \in DOMAIN show'.events :
                i > Len(show.events) /\ show'.events[i].type = "started"
        \/ show' = Fresh(cues') ]_vars

\* An edit never moves the programme: the cue on air (deck B during a fade) is
\* still on air if the new list has it, its follow neither rearmed nor lost.
EditKeepsProgramme ==
  [][ LET on == OnAir(show)
      IN  /\ phase = "idle" /\ phase' = "idle" /\ on \in DOMAIN cues'
          /\ show' # Fresh(cues')
          => /\ OnAir(show') = on
             /\ show.transition.to = NoCue =>
                  show'.followFired = show.followFired /\ show'.cueAge = show.cueAge ]_vars

\* Every fade ends.
FadeEnds ==
  \A n \in Numbers : show.transition.to = n ~> (show.transition.to # n \/ show.transition.elapsed = 0)

\* A cue with a wait follows by itself, unless something else moves the
\* programme first.
WaitFollows ==
  \A n \in Numbers :
    (/\ show.active = n /\ n \in DOMAIN cues /\ cues[n].follow = "wait")
      ~> \/ show.followFired \/ show.active # n \/ show.transition.to # NoCue
         \/ show.cueAge = 0 \/ n \notin DOMAIN cues \/ cues[n].follow # "wait"
=============================================================================
