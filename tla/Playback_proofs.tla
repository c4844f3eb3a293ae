--------------------------- MODULE Playback_proofs ---------------------------
(***************************************************************************)
(* Theorems about the cue engine, alone and with the media slots and the   *)
(* preload thread, for every set of cue lists, commands, timecode          *)
(* positions and delays, every show, every set of medias and any backlog   *)
(* of the preload thread.                                                  *)
(*                                                                         *)
(* First what a state of the engine may be (CueEngine); then what it       *)
(* promises over time (CueHistory): the emergency black is held, the       *)
(* programme moves as asked and follows the timecode.  What a step does is *)
(* told by the events it adds, so for that part the functions of the       *)
(* engine are described first by the events they add and the parameters    *)
(* they pose.  Last the slots (Playback).                                  *)
(***************************************************************************)
EXTENDS Playback, CueHistory, SequenceTheorems, FiniteSetTheorems, WellFoundedInduction, TLAPS

\* A non-empty set of naturals has a least element, and Min returns it.
LEMMA MinIsLeast ==
  ASSUME NEW S \in SUBSET Nat, S # {}
  PROVE  Min(S) \in S /\ \A y \in S : Min(S) <= y
<1> DEFINE R == OpToRel(<, Nat)
<1>1. \A x, y \in Nat : y < x => <<y, x>> \in R
  BY DEF OpToRel
<1>2. IsWellFoundedOn(R, Nat)
  BY NatLessThanWellFounded
<1> HIDE DEF R
<1>3. PICK x \in S : \A y \in S : ~(<<y, x>> \in R)
  BY <1>2, WFMin
<1>4. ASSUME NEW y \in S PROVE x <= y
  <2>1. x \in Nat /\ y \in Nat
    OBVIOUS
  <2>2. ~(y < x)
    BY <1>1, <1>3, <2>1
  <2> QED BY <2>1, <2>2
<1> QED BY <1>4 DEF Min

-----------------------------------------------------------------------------
(* Cue lists and the helpers that search them.                             *)

LEMMA CueOfList ==
  ASSUME NEW l \in CueLists, NEW n \in DOMAIN l
  PROVE  n \in Numbers /\ l[n] \in Cues
BY CueListsAssumption

\* FirstOf is a cue of the set, or none.
LEMMA FirstOfIsMember ==
  ASSUME NEW S \in SUBSET Numbers
  PROVE  FirstOf(S) \in S \cup {NoCue}
<1>1. CASE S = {}
  BY <1>1 DEF FirstOf
<1>2. CASE S # {}
  <2>1. S \in SUBSET Nat
    BY NumbersAssumption
  <2>2. Min(S) \in S
    BY <1>2, <2>1, MinIsLeast
  <2> QED BY <1>2, <2>2 DEF FirstOf
<1> QED BY <1>1, <1>2

\* The standby that follows a cue of the list is a cue of the list, or none.
LEMMA StandbyAfterInList ==
  ASSUME NEW l \in CueLists, NEW i \in DOMAIN l
  PROVE  StandbyAfter(l, i) \in DOMAIN l \cup {NoCue}
<1>1. ArmedAfter(l, i) \in SUBSET Numbers /\ ArmedAfter(l, i) \subseteq DOMAIN l
  BY CueListsAssumption DEF ArmedAfter
<1>2. FirstOf(ArmedAfter(l, i)) \in ArmedAfter(l, i) \cup {NoCue}
  BY <1>1, FirstOfIsMember
<1> QED BY <1>1, <1>2 DEF StandbyAfter

\* Merging two parameter snapshots gives a parameter snapshot.
LEMMA ExtendedIsParamMap ==
  ASSUME NEW f \in ParamMaps, NEW g \in ParamMaps
  PROVE  Extended(f, g) \in ParamMaps
<1>1. PICK A \in SUBSET Addrs : f \in [A -> Values]
  BY DEF ParamMaps
<1>2. PICK B \in SUBSET Addrs : g \in [B -> Values]
  BY DEF ParamMaps
<1>3. Extended(f, g) \in [A \cup B -> Values]
  BY <1>1, <1>2 DEF Extended
<1> QED BY <1>3 DEF ParamMaps

-----------------------------------------------------------------------------
(* What the functions of the engine do to its state.                       *)

LEMMA EventTyped ==
  ASSUME NEW type \in EventTypes, NEW cue \in Numbers \cup {NoCue}
  PROVE  Event(type, cue) \in Events
BY DEF Event, Events, CueOrNone

LEMMA EventAppended ==
  ASSUME NEW s \in Shows, NEW type \in EventTypes, NEW cue \in Numbers \cup {NoCue}
  PROVE  LET e == [s EXCEPT !.events = Append(@, Event(type, cue))]
         IN  /\ e \in Shows
             /\ e.active = s.active /\ e.standby = s.standby /\ e.transition = s.transition
<1>1. Event(type, cue) \in Events
  BY EventTyped
<1>2. Append(s.events, Event(type, cue)) \in Seq(Events)
  BY <1>1 DEF Shows
<1> QED BY <1>2 DEF Shows

\* A stored transition is a fade towards some cue, not past its end.
FadeStored(s) ==
  s.transition.to # NoCue =>
    /\ s.transition.kind # "cut" /\ s.transition.dur > 0
    /\ s.transition.elapsed <= s.transition.dur

\* ... and not at its end either.
Running(s) == s.transition.to # NoCue => s.transition.elapsed < s.transition.dur

\* The state refers to cues of the list l only.
Sound(l, s) ==
  /\ s \in Shows
  /\ s.active \in DOMAIN l \cup {NoCue}
  /\ s.standby \in DOMAIN l \cup {NoCue}
  /\ s.transition.to \in DOMAIN l \cup {NoCue}
  /\ FadeStored(s)

LEMMA ActivatedSound ==
  ASSUME NEW l \in CueLists, NEW i \in DOMAIN l, NEW s, Sound(l, s)
  PROVE  Sound(l, Activated(l, s, i)) /\ Activated(l, s, i).transition.to = NoCue
<1> DEFINE next == StandbyAfter(l, i)
           armed == IF l[i].follow # "manual" /\ next # NoCue
                    THEN <<Event("follow_armed", i)>> ELSE <<>>
           map == Extended(s.finished.map, l[i].params)
           events == s.events \o <<Event("finished", i)>> \o armed
           a == Activated(l, s, i)
<1>1. i \in Numbers /\ l[i] \in Cues /\ next \in DOMAIN l \cup {NoCue}
  BY CueOfList, StandbyAfterInList
<1>2. DOMAIN l \subseteq Numbers
  BY CueListsAssumption
<1>3. map \in ParamMaps
  <2>1. s.finished.map \in ParamMaps /\ l[i].params \in ParamMaps
    BY <1>1 DEF Sound, Shows, Snapshots, Cues
  <2> QED BY <2>1, ExtendedIsParamMap
<1>4. events \in Seq(Events)
  <2>1. Event("finished", i) \in Events /\ Event("follow_armed", i) \in Events
    BY <1>1, EventTyped DEF EventTypes
  <2>2. armed \in Seq(Events) /\ <<Event("finished", i)>> \in Seq(Events)
    BY <2>1
  <2>3. s.events \in Seq(Events)
    BY DEF Sound, Shows
  <2> HIDE DEF armed
  <2> QED BY <2>2, <2>3
<1>5. a = [s EXCEPT !.transition = NoTransition, !.active = i, !.standby = next,
                    !.cueAge = 0, !.followFired = FALSE,
                    !.finished = [given |-> TRUE, map |-> map], !.events = events]
  BY DEF Activated
<1> HIDE DEF a, next, map, events
<1>6. NoTransition \in RunningTransitions /\ [given |-> TRUE, map |-> map] \in Snapshots
  BY <1>3 DEF NoTransition, RunningTransitions, Snapshots, CueOrNone, Kinds
<1>7. i \in CueOrNone /\ next \in CueOrNone /\ 0 \in 0..MaxWait
  BY <1>1, <1>2, BoundsAssumption DEF CueOrNone
<1>8. a \in Shows /\ a.active = i /\ a.standby = next /\ a.transition = NoTransition
  BY <1>4, <1>5, <1>6, <1>7 DEF Sound, Shows
<1> QED BY <1>1, <1>8 DEF Sound, FadeStored, NoTransition, a

LEMMA SnappedSound ==
  ASSUME NEW l \in CueLists, NEW s, Sound(l, s)
  PROVE  Sound(l, Snapped(l, s)) /\ Snapped(l, s).transition.to = NoCue
BY ActivatedSound DEF Snapped, Sound

LEMMA StartedSound ==
  ASSUME NEW l \in CueLists, NEW s, Sound(l, s), NEW to \in DOMAIN l, NEW tr \in Transitions
  PROVE  Sound(l, Started(l, s, to, tr)) /\ Running(Started(l, s, to, tr))
<1> DEFINE e == [s EXCEPT !.events = Append(@, Event("started", to))]
           f == [e EXCEPT !.transition = [to |-> to, kind |-> tr.kind,
                                          dur |-> tr.dur, elapsed |-> 0]]
<1>1. to \in Numbers
  BY CueOfList
<1>2. Sound(l, e)
  BY <1>1, EventAppended DEF Sound, EventTypes, FadeStored
<1>3. CASE tr.kind = "cut" \/ tr.dur = 0
  <2>1. Started(l, s, to, tr) = Activated(l, e, to)
    BY <1>3 DEF Started
  <2> HIDE DEF e
  <2> QED BY <1>2, <2>1, ActivatedSound DEF Running
<1>4. CASE ~(tr.kind = "cut" \/ tr.dur = 0)
  <2>1. Started(l, s, to, tr) = f
    BY <1>4 DEF Started
  <2> HIDE DEF e
  <2>2. f \in Shows /\ f.active = e.active /\ f.standby = e.standby
        /\ f.transition = [to |-> to, kind |-> tr.kind, dur |-> tr.dur, elapsed |-> 0]
    BY <1>1, <1>2 DEF Sound, Shows, Transitions, RunningTransitions, CueOrNone
  <2>3. tr.dur \in Nat /\ tr.dur # 0 /\ tr.kind # "cut"
    BY <1>4 DEF Transitions
  <2> HIDE DEF f
  <2> QED BY <1>2, <2>1, <2>2, <2>3 DEF Sound, FadeStored, Running
<1> QED BY <1>3, <1>4

LEMMA WarnedSound ==
  ASSUME NEW l \in CueLists, NEW s, Sound(l, s)
  PROVE  Sound(l, Warned(s)) /\ Warned(s).transition = s.transition
BY EventAppended DEF Sound, Warned, EventTypes, FadeStored

LEMMA FreshSound ==
  ASSUME NEW l \in CueLists
  PROVE  Sound(l, Fresh(l)) /\ Fresh(l).transition.to = NoCue
<1> DEFINE armed == {n \in DOMAIN l : l[n].armed}
<1>1. armed \in SUBSET Numbers /\ armed \subseteq DOMAIN l
  BY CueListsAssumption
<1>2. FirstOf(armed) \in armed \cup {NoCue}
  BY <1>1, FirstOfIsMember
<1>3. <<>> \in ParamMaps
  <2>1. <<>> \in [{} -> Values]
    OBVIOUS
  <2> QED BY <2>1 DEF ParamMaps
<1>4. Fresh(l) = [active |-> NoCue, standby |-> FirstOf(armed),
                  transition |-> NoTransition, cueAge |-> 0, followFired |-> FALSE,
                  finished |-> NoSnapshot, events |-> <<>>]
  BY DEF Fresh
<1> HIDE DEF armed
<1>5. Fresh(l) \in Shows
  BY <1>1, <1>2, <1>3, <1>4, BoundsAssumption
     DEF Shows, CueOrNone, NoTransition, NoSnapshot, Kinds, RunningTransitions, Snapshots
<1> QED BY <1>1, <1>2, <1>4, <1>5 DEF Sound, FadeStored, NoTransition

LEMMA OlderSound ==
  ASSUME NEW l \in CueLists, NEW s, Sound(l, s), NEW d \in Deltas
  PROVE  Sound(l, Older(s, d))
<1> DEFINE tr == s.transition
           age == AtMost(s.cueAge + d, MaxWait)
           elapsed == AtMost(tr.elapsed + d, tr.dur)
           older == [tr EXCEPT !.elapsed = elapsed]
<1>1. d \in Nat /\ MaxWait \in Nat
  BY BoundsAssumption
<1>2. tr \in RunningTransitions /\ s.cueAge \in 0..MaxWait
  BY DEF Sound, Shows
<1>3. age \in 0..MaxWait
  BY <1>1, <1>2 DEF AtMost
<1>4. elapsed \in Nat /\ elapsed <= tr.dur
  BY <1>1, <1>2 DEF AtMost, RunningTransitions
<1>5. Older(s, d) = [s EXCEPT !.cueAge = age, !.transition = older]
  BY DEF Older, Sound, Shows
<1> HIDE DEF age, elapsed
<1>6. /\ older \in RunningTransitions /\ older.to = tr.to /\ older.kind = tr.kind
      /\ older.dur = tr.dur /\ older.elapsed = elapsed
  BY <1>2, <1>4 DEF RunningTransitions
<1> HIDE DEF older
<1> QED BY <1>3, <1>4, <1>5, <1>6 DEF Sound, Shows, FadeStored

-----------------------------------------------------------------------------
(* Black levels.                                                           *)

LEMMA QuotientBound ==
  ASSUME NEW a \in Nat, NEW b \in Nat, NEW c \in Nat \ {0}, a <= b * c
  PROVE  a \div c \in 0..b
<1>1. a \div c \in Nat /\ (a \div c) * c <= a
  OBVIOUS
<1>2. ASSUME a \div c > b PROVE FALSE
  <2> DEFINE q == a \div c
  <2>1. q \in Nat /\ q >= b + 1 /\ q * c <= b * c
    BY <1>1, <1>2
  <2> HIDE DEF q
  <2>2. q * c >= (b + 1) * c
    BY <2>1
  <2> QED BY <2>1, <2>2
<1> QED BY <1>1, <1>2

PanicStates == [on : BOOLEAN, fade : Nat, elapsed : Nat, from : 0..Full]

\* The black of a panic is a black level.
LEMMA PanicBlackIsLevel ==
  ASSUME NEW p \in PanicStates, p.elapsed <= p.fade
  PROVE  PanicBlack(p) \in 0..Full
<1> DEFINE rest == Full - p.from
           e == p.elapsed
           f == p.fade
<1>1. rest \in Nat /\ e \in Nat /\ f \in Nat /\ p.from \in 0..Full /\ Full \in Nat
  BY BoundsAssumption DEF PanicStates
<1>2. CASE p.fade # 0
  <2> HIDE DEF rest, e, f
  <2>1. rest * e \in Nat /\ rest * e <= rest * f
    BY <1>1 DEF e, f
  <2>2. (rest * e) \div f \in 0..rest
    BY <1>1, <1>2, <2>1, QuotientBound DEF f
  <2>3. p.from + (rest * e) \div f \in 0..Full
    BY <1>1, <2>2 DEF rest
  <2> QED BY <1>1, <1>2, <2>3 DEF PanicBlack, rest, e, f
<1> QED BY <1>1, <1>2 DEF PanicBlack

\* The black of a transition is a black level.
LEMMA TransBlackIsLevel ==
  ASSUME NEW s \in Shows, FadeStored(s)
  PROVE  TransBlack(s) \in 0..Full
<1> DEFINE e == s.transition.elapsed
           d == s.transition.dur
<1>1. e \in Nat /\ d \in Nat /\ Full \in Nat
  BY BoundsAssumption DEF Shows, RunningTransitions
<1>2. CASE s.transition.to = NoCue \/ s.transition.kind # "through_black"
  BY <1>1, <1>2 DEF TransBlack
<1>3. CASE ~(s.transition.to = NoCue \/ s.transition.kind # "through_black")
  <2>1. d > 0 /\ e <= d
    BY <1>3 DEF FadeStored
  <2>2. TransBlack(s) = IF 2 * e < d THEN (Full * 2 * e) \div d
                        ELSE (Full * 2 * (d - e)) \div d
    BY <1>3 DEF TransBlack
  <2> HIDE DEF e, d
  <2>3. ASSUME NEW x \in Nat, 2 * x <= d PROVE (Full * 2 * x) \div d \in 0..Full
    <3>1. Full * 2 * x \in Nat /\ Full * 2 * x = Full * (2 * x)
      BY <1>1
    <3>2. Full * (2 * x) <= Full * d
      BY <1>1, <2>3
    <3> QED BY <1>1, <2>1, <3>1, <3>2, QuotientBound
  <2>4. CASE 2 * e < d
    BY <1>1, <2>2, <2>3, <2>4
  <2>5. CASE ~(2 * e < d)
    <3>1. d - e \in Nat /\ 2 * (d - e) <= d
      BY <1>1, <2>1, <2>5
    <3> QED BY <2>2, <2>3, <2>5, <3>1
  <2> QED BY <2>4, <2>5
<1> QED BY <1>2, <1>3

-----------------------------------------------------------------------------
(* The inductive invariant: types, indices and stored transitions.  It is  *)
(* stated with Sound, so that the lemmas above apply to it.                *)

Phases == {"idle", "pending", "chase", "fire", "follow", "frame"}

IInv ==
  /\ cues \in CueLists /\ Sound(cues, show)
  /\ phase # "pending" => Running(show)
  /\ panic \in PanicStates /\ panic.elapsed <= panic.fade
  /\ chase \subseteq ChaseStates
  /\ pending \in Seq(Commands) /\ Len(pending) <= MaxPending
  /\ fired \subseteq DOMAIN cues /\ (phase # "fire" => fired = {})
  /\ phase \in Phases

LEMMA IInvImplies ==
  IInv => TypeOK /\ IndicesInRange /\ TransitionRuns
<1> SUFFICES ASSUME IInv PROVE TypeOK /\ IndicesInRange /\ TransitionRuns
  OBVIOUS
<1>1. TypeOK
  BY CueListsAssumption DEF IInv, TypeOK, Sound, PanicStates, Phases
<1>2. IndicesInRange
  BY DEF IInv, IndicesInRange, Sound
<1>3. TransitionRuns
  BY DEF IInv, TransitionRuns, Sound, FadeStored, Running
<1> QED BY <1>1, <1>2, <1>3

LEMMA NoPanicTyped == NoPanic \in PanicStates /\ NoPanic.elapsed <= NoPanic.fade
BY BoundsAssumption DEF NoPanic, PanicStates

LEMMA InitIInv == Init => IInv
<1> SUFFICES ASSUME Init PROVE IInv
  OBVIOUS
<1>1. Sound(cues, show) /\ Running(show)
  BY FreshSound DEF Init, Running
<1>2. <<>> \in Seq(Commands) /\ Len(<<>>) <= MaxPending
  BY BoundsAssumption
<1> QED BY <1>1, <1>2, NoPanicTyped DEF Init, IInv, Phases

-----------------------------------------------------------------------------
(* One lemma per action of the session ...                                 *)

LEMMA EnqueueIInv ==
  ASSUME IInv, NEW c \in Commands, Enqueue(c)
  PROVE  IInv'
BY BoundsAssumption DEF IInv, Enqueue, Sound, FadeStored, Running

LEMMA LoadIInv ==
  ASSUME IInv, NEW l \in CueLists, Load(l)
  PROVE  IInv'
<1>1. cues' = l /\ Sound(l, Fresh(l)) /\ Running(Fresh(l)) /\ show' = Fresh(l)
  BY FreshSound DEF Load, Running
<1>2. <<>> \in Seq(Commands) /\ Len(<<>>) <= MaxPending /\ phase = "idle"
  BY BoundsAssumption DEF Load
<1>3. Sound(cues', show') /\ Running(show')
  BY <1>1
<1> QED BY <1>1, <1>2, <1>3, NoPanicTyped DEF Load, IInv, Phases

\* A hot reload keeps only cues that the new list has.
LEMMA HotReloadedSound ==
  ASSUME cues \in CueLists, Sound(cues, show), NEW l \in CueLists
  PROVE  Sound(l, HotReloaded(l)) /\ Running(HotReloaded(l))
<1> DEFINE s == Snapped(cues, show)
           kept == [Fresh(l) EXCEPT !.events = s.events, !.finished = s.finished]
           armed == s.standby \in DOMAIN l /\ l[s.standby].armed
<1>1. s \in Shows /\ Fresh(l) \in Shows /\ Sound(l, Fresh(l)) /\ Fresh(l).transition.to = NoCue
  BY SnappedSound, FreshSound DEF Sound
<1> HIDE DEF s
<1>2. /\ kept \in Shows /\ kept.active = Fresh(l).active
      /\ kept.standby = Fresh(l).standby /\ kept.transition = Fresh(l).transition
  BY <1>1 DEF Shows
<1> HIDE DEF kept
<1>3. DOMAIN l \subseteq Numbers
  BY CueListsAssumption
<1>4. CASE s.active \in DOMAIN l
  <2> DEFINE next == IF armed THEN s.standby ELSE StandbyAfter(l, s.active)
             h == [kept EXCEPT !.active = s.active, !.cueAge = s.cueAge,
                               !.followFired = s.followFired, !.standby = next]
  <2>1. next \in DOMAIN l \cup {NoCue}
    BY <1>4, StandbyAfterInList
  <2>2. HotReloaded(l) = h
    BY <1>4 DEF HotReloaded, s, kept
  <2> HIDE DEF next
  <2>3. h \in Shows /\ h.active = s.active /\ h.standby = next /\ h.transition = kept.transition
    BY <1>1, <1>2, <1>3, <1>4, <2>1 DEF Shows, CueOrNone
  <2> HIDE DEF h
  <2> QED BY <1>1, <1>2, <1>4, <2>1, <2>2, <2>3 DEF Sound, FadeStored, Running
<1>5. CASE s.active \notin DOMAIN l
  <2> DEFINE next == IF armed THEN s.standby ELSE kept.standby
             h == [kept EXCEPT !.standby = next]
  <2>1. next \in DOMAIN l \cup {NoCue}
    BY <1>1, <1>2 DEF Sound
  <2>2. HotReloaded(l) = h
    BY <1>5 DEF HotReloaded, s, kept
  <2> HIDE DEF next
  <2>3. h \in Shows /\ h.active = kept.active /\ h.standby = next /\ h.transition = kept.transition
    BY <1>2, <1>3, <2>1 DEF Shows, CueOrNone
  <2> HIDE DEF h
  <2> QED BY <1>1, <1>2, <2>1, <2>2, <2>3 DEF Sound, FadeStored, Running
<1> QED BY <1>4, <1>5

LEMMA LoadHotIInv ==
  ASSUME IInv, NEW l \in CueLists, LoadHot(l)
  PROVE  IInv'
<1>1. Sound(l, HotReloaded(l)) /\ Running(HotReloaded(l))
  BY HotReloadedSound DEF IInv
<1>2. <<>> \in Seq(Commands) /\ Len(<<>>) <= MaxPending /\ phase = "idle"
  BY BoundsAssumption DEF LoadHot
<1>3. cues' = l /\ Sound(cues', show') /\ Running(show')
  BY <1>1 DEF LoadHot
<1> QED BY <1>2, <1>3 DEF LoadHot, IInv

-----------------------------------------------------------------------------
(* ... and one per step of tick().                                         *)

LEMMA BeginTickIInv ==
  ASSUME IInv, NEW d \in Deltas, BeginTick(d)
  PROVE  IInv'
<1>1. Sound(cues, show')
  BY OlderSound DEF IInv, BeginTick
<1>2. panic' \in PanicStates /\ panic'.elapsed <= panic'.fade
  BY BoundsAssumption DEF IInv, BeginTick, PanicStates, AtMost
<1>3. chase' \subseteq ChaseStates
  <2> SUFFICES ASSUME NEW c \in chase
               PROVE  [c EXCEPT !.fw = {[f EXCEPT !.elapsed = AtMost(@ + d, Freewheel)] : f \in c.fw}]
                        \in ChaseStates
    BY DEF BeginTick
  <2>1. c \in ChaseStates
    BY DEF IInv
  <2>2. ASSUME NEW f \in c.fw
        PROVE  [f EXCEPT !.elapsed = AtMost(@ + d, Freewheel)] \in [elapsed : 0..Freewheel, from : Nat]
    BY <2>1, BoundsAssumption DEF ChaseStates, AtMost
  <2> QED BY <2>1, <2>2 DEF ChaseStates
<1> QED BY <1>1, <1>2, <1>3 DEF IInv, BeginTick, Phases

\* Taking the first command off the queue.
LEMMA TailTyped ==
  ASSUME pending \in Seq(Commands), Len(pending) <= MaxPending, pending # <<>>
  PROVE  /\ Tail(pending) \in Seq(Commands) /\ Len(Tail(pending)) <= MaxPending
         /\ Head(pending) \in Commands
BY BoundsAssumption

LEMMA ManualGoIInv ==
  ASSUME IInv, phase = "pending", pending # <<>>,
         NEW to \in DOMAIN cues, NEW tr \in Transitions, ManualGo(to, tr)
  PROVE  IInv'
<1>1. Sound(cues, Snapped(cues, show))
  BY SnappedSound DEF IInv
<1>2. Sound(cues, show') /\ Running(show')
  BY <1>1, StartedSound DEF IInv, ManualGo
<1> QED BY <1>2, TailTyped, NoPanicTyped DEF IInv, ManualGo

LEMMA RefuseIInv ==
  ASSUME IInv, phase = "pending", pending # <<>>, Refuse
  PROVE  IInv'
<1>1. Sound(cues, show')
  BY WarnedSound DEF IInv, Refuse
<1> QED BY <1>1, TailTyped DEF IInv, Refuse

LEMMA CueTransition ==
  ASSUME cues \in CueLists, NEW n \in DOMAIN cues
  PROVE  cues[n].transition \in Transitions
BY CueOfList DEF Cues

LEMMA ApplyGoIInv == ASSUME IInv, ApplyGo PROVE IInv'
<1> DEFINE to == IF show.transition.to # NoCue THEN StandbyAfter(cues, show.transition.to)
                 ELSE show.standby
<1>1. phase = "pending" /\ pending # <<>>
  BY DEF ApplyGo, Applying
<1>2. to \in DOMAIN cues \cup {NoCue}
  BY StandbyAfterInList DEF IInv, Sound
<1>3. IF to = NoCue THEN Refuse ELSE ManualGo(to, cues[to].transition)
  BY DEF ApplyGo
<1> HIDE DEF to
<1> QED BY <1>1, <1>2, <1>3, RefuseIInv, ManualGoIInv, CueTransition DEF IInv

LEMMA ApplyBackIInv == ASSUME IInv, ApplyBack PROVE IInv'
<1> DEFINE from == OnAir(show)
<1>1. phase = "pending" /\ pending # <<>>
  BY DEF ApplyBack, Applying
<1>2. from \in DOMAIN cues \cup {NoCue}
  BY DEF OnAir, IInv, Sound
<1>3. CASE Refuse
  BY <1>1, <1>3, RefuseIInv
<1>4. ASSUME from # NoCue, NEW p \in ArmedBefore(from), ManualGo(p, cues[from].transition)
      PROVE  IInv'
  <2>1. p \in DOMAIN cues
    BY <1>4 DEF ArmedBefore
  <2>2. cues[from].transition \in Transitions
    BY <1>2, <1>4, CueTransition DEF IInv
  <2> HIDE DEF from
  <2> QED BY <1>1, <1>4, <2>1, <2>2, ManualGoIInv
<1> QED BY <1>3, <1>4 DEF ApplyBack

LEMMA ApplyGotoIInv == ASSUME IInv, ApplyGoto PROVE IInv'
<1> DEFINE n == Head(pending).cue
<1>1. phase = "pending" /\ pending # <<>>
  BY DEF ApplyGoto, Applying
<1>2. IF n \in DOMAIN cues THEN ManualGo(n, cues[n].transition) ELSE Refuse
  BY DEF ApplyGoto
<1> HIDE DEF n
<1> QED BY <1>1, <1>2, RefuseIInv, ManualGoIInv, CueTransition DEF IInv

LEMMA ApplyStandbyIInv == ASSUME IInv, ApplyStandby PROVE IInv'
<1> DEFINE n == Head(pending).cue
<1>1. phase = "pending" /\ pending # <<>>
  BY DEF ApplyStandby, Applying
<1>2. CASE Refuse
  BY <1>1, <1>2, RefuseIInv
<1>3. CASE n \in DOMAIN cues /\ ~Refuse
  <2>1. /\ show' = [show EXCEPT !.standby = n] /\ pending' = Tail(pending)
        /\ UNCHANGED <<cues, panic, chase, fired, phase>>
    BY <1>3 DEF ApplyStandby
  <2>2. n \in Numbers
    BY <1>3, CueOfList DEF IInv
  <2> HIDE DEF n
  <2>3. Sound(cues, show')
    BY <1>3, <2>1, <2>2 DEF IInv, Sound, Shows, CueOrNone, FadeStored
  <2> QED BY <1>1, <2>1, <2>3, TailTyped DEF IInv
<1> QED BY <1>2, <1>3 DEF ApplyStandby

LEMMA ApplyPanicIInv == ASSUME IInv, ApplyPanic PROVE IInv'
<1>1. phase = "pending" /\ pending # <<>> /\ Head(pending).op = "panic"
  BY DEF ApplyPanic, Applying
<1>2. Head(pending).fade \in Nat
  <2>1. Head(pending) \in Commands
    BY <1>1, TailTyped DEF IInv
  <2> QED BY <1>1, <2>1, BoundsAssumption DEF Commands
<1>3. Larger(PanicBlack(panic), TransBlack(show)) \in 0..Full
  BY PanicBlackIsLevel, TransBlackIsLevel DEF IInv, Sound, Larger
<1>4. panic' \in PanicStates /\ panic'.elapsed <= panic'.fade
  BY <1>2, <1>3 DEF ApplyPanic, PanicStates
<1>5. Sound(cues, show')
  <2>1. show \in Shows /\ "panic" \in EventTypes /\ NoCue \in Numbers \cup {NoCue}
    BY DEF IInv, Sound, EventTypes
  <2>2. show' = [show EXCEPT !.events = Append(@, Event("panic", NoCue))]
    BY DEF ApplyPanic
  <2>3. /\ show' \in Shows /\ show'.active = show.active /\ show'.standby = show.standby
        /\ show'.transition = show.transition
    BY <2>1, <2>2, EventAppended
  <2> QED BY <2>3 DEF IInv, Sound, FadeStored
<1> QED BY <1>1, <1>4, <1>5, TailTyped DEF IInv, ApplyPanic

LEMMA FinishTransitionIInv == ASSUME IInv, FinishTransition PROVE IInv'
<1>1. Sound(cues, show') /\ Running(show')
  <2>1. CASE show.transition.elapsed >= show.transition.dur
    BY <2>1, SnappedSound DEF FinishTransition, IInv, Running
  <2>2. CASE ~(show.transition.elapsed >= show.transition.dur)
    BY <2>2 DEF FinishTransition, IInv, Running, Sound, Shows, RunningTransitions
  <2> QED BY <2>1, <2>2
<1> QED BY <1>1 DEF FinishTransition, IInv, Phases

LEMMA AdvanceIInv ==
  ASSUME IInv, phase = "chase", NEW from, NEW to, NEW rate, Advance(from, to, rate),
         chase' \subseteq ChaseStates
  PROVE  IInv'
<1>1. fired' \subseteq DOMAIN cues
  BY DEF Advance, Triggers
<1> QED BY <1>1 DEF Advance, IInv, Phases

LEMMA SeekIInv ==
  ASSUME IInv, phase = "chase", NEW frames, NEW rate, Seek(frames, rate),
         chase' \subseteq ChaseStates
  PROVE  IInv'
<1> DEFINE past == {n \in Triggers : At(n, rate) <= frames}
<1>1. Sound(cues, Snapped(cues, show)) /\ Snapped(cues, show).transition.to = NoCue
  BY SnappedSound DEF IInv
<1>2. ASSUME NEW n \in DOMAIN cues, SeekTo(n)
      PROVE  Sound(cues, show') /\ Running(show')
  <2>1. cues[n].transition \in Transitions
    BY CueTransition DEF IInv
  <2>2. /\ Sound(cues, Started(cues, Snapped(cues, show), n, cues[n].transition))
        /\ Running(Started(cues, Snapped(cues, show), n, cues[n].transition))
    BY <1>1, <2>1, StartedSound DEF IInv
  <2> QED BY <1>1, <1>2, <2>2 DEF SeekTo, IInv, Running
<1>3. ASSUME SeekBlack(rate) PROVE Sound(cues, show') /\ Running(show')
  <2>1. CASE show' = show
    BY <2>1 DEF IInv
  <2>2. ASSUME NEW first \in Triggers,
               show' = [show EXCEPT !.transition = NoTransition, !.active = NoCue,
                                    !.followFired = FALSE, !.standby = first]
        PROVE  Sound(cues, show') /\ Running(show')
    <3>1. first \in DOMAIN cues /\ first \in CueOrNone /\ NoCue \in CueOrNone
      BY CueOfList DEF Triggers, IInv, CueOrNone
    <3>2. NoTransition \in RunningTransitions /\ NoTransition.to = NoCue
      BY DEF NoTransition, RunningTransitions, CueOrNone, Kinds
    <3> QED BY <2>2, <3>1, <3>2 DEF IInv, Sound, Shows, FadeStored, Running
  <2> QED BY <1>3, <2>1, <2>2 DEF SeekBlack
<1>4. Sound(cues, show') /\ Running(show')
  <2>1. CASE past = {}
    BY <1>3, <2>1 DEF Seek
  <2>2. CASE past # {}
    <3>1. PICK last \in past : SeekTo(last)
      BY <2>2 DEF Seek
    <3> QED BY <1>2, <3>1 DEF Triggers
  <2> QED BY <2>1, <2>2
<1> QED BY <1>4 DEF Seek, IInv, Phases

LEMMA ChaseLockedIInv ==
  ASSUME IInv, NEW tc \in TcStates, ChaseLocked(tc)
  PROVE  IInv'
<1>1. phase = "chase" /\ tc # <<>>
  BY DEF ChaseLocked
<1>2. tc \in [frames : 0..MaxFrames, rate : Rates, locked : BOOLEAN]
  BY <1>1 DEF TcStates
<1>3. chase' \subseteq ChaseStates
  BY <1>2, BoundsAssumption DEF ChaseLocked, ChaseStates
<1>4. \/ \E c \in chase : Advance(c.frames, tc.frames, tc.rate)
      \/ Seek(tc.frames, tc.rate)
      \/ phase' = "follow" /\ UNCHANGED <<cues, show, panic, pending, fired>>
  BY DEF ChaseLocked
<1>5. CASE phase' = "follow" /\ UNCHANGED <<cues, show, panic, pending, fired>>
  BY <1>1, <1>3, <1>5 DEF IInv, Phases, Sound, FadeStored, Running
<1> QED BY <1>1, <1>3, <1>4, <1>5, AdvanceIInv, SeekIInv

LEMMA FreewheelTyped ==
  ASSUME NEW c \in ChaseStates
  PROVE  /\ FreewheelOf(c) \subseteq [elapsed : 0..Freewheel, from : Nat]
         /\ Estimate(c) \in Nat
<1>1. c.frames \in Nat /\ c.rate \in Nat
  BY BoundsAssumption DEF ChaseStates
<1>2. FreewheelOf(c) \subseteq [elapsed : 0..Freewheel, from : Nat]
  <2>1. [elapsed |-> 0, from |-> c.frames] \in [elapsed : 0..Freewheel, from : Nat]
    BY <1>1, BoundsAssumption
  <2>2. c.fw \subseteq [elapsed : 0..Freewheel, from : Nat]
    BY DEF ChaseStates
  <2> QED BY <2>1, <2>2 DEF FreewheelOf
<1>3. ASSUME FreewheelOf(c) # {} PROVE Estimate(c) \in Nat
  <2> DEFINE f == CHOOSE g \in FreewheelOf(c) : TRUE
  <2>0. Estimate(c) = Larger(c.frames, f.from + f.elapsed * c.rate)
    BY <1>3 DEF Estimate
  <2>1. f \in [elapsed : 0..Freewheel, from : Nat]
    BY <1>2, <1>3
  <2> HIDE DEF f
  <2>2. f.elapsed \in Nat /\ f.from \in Nat
    BY <2>1, BoundsAssumption
  <2>3. f.elapsed * c.rate \in Nat
    BY <1>1, <2>2
  <2> QED BY <1>1, <2>0, <2>2, <2>3 DEF Larger
<1> QED BY <1>1, <1>2, <1>3 DEF Estimate

LEMMA ChaseUnlockedIInv ==
  ASSUME IInv, NEW tc \in TcStates, ChaseUnlocked(tc)
  PROVE  IInv'
<1>1. phase = "chase"
  BY DEF ChaseUnlocked
<1>2. CASE chase = {} /\ chase' = {} /\ phase' = "follow"
           /\ UNCHANGED <<cues, show, panic, pending, fired>>
  BY <1>1, <1>2 DEF IInv, Phases, Sound, FadeStored, Running
<1>3. ASSUME NEW c \in chase,
             chase' = {[c EXCEPT !.locked = FALSE, !.frames = Estimate(c),
                                 !.fw = {f \in FreewheelOf(c) : f.elapsed < Freewheel}]},
             Advance(c.frames, Estimate(c), c.rate)
      PROVE  IInv'
  <2> DEFINE fw == {f \in FreewheelOf(c) : f.elapsed < Freewheel}
  <2>1. c \in ChaseStates
    BY DEF IInv
  <2>2. fw \in SUBSET [elapsed : 0..Freewheel, from : Nat] /\ Estimate(c) \in Nat
    BY <2>1, FreewheelTyped
  <2>3. chase' = {[c EXCEPT !.locked = FALSE, !.frames = Estimate(c), !.fw = fw]}
    BY <1>3
  <2> HIDE DEF fw
  <2>4. chase' \subseteq ChaseStates
    BY <2>1, <2>2, <2>3 DEF ChaseStates
  <2> QED BY <1>1, <1>3, <2>4, AdvanceIInv
<1> QED BY <1>2, <1>3 DEF ChaseUnlocked

LEMMA CheckChaseIInv ==
  ASSUME IInv, NEW tc \in TcStates, CheckChase(tc)
  PROVE  IInv'
<1>1. CASE ChaseOff
  BY <1>1 DEF ChaseOff, IInv, Phases, Sound, FadeStored, Running
<1> QED BY <1>1, ChaseLockedIInv, ChaseUnlockedIInv DEF CheckChase

LEMMA ChaseFireIInv == ASSUME IInv, ChaseFire PROVE IInv'
<1>1. PICK n \in fired :
        /\ show' = Started(cues, Snapped(cues, show), n,
                           IF fired = {n} THEN cues[n].transition ELSE CutTransition)
        /\ fired' = fired \ {n}
  BY DEF ChaseFire
<1>2. n \in DOMAIN cues /\ cues[n].transition \in Transitions
  BY CueTransition DEF IInv
<1>3. CutTransition \in Transitions
  BY DEF CutTransition, Transitions, Kinds
<1>4. Sound(cues, Snapped(cues, show))
  BY SnappedSound DEF IInv
<1>5. Sound(cues, show') /\ Running(show')
  BY <1>1, <1>2, <1>3, <1>4, StartedSound DEF IInv
<1> QED BY <1>1, <1>5 DEF ChaseFire, IInv, Phases

LEMMA CheckFollowIInv ==
  ASSUME IInv, NEW eof \in SUBSET Slices, CheckFollow(eof)
  PROVE  IInv'
<1> DEFINE s == [show EXCEPT !.followFired = TRUE]
           to == show.standby
           e == [s EXCEPT !.events = Append(@, Event("follow_fired", to))]
<1>1. Sound(cues, s) /\ s.transition = show.transition
  BY DEF IInv, Sound, Shows, FadeStored
<1>2. to \in DOMAIN cues \cup {NoCue} /\ to \in Numbers \cup {NoCue}
  BY CueOfList DEF IInv, Sound
<1>3. \/ show' = show
      \/ show.transition.to = NoCue
         /\ show' = IF to = NoCue THEN Warned(s) ELSE Started(cues, e, to, cues[to].transition)
  BY DEF CheckFollow
<1>4. Sound(cues, show') /\ Running(show')
  <2>1. CASE show' = show
    BY <2>1 DEF CheckFollow, IInv
  <2>2. CASE show.transition.to = NoCue /\ to = NoCue /\ show' = Warned(s)
    <3> HIDE DEF s
    <3> QED BY <1>1, <2>2, WarnedSound DEF IInv, Running
  <2>3. CASE to # NoCue /\ show' = Started(cues, e, to, cues[to].transition)
    <3> HIDE DEF s, to
    <3>1. Sound(cues, e)
      BY <1>1, <1>2, EventAppended DEF Sound, EventTypes, FadeStored
    <3>2. cues[to].transition \in Transitions
      BY <1>2, <2>3, CueTransition DEF IInv
    <3> HIDE DEF e
    <3> QED BY <1>2, <2>3, <3>1, <3>2, StartedSound DEF IInv
  <2> QED BY <1>3, <2>1, <2>2, <2>3
<1> QED BY <1>4 DEF CheckFollow, IInv, Phases

LEMMA EmitFrameIInv == ASSUME IInv, EmitFrame PROVE IInv'
<1>1. NoSnapshot \in Snapshots /\ <<>> \in Seq(Events)
  <2>1. <<>> \in [{} -> Values]
    OBVIOUS
  <2> QED BY <2>1 DEF NoSnapshot, Snapshots, ParamMaps
<1>2. Sound(cues, show') /\ show'.transition = show.transition
  BY <1>1 DEF EmitFrame, IInv, Sound, Shows, FadeStored
<1> QED BY <1>2 DEF EmitFrame, IInv, Phases, Running

-----------------------------------------------------------------------------
(* The theorems.                                                           *)

LEMMA NextIInv == IInv /\ [Next]_vars => IInv'
<1> SUFFICES ASSUME IInv, [Next]_vars PROVE IInv'
  OBVIOUS
<1>1. CASE UNCHANGED vars
  BY <1>1 DEF vars, IInv, Sound, FadeStored, Running
<1>2. CASE SessionStep
  BY <1>2, EnqueueIInv, LoadIInv, LoadHotIInv DEF SessionStep
<1>3. CASE ApplyPending
  BY <1>3, ApplyGoIInv, ApplyBackIInv, ApplyGotoIInv, ApplyStandbyIInv, ApplyPanicIInv
     DEF ApplyPending
<1>4. CASE TickStep
  BY <1>3, <1>4, BeginTickIInv, FinishTransitionIInv, CheckChaseIInv, ChaseFireIInv,
     CheckFollowIInv, EmitFrameIInv DEF TickStep
<1> QED BY <1>1, <1>2, <1>4 DEF Next

THEOREM InvariantHolds == Spec => []IInv
BY InitIInv, NextIInv, PTL DEF Spec

\* Every value the engine stores stays in its type, whatever the lists, the
\* commands and the timecode: levels and clocks stay within their bounds.
THEOREM TypeCorrect == Spec => []TypeOK
<1>1. IInv => TypeOK
  BY IInvImplies
<1> QED BY <1>1, InvariantHolds, PTL

\* The engine never refers to a cue its list does not have (cues[i] in
\* crates/cue/src/lib.rs never panics), edits of the list included.
THEOREM NoDanglingCue == Spec => []IndicesInRange
<1>1. IInv => IndicesInRange
  BY IInvImplies
<1> QED BY <1>1, InvariantHolds, PTL

\* A stored transition is never a cut, never empty and never past its end.
THEOREM StoredTransitionsRun == Spec => []TransitionRuns
<1>1. IInv => TransitionRuns
  BY IInvImplies
<1> QED BY <1>1, InvariantHolds, PTL

-----------------------------------------------------------------------------
(* Events.                                                                 *)

Has(e, type) == \E i \in DOMAIN e : e[i].type = type

\* What is in a sequence followed by another.
LEMMA Followed ==
  ASSUME NEW e \in Seq(Events), NEW f \in Seq(Events)
  PROVE  /\ e \o f \in Seq(Events) /\ Len(e \o f) = Len(e) + Len(f)
         /\ \A i \in DOMAIN e : i \in DOMAIN (e \o f) /\ (e \o f)[i] = e[i]
         /\ \A i \in DOMAIN f : Len(e) + i \in DOMAIN (e \o f) /\ (e \o f)[Len(e) + i] = f[i]
         /\ \A i \in DOMAIN (e \o f) : i \in DOMAIN e \/ i - Len(e) \in DOMAIN f
         /\ \A i \in DOMAIN (e \o f) : i \notin DOMAIN e => (e \o f)[i] = f[i - Len(e)]
OBVIOUS

LEMMA Joined ==
  ASSUME NEW d \in Seq(Events), NEW e \in Seq(Events), NEW f \in Seq(Events)
  PROVE  (d \o e) \o f = d \o (e \o f)
BY ConcatAssociative

LEMMA HasEither ==
  ASSUME NEW e \in Seq(Events), NEW f \in Seq(Events), NEW type
  PROVE  Has(e \o f, type) <=> Has(e, type) \/ Has(f, type)
<1> DEFINE g == e \o f
           n == Len(e)
<1>1. /\ \A i \in DOMAIN e : i \in DOMAIN g /\ g[i] = e[i]
      /\ \A i \in DOMAIN f : n + i \in DOMAIN g /\ g[n + i] = f[i]
      /\ \A i \in DOMAIN g : i \in DOMAIN e \/ i - n \in DOMAIN f
      /\ \A i \in DOMAIN g : i \notin DOMAIN e => g[i] = f[i - n]
  BY Followed
<1> HIDE DEF g, n
<1>2. Has(g, type) <=> Has(e, type) \/ Has(f, type)
  BY <1>1 DEF Has
<1> QED BY <1>2 DEF g

LEMMA HasOne ==
  ASSUME NEW x \in Events
  PROVE  /\ <<x>> \in Seq(Events) /\ Len(<<x>>) = 1 /\ DOMAIN <<x>> = {1} /\ <<x>>[1] = x
         /\ \A type : Has(<<x>>, type) <=> x.type = type
BY DEF Has

LEMMA HasNone ==
  /\ <<>> \in Seq(Events) /\ Len(<<>>) = 0 /\ DOMAIN <<>> = {}
  /\ \A type : ~Has(<<>>, type)
BY DEF Has

LEMMA EventIs ==
  ASSUME NEW type \in EventTypes, NEW cue \in Numbers \cup {NoCue}
  PROVE  /\ Event(type, cue) \in Events
         /\ Event(type, cue).type = type /\ Event(type, cue).cue = cue
BY DEF Event, Events, CueOrNone

\* The events a step adds, and where one of them is.
LEMMA Added ==
  ASSUME show.events \in Seq(Events), NEW e \in Seq(Events), show'.events = show.events \o e
  PROVE  /\ NewEvents = e
         /\ \A type : Happens(type) <=> Has(e, type)
         /\ \A type : Has(e, type) =>
              \E i \in DOMAIN show'.events :
                i > Len(show.events) /\ show'.events[i].type = type
<1> DEFINE v == show.events
           w == v \o e
           n == Len(v)
           x == SubSeq(w, n + 1, Len(w))
<1>1. w \in Seq(Events) /\ Len(w) = n + Len(e) /\ n \in Nat /\ Len(e) \in Nat
  OBVIOUS
<1>2. NewEvents = IF Len(w) > n THEN x ELSE <<>>
  BY DEF NewEvents
<1>3. Len(e) > 0 => x \in Seq(Events) /\ Len(x) = Len(e) /\ \A i \in 1..Len(e) : x[i] = e[i]
  OBVIOUS
<1>4. e = <<>> <=> Len(e) = 0
  OBVIOUS
<1>5. Len(e) > 0 => x = e
  <2> HIDE DEF x
  <2> QED BY <1>3, SeqEqual
<1>6. NewEvents = e
  <2> HIDE DEF w, x, n
  <2> QED BY <1>1, <1>2, <1>4, <1>5
<1>7. \A i \in DOMAIN e : i > 0 /\ n + i \in DOMAIN w /\ w[n + i] = e[i] /\ n + i > n
  BY Followed
<1>8. ASSUME NEW type, Has(e, type)
      PROVE  \E i \in DOMAIN w : i > n /\ w[i].type = type
  <2> HIDE DEF w, n
  <2> QED BY <1>7, <1>8 DEF Has
<1>9. show'.events = w
  OBVIOUS
<1> HIDE DEF w
<1> QED BY <1>6, <1>8, <1>9 DEF Happens, Has

\* A step that takes the events away adds none.
LEMMA Emptied ==
  ASSUME show.events \in Seq(Events), show'.events = <<>>
  PROVE  NewEvents = <<>> /\ \A type : ~Happens(type)
<1>1. ~(Len(show'.events) > Len(show.events))
  OBVIOUS
<1>2. NewEvents = <<>>
  BY <1>1 DEF NewEvents
<1> QED BY <1>2 DEF Happens

-----------------------------------------------------------------------------
(* The parameters posed.  What a piece of a step adds to the events, and    *)
(* the snapshots it poses, for the list l: each cue that ends its entry has *)
(* its parameters posed, but where a later one covers them; what was posed  *)
(* before stays, but where one of these covers it.                          *)

Ends(e, i) == i \in DOMAIN e /\ e[i].type = "finished"
Covers(l, e, i, a) == Ends(e, i) /\ a \in DOMAIN l[e[i].cue].params

Poses(l, e, t) ==
  \A i, a : Covers(l, e, i, a) =>
    /\ t.finished.given /\ a \in DOMAIN t.finished.map
    /\ \/ \E j : j \in Int /\ j > i /\ Covers(l, e, j, a)
       \/ t.finished.map[a] = l[e[i].cue].params[a]
Leaves(l, s, e, t) ==
  s.finished.given =>
    /\ t.finished.given
    /\ \A a \in DOMAIN s.finished.map :
         /\ a \in DOMAIN t.finished.map
         /\ \/ \E j : Covers(l, e, j, a)
            \/ t.finished.map[a] = s.finished.map[a]

\* From s to t the events e are added, and their snapshots posed.
Adds(l, s, e, t) ==
  /\ e \in Seq(Events) /\ t.events = s.events \o e
  /\ Poses(l, e, t) /\ Leaves(l, s, e, t)

LEMMA AddsNone ==
  ASSUME NEW l, NEW s, s.events \in Seq(Events)
  PROVE  Adds(l, s, <<>>, s)
<1>1. s.events \o <<>> = s.events /\ <<>> \in Seq(Events) /\ DOMAIN <<>> = {}
  OBVIOUS
<1> QED BY <1>1 DEF Adds, Poses, Leaves, Covers, Ends

\* An event that ends nothing, the snapshots left alone.
LEMMA AddsOne ==
  ASSUME NEW l, NEW s, NEW t, NEW x \in Events, x.type # "finished",
         s.events \in Seq(Events), t.events = s.events \o <<x>>, t.finished = s.finished
  PROVE  Adds(l, s, <<x>>, t)
<1> DEFINE e == <<x>>
<1>1. e \in Seq(Events) /\ DOMAIN e = {1} /\ e[1] = x
  OBVIOUS
<1> HIDE DEF e
<1>2. \A i : ~Ends(e, i)
  BY <1>1 DEF Ends
<1>3. Adds(l, s, e, t)
  <2>1. t.events = s.events \o e
    BY DEF e
  <2> QED BY <1>1, <1>2, <2>1, Zenon DEF Adds, Poses, Leaves, Covers
<1> QED BY <1>3 DEF e

\* Two pieces one after the other.
LEMMA AddsBoth ==
  ASSUME NEW l, NEW s, NEW t, NEW u, NEW e, NEW f,
         s.events \in Seq(Events), Adds(l, s, e, t), Adds(l, t, f, u)
  PROVE  Adds(l, s, e \o f, u)
<1> DEFINE g == e \o f
           n == Len(e)
<1>0. e \in Seq(Events) /\ f \in Seq(Events) /\ t.events = s.events \o e /\ u.events = t.events \o f
  BY DEF Adds
<1>1. g \in Seq(Events) /\ u.events = s.events \o g /\ n \in Nat
  <2>1. e \in Seq(Events) /\ f \in Seq(Events) /\ s.events \in Seq(Events)
    BY <1>0
  <2>2. (s.events \o e) \o f = s.events \o g
    BY <2>1, Joined
  <2>3. g \in Seq(Events) /\ n \in Nat
    BY <2>1
  <2>4. u.events = (s.events \o e) \o f
    BY <1>0, Zenon
  <2> QED BY <2>2, <2>3, <2>4, Zenon
<1>2. /\ \A i \in DOMAIN e : i \in DOMAIN g /\ g[i] = e[i] /\ i \in Int /\ i <= n
      /\ \A i \in DOMAIN f : n + i \in DOMAIN g /\ g[n + i] = f[i] /\ i \in Int /\ i > 0
      /\ \A i \in DOMAIN g : i \in Int
      /\ \A i \in DOMAIN g : i \in DOMAIN e \/ i - n \in DOMAIN f
      /\ \A i \in DOMAIN g : i \notin DOMAIN e => g[i] = f[i - n]
  BY <1>0, Followed
<1> HIDE DEF g, n
<1>3. \A i, a : Covers(l, e, i, a) => Covers(l, g, i, a)
  BY <1>2 DEF Covers, Ends
<1>4. \A i, a : Covers(l, f, i, a) => i \in Int /\ Covers(l, g, n + i, a) /\ g[n + i] = f[i]
  BY <1>2 DEF Covers, Ends
<1>5. \A i, a : Covers(l, g, i, a) =>
        \/ Covers(l, e, i, a) /\ g[i] = e[i] /\ i \in Int /\ i <= n
        \/ Covers(l, f, i - n, a) /\ g[i] = f[i - n] /\ i \in Int
  BY <1>2 DEF Covers, Ends
<1>6. Poses(l, g, u)
  <2> SUFFICES ASSUME NEW i, NEW a, Covers(l, g, i, a)
               PROVE  /\ u.finished.given /\ a \in DOMAIN u.finished.map
                      /\ \/ \E j : j \in Int /\ j > i /\ Covers(l, g, j, a)
                         \/ u.finished.map[a] = l[g[i].cue].params[a]
    BY DEF Poses
  <2>1. CASE Covers(l, e, i, a) /\ g[i] = e[i] /\ i \in Int /\ i <= n
    <3>1. /\ t.finished.given /\ a \in DOMAIN t.finished.map
          /\ \/ \E j : j \in Int /\ j > i /\ Covers(l, e, j, a)
             \/ t.finished.map[a] = l[e[i].cue].params[a]
      BY <2>1 DEF Adds, Poses
    <3>2. /\ u.finished.given /\ a \in DOMAIN u.finished.map
          /\ \/ \E j : Covers(l, f, j, a)
             \/ u.finished.map[a] = t.finished.map[a]
      BY <3>1 DEF Adds, Leaves
    <3>3. ASSUME NEW j, Covers(l, f, j, a) PROVE n + j \in Int /\ n + j > i /\ Covers(l, g, n + j, a)
      <4>1. j \in Int /\ j > 0
        BY <3>3, <1>2 DEF Covers, Ends
      <4> QED BY <1>1, <1>4, <2>1, <3>3, <4>1
    <3> QED BY <1>3, <2>1, <3>1, <3>2, <3>3
  <2>2. CASE Covers(l, f, i - n, a) /\ g[i] = f[i - n] /\ i \in Int
    <3>1. /\ u.finished.given /\ a \in DOMAIN u.finished.map
          /\ \/ \E j : j \in Int /\ j > i - n /\ Covers(l, f, j, a)
             \/ u.finished.map[a] = l[f[i - n].cue].params[a]
      BY <2>2 DEF Adds, Poses
    <3>2. ASSUME NEW j \in Int, j > i - n, Covers(l, f, j, a)
          PROVE  n + j \in Int /\ n + j > i /\ Covers(l, g, n + j, a)
      BY <1>1, <1>4, <2>2, <3>2
    <3> QED BY <2>2, <3>1, <3>2
  <2> QED BY <1>5, <2>1, <2>2
<1>7. Leaves(l, s, g, u)
  <2> SUFFICES ASSUME s.finished.given
               PROVE  /\ u.finished.given
                      /\ \A a \in DOMAIN s.finished.map :
                           /\ a \in DOMAIN u.finished.map
                           /\ \/ \E j : Covers(l, g, j, a)
                              \/ u.finished.map[a] = s.finished.map[a]
    BY DEF Leaves
  <2>1. t.finished.given /\ u.finished.given
    BY DEF Adds, Leaves
  <2>2. ASSUME NEW a \in DOMAIN s.finished.map
        PROVE  /\ a \in DOMAIN u.finished.map
               /\ \/ \E j : Covers(l, g, j, a)
                  \/ u.finished.map[a] = s.finished.map[a]
    <3>1. a \in DOMAIN t.finished.map /\ ((\E j : Covers(l, e, j, a)) \/ t.finished.map[a] = s.finished.map[a])
      BY DEF Adds, Leaves
    <3>2. a \in DOMAIN u.finished.map /\ ((\E j : Covers(l, f, j, a)) \/ u.finished.map[a] = t.finished.map[a])
      BY <2>1, <3>1 DEF Adds, Leaves
    <3> QED BY <1>3, <1>4, <3>1, <3>2
  <2> QED BY <2>1, <2>2
<1> QED BY <1>1, <1>6, <1>7 DEF Adds, g

-----------------------------------------------------------------------------
(* The functions of the engine, by what they add.                          *)

Immediate(tr) == tr.kind = "cut" \/ tr.dur = 0
ArmEvents(l, i) ==
  IF l[i].follow # "manual" /\ StandbyAfter(l, i) # NoCue
  THEN <<Event("follow_armed", i)>> ELSE <<>>
LandEvents(l, i) == <<Event("finished", i)>> \o ArmEvents(l, i)
SnapEvents(l, s) == IF s.transition.to = NoCue THEN <<>> ELSE LandEvents(l, s.transition.to)
EntryEvents(l, i, tr) == IF Immediate(tr) THEN LandEvents(l, i) ELSE <<>>
StartEvents(l, i, tr) == <<Event("started", i)>> \o EntryEvents(l, i, tr)

\* The snapshot of a cue that ends its entry is laid over those before.
LEMMA ExtendedCovers ==
  ASSUME NEW f, NEW g
  PROVE  /\ \A a \in DOMAIN g : a \in DOMAIN Extended(f, g) /\ Extended(f, g)[a] = g[a]
         /\ \A a \in DOMAIN f : a \in DOMAIN Extended(f, g)
         /\ \A a \in DOMAIN f : a \notin DOMAIN g => Extended(f, g)[a] = f[a]
BY DEF Extended

LEMMA LandEventsAre ==
  ASSUME NEW l \in CueLists, NEW i \in DOMAIN l
  PROVE  /\ LandEvents(l, i) \in Seq(Events)
         /\ 1 \in DOMAIN LandEvents(l, i) /\ LandEvents(l, i)[1].cue = i
         /\ \A k : Ends(LandEvents(l, i), k) <=> k = 1
         /\ Has(LandEvents(l, i), "finished")
         /\ \A type : Has(LandEvents(l, i), type) => type \in {"finished", "follow_armed"}
<1> DEFINE x == Event("finished", i)
           y == Event("follow_armed", i)
<1>1. i \in Numbers \cup {NoCue}
  BY CueOfList
<1>2. x \in Events /\ x.type = "finished" /\ x.cue = i /\ y \in Events /\ y.type = "follow_armed"
  BY <1>1, EventIs DEF EventTypes
<1>3. LandEvents(l, i) = <<x>> \o ArmEvents(l, i) /\ ArmEvents(l, i) \in {<<>>, <<y>>}
  BY DEF LandEvents, ArmEvents
<1> HIDE DEF x, y
<1>4. CASE LandEvents(l, i) = <<x>> \o <<>>
  <2>1. LandEvents(l, i) = <<x>>
    BY <1>2, <1>4
  <2> QED BY <1>2, <2>1 DEF Ends, Has
<1>5. CASE LandEvents(l, i) = <<x>> \o <<y>>
  <2> DEFINE w == <<x>> \o <<y>>
  <2>1. w \in Seq(Events) /\ DOMAIN w = {1, 2} /\ w[1] = x /\ w[2] = y
    BY <1>2
  <2>2. LandEvents(l, i) = w
    BY <1>5
  <2> HIDE DEF w
  <2> QED BY <1>2, <2>1, <2>2 DEF Ends, Has
<1> QED BY <1>3, <1>4, <1>5

\* activate: cue i is on deck A, its events and its snapshot are added.
Landed(l, s, i, t) ==
  /\ Sound(l, t) /\ t.active = i /\ t.standby = StandbyAfter(l, i)
  /\ t.transition.to = NoCue /\ t.followFired = FALSE
  /\ Adds(l, s, LandEvents(l, i), t)

LEMMA Landing ==
  ASSUME NEW l \in CueLists, NEW i \in DOMAIN l, NEW s, Sound(l, s),
         NEW t, t = Activated(l, s, i)
  PROVE  Landed(l, s, i, t)
<1> DEFINE next == StandbyAfter(l, i)
           e == LandEvents(l, i)
           map == Extended(s.finished.map, l[i].params)
           snap == [given |-> TRUE, map |-> map]
           a == [s EXCEPT !.transition = NoTransition, !.active = i, !.standby = next,
                          !.cueAge = 0, !.followFired = FALSE,
                          !.finished = snap, !.events = s.events \o e]
<1>1. s.events \o <<Event("finished", i)>> \o ArmEvents(l, i) = s.events \o e
  <2>1. <<Event("finished", i)>> \in Seq(Events) /\ ArmEvents(l, i) \in Seq(Events)
    <3>1. Event("finished", i) \in Events /\ Event("follow_armed", i) \in Events
      BY CueOfList, EventTyped DEF EventTypes
    <3> QED BY <3>1 DEF ArmEvents
  <2>2. s.events \in Seq(Events)
    BY DEF Sound, Shows
  <2> QED BY <2>1, <2>2, Joined DEF LandEvents
<1>2. t = a
  BY <1>1 DEF Activated, ArmEvents
<1>3. Sound(l, t)
  BY ActivatedSound
<1>4. s \in Shows
  BY DEF Sound
<1> HIDE DEF e, next, snap
<1>5. /\ a.active = i /\ a.standby = next /\ a.transition = NoTransition /\ a.followFired = FALSE
      /\ a.finished = snap /\ a.events = s.events \o e
  BY <1>4 DEF Shows
<1> HIDE DEF a
<1>6. snap.given /\ snap.map = map
  BY DEF snap
<1>7. e \in Seq(Events) /\ 1 \in DOMAIN e /\ e[1].cue = i /\ \A k : Ends(e, k) <=> k = 1
  BY LandEventsAre DEF e
<1> HIDE DEF map
<1>8. /\ \A b \in DOMAIN l[i].params : b \in DOMAIN map /\ map[b] = l[i].params[b]
      /\ \A b \in DOMAIN s.finished.map : b \in DOMAIN map
      /\ \A b \in DOMAIN s.finished.map : b \notin DOMAIN l[i].params => map[b] = s.finished.map[b]
  BY ExtendedCovers DEF map
<1>9. \A k, b : Covers(l, e, k, b) <=> k = 1 /\ b \in DOMAIN l[i].params
  BY <1>7 DEF Covers
<1>10. Poses(l, e, a)
  BY <1>5, <1>6, <1>7, <1>8, <1>9 DEF Poses
<1>11. Leaves(l, s, e, a)
  BY <1>5, <1>6, <1>8, <1>9 DEF Leaves
<1>12. Adds(l, s, e, a)
  BY <1>5, <1>7, <1>10, <1>11 DEF Adds
<1> QED BY <1>2, <1>3, <1>5, <1>12 DEF NoTransition, next, e, Landed

\* snap_transition: nothing, or the landing of the cue on deck B.
SnapDone(l, s, a) ==
  /\ Sound(l, a) /\ a.transition.to = NoCue /\ a.active = OnAir(s)
  /\ Adds(l, s, SnapEvents(l, s), a)
  /\ s.transition.to = NoCue => a = s /\ ~Has(SnapEvents(l, s), "finished")
  /\ s.transition.to # NoCue =>
         /\ a.standby = StandbyAfter(l, s.transition.to) /\ a.followFired = FALSE
         /\ Has(SnapEvents(l, s), "finished")
  /\ SnapEvents(l, s) \in Seq(Events)
  /\ ~Has(SnapEvents(l, s), "started") /\ ~Has(SnapEvents(l, s), "warning")

LEMMA Snapping ==
  ASSUME NEW l \in CueLists, NEW s, Sound(l, s), NEW a, a = Snapped(l, s)
  PROVE  SnapDone(l, s, a)
<1>1. CASE s.transition.to = NoCue
  <2>1. a = s /\ SnapEvents(l, s) = <<>>
    BY <1>1 DEF Snapped, SnapEvents
  <2>2. s.events \in Seq(Events)
    BY DEF Sound, Shows
  <2>3. Adds(l, s, <<>>, s)
    BY <2>2, AddsNone
  <2>4. <<>> \in Seq(Events) /\ \A type : ~Has(<<>>, type)
    BY HasNone
  <2>5. s.active = OnAir(s)
    BY <1>1 DEF OnAir
  <2> QED BY <1>1, <2>1, <2>3, <2>4, <2>5 DEF SnapDone
<1>2. CASE s.transition.to # NoCue
  <2> DEFINE i == s.transition.to
  <2>1. a = Activated(l, s, i) /\ SnapEvents(l, s) = LandEvents(l, i)
    BY <1>2 DEF Snapped, SnapEvents
  <2>2. i \in DOMAIN l /\ i = OnAir(s)
    BY <1>2 DEF Sound, OnAir
  <2> HIDE DEF i
  <2>3. /\ Sound(l, a) /\ a.active = i /\ a.standby = StandbyAfter(l, i)
        /\ a.transition.to = NoCue /\ a.followFired = FALSE
        /\ Adds(l, s, LandEvents(l, i), a)
    <3>1. Landed(l, s, i, a)
      BY <2>1, <2>2, Landing
    <3> QED BY <3>1 DEF Landed
  <2>4. /\ LandEvents(l, i) \in Seq(Events) /\ Has(LandEvents(l, i), "finished")
        /\ ~Has(LandEvents(l, i), "started") /\ ~Has(LandEvents(l, i), "warning")
    BY <2>2, LandEventsAre
  <2> QED BY <1>2, <2>1, <2>2, <2>3, <2>4 DEF i, SnapDone
<1> QED BY <1>1, <1>2

\* start_go, when no transition is running.
StartDone(l, s, i, tr, t) ==
  /\ Sound(l, t) /\ OnAir(t) = i /\ i # NoCue
  /\ Adds(l, s, StartEvents(l, i, tr), t)
  /\ StartEvents(l, i, tr) \in Seq(Events)
  /\ Has(StartEvents(l, i, tr), "started") /\ ~Has(StartEvents(l, i, tr), "warning")
  /\ Immediate(tr) =>
         /\ t.transition.to = NoCue /\ t.active = i /\ t.standby = StandbyAfter(l, i)
         /\ t.followFired = FALSE /\ Has(StartEvents(l, i, tr), "finished")
  /\ ~Immediate(tr) =>
         /\ t.transition.to = i /\ t.active = s.active /\ t.followFired = s.followFired
         /\ ~Has(StartEvents(l, i, tr), "finished")

LEMMA Starting ==
  ASSUME NEW l \in CueLists, NEW s, Sound(l, s), s.transition.to = NoCue,
         NEW i \in DOMAIN l, NEW tr \in Transitions, NEW t, t = Started(l, s, i, tr)
  PROVE  StartDone(l, s, i, tr, t)
<1> DEFINE x == Event("started", i)
           e == [s EXCEPT !.events = Append(@, x)]
           f == EntryEvents(l, i, tr)
<1>1. i \in Numbers /\ i # NoCue
  BY CueOfList, NumbersAssumption DEF NoCue
<1>2. x \in Events /\ x.type = "started"
  BY <1>1, EventIs DEF EventTypes
<1>3. s \in Shows
  BY DEF Sound
<1>4. Sound(l, e)
  BY <1>1, EventAppended DEF Sound, EventTypes, FadeStored
<1> HIDE DEF x
<1>5. /\ e.events = s.events \o <<x>> /\ e.finished = s.finished /\ e.active = s.active
      /\ e.followFired = s.followFired
  BY <1>2, <1>3 DEF Shows
<1>6. Adds(l, s, <<x>>, e)
  <2>1. s.events \in Seq(Events)
    BY <1>3 DEF Shows
  <2> HIDE DEF e
  <2> QED BY <1>2, <1>5, <2>1, AddsOne
<1>7. Sound(l, t)
  BY StartedSound
<1>8. f \in Seq(Events) /\ ~Has(f, "started") /\ ~Has(f, "warning") /\ (Has(f, "finished") <=> Immediate(tr))
  BY LandEventsAre, HasNone DEF EntryEvents
<1>9. /\ Adds(l, e, f, t) /\ OnAir(t) = i
      /\ Immediate(tr) => /\ t.transition.to = NoCue /\ t.active = i
                          /\ t.standby = StandbyAfter(l, i) /\ t.followFired = FALSE
      /\ ~Immediate(tr) => /\ t.transition.to = i /\ t.active = e.active
                           /\ t.followFired = e.followFired
  <2>1. CASE Immediate(tr)
    <3>1. t = Activated(l, e, i) /\ f = LandEvents(l, i)
      BY <2>1 DEF Started, Immediate, EntryEvents, x
    <3> HIDE DEF e, f
    <3>2. /\ t.active = i /\ t.standby = StandbyAfter(l, i)
          /\ t.transition.to = NoCue /\ t.followFired = FALSE
          /\ Adds(l, e, LandEvents(l, i), t)
      <4>1. Landed(l, e, i, t)
        BY <1>4, <3>1, Landing
      <4> QED BY <4>1 DEF Landed
    <3> QED BY <2>1, <3>1, <3>2 DEF OnAir
  <2>2. CASE ~Immediate(tr)
    <3> DEFINE r == [to |-> i, kind |-> tr.kind, dur |-> tr.dur, elapsed |-> 0]
    <3>1. t = [e EXCEPT !.transition = r] /\ f = <<>>
      BY <2>2 DEF Started, Immediate, EntryEvents, x
    <3>2. r.to = i
      OBVIOUS
    <3>3. e \in Shows
      BY <1>4 DEF Sound
    <3> HIDE DEF e, f, r
    <3>4. /\ t.transition = r /\ t.active = e.active /\ t.followFired = e.followFired
          /\ t.events = e.events /\ t.finished = e.finished
      BY <3>1, <3>3 DEF Shows
    <3>5. Adds(l, e, <<>>, t)
      <4>1. e.events \in Seq(Events)
        BY <3>3 DEF Shows
      <4>2. Adds(l, e, <<>>, e)
        BY <4>1, AddsNone
      <4> QED BY <3>4, <4>2 DEF Adds, Poses, Leaves
    <3> QED BY <1>1, <2>2, <3>1, <3>2, <3>4, <3>5 DEF OnAir
  <2> QED BY <2>1, <2>2
<1> HIDE DEF e, f
<1>10. Adds(l, s, <<x>> \o f, t)
  BY <1>3, <1>6, <1>9, AddsBoth DEF Shows
<1>11. /\ <<x>> \o f \in Seq(Events)
       /\ \A type : Has(<<x>> \o f, type) <=> x.type = type \/ Has(f, type)
  <2>1. <<x>> \in Seq(Events) /\ \A type : Has(<<x>>, type) <=> x.type = type
    BY <1>2, HasOne
  <2>2. <<x>> \o f \in Seq(Events)
    BY <1>8, <2>1
  <2>3. \A type : Has(<<x>> \o f, type) <=> Has(<<x>>, type) \/ Has(f, type)
    BY <1>8, <2>1, HasEither
  <2> QED BY <2>1, <2>2, <2>3
<1>12. StartEvents(l, i, tr) = <<x>> \o f
  BY DEF StartEvents, x, f
<1> QED BY <1>1, <1>2, <1>5, <1>7, <1>8, <1>9, <1>10, <1>11, <1>12 DEF StartDone

\* A cue that goes: snap_transition, then start_go.
PlayEvents(l, s, i, tr) == SnapEvents(l, s) \o StartEvents(l, i, tr)
PlayDone(l, s, i, tr, t) ==
  /\ Sound(l, t) /\ OnAir(t) = i /\ i # NoCue
  /\ Adds(l, s, PlayEvents(l, s, i, tr), t)
  /\ Has(PlayEvents(l, s, i, tr), "started") /\ ~Has(PlayEvents(l, s, i, tr), "warning")
  /\ \/ /\ t.transition.to = NoCue /\ t.active = i /\ t.standby = StandbyAfter(l, i)
        /\ Has(PlayEvents(l, s, i, tr), "finished")
     \/ t.transition.to = i /\ Has(PlayEvents(l, s, i, tr), "finished")
     \/ t.transition.to = i /\ t.followFired = s.followFired

LEMMA Playing ==
  ASSUME NEW l \in CueLists, NEW s, Sound(l, s),
         NEW i \in DOMAIN l, NEW tr \in Transitions, NEW t, t = Started(l, Snapped(l, s), i, tr)
  PROVE  PlayDone(l, s, i, tr, t)
<1> DEFINE a == Snapped(l, s)
           e == SnapEvents(l, s)
           f == StartEvents(l, i, tr)
<1>1. SnapDone(l, s, a)
  BY Snapping
<1>2. Sound(l, a) /\ a.transition.to = NoCue
  BY <1>1 DEF SnapDone
<1>3. StartDone(l, a, i, tr, t)
  <2>1. t = Started(l, a, i, tr)
    OBVIOUS
  <2> HIDE DEF a
  <2> QED BY <1>2, <2>1, Starting
<1>4. e \in Seq(Events) /\ f \in Seq(Events) /\ s.events \in Seq(Events)
  BY <1>1, <1>3 DEF SnapDone, StartDone, Sound, Shows
<1>5. \A type : Has(e \o f, type) <=> Has(e, type) \/ Has(f, type)
  BY <1>4, HasEither
<1>6. Adds(l, s, e \o f, t)
  <2>1. Adds(l, s, e, a) /\ Adds(l, a, f, t)
    BY <1>1, <1>3 DEF SnapDone, StartDone
  <2> HIDE DEF a, e, f
  <2> QED BY <1>4, <2>1, AddsBoth
<1>7. PlayEvents(l, s, i, tr) = e \o f
  BY DEF PlayEvents
<1> HIDE DEF a, e, f
<1>8. Has(e \o f, "started") /\ ~Has(e \o f, "warning")
  BY <1>1, <1>3, <1>5 DEF SnapDone, StartDone, e, f
<1>9. CASE Immediate(tr)
  BY <1>3, <1>5, <1>6, <1>7, <1>8, <1>9 DEF StartDone, PlayDone, f
<1>10. CASE ~Immediate(tr) /\ s.transition.to = NoCue
  <2>1. a = s
    BY <1>1, <1>10 DEF SnapDone
  <2> QED BY <1>3, <1>6, <1>7, <1>8, <1>10, <2>1 DEF StartDone, PlayDone
<1>11. CASE ~Immediate(tr) /\ s.transition.to # NoCue
  <2>1. Has(e \o f, "finished")
    BY <1>1, <1>5, <1>11 DEF SnapDone, e
  <2> QED BY <1>3, <1>6, <1>7, <1>8, <1>11, <2>1 DEF StartDone, PlayDone
<1> QED BY <1>9, <1>10, <1>11

-----------------------------------------------------------------------------
(* What a step does.                                                       *)

\* The events of a step and the snapshots they pose, or both taken away.
Posts ==
  \/ \E e : Adds(cues, show, e, show')
  \/ show'.events = <<>> /\ (phase = "frame" \/ show' = Fresh(cues'))

SameShow ==
  /\ show'.active = show.active /\ show'.standby = show.standby
  /\ show'.transition.to = show.transition.to /\ show'.followFired = show.followFired
Quiet == ~Happens("started") /\ ~Happens("finished")
BlackStays == panic.on => panic'.on

\* Nothing moves.
Rests ==
  /\ cues' = cues /\ SameShow /\ Quiet /\ BlackStays
  /\ ~ListChanges /\ ~StandbyObeyed /\ ~FollowActs /\ ~ChaseCues
  /\ phase = "idle" /\ phase' = "idle" => show' = show

\* STANDBY is obeyed.
Pins ==
  /\ cues' = cues /\ show'.active = show.active /\ show'.transition.to = show.transition.to
  /\ show'.followFired = show.followFired /\ show'.standby = Head(pending).cue
  /\ show'.standby \in DOMAIN cues
  /\ Quiet /\ BlackStays /\ StandbyObeyed /\ phase = "pending"

\* A cue goes, by hand, by timecode or by itself.
GoTarget ==
  IF show.transition.to # NoCue THEN StandbyAfter(cues, show.transition.to) ELSE show.standby
Plays(i) ==
  /\ cues' = cues /\ i \in DOMAIN cues /\ i # NoCue /\ OnAir(show') = i
  /\ Happens("started") /\ ~StandbyObeyed /\ ~ListChanges
  /\ \E j \in DOMAIN show'.events :
       j > Len(show.events) /\ show'.events[j].type = "started"
  /\ \/ /\ show'.transition.to = NoCue /\ show'.active = i
        /\ show'.standby = StandbyAfter(cues, i) /\ Happens("finished")
     \/ show'.transition.to = i /\ Happens("finished")
     \/ show'.transition.to = i /\ show'.followFired = IF phase = "follow" THEN TRUE ELSE show.followFired
  /\ \/ /\ phase = "pending" /\ Head(pending).op \in {"go", "back", "goto"}
        /\ Applying("go") => i = GoTarget
     \/ phase \in {"chase", "fire"} /\ BlackStays
     \/ /\ phase = "follow" /\ BlackStays /\ ~show.followFired /\ i = show.standby
        /\ show.transition.to = NoCue /\ show.active # NoCue

\* The transition comes to its end, of itself or for a seek to its cue.
Lands ==
  /\ cues' = cues /\ show.transition.to \in DOMAIN cues /\ show'.transition.to = NoCue
  /\ show'.active = show.transition.to /\ show'.standby = StandbyAfter(cues, show.transition.to)
  /\ Happens("finished") /\ ~Happens("started") /\ BlackStays /\ ~ListChanges /\ ~StandbyObeyed
  /\ \/ phase = "pending" /\ show.transition.elapsed >= show.transition.dur
     \/ phase = "chase" /\ chase' # {}

\* A seek before the first trigger: nothing on programme.
Darkens ==
  /\ cues' = cues /\ show'.active = NoCue /\ show'.transition.to = NoCue
  /\ Quiet /\ BlackStays /\ phase = "chase" /\ chase' # {}

\* A follow that has no cue to go to.
Misses ==
  /\ cues' = cues /\ show'.active = show.active /\ show'.standby = show.standby
  /\ show.transition.to = NoCue /\ show'.transition.to = NoCue
  /\ show.active # NoCue /\ show.standby = NoCue
  /\ ~show.followFired /\ show'.followFired = TRUE
  /\ Quiet /\ BlackStays /\ phase = "follow" /\ ~StandbyObeyed

\* A new show.
Loads ==
  /\ phase = "idle" /\ phase' = "idle" /\ ListChanges /\ show' = Fresh(cues')
  /\ show'.active = NoCue /\ show'.transition.to = NoCue

\* An edit of the list.  The standby is the one there was, but where the new
\* list does not have it armed.
Edits ==
  /\ phase = "idle" /\ phase' = "idle" /\ ListChanges /\ BlackStays /\ ~Happens("started")
  /\ show'.transition.to = NoCue
  /\ OnAir(show) \notin DOMAIN cues' => show'.active = NoCue
  /\ OnAir(show) \in DOMAIN cues' =>
       /\ show'.active = OnAir(show)
       /\ show'.standby \in {GoTarget, StandbyAfter(cues', show'.active)}
       /\ show.transition.to # NoCue => Happens("finished")
       /\ show.transition.to = NoCue =>
            show'.followFired = show.followFired /\ show'.cueAge = show.cueAge

Shape == Rests \/ Pins \/ (\E i : Plays(i)) \/ Lands \/ Darkens \/ Misses \/ Loads \/ Edits

LEMMA EventsTyped == IInv => show.events \in Seq(Events) /\ show \in Shows
BY DEF IInv, Sound, Shows

\* A step that adds the events e.
LEMMA StepAdds ==
  ASSUME IInv, NEW e, Adds(cues, show, e, show')
  PROVE  /\ Posts /\ NewEvents = e
         /\ \A type : Happens(type) <=> Has(e, type)
         /\ Has(e, "started") => \E j \in DOMAIN show'.events :
              j > Len(show.events) /\ show'.events[j].type = "started"
<1>1. show.events \in Seq(Events) /\ e \in Seq(Events) /\ show'.events = show.events \o e
  BY EventsTyped DEF Adds
<1>2. NewEvents = e /\ \A type : Happens(type) <=> Has(e, type)
  BY <1>1, Added
<1>3. Has(e, "started") => \E j \in DOMAIN show'.events :
        j > Len(show.events) /\ show'.events[j].type = "started"
  BY <1>1, Added
<1> QED BY <1>2, <1>3 DEF Posts

\* A step that leaves the show alone, but perhaps its clocks.
LEMMA NoEvent ==
  ASSUME IInv, show'.events = show.events, show'.finished = show.finished
  PROVE  Posts /\ NewEvents = <<>> /\ Quiet /\ ~Happens("warning")
<1>1. Adds(cues, show, <<>>, show')
  <2>1. Adds(cues, show, <<>>, show)
    BY EventsTyped, AddsNone
  <2> QED BY <2>1 DEF Adds, Poses, Leaves
<1>2. Posts /\ NewEvents = <<>> /\ \A type : Happens(type) <=> Has(<<>>, type)
  <2> DEFINE e == <<>>
  <2>1. Adds(cues, show, e, show')
    BY <1>1
  <2> HIDE DEF e
  <2>2. Posts /\ NewEvents = e /\ \A type : Happens(type) <=> Has(e, type)
    BY <2>1, StepAdds
  <2> QED BY <2>2 DEF e
<1>3. \A type : ~Has(<<>>, type)
  BY HasNone
<1> QED BY <1>2, <1>3 DEF Quiet

\* A step that adds one event and ends nothing.
LEMMA OneEvent ==
  ASSUME IInv, NEW type \in EventTypes, NEW cue \in Numbers \cup {NoCue}, type # "finished",
         show'.events = Append(show.events, Event(type, cue)), show'.finished = show.finished
  PROVE  Posts /\ NewEvents # <<>> /\ \A t : Happens(t) <=> t = type
<1> DEFINE x == Event(type, cue)
           e == <<x>>
<1>1. x \in Events /\ x.type = type
  BY EventIs
<1>2. show.events \in Seq(Events) /\ show'.events = Append(show.events, x)
  BY EventsTyped
<1> HIDE DEF x
<1>3. show'.events = show.events \o e /\ e # <<>>
  BY <1>1, <1>2
<1>4. Adds(cues, show, e, show')
  BY <1>1, <1>2, <1>3, AddsOne
<1>5. \A t : Has(e, t) <=> x.type = t
  BY <1>1, HasOne
<1> HIDE DEF e
<1>6. Posts /\ NewEvents = e /\ \A t : Happens(t) <=> Has(e, t)
  BY <1>4, StepAdds
<1> QED BY <1>1, <1>3, <1>5, <1>6

\* The session: latching a command, a new show, an edit.
LEMMA EnqueueShape ==
  ASSUME IInv, NEW c \in Commands, Enqueue(c)
  PROVE  Rests /\ Posts
<1>1. show' = show /\ cues' = cues /\ panic' = panic /\ phase = "idle"
  BY DEF Enqueue
<1>2. pending' # <<>>
  BY DEF Enqueue, IInv
<1>3. Posts /\ Quiet
  BY <1>1, NoEvent
<1> QED BY <1>1, <1>2, <1>3
     DEF Rests, SameShow, BlackStays, ListChanges, StandbyObeyed, Applying, FollowActs, ChaseCues

LEMMA LoadShape ==
  ASSUME IInv, NEW l \in CueLists, Load(l)
  PROVE  Loads /\ Posts
<1>1. show' = Fresh(cues') /\ phase = "idle" /\ phase' = "idle" /\ pending' = <<>>
  BY DEF Load
<1>2. show'.events = <<>> /\ show'.active = NoCue /\ show'.transition = NoTransition
  BY <1>1 DEF Fresh
<1> QED BY <1>1, <1>2 DEF Loads, Posts, ListChanges, NoTransition

LEMMA LoadHotShape ==
  ASSUME IInv, NEW l \in CueLists, LoadHot(l)
  PROVE  Edits /\ Posts
<1> DEFINE s == Snapped(cues, show)
           e == SnapEvents(cues, show)
           kept == [Fresh(l) EXCEPT !.events = s.events, !.finished = s.finished]
           armed == s.standby \in DOMAIN l /\ l[s.standby].armed
<1>1. /\ cues' = l /\ show' = HotReloaded(l) /\ phase = "idle" /\ phase' = "idle"
      /\ pending' = <<>> /\ panic' = panic
  BY DEF LoadHot
<1>2. SnapDone(cues, show, s)
  BY Snapping DEF IInv
<1>3. s \in Shows /\ Fresh(l) \in Shows /\ Fresh(l).active = NoCue /\ Fresh(l).transition.to = NoCue
  BY <1>2, FreshSound DEF SnapDone, Sound, Fresh
<1>4. s.standby = GoTarget
  BY <1>2 DEF SnapDone, GoTarget
<1>5. s.active = OnAir(show) /\ Adds(cues, show, e, s)
  BY <1>2 DEF SnapDone
<1>6. /\ show.transition.to = NoCue => s = show
      /\ show.transition.to # NoCue => Has(e, "finished")
      /\ ~Has(e, "started")
  BY <1>2 DEF SnapDone
<1> HIDE DEF s
<1>7. /\ kept \in Shows /\ kept.active = NoCue /\ kept.transition.to = NoCue
      /\ kept.events = s.events /\ kept.finished = s.finished
  BY <1>3 DEF Shows
<1> HIDE DEF kept
<1>8. /\ show'.transition.to = NoCue
      /\ show'.events = s.events /\ show'.finished = s.finished
      /\ s.active \in DOMAIN l =>
           /\ show'.active = s.active /\ show'.cueAge = s.cueAge /\ show'.followFired = s.followFired
           /\ show'.standby \in {s.standby, StandbyAfter(l, s.active)}
      /\ s.active \notin DOMAIN l => show'.active = NoCue
  <2>1. CASE s.active \in DOMAIN l
    <3> DEFINE next == IF armed THEN s.standby ELSE StandbyAfter(l, s.active)
               h == [kept EXCEPT !.active = s.active, !.cueAge = s.cueAge,
                                 !.followFired = s.followFired, !.standby = next]
    <3>1. show' = h
      BY <1>1, <2>1 DEF HotReloaded, s, kept
    <3>2. next \in {s.standby, StandbyAfter(l, s.active)}
      OBVIOUS
    <3> HIDE DEF next
    <3>3. /\ h.active = s.active /\ h.cueAge = s.cueAge /\ h.followFired = s.followFired
          /\ h.standby = next /\ h.transition = kept.transition
          /\ h.events = kept.events /\ h.finished = kept.finished
      BY <1>7 DEF Shows
    <3> HIDE DEF h
    <3> QED BY <1>7, <2>1, <3>1, <3>2, <3>3
  <2>2. CASE s.active \notin DOMAIN l
    <3> DEFINE next == IF armed THEN s.standby ELSE kept.standby
               h == [kept EXCEPT !.standby = next]
    <3>1. show' = h
      BY <1>1, <2>2 DEF HotReloaded, s, kept
    <3> HIDE DEF next
    <3>2. /\ h.active = kept.active /\ h.transition = kept.transition
          /\ h.events = kept.events /\ h.finished = kept.finished
      BY <1>7 DEF Shows
    <3> HIDE DEF h
    <3> QED BY <1>7, <2>2, <3>1, <3>2
  <2> QED BY <2>1, <2>2
<1>9. Adds(cues, show, e, show')
  BY <1>5, <1>8 DEF Adds, Poses, Leaves
<1> HIDE DEF e
<1>10. Posts /\ \A type : Happens(type) <=> Has(e, type)
  BY <1>9, StepAdds
<1> QED BY <1>1, <1>4, <1>5, <1>6, <1>8, <1>10 DEF Edits, ListChanges, BlackStays

\* The tick: the clocks.
LEMMA BeginTickShape ==
  ASSUME IInv, NEW d \in Deltas, BeginTick(d)
  PROVE  Rests /\ Posts
<1> DEFINE age == AtMost(show.cueAge + d, MaxWait)
           older == [show.transition EXCEPT !.elapsed = AtMost(@ + d, show.transition.dur)]
           u == [show EXCEPT !.cueAge = age, !.transition = older]
<1>1. show \in Shows /\ show.transition \in RunningTransitions
  BY DEF IInv, Sound, Shows
<1>2. show' = u
  BY <1>1 DEF BeginTick, Older, Shows
<1>3. older.to = show.transition.to
  BY <1>1 DEF RunningTransitions
<1> HIDE DEF age, older
<1>4. /\ u.active = show.active /\ u.standby = show.standby /\ u.transition = older
      /\ u.followFired = show.followFired /\ u.events = show.events /\ u.finished = show.finished
  BY <1>1 DEF Shows
<1>5. SameShow /\ show'.events = show.events /\ show'.finished = show.finished
  BY <1>2, <1>3, <1>4 DEF SameShow
<1>6. Posts /\ Quiet
  BY <1>5, NoEvent
<1>7. BlackStays
  BY DEF BeginTick, BlackStays, IInv, PanicStates
<1>8. cues' = cues /\ phase = "idle" /\ phase' = "pending"
  BY DEF BeginTick
<1> QED BY <1>5, <1>6, <1>7, <1>8
     DEF Rests, ListChanges, StandbyObeyed, Applying, FollowActs, ChaseCues

\* A refused command.
LEMMA RefuseShape ==
  ASSUME IInv, phase = "pending", Refuse
  PROVE  Rests /\ Posts
<1> DEFINE x == Event("warning", NoCue)
           u == [show EXCEPT !.events = Append(show.events, x)]
<1>1. show \in Shows
  BY EventsTyped
<1>2. show' = u /\ cues' = cues /\ panic' = panic
  BY DEF Refuse, Warned
<1> HIDE DEF x
<1>3. /\ SameShow /\ show'.finished = show.finished /\ show'.events = Append(show.events, x)
  <2>1. /\ u.active = show.active /\ u.standby = show.standby /\ u.transition = show.transition
        /\ u.followFired = show.followFired /\ u.finished = show.finished
        /\ u.events = Append(show.events, x)
    BY <1>1 DEF Shows
  <2> HIDE DEF u
  <2> QED BY <1>2, <2>1 DEF SameShow
<1>4. Posts /\ \A t : Happens(t) <=> t = "warning"
  <2>1. show'.events = Append(show.events, Event("warning", NoCue))
    BY <1>3 DEF x
  <2> HIDE DEF u
  <2> QED BY <1>3, <2>1, OneEvent DEF EventTypes
<1> QED BY <1>2, <1>3, <1>4
     DEF Rests, Quiet, BlackStays, ListChanges, StandbyObeyed, FollowActs, ChaseCues

\* A cue played: what the callers of start_go have in common.
LEMMA PlayStep ==
  ASSUME IInv, NEW i \in DOMAIN cues, NEW tr \in Transitions,
         show' = Started(cues, Snapped(cues, show), i, tr), cues' = cues,
         phase \in {"pending", "chase", "fire"}, ~Applying("standby"),
         \/ /\ phase = "pending" /\ Head(pending).op \in {"go", "back", "goto"}
            /\ Applying("go") => i = GoTarget
         \/ phase \in {"chase", "fire"} /\ BlackStays
  PROVE  Plays(i) /\ Posts
<1> DEFINE e == PlayEvents(cues, show, i, tr)
<1>1. PlayDone(cues, show, i, tr, show')
  BY Playing DEF IInv
<1>2. Adds(cues, show, e, show')
  BY <1>1 DEF PlayDone
<1> HIDE DEF e
<1>3. /\ Posts /\ \A type : Happens(type) <=> Has(e, type)
      /\ Has(e, "started") => \E j \in DOMAIN show'.events :
           j > Len(show.events) /\ show'.events[j].type = "started"
  BY <1>2, StepAdds
<1>4. Has(e, "started")
  BY <1>1 DEF PlayDone, e
<1>5. \/ /\ show'.transition.to = NoCue /\ show'.active = i
         /\ show'.standby = StandbyAfter(cues, i) /\ Happens("finished")
      \/ show'.transition.to = i /\ Happens("finished")
      \/ show'.transition.to = i /\ show'.followFired = show.followFired
  BY <1>1, <1>3 DEF PlayDone, e
<1>6. OnAir(show') = i /\ i # NoCue
  BY <1>1 DEF PlayDone
<1>7. ~StandbyObeyed /\ ~ListChanges
  BY DEF StandbyObeyed, ListChanges
<1> QED BY <1>3, <1>4, <1>5, <1>6, <1>7 DEF Plays

LEMMA ManualGoShape ==
  ASSUME IInv, NEW i \in DOMAIN cues, NEW tr \in Transitions, ManualGo(i, tr),
         phase = "pending", Head(pending).op \in {"go", "back", "goto"},
         Applying("go") => i = GoTarget
  PROVE  Plays(i) /\ Posts
<1>1. show' = Started(cues, Snapped(cues, show), i, tr) /\ cues' = cues
  BY DEF ManualGo
<1>2. ~Applying("standby")
  BY DEF Applying
<1> QED BY <1>1, <1>2, PlayStep

\* The latched commands.
LEMMA ApplyPendingShape ==
  ASSUME IInv, ApplyPending
  PROVE  Shape /\ Posts
<1>1. phase = "pending" /\ pending # <<>>
  BY DEF ApplyPending, ApplyGo, ApplyBack, ApplyGoto, ApplyStandby, ApplyPanic, Applying
<1>2. CASE Refuse
  BY <1>1, <1>2, RefuseShape DEF Shape
<1>3. CASE ApplyGo /\ ~Refuse
  <2> DEFINE to == GoTarget
  <2>1. ManualGo(to, cues[to].transition) /\ Head(pending).op = "go"
    BY <1>3 DEF ApplyGo, GoTarget, Applying
  <2>2. to \in DOMAIN cues \cup {NoCue}
    BY StandbyAfterInList DEF IInv, Sound, GoTarget
  <2>3. to # NoCue
    BY <1>3 DEF ApplyGo, GoTarget
  <2>4. cues[to].transition \in Transitions
    BY <2>2, <2>3, CueTransition DEF IInv
  <2>5. to = GoTarget
    OBVIOUS
  <2> HIDE DEF to
  <2>6. Plays(to) /\ Posts
    BY <1>1, <2>1, <2>2, <2>3, <2>4, <2>5, ManualGoShape
  <2> QED BY <2>6 DEF Shape
<1>4. CASE ApplyBack /\ ~Refuse
  <2> DEFINE from == OnAir(show)
  <2>1. Head(pending).op = "back"
    BY <1>4 DEF ApplyBack, Applying
  <2>2. PICK p \in ArmedBefore(from) : from # NoCue /\ ManualGo(p, cues[from].transition)
    BY <1>4 DEF ApplyBack
  <2>3. p \in DOMAIN cues /\ from \in DOMAIN cues
    BY <2>2 DEF ArmedBefore, OnAir, IInv, Sound
  <2>4. cues[from].transition \in Transitions
    BY <2>3, CueTransition DEF IInv
  <2> HIDE DEF from
  <2>5. Plays(p) /\ Posts
    BY <1>1, <2>1, <2>2, <2>3, <2>4, ManualGoShape DEF Applying
  <2> QED BY <2>5 DEF Shape
<1>5. CASE ApplyGoto /\ ~Refuse
  <2> DEFINE n == Head(pending).cue
  <2>1. ManualGo(n, cues[n].transition) /\ n \in DOMAIN cues /\ Head(pending).op = "goto"
    BY <1>5 DEF ApplyGoto, Applying
  <2>2. cues[n].transition \in Transitions
    BY <2>1, CueTransition DEF IInv
  <2> HIDE DEF n
  <2>3. Plays(n) /\ Posts
    BY <1>1, <2>1, <2>2, ManualGoShape DEF Applying
  <2> QED BY <2>3 DEF Shape
<1>6. CASE ApplyStandby /\ ~Refuse
  <2> DEFINE n == Head(pending).cue
             u == [show EXCEPT !.standby = n]
  <2>1. show' = u /\ n \in DOMAIN cues /\ cues' = cues /\ panic' = panic
    BY <1>6 DEF ApplyStandby
  <2>2. /\ u.active = show.active /\ u.transition = show.transition /\ u.standby = n
        /\ u.followFired = show.followFired /\ u.events = show.events /\ u.finished = show.finished
    <3> HIDE DEF n
    <3> QED BY EventsTyped DEF Shows
  <2> HIDE DEF u
  <2>3. Posts /\ Quiet /\ ~Happens("warning")
    BY <2>1, <2>2, NoEvent
  <2>4. StandbyObeyed
    BY <1>6, <2>3 DEF ApplyStandby, StandbyObeyed
  <2>5. Pins
    BY <1>1, <2>1, <2>2, <2>3, <2>4 DEF Pins, BlackStays
  <2> QED BY <2>3, <2>5 DEF Shape
<1>7. CASE ApplyPanic
  <2> DEFINE x == Event("panic", NoCue)
             u == [show EXCEPT !.events = Append(show.events, x)]
  <2>1. show' = u /\ cues' = cues /\ panic'.on
    BY <1>7 DEF ApplyPanic
  <2> HIDE DEF x
  <2>2. /\ u.active = show.active /\ u.transition = show.transition /\ u.standby = show.standby
        /\ u.followFired = show.followFired /\ u.events = Append(show.events, x)
        /\ u.finished = show.finished
    BY EventsTyped DEF Shows
  <2> HIDE DEF u
  <2>3. show'.events = Append(show.events, Event("panic", NoCue)) /\ show'.finished = show.finished
    BY <2>1, <2>2 DEF x
  <2>4. Posts /\ \A t : Happens(t) <=> t = "panic"
    BY <2>3, OneEvent DEF EventTypes
  <2>5. ~StandbyObeyed
    BY <1>7 DEF StandbyObeyed, ApplyPanic, Applying
  <2>6. Rests
    BY <1>1, <2>1, <2>2, <2>4, <2>5
       DEF Rests, SameShow, Quiet, BlackStays, ListChanges, FollowActs, ChaseCues
  <2> QED BY <2>4, <2>6 DEF Shape
<1> QED BY <1>2, <1>3, <1>4, <1>5, <1>6, <1>7 DEF ApplyPending

\* A step that leaves the show alone.
LEMMA SameShape ==
  ASSUME IInv, show' = show, cues' = cues, panic' = panic, phase # "idle" \/ pending' # <<>>,
         ~Applying("standby")
  PROVE  Rests /\ Posts
<1>1. Posts /\ Quiet /\ NewEvents = <<>>
  BY NoEvent
<1> QED BY <1>1
     DEF Rests, SameShow, BlackStays, ListChanges, StandbyObeyed, FollowActs, ChaseCues

\* The end of a transition.
LEMMA LandStep ==
  ASSUME IInv, show' = Snapped(cues, show), cues' = cues, panic' = panic,
         show.transition.to # NoCue, phase # "idle", ~Applying("standby"),
         \/ phase = "pending" /\ show.transition.elapsed >= show.transition.dur
         \/ phase = "chase" /\ chase' # {}
  PROVE  Lands /\ Posts
<1> DEFINE e == SnapEvents(cues, show)
<1>1. SnapDone(cues, show, show')
  BY Snapping DEF IInv
<1>2. Adds(cues, show, e, show') /\ Has(e, "finished") /\ ~Has(e, "started")
  BY <1>1 DEF SnapDone
<1> HIDE DEF e
<1>3. Posts /\ \A type : Happens(type) <=> Has(e, type)
  BY <1>2, StepAdds
<1>4. show.transition.to \in DOMAIN cues
  BY DEF IInv, Sound
<1> QED BY <1>1, <1>2, <1>3, <1>4
     DEF SnapDone, OnAir, Lands, BlackStays, ListChanges, StandbyObeyed

LEMMA FinishTransitionShape ==
  ASSUME IInv, FinishTransition
  PROVE  Shape /\ Posts
<1>1. phase = "pending" /\ pending = <<>> /\ cues' = cues /\ panic' = panic
  BY DEF FinishTransition
<1>2. ~Applying("standby")
  BY <1>1 DEF Applying
<1>3. CASE show.transition.elapsed >= show.transition.dur /\ show.transition.to # NoCue
  <2>1. show' = Snapped(cues, show)
    BY <1>3 DEF FinishTransition
  <2> QED BY <1>1, <1>2, <1>3, <2>1, LandStep DEF Shape
<1>4. CASE ~(show.transition.elapsed >= show.transition.dur /\ show.transition.to # NoCue)
  <2>1. show' = show
    BY <1>4 DEF FinishTransition, Snapped
  <2> QED BY <1>1, <1>2, <2>1, SameShape DEF Shape
<1> QED BY <1>3, <1>4

\* chase_seek.
LEMMA SeekToShape ==
  ASSUME IInv, NEW n \in DOMAIN cues, SeekTo(n), phase = "chase", chase' # {},
         cues' = cues, panic' = panic
  PROVE  Shape /\ Posts
<1>1. ~Applying("standby")
  BY DEF Applying
<1>2. CASE show' = show
  BY <1>1, <1>2, SameShape DEF Shape
<1>3. CASE show.transition.to = n /\ show' = Snapped(cues, show)
  <2>1. n # NoCue
    BY CueOfList, NumbersAssumption DEF IInv, NoCue
  <2> QED BY <1>1, <1>3, <2>1, LandStep DEF Shape
<1>4. CASE show' = Started(cues, Snapped(cues, show), n, cues[n].transition)
  <2>1. cues[n].transition \in Transitions
    BY CueTransition DEF IInv
  <2>2. BlackStays
    BY DEF BlackStays
  <2>3. Plays(n) /\ Posts
    BY <1>1, <1>4, <2>1, <2>2, PlayStep
  <2> QED BY <2>3 DEF Shape
<1> QED BY <1>2, <1>3, <1>4 DEF SeekTo

LEMMA SeekBlackShape ==
  ASSUME IInv, NEW rate, SeekBlack(rate), phase = "chase", chase' # {},
         cues' = cues, panic' = panic
  PROVE  Shape /\ Posts
<1>1. CASE show' = show
  <2>1. ~Applying("standby")
    BY DEF Applying
  <2> QED BY <1>1, <2>1, SameShape DEF Shape
<1>2. CASE show' # show
  <2>1. PICK first \in Triggers :
          show' = [show EXCEPT !.transition = NoTransition, !.active = NoCue,
                               !.followFired = FALSE, !.standby = first]
    BY <1>2 DEF SeekBlack
  <2>2. /\ show'.transition = NoTransition /\ show'.active = NoCue
        /\ show'.events = show.events /\ show'.finished = show.finished
    BY <2>1, EventsTyped DEF Shows
  <2>3. Posts /\ Quiet
    BY <2>2, NoEvent
  <2>4. Darkens
    BY <2>2, <2>3 DEF Darkens, BlackStays, NoTransition
  <2> QED BY <2>3, <2>4 DEF Shape
<1> QED BY <1>1, <1>2

LEMMA SeekShape ==
  ASSUME IInv, NEW frames, NEW rate, Seek(frames, rate), phase = "chase", chase' # {}
  PROVE  Shape /\ Posts
<1> DEFINE past == {n \in Triggers : At(n, rate) <= frames}
<1>1. cues' = cues /\ panic' = panic
  BY DEF Seek
<1>2. CASE past = {}
  BY <1>1, <1>2, SeekBlackShape DEF Seek
<1>3. CASE past # {}
  <2>1. PICK last \in past : SeekTo(last)
    BY <1>3 DEF Seek
  <2>2. last \in DOMAIN cues
    BY DEF Triggers
  <2> QED BY <1>1, <2>1, <2>2, SeekToShape
<1> QED BY <1>2, <1>3

\* check_chase.
LEMMA CheckChaseShape ==
  ASSUME IInv, NEW tc \in TcStates, CheckChase(tc)
  PROVE  Shape /\ Posts
<1>1. phase = "chase" /\ ~Applying("standby")
  BY DEF CheckChase, ChaseOff, ChaseLocked, ChaseUnlocked, Applying
<1>2. CASE UNCHANGED <<cues, show, panic>>
  BY <1>1, <1>2, SameShape DEF Shape
<1>3. CASE ~UNCHANGED <<cues, show, panic>>
  <2>1. ChaseLocked(tc)
    BY <1>3 DEF CheckChase, ChaseOff, ChaseUnlocked, Advance
  <2>2. Seek(tc.frames, tc.rate)
    BY <1>3, <2>1 DEF ChaseLocked, Advance
  <2>3. chase' # {}
    BY <2>1 DEF ChaseLocked
  <2> QED BY <1>1, <2>2, <2>3, SeekShape
<1> QED BY <1>2, <1>3

LEMMA ChaseFireShape ==
  ASSUME IInv, ChaseFire
  PROVE  Shape /\ Posts
<1>1. PICK n \in fired :
        show' = Started(cues, Snapped(cues, show), n,
                        IF fired = {n} THEN cues[n].transition ELSE CutTransition)
  BY DEF ChaseFire
<1> DEFINE tr == IF fired = {n} THEN cues[n].transition ELSE CutTransition
<1>2. n \in DOMAIN cues /\ cues[n].transition \in Transitions
  BY CueTransition DEF IInv
<1>3. tr \in Transitions
  BY <1>2 DEF CutTransition, Transitions, Kinds
<1>4. show' = Started(cues, Snapped(cues, show), n, tr)
  BY <1>1
<1> HIDE DEF tr
<1>5. phase = "fire" /\ cues' = cues /\ BlackStays /\ ~Applying("standby")
  BY DEF ChaseFire, BlackStays, Applying
<1>6. Plays(n) /\ Posts
  BY <1>2, <1>3, <1>4, <1>5, PlayStep
<1> QED BY <1>6 DEF Shape

\* check_follow, and the end of the tick.
LEMMA CheckFollowShape ==
  ASSUME IInv, NEW eof \in SUBSET Slices, CheckFollow(eof)
  PROVE  Shape /\ Posts
<1> DEFINE s == [show EXCEPT !.followFired = TRUE]
           to == show.standby
           x == Event("follow_fired", to)
           v == [s EXCEPT !.events = Append(@, x)]
<1>1. phase = "follow" /\ cues' = cues /\ panic' = panic /\ ~Applying("standby")
  BY DEF CheckFollow, Applying
<1>2. CASE show' = show
  BY <1>1, <1>2, SameShape DEF Shape
<1>3. CASE show' # show
  <2>1. /\ show.transition.to = NoCue /\ ~show.followFired /\ show.active # NoCue
        /\ show' = IF to = NoCue THEN Warned(s) ELSE Started(cues, v, to, cues[to].transition)
    BY <1>3 DEF CheckFollow
  <2>2. /\ s \in Shows /\ s.active = show.active /\ s.standby = show.standby
        /\ s.transition = show.transition /\ s.followFired = TRUE
        /\ s.events = show.events /\ s.finished = show.finished
    BY EventsTyped DEF Shows
  <2>3. to \in DOMAIN cues \cup {NoCue} /\ to \in Numbers \cup {NoCue}
    BY CueOfList DEF IInv, Sound
  <2> HIDE DEF s
  <2>4. CASE to = NoCue
    <3> DEFINE w == Event("warning", NoCue)
               u == [s EXCEPT !.events = Append(s.events, w)]
    <3>1. show' = u
      BY <2>1, <2>4 DEF Warned
    <3> HIDE DEF w
    <3>2. /\ u.active = s.active /\ u.standby = s.standby /\ u.transition = s.transition
          /\ u.followFired = s.followFired /\ u.finished = s.finished
          /\ u.events = Append(s.events, w)
      BY <2>2 DEF Shows
    <3> HIDE DEF u
    <3>3. show'.events = Append(show.events, Event("warning", NoCue)) /\ show'.finished = show.finished
      BY <2>2, <3>1, <3>2 DEF w
    <3>4. Posts /\ \A t : Happens(t) <=> t = "warning"
      BY <3>3, OneEvent DEF EventTypes
    <3>5. Misses
      BY <1>1, <2>1, <2>2, <2>4, <3>1, <3>2, <3>4
         DEF Misses, Quiet, BlackStays, StandbyObeyed
    <3> QED BY <3>4, <3>5 DEF Shape
  <2>5. CASE to # NoCue
    <3> DEFINE tr == cues[to].transition
               f == StartEvents(cues, to, tr)
               e == <<x>> \o f
    <3>1. x \in Events /\ x.type = "follow_fired"
      BY <2>3, EventIs DEF EventTypes
    <3>2. to \in DOMAIN cues /\ tr \in Transitions
      BY <2>3, <2>5, CueTransition DEF IInv
    <3> HIDE DEF x, to, tr
    <3>3. /\ v.active = s.active /\ v.transition = s.transition /\ v.followFired = s.followFired
          /\ v.standby = s.standby /\ v.events = Append(s.events, x) /\ v.finished = s.finished
      BY <2>2 DEF Shows
    <3>4. Sound(cues, v)
      <4>0. Append(s.events, x) \in Seq(Events)
        BY <2>2, <3>1 DEF Shows
      <4>1. v \in Shows
        BY <2>2, <4>0 DEF Shows
      <4> HIDE DEF v
      <4> QED BY <2>2, <3>3, <4>1 DEF IInv, Sound, FadeStored
    <3>5. show' = Started(cues, v, to, tr)
      BY <2>1, <2>5 DEF tr
    <3> HIDE DEF v
    <3>6. StartDone(cues, v, to, tr, show')
      BY <2>1, <2>2, <3>2, <3>3, <3>4, <3>5, Starting DEF IInv
    <3>7. show.events \in Seq(Events) /\ f \in Seq(Events) /\ Adds(cues, v, f, show')
      BY <3>6, EventsTyped DEF StartDone
    <3>8. Adds(cues, show, <<x>>, v)
      <4>1. v.events = show.events \o <<x>>
        BY <2>2, <3>1, <3>3, <3>7
      <4> QED BY <2>2, <3>1, <3>3, <3>7, <4>1, AddsOne
    <3>9. Has(f, "started") /\ (Immediate(tr) => Has(f, "finished"))
      BY <3>6 DEF StartDone
    <3> HIDE DEF f
    <3>10. Adds(cues, show, e, show')
      BY <3>7, <3>8, AddsBoth
    <3>11. \A type : Has(f, type) => Has(e, type)
      <4>1. <<x>> \in Seq(Events)
        BY <3>1
      <4> QED BY <3>7, <4>1, HasEither
    <3> HIDE DEF e
    <3>12. /\ Posts /\ \A type : Happens(type) <=> Has(e, type)
           /\ Has(e, "started") => \E j \in DOMAIN show'.events :
                j > Len(show.events) /\ show'.events[j].type = "started"
      BY <3>10, StepAdds
    <3>13. \/ /\ show'.transition.to = NoCue /\ show'.active = to
              /\ show'.standby = StandbyAfter(cues, to) /\ Happens("finished")
           \/ show'.transition.to = to /\ show'.followFired = TRUE
      BY <2>2, <3>3, <3>6, <3>9, <3>11, <3>12 DEF StartDone
    <3>14. OnAir(show') = to
      BY <3>6 DEF StartDone
    <3>15. ~StandbyObeyed /\ ~ListChanges /\ BlackStays
      BY <1>1 DEF StandbyObeyed, ListChanges, BlackStays
    <3>16. Plays(to)
      BY <1>1, <2>1, <2>5, <3>2, <3>9, <3>11, <3>12, <3>13, <3>14, <3>15 DEF Plays, to
    <3> QED BY <3>12, <3>16 DEF Shape
  <2> QED BY <2>4, <2>5
<1> QED BY <1>2, <1>3

LEMMA EmitFrameShape ==
  ASSUME IInv, EmitFrame
  PROVE  Rests /\ Posts
<1> DEFINE u == [show EXCEPT !.events = <<>>, !.finished = NoSnapshot]
<1>1. /\ u.active = show.active /\ u.standby = show.standby /\ u.transition = show.transition
      /\ u.followFired = show.followFired /\ u.events = <<>>
  BY EventsTyped DEF Shows
<1>2. show' = u /\ cues' = cues /\ panic' = panic /\ phase = "frame"
  BY DEF EmitFrame
<1> HIDE DEF u
<1>3. SameShow /\ show'.events = <<>>
  BY <1>1, <1>2 DEF SameShow
<1>4. NewEvents = <<>> /\ \A type : ~Happens(type)
  BY <1>3, EventsTyped, Emptied
<1> QED BY <1>2, <1>3, <1>4
     DEF Rests, Posts, Quiet, BlackStays, ListChanges, StandbyObeyed, Applying, FollowActs, ChaseCues

\* Every step of the engine has one of these shapes.
LEMMA NextShape ==
  ASSUME IInv, Next
  PROVE  Shape /\ Posts
<1>1. CASE SessionStep
  BY <1>1, EnqueueShape, LoadShape, LoadHotShape DEF SessionStep, Shape
<1>2. CASE TickStep
  <2>1. CASE \E d \in Deltas : BeginTick(d)
    BY <2>1, BeginTickShape DEF Shape
  <2>2. CASE \E tc \in TcStates : CheckChase(tc)
    BY <2>2, CheckChaseShape
  <2>3. CASE \E eof \in SUBSET Slices : CheckFollow(eof)
    BY <2>3, CheckFollowShape
  <2>4. CASE EmitFrame
    BY <2>4, EmitFrameShape DEF Shape
  <2> QED BY <1>2, <2>1, <2>2, <2>3, <2>4, ApplyPendingShape, FinishTransitionShape, ChaseFireShape
       DEF TickStep
<1> QED BY <1>1, <1>2 DEF Next

\* The history variables leave the engine alone, and its invariant holds.
LEMMA HSpecInv == HSpec => []IInv
<1>1. HInit => IInv
  BY InitIInv DEF HInit
<1>2. IInv /\ [HNext]_hvars => IInv'
  <2>1. [HNext]_hvars => [Next]_vars
    BY DEF HNext, hvars
  <2> QED BY <2>1, NextIInv
<1> QED BY <1>1, <1>2, PTL DEF HSpec

-----------------------------------------------------------------------------
(* The emergency black.                                                    *)

\* Only a GO, BACK or GOTO that is obeyed, or a new show, releases it.
LEMMA PanicReleased ==
  ASSUME IInv, Next
  PROVE  panic.on /\ ~panic'.on =>
           \/ /\ phase = "pending" /\ Head(pending).op \in {"go", "back", "goto"}
              /\ \E i \in DOMAIN show'.events :
                   i > Len(show.events) /\ show'.events[i].type = "started"
           \/ show' = Fresh(cues')
BY NextShape DEF Shape, Rests, Pins, Plays, Lands, Darkens, Misses, Loads, Edits, BlackStays

\* A quotient grows with what is divided.
LEMMA QuotientGrows ==
  ASSUME NEW a \in Nat, NEW b \in Nat, NEW c \in Nat \ {0}, a <= b
  PROVE  a \div c <= b \div c
<1> DEFINE q == a \div c
           r == b \div c
<1>1. q \in Nat /\ r \in Nat /\ q * c <= a /\ b < (r + 1) * c
  OBVIOUS
<1> HIDE DEF q, r
<1>2. ASSUME q > r PROVE FALSE
  <2>1. q >= r + 1
    BY <1>1, <1>2
  <2>2. q * c >= (r + 1) * c
    BY <1>1, <2>1
  <2>3. q * c \in Nat /\ (r + 1) * c \in Nat
    BY <1>1
  <2> QED BY <1>1, <2>2, <2>3
<1>3. q <= r
  BY <1>1, <1>2
<1> QED BY <1>3 DEF q, r

\* The black of a panic grows with the time elapsed.
LEMMA PanicBlackGrows ==
  ASSUME NEW p \in PanicStates, p.elapsed <= p.fade, NEW t \in Nat, p.elapsed <= t, t <= p.fade
  PROVE  PanicBlack([p EXCEPT !.elapsed = t]) >= PanicBlack(p)
<1> DEFINE q == [p EXCEPT !.elapsed = t]
           rest == Full - p.from
<1>1. q.on = p.on /\ q.fade = p.fade /\ q.from = p.from /\ q.elapsed = t
  BY DEF PanicStates
<1>2. p.from \in 0..Full /\ p.fade \in Nat /\ p.elapsed \in Nat /\ Full \in Nat /\ p.on \in BOOLEAN
  BY BoundsAssumption DEF PanicStates
<1> HIDE DEF q
<1>3. CASE p.on /\ p.fade # 0
  <2>1. rest \in Nat
    BY <1>2
  <2>2. rest * p.elapsed \in Nat /\ rest * t \in Nat /\ rest * p.elapsed <= rest * t
    <3> HIDE DEF rest
    <3> QED BY <1>2, <2>1
  <2> DEFINE x == (rest * p.elapsed) \div p.fade
             y == (rest * t) \div p.fade
  <2>3. x <= y /\ x \in Int /\ y \in Int
    <3> HIDE DEF rest
    <3>1. x <= y
      BY <1>2, <1>3, <2>2, QuotientGrows
    <3> QED BY <1>2, <1>3, <2>2, <3>1
  <2>4. PanicBlack(p) = p.from + x /\ PanicBlack(q) = p.from + y
    BY <1>1, <1>3 DEF PanicBlack
  <2> HIDE DEF x, y
  <2> QED BY <1>2, <2>3, <2>4 DEF q
<1>4. CASE p.on /\ p.fade = 0
  BY <1>1, <1>2, <1>4 DEF PanicBlack, q
<1>5. CASE ~p.on
  BY <1>1, <1>5 DEF PanicBlack, q
<1> QED BY <1>2, <1>3, <1>4, <1>5

\* What the steps do to it: none but the passing of time and a panic leaves it
\* engaged and changes it.
LEMMA PanicChanges ==
  ASSUME IInv, Next, panic'.on
  PROVE  panic' = panic \/ (\E d \in Deltas : BeginTick(d)) \/ ApplyPanic
<1>1. ~NoPanic.on
  BY DEF NoPanic
<1>2. ASSUME NEW tc \in TcStates, CheckChase(tc) PROVE panic' = panic
  BY <1>2 DEF CheckChase, ChaseOff, ChaseLocked, ChaseUnlocked, Advance, Seek
<1>3. ASSUME ApplyPending PROVE panic' = panic \/ ApplyPanic
  BY <1>1, <1>3 DEF ApplyPending, ApplyGo, ApplyBack, ApplyGoto, ApplyStandby, ManualGo, Refuse
<1>4. ASSUME SessionStep PROVE panic' = panic
  BY <1>1, <1>4 DEF SessionStep, Enqueue, Load, LoadHot
<1> QED BY <1>2, <1>3, <1>4 DEF Next, TickStep, FinishTransition, ChaseFire, CheckFollow, EmitFrame

LEMMA PanicLightens ==
  ASSUME IInv, Next, panic'.on
  PROVE  PanicBlack(panic') >= IF panic.on THEN PanicBlack(panic) ELSE TransBlack(show)
<1>1. panic \in PanicStates /\ panic.elapsed <= panic.fade
  BY DEF IInv
<1>2. PanicBlack(panic) \in 0..Full /\ TransBlack(show) \in 0..Full
  BY <1>1, PanicBlackIsLevel, TransBlackIsLevel DEF IInv, Sound
<1>3. CASE panic' = panic
  BY <1>2, <1>3, BoundsAssumption
<1>4. ASSUME NEW d \in Deltas, BeginTick(d)
      PROVE  panic.on /\ PanicBlack(panic') >= PanicBlack(panic)
  <2> DEFINE t == AtMost(panic.elapsed + d, panic.fade)
  <2>1. panic' = [panic EXCEPT !.elapsed = t]
    BY <1>4 DEF BeginTick
  <2>2. t \in Nat /\ panic.elapsed <= t /\ t <= panic.fade
    BY <1>1, BoundsAssumption DEF PanicStates, AtMost
  <2> HIDE DEF t
  <2>3. panic'.on = panic.on
    BY <1>1, <2>1 DEF PanicStates
  <2> QED BY <1>1, <2>1, <2>2, <2>3, PanicBlackGrows
<1>5. CASE ApplyPanic
  <2> DEFINE fade == Head(pending).fade
             from == Larger(PanicBlack(panic), TransBlack(show))
             p == [on |-> TRUE, fade |-> fade, elapsed |-> 0, from |-> from]
  <2>1. panic' = p
    BY <1>5 DEF ApplyPanic
  <2>2. from \in 0..Full /\ from >= PanicBlack(panic) /\ from >= TransBlack(show)
    BY <1>2, BoundsAssumption DEF Larger
  <2>3. p.on /\ p.fade = fade /\ p.elapsed = 0 /\ p.from = from
    OBVIOUS
  <2>4. fade \in Nat
    <3>1. pending # <<>> /\ Head(pending).op = "panic"
      BY <1>5 DEF ApplyPanic, Applying
    <3>2. Head(pending) \in Commands
      BY <3>1, TailTyped DEF IInv
    <3> QED BY <3>1, <3>2, BoundsAssumption DEF Commands
  <2> HIDE DEF from, fade, p
  <2>5. PanicBlack(p) >= from
    <3>1. CASE fade = 0
      <4>1. PanicBlack(p) = Full
        BY <2>3, <3>1 DEF PanicBlack
      <4> QED BY <2>2, <4>1, BoundsAssumption
    <3>2. CASE fade # 0
      <4>1. PanicBlack(p) = from + ((Full - from) * 0) \div fade
        BY <2>3, <3>2 DEF PanicBlack
      <4>2. (Full - from) * 0 = 0 /\ 0 \div fade = 0
        BY <2>2, <2>4, <3>2, BoundsAssumption
      <4> QED BY <2>2, <4>1, <4>2, BoundsAssumption
    <3> QED BY <3>1, <3>2
  <2>6. PanicBlack(p) \in Int
    <3>1. p \in PanicStates
      BY <2>2, <2>4 DEF p, PanicStates
    <3>2. PanicBlack(p) \in 0..Full
      BY <2>3, <2>4, <3>1, PanicBlackIsLevel
    <3> QED BY <3>2, BoundsAssumption
  <2> QED BY <1>2, <2>1, <2>2, <2>5, <2>6, BoundsAssumption
<1> QED BY <1>3, <1>4, <1>5, PanicChanges

\* panic and eval_panic: the emergency black starts no lighter than what is
\* displayed, never gets lighter while it lasts, a second panic included, and
\* only an obeyed GO, BACK or GOTO, or a new show, releases it.
THEOREM BlackIsHeld == HSpec => PanicHolds
<1> DEFINE Grows == panic'.on =>
             PanicBlack(panic') >= IF panic.on THEN PanicBlack(panic) ELSE TransBlack(show)
           Kept == panic.on /\ ~panic'.on =>
             \/ /\ phase = "pending" /\ Head(pending).op \in {"go", "back", "goto"}
                /\ \E i \in DOMAIN show'.events :
                     i > Len(show.events) /\ show'.events[i].type = "started"
             \/ show' = Fresh(cues')
<1>1. IInv /\ [HNext]_hvars => [Grows /\ Kept]_vars
  <2>1. [HNext]_hvars => [Next]_vars
    BY DEF HNext, hvars
  <2>2. IInv /\ Next => Grows /\ Kept
    BY PanicLightens, PanicReleased
  <2> QED BY <2>1, <2>2
<1>2. HSpec => [][Grows /\ Kept]_vars
  BY <1>1, HSpecInv, PTL DEF HSpec
<1>3. [Grows /\ Kept]_vars => [Grows]_vars /\ [Kept]_vars
  OBVIOUS
<1>4. HSpec => [][Grows]_vars /\ [][Kept]_vars
  <2> HIDE DEF Grows, Kept
  <2> QED BY <1>2, <1>3, PTL
<1> QED BY <1>4 DEF PanicHolds, PanicNeverLightens, PanicReleasedByOperator

-----------------------------------------------------------------------------
(* The programme.                                                          *)

\* The standby after a cue is its goto_after if the list has it, and never the
\* cue itself otherwise.
LEMMA StandbyAfterIs ==
  ASSUME NEW l \in CueLists, NEW i \in DOMAIN l
  PROVE  /\ l[i].gotoAfter \in DOMAIN l => StandbyAfter(l, i) = l[i].gotoAfter
         /\ StandbyAfter(l, i) # i \/ l[i].gotoAfter = i
<1>1. ArmedAfter(l, i) \in SUBSET Numbers /\ \A n \in ArmedAfter(l, i) : n > i
  BY CueListsAssumption DEF ArmedAfter
<1>2. FirstOf(ArmedAfter(l, i)) \in ArmedAfter(l, i) \cup {NoCue}
  BY <1>1, FirstOfIsMember
<1>3. i \in Numbers /\ i \in Nat \ {0}
  BY CueOfList, NumbersAssumption
<1>4. FirstOf(ArmedAfter(l, i)) # i
  BY <1>1, <1>2, <1>3 DEF NoCue
<1> QED BY <1>4 DEF StandbyAfter

\* The standby is where the cue on air loops, or past it, unless STANDBY chose
\* it or an edit changed the loop meanwhile.
Ahead ==
  /\ show.transition.to = NoCue /\ show.active # NoCue
  /\ ~looped /\ (pinned = NoCue \/ show.standby # pinned)
  => /\ cues[show.active].gotoAfter \in DOMAIN cues => show.standby = cues[show.active].gotoAfter
     /\ show.standby # show.active \/ cues[show.active].gotoAfter = show.active

\* A follow is counted only while the engine remembers that it fired.
Once == follows \in {0, 1} /\ (follows = 1 => show.followFired)

HInv == IInv /\ Ahead /\ Once

LEMMA AheadStep ==
  ASSUME IInv, Ahead, HNext
  PROVE  Ahead'
<1> SUFFICES ASSUME show'.transition.to = NoCue, show'.active # NoCue,
                    ~looped', pinned' = NoCue \/ show'.standby # pinned'
             PROVE  /\ cues'[show'.active].gotoAfter \in DOMAIN cues'
                         => show'.standby = cues'[show'.active].gotoAfter
                    /\ show'.standby # show'.active \/ cues'[show'.active].gotoAfter = show'.active
  BY DEF Ahead
<1>1. Shape
  BY NextShape DEF HNext
<1>2. cues \in CueLists /\ cues' \in CueLists
  BY NextIInv DEF HNext, IInv
<1>3. NoCue \notin DOMAIN cues
  BY <1>2, CueListsAssumption, NumbersAssumption DEF NoCue
<1>4. CASE Rests
  <2>1. pinned' = pinned /\ looped' = looped
    BY <1>4 DEF HNext, Rests, Quiet
  <2> QED BY <1>4, <2>1 DEF Rests, SameShow, Ahead
<1>5. CASE Pins
  <2>1. pinned' = show'.standby
    BY <1>5 DEF HNext, Pins
  <2> QED BY <1>3, <1>5, <2>1 DEF Pins
<1>6. ASSUME NEW i, Plays(i) PROVE show'.standby = StandbyAfter(cues, i) /\ show'.active = i /\ i \in DOMAIN cues
  BY <1>6 DEF Plays
<1>7. CASE \E i : Plays(i)
  <2>1. PICK i : Plays(i)
    BY <1>7
  <2>2. cues' = cues
    BY <2>1 DEF Plays
  <2> QED BY <1>2, <1>6, <2>1, <2>2, StandbyAfterIs
<1>8. CASE Lands
  BY <1>2, <1>8, StandbyAfterIs DEF Lands
<1>9. CASE Darkens \/ Loads
  BY <1>9 DEF Darkens, Loads
<1>10. CASE Misses
  <2>1. pinned' = pinned /\ looped' = looped
    BY <1>10 DEF HNext, Misses, Quiet, ListChanges, ChaseCues
  <2> QED BY <1>10, <2>1 DEF Misses, Ahead
<1>11. CASE Edits
  <2> DEFINE on == OnAir(show)
  <2>1. on \in DOMAIN cues' /\ show'.active = on
    BY <1>11 DEF Edits
  <2>2. show'.standby \in {GoTarget, StandbyAfter(cues', on)}
    BY <1>11, <2>1 DEF Edits
  <2>3. on \in DOMAIN cues
    <3>1. on # NoCue
      BY <2>1
    <3> QED BY <3>1 DEF IInv, Sound, OnAir
  <2>4. ~looped /\ ~LoopEdited
    BY <1>11 DEF HNext, Edits
  <2>5. /\ cues'[on].gotoAfter = cues[on].gotoAfter
        /\ cues'[on].gotoAfter \in DOMAIN cues' => cues[on].gotoAfter \in DOMAIN cues
    BY <2>1, <2>4 DEF LoopEdited
  <2>6. CASE show'.standby = StandbyAfter(cues', on)
    BY <1>2, <2>1, <2>6, StandbyAfterIs
  <2>7. CASE show.transition.to # NoCue /\ show'.standby = GoTarget
    <3>1. show'.standby = StandbyAfter(cues, on)
      BY <2>7 DEF GoTarget, OnAir
    <3> HIDE DEF on
    <3> QED BY <1>2, <2>1, <2>3, <2>5, <3>1, StandbyAfterIs
  <2>8. CASE show.transition.to = NoCue /\ show'.standby = GoTarget
    <3>1. show'.standby = show.standby /\ on = show.active /\ show.active # NoCue
      BY <2>1, <2>8 DEF GoTarget, OnAir
    <3>2. pinned' = IF show'.standby # pinned THEN NoCue ELSE pinned
      BY <1>11 DEF HNext, Edits, StandbyObeyed, Applying, ChaseCues
    <3>3. pinned = NoCue \/ show.standby # pinned
      BY <3>1, <3>2
    <3> HIDE DEF on
    <3> QED BY <2>1, <2>4, <2>5, <2>8, <3>1, <3>3 DEF Ahead
  <2> QED BY <2>2, <2>6, <2>7, <2>8
<1> QED BY <1>1, <1>4, <1>5, <1>7, <1>8, <1>9, <1>10, <1>11 DEF Shape

LEMMA OnceStep ==
  ASSUME IInv, Once, HNext
  PROVE  Once'
<1>1. Shape
  BY NextShape DEF HNext
<1>2. follows' = IF Happens("finished") \/ show'.active = NoCue THEN 0
                 ELSE IF FollowActs THEN follows + 1 ELSE follows
  BY DEF HNext
<1>3. CASE Happens("finished") \/ show'.active = NoCue
  BY <1>2, <1>3 DEF Once
<1>4. CASE ~(Happens("finished") \/ show'.active = NoCue)
  <2>1. \/ ~FollowActs /\ show'.followFired = show.followFired
        \/ ~show.followFired /\ show'.followFired = TRUE
    <3>1. CASE Rests \/ Pins \/ Edits \/ Misses
      BY <1>4, <3>1 DEF Rests, SameShow, Pins, Edits, Misses, FollowActs
    <3>2. CASE \E i : Plays(i)
      BY <1>4, <3>2 DEF Plays, FollowActs
    <3>3. CASE Lands \/ Darkens \/ Loads
      BY <1>4, <3>3 DEF Lands, Darkens, Loads
    <3> QED BY <1>1, <3>1, <3>2, <3>3 DEF Shape
  <2> QED BY <1>2, <1>4, <2>1 DEF Once
<1> QED BY <1>3, <1>4

LEMMA HInvHolds == HSpec => []HInv
<1>1. HInit => HInv
  <2> SUFFICES ASSUME HInit PROVE HInv
    OBVIOUS
  <2>1. show.active = NoCue /\ follows = 0
    BY DEF HInit, Init, Fresh
  <2> QED BY <2>1, InitIInv DEF HInit, HInv, Ahead, Once
<1>2. HInv /\ [HNext]_hvars => HInv'
  <2> SUFFICES ASSUME HInv, [HNext]_hvars PROVE HInv'
    OBVIOUS
  <2>1. CASE HNext
    BY <2>1, AheadStep, OnceStep, NextIInv DEF HInv, HNext
  <2>2. CASE UNCHANGED hvars
    <3>1. UNCHANGED vars
      BY <2>2 DEF hvars
    <3>2. IInv'
      BY <3>1, NextIInv DEF HInv
    <3> QED BY <2>2, <3>2 DEF HInv, Ahead, Once, hvars, vars
  <2> QED BY <2>1, <2>2
<1> QED BY <1>1, <1>2, PTL DEF HSpec

LEMMA FadeStep ==
  ASSUME IInv, Next
  PROVE  /\ show.transition.to # NoCue
         /\ show.transition.elapsed < show.transition.dur
         /\ show'.transition.to # show.transition.to
         => \/ \E i \in DOMAIN show'.events :
                 i > Len(show.events) /\ show'.events[i].type = "started"
            \/ phase = "chase" /\ chase' # {}
            \/ phase = "idle" /\ phase' = "idle"
<1>1. Shape
  BY NextShape
<1>2. show.transition.elapsed \in Nat /\ show.transition.dur \in Nat
  BY DEF IInv, Sound, Shows, RunningTransitions
<1>3. CASE Rests \/ Pins \/ Misses
  BY <1>3 DEF Rests, SameShow, Pins, Misses
<1>4. CASE \E i : Plays(i)
  BY <1>4 DEF Plays
<1>5. CASE Lands
  BY <1>2, <1>5 DEF Lands
<1>6. CASE Darkens \/ Loads \/ Edits
  BY <1>6 DEF Darkens, Loads, Edits
<1> QED BY <1>1, <1>3, <1>4, <1>5, <1>6 DEF Shape

LEMMA EditStep ==
  ASSUME IInv, Next, NEW on, on = OnAir(show)
  PROVE  /\ phase = "idle" /\ phase' = "idle" /\ on \in DOMAIN cues'
         /\ show' # Fresh(cues')
         => /\ OnAir(show') = on
            /\ show.transition.to = NoCue =>
                 show'.followFired = show.followFired /\ show'.cueAge = show.cueAge
<1>1. Shape
  BY NextShape
<1>2. CASE Rests
  BY <1>2 DEF Rests
<1>3. CASE Edits
  BY <1>3 DEF Edits, OnAir
<1>4. CASE ~Rests /\ ~Edits /\ ~Loads
  <2>1. phase # "idle"
    BY <1>1, <1>4 DEF Shape, Pins, Plays, Lands, Darkens, Misses
  <2> QED BY <2>1
<1>5. CASE Loads
  BY <1>5 DEF Loads
<1> QED BY <1>2, <1>3, <1>4, <1>5

LEMMA GoStep ==
  ASSUME IInv, Ahead, Next, NEW on, on = OnAir(show)
  PROVE  Applying("go") /\ Happens("started") /\ on # NoCue /\ pinned = NoCue /\ ~looped
         => OnAir(show') # on \/ cues[on].gotoAfter = on
<1> SUFFICES ASSUME Applying("go"), Happens("started"), on # NoCue, pinned = NoCue, ~looped
             PROVE  OnAir(show') # on \/ cues[on].gotoAfter = on
  OBVIOUS
<1>1. Shape /\ phase = "pending"
  BY NextShape DEF Applying
<1>2. PICK i : Plays(i)
  BY <1>1 DEF Shape, Rests, Pins, Lands, Darkens, Misses, Loads, Edits, Quiet
<1>3. OnAir(show') = i /\ i = GoTarget
  BY <1>1, <1>2 DEF Plays
<1>4. CASE show.transition.to # NoCue
  <2>1. on \in DOMAIN cues /\ i = StandbyAfter(cues, on)
    BY <1>3, <1>4 DEF IInv, Sound, OnAir, GoTarget
  <2>2. cues \in CueLists
    BY DEF IInv
  <2> QED BY <1>3, <2>1, <2>2, StandbyAfterIs
<1>5. CASE show.transition.to = NoCue
  BY <1>3, <1>5 DEF Ahead, OnAir, GoTarget
<1> QED BY <1>4, <1>5

LEMMA LoopStep ==
  ASSUME IInv, Ahead, Next, NEW g, g = cues[show.active].gotoAfter
  PROVE  FollowActs /\ pinned = NoCue /\ ~looped /\ g \in DOMAIN cues => OnAir(show') = g
<1> SUFFICES ASSUME FollowActs, pinned = NoCue, ~looped, g \in DOMAIN cues
             PROVE  OnAir(show') = g
  OBVIOUS
<1>1. Shape /\ phase = "follow"
  BY NextShape DEF FollowActs
<1>2. (\E i : Plays(i)) \/ Misses
  BY <1>1 DEF Shape, Rests, Pins, Lands, Darkens, Loads, Edits
<1>3. show.transition.to = NoCue /\ show.active # NoCue
  BY <1>1, <1>2 DEF Plays, Misses
<1>4. show.standby = g
  BY <1>3 DEF Ahead
<1>5. g # NoCue
  BY CueListsAssumption, NumbersAssumption DEF IInv, NoCue
<1>6. PICK i : Plays(i)
  BY <1>2, <1>4, <1>5 DEF Misses
<1> QED BY <1>1, <1>4, <1>6 DEF Plays

LEMMA SnapshotStep ==
  ASSUME IInv, Next
  PROVE  /\ \A i \in Ended : \A a \in DOMAIN PosedBy(i) :
              /\ show'.finished.given /\ a \in DOMAIN show'.finished.map
              /\ (\A j \in Ended : j > i => a \notin DOMAIN PosedBy(j))
                   => show'.finished.map[a] = PosedBy(i)[a]
         /\ show.finished.given /\ phase # "frame" /\ show' # Fresh(cues') =>
              /\ show'.finished.given
              /\ \A a \in DOMAIN show.finished.map :
                   /\ a \in DOMAIN show'.finished.map
                   /\ (\A i \in Ended : a \notin DOMAIN PosedBy(i))
                        => show'.finished.map[a] = show.finished.map[a]
<1>1. CASE \E e : Adds(cues, show, e, show')
  <2>1. PICK e : Adds(cues, show, e, show')
    BY <1>1
  <2>2. NewEvents = e
    BY <2>1, StepAdds
  <2>3. \A i, a : Covers(cues, e, i, a) <=> i \in Ended /\ a \in DOMAIN PosedBy(i)
    BY <2>2 DEF Covers, Ends, Ended, PosedBy
  <2>4. \A i : PosedBy(i) = cues[e[i].cue].params
    BY <2>2 DEF PosedBy
  <2>5. Poses(cues, e, show') /\ Leaves(cues, show, e, show')
    BY <2>1 DEF Adds
  <2>6. ASSUME NEW i \in Ended, NEW a \in DOMAIN PosedBy(i)
        PROVE  /\ show'.finished.given /\ a \in DOMAIN show'.finished.map
               /\ (\A j \in Ended : j > i => a \notin DOMAIN PosedBy(j))
                    => show'.finished.map[a] = PosedBy(i)[a]
    BY <2>3, <2>4, <2>5 DEF Poses
  <2>7. ASSUME show.finished.given
        PROVE  /\ show'.finished.given
               /\ \A a \in DOMAIN show.finished.map :
                    /\ a \in DOMAIN show'.finished.map
                    /\ (\A i \in Ended : a \notin DOMAIN PosedBy(i))
                         => show'.finished.map[a] = show.finished.map[a]
    BY <2>3, <2>5, <2>7 DEF Leaves
  <2> QED BY <2>6, <2>7
<1>2. CASE show'.events = <<>> /\ (phase = "frame" \/ show' = Fresh(cues'))
  <2>1. NewEvents = <<>>
    BY <1>2, EventsTyped, Emptied
  <2>2. Ended = {}
    BY <2>1 DEF Ended
  <2> QED BY <1>2, <2>2
<1> QED BY <1>1, <1>2, NextShape DEF Posts

\* tick, apply_pending, check_follow, load_hot and activate: a fade is not cut
\* short, an edit leaves the cue on air alone, GO does not replay it, a
\* goto_after is obeyed, a follow fires once, and the parameters of every cue
\* that ended its entry are posed.
THEOREM ProgrammeIsAsked == HSpec => ProgrammeMovesAsAsked
<1> DEFINE
      Fade == /\ show.transition.to # NoCue
              /\ show.transition.elapsed < show.transition.dur
              /\ show'.transition.to # show.transition.to
              => \/ \E i \in DOMAIN show'.events :
                      i > Len(show.events) /\ show'.events[i].type = "started"
                 \/ phase = "chase" /\ chase' # {}
                 \/ phase = "idle" /\ phase' = "idle"
      Edit == LET on == OnAir(show)
              IN  /\ phase = "idle" /\ phase' = "idle" /\ on \in DOMAIN cues'
                  /\ show' # Fresh(cues')
                  => /\ OnAir(show') = on
                     /\ show.transition.to = NoCue =>
                          show'.followFired = show.followFired /\ show'.cueAge = show.cueAge
      Go == LET on == OnAir(show)
            IN  Applying("go") /\ Happens("started") /\ on # NoCue /\ pinned = NoCue /\ ~looped
                => OnAir(show') # on \/ cues[on].gotoAfter = on
      Loop == LET g == cues[show.active].gotoAfter
              IN  FollowActs /\ pinned = NoCue /\ ~looped /\ g \in DOMAIN cues
                  => OnAir(show') = g
      Snap == /\ \A i \in Ended : \A a \in DOMAIN PosedBy(i) :
                   /\ show'.finished.given /\ a \in DOMAIN show'.finished.map
                   /\ (\A j \in Ended : j > i => a \notin DOMAIN PosedBy(j))
                        => show'.finished.map[a] = PosedBy(i)[a]
              /\ show.finished.given /\ phase # "frame" /\ show' # Fresh(cues') =>
                   /\ show'.finished.given
                   /\ \A a \in DOMAIN show.finished.map :
                        /\ a \in DOMAIN show'.finished.map
                        /\ (\A i \in Ended : a \notin DOMAIN PosedBy(i))
                             => show'.finished.map[a] = show.finished.map[a]
<1>1. ASSUME IInv, Ahead, Next PROVE Fade /\ Edit /\ Go /\ Loop /\ Snap
  <2>1. Fade
    BY <1>1, FadeStep
  <2>2. Edit
    BY <1>1, EditStep
  <2>3. Go
    BY <1>1, GoStep
  <2>4. Loop
    BY <1>1, LoopStep
  <2>5. Snap
    BY <1>1, SnapshotStep
  <2> QED BY <2>1, <2>2, <2>3, <2>4, <2>5
<1> HIDE DEF Fade, Edit, Go, Loop, Snap
<1>2. HInv /\ [HNext]_hvars =>
        /\ [Fade]_vars /\ [Edit]_vars /\ [Go]_hvars /\ [Loop]_hvars /\ [Snap]_vars
  BY <1>1 DEF HInv, HNext, hvars
<1>3. HInv => FollowAtMostOnce
  BY DEF HInv, Once, FollowAtMostOnce
<1>4. HSpec => /\ [][Fade]_vars /\ [][Edit]_vars /\ [][Go]_hvars /\ [][Loop]_hvars
               /\ [][Snap]_vars /\ []FollowAtMostOnce
  BY <1>2, <1>3, HInvHolds, PTL DEF HSpec
<1> QED BY <1>4
     DEF Fade, Edit, Go, Loop, Snap, ProgrammeMovesAsAsked, FadeNotCutShort, EditKeepsProgramme,
         GoNeverReplays, LoopIsTaken, SnapshotsPosed

-----------------------------------------------------------------------------
(* The timecode.                                                           *)

Tracked(c) ==
  IF Reached(c) = {} THEN OnAir(show) = NoCue
  ELSE /\ OnAir(show) \in Reached(c)
       /\ \A n \in Reached(c) : NotAfter(n, OnAir(show), c.rate)

OneChase == \A c, d \in chase : c = d

\* While cues remain to be fired, they are the last of those reached.
Firing ==
  phase = "fire" =>
    /\ chase # {} /\ fired # {}
    /\ \A c \in chase :
         /\ fired \subseteq Reached(c)
         /\ \A m \in Reached(c) \ fired : \A n \in fired : NotAfter(m, n, c.rate)

\* Until something else than the chase moves the programme, the cue on air is
\* the last one reached, in every phase but that where they are fired.
OnTrack == ~astray => chase # {} /\ (phase # "fire" => \A c \in chase : Tracked(c))

KInv == IInv /\ OneChase /\ Firing /\ OnTrack

\* Where a trigger is.
LEMMA AtTyped ==
  ASSUME IInv, NEW n \in Triggers, NEW rate \in Nat
  PROVE  n \in DOMAIN cues /\ n \in Nat /\ At(n, rate) \in Nat
<1>1. n \in DOMAIN cues /\ cues[n].trigger # {}
  BY DEF Triggers
<1>2. n \in Numbers /\ cues[n] \in Cues
  BY <1>1, CueOfList DEF IInv
<1> DEFINE t == CHOOSE t \in cues[n].trigger : TRUE
<1>3. t \in TcTimes
  BY <1>1, <1>2 DEF Cues
<1> HIDE DEF t
<1>4. t.s * rate + t.f \in Nat
  <2>1. t.s \in Nat /\ t.f \in Nat
    BY <1>3 DEF TcTimes
  <2>2. t.s * rate \in Nat
    BY <2>1
  <2> QED BY <2>1, <2>2
<1> QED BY <1>1, <1>2, <1>4, NumbersAssumption DEF At, ToFrames, t

LEMMA ChaseTyped ==
  ASSUME IInv, NEW c \in chase
  PROVE  c \in ChaseStates /\ c.frames \in Nat /\ c.rate \in Nat
BY BoundsAssumption DEF IInv, ChaseStates

\* The order of the triggers, at one rate.
LEMMA NotAfterIs ==
  ASSUME IInv, NEW m \in Triggers, NEW n \in Triggers, NEW rate \in Nat
  PROVE  /\ NotAfter(m, m, rate)
         /\ At(m, rate) < At(n, rate) => NotAfter(m, n, rate)
BY AtTyped DEF NotAfter

\* A step that keeps the list keeps the triggers and their order.
LEMMA SameTriggers ==
  ASSUME cues' = cues
  PROVE  /\ Triggers' = Triggers
         /\ \A n, r : At(n, r)' = At(n, r)
         /\ \A m, n, r : NotAfter(m, n, r)' = NotAfter(m, n, r)
         /\ \A c : Reached(c)' = Reached(c)
BY DEF Triggers, At, NotAfter, Reached

\* ... and being on the last trigger reached is then a matter of what is on air.
LEMMA TrackedAgain ==
  ASSUME cues' = cues, OnAir(show') = OnAir(show), NEW c, NEW d, Tracked(c),
         Reached(d) = Reached(c), d.rate = c.rate
  PROVE  Tracked(d)'
<1>1. OnAir(show)' = OnAir(show)
  BY DEF OnAir
<1>2. Reached(d)' = Reached(c) /\ \A m, n : NotAfter(m, n, d.rate)' = NotAfter(m, n, c.rate)
  BY SameTriggers
<1> QED BY <1>1, <1>2 DEF Tracked

\* Positions and rates of the chase, where only its freewheel changes.
LEMMA SameReach ==
  ASSUME NEW c, NEW d, d.frames = c.frames, d.rate = c.rate
  PROVE  Reached(d) = Reached(c)
BY DEF Reached

\* chase_seek puts the cue it looks for on air.
LEMMA SeekToAir ==
  ASSUME IInv, NEW n \in DOMAIN cues, SeekTo(n)
  PROVE  OnAir(show') = n
<1>1. n # NoCue
  BY CueOfList, NumbersAssumption DEF IInv, NoCue
<1>2. CASE show.transition.to = NoCue /\ show.active = n /\ show' = show
  BY <1>2 DEF OnAir
<1>3. CASE show.transition.to = n /\ show' = Snapped(cues, show)
  <2>1. SnapDone(cues, show, show')
    BY <1>3, Snapping DEF IInv
  <2> QED BY <1>1, <1>3, <2>1 DEF SnapDone, OnAir
<1>4. CASE show' = Started(cues, Snapped(cues, show), n, cues[n].transition)
  <2> DEFINE tr == cues[n].transition
  <2>1. tr \in Transitions
    BY CueTransition DEF IInv
  <2>2. show' = Started(cues, Snapped(cues, show), n, tr)
    BY <1>4
  <2> HIDE DEF tr
  <2>3. PlayDone(cues, show, n, tr, show')
    BY <2>1, <2>2, Playing DEF IInv
  <2> QED BY <2>3 DEF PlayDone
<1> QED BY <1>2, <1>3, <1>4 DEF SeekTo

LEMMA SeekTracks ==
  ASSUME IInv, NEW frames \in Nat, NEW rate \in Nat, Seek(frames, rate),
         NEW d, d.frames = frames, d.rate = rate,
         Triggers = {} => OnAir(show) = NoCue
  PROVE  Tracked(d)'
<1> DEFINE past == {n \in Triggers : At(n, rate) <= frames}
<1>1. cues' = cues
  BY DEF Seek
<1>2. Reached(d) = past
  BY DEF Reached
<1>3. /\ Reached(d)' = past /\ OnAir(show)' = OnAir(show')
      /\ \A m, n : NotAfter(m, n, d.rate)' = NotAfter(m, n, rate)
  BY <1>1, <1>2, SameTriggers DEF OnAir
<1>4. CASE past = {}
  <2>1. SeekBlack(rate)
    BY <1>4 DEF Seek
  <2>2. OnAir(show') = NoCue
    <3>1. CASE show' = show
      <4>1. ASSUME OnAir(show) # NoCue, Triggers # {} PROVE FALSE
        <5>1. PICK first \in Triggers :
                show' = [show EXCEPT !.transition = NoTransition, !.active = NoCue,
                                     !.followFired = FALSE, !.standby = first]
          BY <2>1, <4>1 DEF SeekBlack
        <5>2. show'.transition = NoTransition /\ show'.active = NoCue
          BY <5>1, EventsTyped DEF Shows
        <5> QED BY <3>1, <4>1, <5>2 DEF OnAir, NoTransition
      <4> QED BY <3>1, <4>1
    <3>2. CASE show' # show
      <4>1. PICK first \in Triggers :
              show' = [show EXCEPT !.transition = NoTransition, !.active = NoCue,
                                   !.followFired = FALSE, !.standby = first]
        BY <2>1, <3>2 DEF SeekBlack
      <4>2. show'.transition = NoTransition /\ show'.active = NoCue
        BY <4>1, EventsTyped DEF Shows
      <4> QED BY <4>2 DEF OnAir, NoTransition
    <3> QED BY <3>1, <3>2
  <2> QED BY <1>3, <1>4, <2>2 DEF Tracked
<1>5. CASE past # {}
  <2>1. PICK last \in past : SeekTo(last) /\ \A n \in past : NotAfter(n, last, rate)
    BY <1>5 DEF Seek
  <2>2. last \in DOMAIN cues
    BY DEF Triggers
  <2>3. OnAir(show') = last
    BY <2>1, <2>2, SeekToAir
  <2> HIDE DEF past
  <2> QED BY <1>3, <1>5, <2>1, <2>3 DEF Tracked
<1> QED BY <1>4, <1>5

\* chase_advance collects the last of the cues reached.
LEMMA AdvanceTracks ==
  ASSUME IInv, phase = "chase", NEW c \in chase, NEW to \in Nat, c.frames <= to,
         Advance(c.frames, to, c.rate), NEW d, d.frames = to, d.rate = c.rate, chase' = {d}
  PROVE  Firing' /\ (phase' # "fire" /\ Tracked(c) => Tracked(d)')
<1> DEFINE new == {n \in Triggers : At(n, c.rate) > c.frames /\ At(n, c.rate) <= to}
<1>1. fired' = new /\ cues' = cues /\ show' = show /\ phase' = IF new = {} THEN "follow" ELSE "fire"
  BY DEF Advance
<1>2. c.frames \in Nat /\ c.rate \in Nat
  BY ChaseTyped
<1>3. \A n \in Triggers : At(n, c.rate) \in Nat
  BY <1>2, AtTyped
<1>4. Reached(d) = {n \in Triggers : At(n, c.rate) <= to}
  BY DEF Reached
<1>5. Reached(c) = {n \in Triggers : At(n, c.rate) <= c.frames}
  BY DEF Reached
<1>6. new \subseteq Reached(d) /\ Reached(d) = Reached(c) \cup new
  <2>1. ASSUME NEW n \in Triggers
        PROVE  At(n, c.rate) <= to <=> At(n, c.rate) <= c.frames \/ (At(n, c.rate) > c.frames /\ At(n, c.rate) <= to)
    <3> DEFINE a == At(n, c.rate)
    <3>1. a \in Nat
      BY <1>3
    <3> HIDE DEF a
    <3>2. a <= to <=> a <= c.frames \/ (a > c.frames /\ a <= to)
      BY <1>2, <3>1
    <3> QED BY <3>2 DEF a
  <2> QED BY <1>4, <1>5, <2>1
<1>7. \A m \in Reached(d) \ new : \A n \in new : NotAfter(m, n, c.rate)
  <2> SUFFICES ASSUME NEW m \in Reached(d) \ new, NEW n \in new PROVE NotAfter(m, n, c.rate)
    OBVIOUS
  <2>1. m \in Triggers /\ n \in Triggers /\ At(m, c.rate) <= c.frames /\ At(n, c.rate) > c.frames
    BY <1>5, <1>6
  <2>2. At(m, c.rate) < At(n, c.rate)
    BY <1>2, <1>3, <2>1
  <2> QED BY <1>2, <2>1, <2>2, NotAfterIs
<1> HIDE DEF new
<1>8. /\ Reached(d)' = Reached(d)
      /\ \A m, n : NotAfter(m, n, d.rate)' = NotAfter(m, n, c.rate)
  BY <1>1, SameTriggers
<1>9. Firing'
  <2> SUFFICES ASSUME new # {}
               PROVE  /\ chase' # {} /\ fired' # {}
                      /\ \A x \in chase' :
                           /\ fired' \subseteq Reached(x)'
                           /\ \A m \in Reached(x)' \ fired' : \A n \in fired' : NotAfter(m, n, x.rate)'
    BY <1>1 DEF Firing
  <2> QED BY <1>1, <1>6, <1>7, <1>8
<1>10. ASSUME phase' # "fire", Tracked(c) PROVE Tracked(d)'
  <2>1. new = {}
    BY <1>1, <1>10
  <2>2. Reached(d) = Reached(c)
    BY <1>6, <2>1
  <2> QED BY <1>1, <1>10, <2>2, TrackedAgain
<1> QED BY <1>9, <1>10

\* check_chase.
LEMMA ChaseStep ==
  ASSUME KInv, HNext, phase = "chase"
  PROVE  OneChase' /\ Firing' /\ OnTrack'
<1>1. IInv /\ OneChase /\ OnTrack
  BY DEF KInv
<1>2. PICK tc \in TcStates : CheckChase(tc)
  BY DEF HNext, Next, TickStep, SessionStep, Enqueue, Load, LoadHot, BeginTick, ApplyPending,
         ApplyGo, ApplyBack, ApplyGoto, ApplyStandby, ApplyPanic, Applying, FinishTransition,
         ChaseFire, CheckFollow, EmitFrame
<1>3. astray' <=> ~Seeks /\ (astray \/ chase' = {})
  BY DEF HNext, ListChanges
<1>4. CASE chase' = {} /\ phase' = "follow"
  <2>1. ~Seeks
    BY <1>4 DEF Seeks
  <2> QED BY <1>3, <1>4, <2>1 DEF OneChase, Firing, OnTrack
<1>5. ASSUME NEW c \in chase, NEW to \in Nat, c.frames <= to, Advance(c.frames, to, c.rate),
             NEW d, d.frames = to, d.rate = c.rate, chase' = {d}, ~Seeks
      PROVE  OneChase' /\ Firing' /\ OnTrack'
  <2>1. Firing' /\ (phase' # "fire" /\ Tracked(c) => Tracked(d)')
    BY <1>1, <1>5, AdvanceTracks
  <2>2. ~astray' => Tracked(c)
    BY <1>1, <1>3, <1>5 DEF OnTrack
  <2>3. OneChase'
    BY <1>5 DEF OneChase
  <2>4. OnTrack'
    BY <1>5, <2>1, <2>2 DEF OnTrack
  <2> QED BY <2>1, <2>3, <2>4
<1>6. CASE ChaseUnlocked(tc) /\ chase' # {}
  <2>1. PICK c \in chase :
          /\ chase' = {[c EXCEPT !.locked = FALSE, !.frames = Estimate(c),
                                 !.fw = {f \in FreewheelOf(c) : f.elapsed < Freewheel}]}
          /\ Advance(c.frames, Estimate(c), c.rate)
    BY <1>6 DEF ChaseUnlocked
  <2> DEFINE to == Estimate(c)
             fw == {f \in FreewheelOf(c) : f.elapsed < Freewheel}
             d == [c EXCEPT !.locked = FALSE, !.frames = to, !.fw = fw]
  <2>2. c \in ChaseStates /\ c.frames \in Nat /\ to \in Nat
    BY <1>1, ChaseTyped, FreewheelTyped
  <2>3. c.frames <= to
    <3>1. CASE FreewheelOf(c) = {}
      BY <2>2, <3>1 DEF Estimate
    <3>2. CASE FreewheelOf(c) # {}
      <4> DEFINE f == CHOOSE g \in FreewheelOf(c) : TRUE
                 x == f.from + f.elapsed * c.rate
      <4>1. to = Larger(c.frames, x)
        BY <3>2 DEF Estimate
      <4>2. x \in Nat
        <5>1. f \in [elapsed : 0..Freewheel, from : Nat]
          BY <2>2, <3>2, FreewheelTyped
        <5>2. f.from \in Nat /\ f.elapsed \in Nat /\ c.rate \in Nat
          BY <1>1, <5>1, ChaseTyped, BoundsAssumption
        <5> HIDE DEF f
        <5>3. f.elapsed * c.rate \in Nat
          BY <5>2
        <5> QED BY <5>2, <5>3
      <4> HIDE DEF x, to
      <4> QED BY <2>2, <4>1, <4>2 DEF Larger
    <3> QED BY <3>1, <3>2
  <2>4. chase' = {d} /\ Advance(c.frames, to, c.rate)
    BY <2>1
  <2> HIDE DEF to, fw
  <2>5. d.frames = to /\ d.rate = c.rate /\ d.locked = FALSE
    BY <2>2 DEF ChaseStates
  <2> HIDE DEF d
  <2>6. ~Seeks
    BY <2>4, <2>5 DEF Seeks
  <2> QED BY <1>5, <2>2, <2>3, <2>4, <2>5, <2>6
<1>7. CASE ChaseLocked(tc)
  <2>1. tc.frames \in Nat /\ tc.rate \in Nat
    <3>1. tc \in [frames : 0..MaxFrames, rate : Rates, locked : BOOLEAN]
      BY <1>7 DEF ChaseLocked, TcStates
    <3>2. tc.frames \in 0..MaxFrames /\ tc.rate \in Rates
      BY <3>1
    <3>3. MaxFrames \in Nat /\ Rates \subseteq Nat
      BY BoundsAssumption
    <3>4. tc.rate \in Nat
      BY <3>2, <3>3
    <3>5. \A m \in Nat : \A x \in 0..m : x \in Nat
      OBVIOUS
    <3>6. tc.frames \in Nat
      BY <3>2, <3>3, <3>5, Zenon
    <3> QED BY <3>4, <3>6
  <2> DEFINE d == [frames |-> tc.frames, rate |-> tc.rate, locked |-> TRUE, fw |-> {}]
  <2>2. chase' = {d}
    BY <1>7 DEF ChaseLocked
  <2>3. d.frames = tc.frames /\ d.rate = tc.rate /\ d.locked
    OBVIOUS
  <2> HIDE DEF d
  <2>4. ASSUME NEW c \in chase, Near(c, d) PROVE ~Seeks
    BY <2>2, <2>4 DEF Seeks
  <2>5. CASE Seek(tc.frames, tc.rate)
    <3>1. phase' = "follow"
      BY <2>5 DEF Seek
    <3>2. ASSUME ~astray' PROVE Tracked(d)'
      <4>1. ASSUME Triggers = {} PROVE OnAir(show) = NoCue
        <5>1. ~astray
          BY <1>3, <3>2, <4>1 DEF Seeks
        <5>2. PICK c \in chase : Tracked(c)
          BY <1>1, <5>1 DEF OnTrack
        <5> QED BY <4>1, <5>2 DEF Tracked, Reached
      <4> QED BY <1>1, <2>1, <2>3, <2>5, <4>1, SeekTracks
    <3> QED BY <2>2, <3>1, <3>2 DEF OneChase, Firing, OnTrack
  <2>6. ASSUME NEW c \in chase, Continuous(c, tc),
               tc.frames > c.frames, tc.frames - c.frames <= SeekFwd * tc.rate,
               Advance(c.frames, tc.frames, tc.rate)
        PROVE  OneChase' /\ Firing' /\ OnTrack'
    <3>1. c.frames \in Nat /\ c.rate = tc.rate /\ c.locked
      BY <1>1, <2>6, ChaseTyped DEF Continuous
    <3>2. c.frames <= tc.frames
      BY <2>1, <2>6, <3>1
    <3>3. Near(c, d)
      BY <2>1, <2>3, <2>6, <3>1, <3>2 DEF Near
    <3>4. Advance(c.frames, tc.frames, c.rate)
      BY <2>6, <3>1
    <3> QED BY <1>5, <2>1, <2>2, <2>3, <2>4, <3>1, <3>2, <3>3, <3>4
  <2>7. ASSUME NEW c \in chase, Continuous(c, tc), tc.frames = c.frames, phase' = "follow",
               UNCHANGED <<cues, show, panic, pending, fired>>
        PROVE  OneChase' /\ Firing' /\ OnTrack'
    <3>1. c.frames \in Nat /\ c.rate = tc.rate /\ c.locked
      BY <1>1, <2>7, ChaseTyped DEF Continuous
    <3>2. Near(c, d)
      <4>1. SeekFwd * tc.rate \in Nat
        BY <2>1, BoundsAssumption
      <4> QED BY <2>1, <2>3, <2>7, <3>1, <4>1 DEF Near
    <3>3. ASSUME ~astray' PROVE Tracked(d)'
      <4>1. Tracked(c)
        BY <1>1, <1>3, <2>4, <3>2, <3>3 DEF OnTrack
      <4>2. Reached(d) = Reached(c)
        BY <2>3, <2>7, <3>1, SameReach
      <4> QED BY <2>3, <2>7, <3>1, <4>1, <4>2, TrackedAgain
    <3> QED BY <2>2, <2>7, <3>3 DEF OneChase, Firing, OnTrack
  <2> QED BY <1>7, <2>5, <2>6, <2>7 DEF ChaseLocked
<1>8. chase' = {} => phase' = "follow"
  BY <1>2 DEF CheckChase, ChaseOff, ChaseLocked, ChaseUnlocked
<1> QED BY <1>2, <1>4, <1>6, <1>7, <1>8 DEF CheckChase, ChaseOff

\* chase_advance fires a cue: the next of those reached, and on air.
LEMMA FireStep ==
  ASSUME KInv, HNext, phase = "fire"
  PROVE  OneChase' /\ Firing' /\ OnTrack'
<1>1. IInv /\ OneChase /\ Firing
  BY DEF KInv
<1>2. ChaseFire
  BY DEF HNext, Next, TickStep, SessionStep, Enqueue, Load, LoadHot, BeginTick, ApplyPending,
         ApplyGo, ApplyBack, ApplyGoto, ApplyStandby, ApplyPanic, Applying, FinishTransition,
         CheckChase, ChaseOff, ChaseLocked, ChaseUnlocked, CheckFollow, EmitFrame
<1>3. PICK c \in chase :
        /\ fired \subseteq Reached(c)
        /\ \A m \in Reached(c) \ fired : \A n \in fired : NotAfter(m, n, c.rate)
  BY <1>1 DEF Firing
<1>4. chase' = {c} /\ cues' = cues
  BY <1>1, <1>2 DEF ChaseFire, OneChase
<1>5. chase = {c}
  BY <1>1 DEF OneChase
<1>6. ChaseRate = c.rate
  BY <1>5 DEF ChaseRate
<1>7. PICK n \in fired :
        /\ \A m \in fired : NotAfter(n, m, c.rate)
        /\ show' = Started(cues, Snapped(cues, show), n,
                           IF fired = {n} THEN cues[n].transition ELSE CutTransition)
        /\ fired' = fired \ {n}
  BY <1>2, <1>6 DEF ChaseFire
<1>8. OnAir(show') = n
  <2> DEFINE tr == IF fired = {n} THEN cues[n].transition ELSE CutTransition
  <2>1. n \in DOMAIN cues /\ cues[n].transition \in Transitions
    BY <1>1, CueTransition DEF IInv
  <2>2. tr \in Transitions
    BY <2>1 DEF CutTransition, Transitions, Kinds
  <2>3. show' = Started(cues, Snapped(cues, show), n, tr)
    BY <1>7
  <2> HIDE DEF tr
  <2>4. BlackStays /\ ~Applying("standby")
    BY <1>2 DEF ChaseFire, BlackStays, Applying
  <2>5. Plays(n)
    BY <1>1, <1>4, <2>1, <2>2, <2>3, <2>4, PlayStep
  <2> QED BY <2>5 DEF Plays
<1>9. phase' = IF fired' = {} THEN "follow" ELSE "fire"
  BY <1>2 DEF ChaseFire
<1>10. Reached(c)' = Reached(c) /\ \A m, k : NotAfter(m, k, c.rate)' = NotAfter(m, k, c.rate)
  BY <1>4, SameTriggers
<1>11. Firing'
  <2> SUFFICES ASSUME fired' # {}
               PROVE  /\ chase' # {}
                      /\ \A x \in chase' :
                           /\ fired' \subseteq Reached(x)'
                           /\ \A m \in Reached(x)' \ fired' :
                                \A k \in fired' : NotAfter(m, k, x.rate)'
    BY <1>9 DEF Firing
  <2>1. fired' \subseteq Reached(c)
    BY <1>3, <1>7
  <2>2. ASSUME NEW m \in Reached(c) \ fired', NEW k \in fired' PROVE NotAfter(m, k, c.rate)
    BY <1>3, <1>7, <2>2
  <2> QED BY <1>4, <1>10, <2>1, <2>2
<1>12. ASSUME phase' # "fire" PROVE Tracked(c)'
  <2>1. fired = {n}
    BY <1>7, <1>9, <1>12
  <2>2. n \in Reached(c) /\ \A m \in Reached(c) : NotAfter(m, n, c.rate)
    BY <1>3, <1>7, <2>1
  <2>3. OnAir(show)' = n
    BY <1>8 DEF OnAir
  <2> QED BY <1>10, <2>2, <2>3 DEF Tracked
<1> QED BY <1>4, <1>11, <1>12 DEF OneChase, OnTrack

\* The other steps leave the position alone, and what moves the programme in
\* them is not the chase.
LEMMA OtherStep ==
  ASSUME KInv, HNext, phase \notin {"chase", "fire"}
  PROVE  OneChase' /\ Firing' /\ OnTrack'
<1>1. IInv /\ OneChase /\ OnTrack /\ Shape
  BY NextShape DEF KInv, HNext
<1>2. phase' # "fire"
  BY DEF HNext, Next, TickStep, SessionStep, Enqueue, Load, LoadHot, BeginTick, ApplyPending,
         ApplyGo, ApplyBack, ApplyGoto, ApplyStandby, ApplyPanic, Applying, FinishTransition,
         ManualGo, Refuse, CheckChase, ChaseOff, ChaseLocked, ChaseUnlocked, ChaseFire,
         CheckFollow, EmitFrame
<1>3. /\ ~Seeks
      /\ astray' <=> astray \/ ListChanges \/ (phase \in {"pending", "follow"} /\ Happens("started"))
  BY DEF HNext, Seeks
<1>4. \/ chase' = chase
      \/ \E d \in Deltas : BeginTick(d)
      \/ \E l \in CueLists : Load(l)
  BY DEF HNext, Next, TickStep, SessionStep, Enqueue, LoadHot, ApplyPending,
         ApplyGo, ApplyBack, ApplyGoto, ApplyStandby, ApplyPanic, FinishTransition,
         ManualGo, Refuse, CheckChase, ChaseOff, ChaseLocked, ChaseUnlocked, ChaseFire,
         CheckFollow, EmitFrame
<1>5. CASE \E l \in CueLists : Load(l)
  <2>1. ListChanges
    BY <1>5 DEF Load, ListChanges
  <2>2. chase' = {}
    BY <1>5 DEF Load
  <2> QED BY <1>2, <1>3, <2>1, <2>2 DEF OneChase, Firing, OnTrack
<1>6. CASE chase' = chase \/ \E d \in Deltas : BeginTick(d)
  <2>1. \E f : chase' = {f[c] : c \in chase} /\ \A c \in chase : f[c].frames = c.frames /\ f[c].rate = c.rate
    <3>1. CASE chase' = chase
      <4> DEFINE f == [c \in chase |-> c]
      <4>1. \A c \in chase : f[c] = c
        OBVIOUS
      <4>2. chase' = {f[c] : c \in chase}
        BY <3>1, <4>1
      <4> HIDE DEF f
      <4> QED BY <4>1, <4>2
    <3>2. CASE \E d \in Deltas : BeginTick(d)
      <4>1. PICK d : BeginTick(d)
        BY <3>2
      <4> DEFINE f == [c \in chase |-> [c EXCEPT !.fw = {[g EXCEPT !.elapsed = AtMost(@ + d, Freewheel)]
                                                         : g \in c.fw}]]
      <4>2. chase' = {f[c] : c \in chase}
        BY <4>1 DEF BeginTick
      <4>3. \A c \in chase : f[c].frames = c.frames /\ f[c].rate = c.rate
        BY <1>1, ChaseTyped DEF ChaseStates
      <4> QED BY <4>2, <4>3
    <3> QED BY <1>6, <3>1, <3>2
  <2>2. PICK f : chase' = {f[c] : c \in chase}
                 /\ \A c \in chase : f[c].frames = c.frames /\ f[c].rate = c.rate
    BY <2>1
  <2>3. OneChase'
    BY <1>1, <2>2 DEF OneChase
  <2>4. ASSUME ~astray'
        PROVE  ~astray /\ cues' = cues /\ OnAir(show') = OnAir(show)
    <3>1. ~astray /\ ~ListChanges /\ (phase \in {"pending", "follow"} => ~Happens("started"))
      BY <1>3, <2>4
    <3>2. CASE Rests \/ Pins
      BY <3>1, <3>2 DEF Rests, Pins, SameShow, OnAir
    <3>3. CASE \E i : Plays(i)
      BY <3>1, <3>3 DEF Plays
    <3>4. CASE Lands
      BY <1>1, <3>1, <3>4, CueOfList, NumbersAssumption DEF Lands, OnAir, IInv, NoCue
    <3>5. CASE Darkens
      BY <3>5 DEF Darkens
    <3>6. CASE Misses
      BY <3>1, <3>6 DEF Misses, OnAir
    <3>7. CASE Loads \/ Edits
      BY <3>1, <3>7 DEF Loads, Edits
    <3> QED BY <1>1, <3>2, <3>3, <3>4, <3>5, <3>6, <3>7 DEF Shape
  <2>5. ASSUME ~astray' PROVE chase' # {} /\ \A d \in chase' : Tracked(d)'
    <3>1. ~astray /\ cues' = cues /\ OnAir(show') = OnAir(show)
      BY <2>4, <2>5
    <3>2. chase # {} /\ \A c \in chase : Tracked(c)
      BY <1>1, <3>1 DEF OnTrack
    <3>3. ASSUME NEW c \in chase PROVE Tracked(f[c])'
      <4> DEFINE d == f[c]
      <4>1. d.frames = c.frames /\ d.rate = c.rate /\ Tracked(c)
        BY <2>2, <3>2
      <4> HIDE DEF d
      <4>2. Reached(d) = Reached(c)
        BY <4>1, SameReach
      <4>3. Tracked(d)'
        BY <3>1, <4>1, <4>2, TrackedAgain
      <4> QED BY <4>3 DEF d
    <3> QED BY <2>2, <3>2, <3>3
  <2> QED BY <1>2, <2>3, <2>5 DEF Firing, OnTrack
<1> QED BY <1>4, <1>5, <1>6

LEMMA KInvHolds == HSpec => []KInv
<1>1. HInit => KInv
  BY InitIInv DEF HInit, Init, KInv, OneChase, Firing, OnTrack
<1>2. KInv /\ [HNext]_hvars => KInv'
  <2> SUFFICES ASSUME KInv, [HNext]_hvars PROVE KInv'
    OBVIOUS
  <2>1. CASE HNext
    <3>1. IInv'
      BY <2>1, NextIInv DEF KInv, HNext
    <3> QED BY <2>1, <3>1, ChaseStep, FireStep, OtherStep DEF KInv
  <2>2. CASE UNCHANGED hvars
    <3>1. UNCHANGED vars
      BY <2>2 DEF hvars
    <3>2. IInv'
      BY <3>1, NextIInv DEF KInv
    <3>3. \A c : Tracked(c)' = Tracked(c) /\ Reached(c)' = Reached(c)
      BY <2>2 DEF hvars, vars, Tracked, Reached, OnAir, Triggers, At, NotAfter
    <3> QED BY <2>2, <3>2, <3>3
         DEF KInv, OneChase, Firing, OnTrack, NotAfter, At, hvars, vars
  <2> QED BY <2>1, <2>2
<1> QED BY <1>1, <1>2, PTL DEF HSpec

\* While only the timecode moves the programme, the cue on air at the end of
\* check_chase is the last one whose trigger has been reached: chase_advance
\* fires them all, in order, and chase_seek finds that cue.
THEOREM ChaseIsOnTrack == HSpec => []ChaseTracks
<1>1. KInv => ChaseTracks
  BY DEF KInv, OnTrack, Tracked, ChaseTracks
<1> QED BY <1>1, KInvHolds, PTL

-----------------------------------------------------------------------------
(* Folds.  A fold over a finite set is a function from its subsets; it     *)
(* exists because it does on the subsets of n elements at most, for each n.*)

LEMMA LeastNat ==
  ASSUME NEW S \in SUBSET Nat, S # {}
  PROVE  \E n \in S : \A m \in S : n <= m
<1>1. Min(S) \in S /\ \A y \in S : Min(S) <= y
  BY MinIsLeast
<1> QED BY <1>1

\* h is the fold of G over W, on the subsets in D.
Unfolds(h, D, t, G, ch) ==
  \A S \in D : h[S] = IF S = {} THEN t ELSE G[<<ch[S], h[S \ {ch[S]}]>>]

LEMMA FoldExists ==
  ASSUME NEW W, IsFiniteSet(W), NEW C, NEW t \in C, NEW G \in [W \X C -> C],
         NEW ch, \A S \in (SUBSET W) \ {{}} : ch[S] \in S
  PROVE  \E h \in [SUBSET W -> C] : Unfolds(h, SUBSET W, t, G, ch)
<1> DEFINE Up(n) == {S \in SUBSET W : Cardinality(S) <= n}
           Ok(n) == \E h \in [Up(n) -> C] : Unfolds(h, Up(n), t, G, ch)
           Bad == {n \in Nat : ~Ok(n)}
<1>1. \A S \in SUBSET W : IsFiniteSet(S) /\ Cardinality(S) \in Nat
                         /\ (Cardinality(S) = 0 <=> S = {})
  BY FS_Subset, FS_CardinalityType, FS_EmptySet
<1>2. \A S \in SUBSET W : \A x \in S :
        S \ {x} \in SUBSET W /\ Cardinality(S \ {x}) = Cardinality(S) - 1
  BY <1>1, FS_RemoveElement
<1>3. Ok(0)
  <2>1. Up(0) = {{}}
    BY <1>1
  <2>2. [S \in Up(0) |-> t] \in [Up(0) -> C] /\ Unfolds([S \in Up(0) |-> t], Up(0), t, G, ch)
    BY <2>1 DEF Unfolds
  <2> QED BY <2>2
<1>4. ASSUME NEW n \in Nat, Ok(n) PROVE Ok(n + 1)
  <2>1. PICK h \in [Up(n) -> C] : Unfolds(h, Up(n), t, G, ch)
    BY <1>4
  <2> DEFINE less(S) == S \ {ch[S]}
             g == [S \in Up(n + 1) |-> IF S \in Up(n) THEN h[S] ELSE G[<<ch[S], h[less(S)]>>]]
  <2>2. \A S \in Up(n + 1) : S # {} => ch[S] \in W /\ less(S) \in Up(n)
    <3> SUFFICES ASSUME NEW S \in Up(n + 1), S # {} PROVE ch[S] \in W /\ less(S) \in Up(n)
      OBVIOUS
    <3>1. ch[S] \in S /\ S \in SUBSET W /\ Cardinality(S) <= n + 1 /\ Cardinality(S) \in Nat
      BY <1>1
    <3>2. less(S) \in SUBSET W /\ Cardinality(less(S)) = Cardinality(S) - 1
      BY <1>2, <3>1
    <3>3. Cardinality(less(S)) <= n
      BY <3>1, <3>2
    <3> QED BY <3>1, <3>2, <3>3
  <2>3. {} \in Up(n) /\ Up(n) \subseteq Up(n + 1)
    BY <1>1
  <2> HIDE DEF Up
  <2>4. \A S \in Up(n + 1) \ Up(n) : ch[S] \in W /\ less(S) \in Up(n) /\ h[less(S)] \in C
    BY <2>2, <2>3
  <2>5. \A S \in Up(n + 1) \ Up(n) : G[<<ch[S], h[less(S)]>>] \in C
    BY <2>4
  <2>6. g \in [Up(n + 1) -> C]
    BY <2>5
  <2>7. Unfolds(g, Up(n + 1), t, G, ch)
    <3> SUFFICES ASSUME NEW S \in Up(n + 1)
                 PROVE  g[S] = IF S = {} THEN t ELSE G[<<ch[S], g[S \ {ch[S]}]>>]
      BY DEF Unfolds
    <3>1. S # {} => less(S) \in Up(n) /\ g[less(S)] = h[less(S)]
      BY <2>2, <2>3
    <3>2. CASE S \in Up(n)
      <4>1. h[S] = IF S = {} THEN t ELSE G[<<ch[S], h[S \ {ch[S]}]>>]
        BY <2>1, <3>2 DEF Unfolds
      <4> QED BY <3>1, <3>2, <4>1
    <3>3. CASE S \notin Up(n)
      BY <2>3, <3>1, <3>3
    <3> QED BY <3>2, <3>3
  <2> QED BY <2>6, <2>7
<1>5. \A n \in Nat : Ok(n)
  <2> HIDE DEF Ok
  <2> SUFFICES ASSUME Bad # {} PROVE FALSE
    OBVIOUS
  <2>1. PICK n \in Bad : \A m \in Bad : n <= m
    BY LeastNat
  <2>2. n \in Nat /\ n # 0 /\ ~Ok(n)
    BY <1>3, <2>1
  <2>3. n - 1 \in Nat /\ ~(n <= n - 1) /\ (n - 1) + 1 = n
    BY <2>2
  <2>4. Ok(n - 1)
    BY <2>1, <2>3
  <2>5. Ok((n - 1) + 1)
    BY <1>4, <2>3, <2>4
  <2> QED BY <2>2, <2>3, <2>5
<1>6. Cardinality(W) \in Nat /\ Up(Cardinality(W)) = SUBSET W
  <2>1. \A S \in SUBSET W : Cardinality(S) <= Cardinality(W)
    BY FS_Subset
  <2> QED BY <1>1, <2>1
<1>7. Ok(Cardinality(W))
  BY <1>5, <1>6
<1> HIDE DEF Up
<1>8. PICK h \in [Up(Cardinality(W)) -> C] : Unfolds(h, Up(Cardinality(W)), t, G, ch)
  BY <1>7
<1> QED BY <1>6, <1>8

\* A set of subsets of a finite set that is not empty has a least one.
LEMMA LeastSubset ==
  ASSUME NEW W, IsFiniteSet(W), NEW B \in SUBSET SUBSET W, B # {}
  PROVE  \E S \in B : \A x \in S : S \ {x} \notin B
<1> DEFINE N == {Cardinality(S) : S \in B}
<1>1. \A S \in B : IsFiniteSet(S) /\ Cardinality(S) \in Nat
  BY FS_Subset, FS_CardinalityType
<1>2. N \in SUBSET Nat /\ N # {}
  BY <1>1
<1>3. PICK n \in N : \A m \in N : n <= m
  BY <1>2, LeastNat
<1>4. PICK S \in B : Cardinality(S) = n
  BY <1>3
<1>5. ASSUME NEW x \in S, S \ {x} \in B PROVE FALSE
  <2>1. Cardinality(S \ {x}) = Cardinality(S) - 1
    BY <1>1, <1>4, FS_RemoveElement
  <2>2. Cardinality(S \ {x}) \in N
    BY <1>5
  <2>3. n <= Cardinality(S \ {x}) /\ n \in Nat
    BY <1>2, <1>3, <2>2
  <2> QED BY <1>4, <2>1, <2>3
<1> QED BY <1>4, <1>5

-----------------------------------------------------------------------------
(* Slots.                                                                  *)

Keys == Slices \X P!Decks
Records == P!SlotRecords
SlotMaps == UNION {[D -> Records] : D \in SUBSET Keys}
Requests ==
  {r \in [op : {"load", "dispose"}, gen : Nat, key : P!Contents \cup {NoContent}] :
     r.op = "load" => r.key \in P!Contents}
Answers == [gen : Nat, key : P!Contents, ok : BOOLEAN]
Tables == [slots : SlotMaps, requests : Seq(Requests)]
DecksTyped == slots \in SlotMaps /\ requests \in Seq(Requests) /\ done \in Seq(Answers)

LEMMA IsSlotMap ==
  /\ \A f \in SlotMaps : DOMAIN f \subseteq Keys /\ \A k \in DOMAIN f : f[k] \in Records
  /\ \A D \in SUBSET Keys : [D -> Records] \subseteq SlotMaps
BY DEF SlotMaps

LEMMA KeysFinite ==
  /\ IsFiniteSet(Keys)
  /\ \A s \in Slices, d \in P!Decks : <<s, d>> \in Keys /\ <<s, P!Other(d)>> \in Keys
                                      /\ P!Other(d) \in P!Decks /\ P!Other(d) # d
  /\ \A k \in Keys : k = <<k[1], k[2]>> /\ k[1] \in Slices /\ k[2] \in P!Decks
<1>1. IsFiniteSet(P!Decks)
  <2>1. IsFiniteSet({"A"})
    BY FS_Singleton
  <2>2. IsFiniteSet({"A"} \cup {"B"})
    BY <2>1, FS_AddElement
  <2> QED BY <2>2 DEF P!Decks
<1>2. IsFiniteSet(Slices)
  BY ScenesAssumption
<1> QED BY <1>1, <1>2, FS_Product DEF Keys, P!Decks, P!Other

\* The slot k of a table is put, or dropped.
LEMMA PutIs ==
  ASSUME NEW t \in Tables, NEW k \in Keys, NEW sl \in Records, NEW u, u = P!Put(t, k, sl)
  PROVE  /\ u \in Tables /\ u.requests = t.requests
         /\ DOMAIN u.slots = DOMAIN t.slots \cup {k} /\ u.slots[k] = sl
         /\ \A j \in DOMAIN t.slots : j # k => u.slots[j] = t.slots[j]
<1> DEFINE D == DOMAIN t.slots \cup {k}
           f == [j \in D |-> IF j = k THEN sl ELSE t.slots[j]]
<1>1. u = [t EXCEPT !.slots = f]
  BY DEF P!Put
<1>2. t.slots \in SlotMaps /\ t.requests \in Seq(Requests)
  BY DEF Tables
<1>3. f \in [D -> Records] /\ D \subseteq Keys
  BY <1>2, IsSlotMap
<1>4. f \in SlotMaps
  BY <1>3, IsSlotMap
<1>5. DOMAIN f = D /\ f[k] = sl /\ \A j \in DOMAIN t.slots : j # k => f[j] = t.slots[j]
  OBVIOUS
<1> HIDE DEF f
<1> QED BY <1>1, <1>2, <1>4, <1>5 DEF Tables

LEMMA DropIs ==
  ASSUME NEW t \in Tables, NEW k, NEW u, u = P!Drop(t, k)
  PROVE  /\ u \in Tables /\ u.requests = t.requests
         /\ DOMAIN u.slots = DOMAIN t.slots \ {k}
         /\ \A j \in DOMAIN u.slots : u.slots[j] = t.slots[j]
<1> DEFINE D == DOMAIN t.slots \ {k}
           f == [j \in D |-> t.slots[j]]
<1>1. u = [t EXCEPT !.slots = f]
  BY DEF P!Drop, P!Restrict
<1>2. t.slots \in SlotMaps /\ t.requests \in Seq(Requests)
  BY DEF Tables
<1>3. f \in [D -> Records] /\ D \subseteq Keys
  BY <1>2, IsSlotMap
<1>4. f \in SlotMaps
  BY <1>3, IsSlotMap
<1>5. DOMAIN f = D /\ \A j \in D : f[j] = t.slots[j]
  OBVIOUS
<1> HIDE DEF f
<1> QED BY <1>1, <1>2, <1>4, <1>5 DEF Tables

\* A request is added to those of a table.
LEMMA Requested ==
  ASSUME NEW t \in Tables, NEW r \in Requests, NEW u,
         u = [t EXCEPT !.requests = Append(@, r)]
  PROVE  /\ u \in Tables /\ u.slots = t.slots /\ u.requests = Append(t.requests, r)
         /\ Len(u.requests) = Len(t.requests) + 1 /\ u.requests[Len(t.requests) + 1] = r
         /\ \A i \in DOMAIN u.requests :
              (i \in DOMAIN t.requests /\ u.requests[i] = t.requests[i]) \/ u.requests[i] = r
<1> DEFINE q == t.requests
           p == Append(q, r)
<1>1. q \in Seq(Requests) /\ t.slots \in SlotMaps
  BY DEF Tables
<1>2. /\ p \in Seq(Requests) /\ Len(p) = Len(q) + 1 /\ p[Len(q) + 1] = r
      /\ \A i \in DOMAIN p : (i \in DOMAIN q /\ p[i] = q[i]) \/ p[i] = r
  BY <1>1
<1>3. u.requests = p /\ u.slots = t.slots /\ u \in Tables
  BY <1>1, <1>2 DEF Tables
<1> QED BY <1>2, <1>3

LEMMA DisposeIs ==
  ASSUME NEW t \in Tables, NEW gen \in Nat, NEW u, u = P!Dispose(t, gen)
  PROVE  /\ u \in Tables /\ u.slots = t.slots
         /\ \A i \in DOMAIN u.requests :
              (i \in DOMAIN t.requests /\ u.requests[i] = t.requests[i]) \/ u.requests[i].op = "dispose"
<1> DEFINE r == [op |-> "dispose", gen |-> gen, key |-> NoContent]
<1>1. r \in Requests /\ r.op = "dispose"
  BY DEF Requests
<1>2. u = [t EXCEPT !.requests = Append(@, r)]
  BY DEF P!Dispose
<1> HIDE DEF r
<1> QED BY <1>1, <1>2, Requested

-----------------------------------------------------------------------------
(* A generation that nothing uses.                                         *)

LEMMA GensFinite ==
  ASSUME NEW f, IsFiniteSet(DOMAIN f)
  PROVE  IsFiniteSet({f[x].gen : x \in DOMAIN f})
<1> DEFINE T == {f[x].gen : x \in DOMAIN f}
           g == [x \in DOMAIN f |-> f[x].gen]
<1>1. g \in Surjection(DOMAIN f, T)
  BY DEF Surjection
<1> QED BY <1>1, FS_Surjection

LEMMA UsedGensFinite ==
  ASSUME DecksTyped, NEW t \in Tables
  PROVE  IsFiniteSet(P!UsedGens(t))
<1>1. IsFiniteSet(DOMAIN t.slots) /\ IsFiniteSet(DOMAIN slots)
  BY KeysFinite, IsSlotMap, FS_Subset DEF Tables, DecksTyped
<1>2. \A q, S : q \in Seq(S) => IsFiniteSet(DOMAIN q)
  <2> SUFFICES ASSUME NEW S, NEW q \in Seq(S) PROVE IsFiniteSet(DOMAIN q)
    OBVIOUS
  <2>1. DOMAIN q = 1 .. Len(q) /\ Len(q) \in Int
    OBVIOUS
  <2> QED BY <2>1, FS_Interval
<1>3. IsFiniteSet(DOMAIN t.requests) /\ IsFiniteSet(DOMAIN done)
  BY <1>2 DEF Tables, DecksTyped
<1> DEFINE A == {t.slots[x].gen : x \in DOMAIN t.slots}
           B == {slots[x].gen : x \in DOMAIN slots}
           C == {t.requests[x].gen : x \in DOMAIN t.requests}
           D == {done[x].gen : x \in DOMAIN done}
<1>4. IsFiniteSet(A) /\ IsFiniteSet(B) /\ IsFiniteSet(C) /\ IsFiniteSet(D)
  BY <1>1, <1>3, GensFinite
<1>5. P!UsedGens(t) = ((A \cup B) \cup C) \cup D
  BY DEF P!UsedGens
<1> HIDE DEF A, B, C, D
<1> QED BY <1>4, <1>5, FS_Union

LEMMA FreshGenIs ==
  ASSUME DecksTyped, NEW t \in Tables
  PROVE  P!FreshGen(t) \in Nat /\ P!FreshGen(t) \notin P!UsedGens(t)
<1> DEFINE U == P!UsedGens(t)
           n == Cardinality(U)
           S == (1 .. (n + 1)) \ U
<1>1. P!FreshGen(t) = Min(S)
  BY DEF P!FreshGen, P!Min, Min, P!Cardinality, Cardinality
<1>2. IsFiniteSet(U) /\ n \in Nat
  BY UsedGensFinite, FS_CardinalityType
<1>3. S # {}
  <2> SUFFICES ASSUME 1 .. (n + 1) \subseteq U PROVE FALSE
    OBVIOUS
  <2>1. Cardinality(1 .. (n + 1)) = n + 1
    <3> HIDE DEF n
    <3>1. 1 \in Int /\ n + 1 \in Int /\ ~(1 > n + 1) /\ (n + 1) - 1 + 1 = n + 1
      BY <1>2
    <3> QED BY <3>1, FS_Interval
  <2>2. Cardinality(1 .. (n + 1)) <= n
    BY <1>2, FS_Subset
  <2> QED BY <1>2, <2>1, <2>2
<1>4. S \in SUBSET Nat
  BY <1>2
<1> HIDE DEF S, U, n
<1>5. Min(S) \in S
  BY <1>3, <1>4, MinIsLeast
<1> QED BY <1>1, <1>4, <1>5 DEF S, U

-----------------------------------------------------------------------------
(* ensure_slot.                                                            *)

\* Kept from a to b: the same player, at its entry point if it starts again.
Kept(a, b, again) ==
  /\ b \in Records
  /\ b.key = a.key /\ b.kind = a.kind /\ b.gen = a.gen /\ b.holds = a.holds /\ b.shown = a.shown
  /\ b.at = a.at \/ (again /\ a.kind = "video" /\ b.at = "cold")
  /\ again /\ b.kind = "video" => P!Entered(b)
\* A slot just made for the content c.
Made(b, c) ==
  /\ b \in Records /\ b.key = c /\ b.at = "cold"
  /\ \/ b.kind = "color" /\ b.holds = c
     \/ b.kind = "missing"
     \/ b.kind = "pending"
Untouched(t, u, k) ==
  /\ k \in DOMAIN u.slots <=> k \in DOMAIN t.slots
  /\ k \in DOMAIN t.slots => u.slots[k] = t.slots[k]

\* From the table t to u, the slot of s on deck d has the content c.
Ensures(t, u, s, d, c, again) ==
  LET here == <<s, d>>  there == <<s, P!Other(d)>>
  IN  /\ here \in DOMAIN u.slots
      /\ \/ /\ P!HoldsKey(t, here, c)
            /\ Kept(t.slots[here], u.slots[here], again) /\ Untouched(t, u, there)
         \/ /\ ~P!HoldsKey(t, here, c) /\ P!HoldsKey(t, there, c)
            /\ Kept(t.slots[there], u.slots[here], again) /\ u.slots[here].reupload
            /\ there \notin DOMAIN u.slots
         \/ /\ ~P!HoldsKey(t, here, c) /\ ~P!HoldsKey(t, there, c)
            /\ Made(u.slots[here], c) /\ Untouched(t, u, there)

\* A slot that waits and a load of its generation are about one content.
Meet(sl, r) == sl.kind = "pending" /\ r.op = "load" /\ r.gen = sl.gen => r.key = sl.key
Awaits(t) ==
  \A k \in DOMAIN t.slots, i \in DOMAIN t.requests : Meet(t.slots[k], t.requests[i])

LEMMA ReenteredIs ==
  ASSUME NEW a \in Records, NEW again \in BOOLEAN
  PROVE  Kept(a, P!Reentered(a, again), again) /\ P!Reentered(a, again).reupload = a.reupload
<1>1. [a EXCEPT !.at = "cold"] \in Records
  BY DEF Records, P!SlotRecords
<1>2. a.at \in {"cold", "ready", "on", "end", "black"}
  BY DEF Records, P!SlotRecords
<1>3. CASE again /\ a.kind = "video" /\ ~P!Entered(a)
  <2>1. P!Reentered(a, again) = [a EXCEPT !.at = "cold"]
    BY <1>3 DEF P!Reentered, P!RestartIfAdvanced
  <2> QED BY <1>1, <1>3, <2>1 DEF Kept, P!Entered, Records, P!SlotRecords
<1>4. CASE ~(again /\ a.kind = "video" /\ ~P!Entered(a))
  <2>1. P!Reentered(a, again) = a
    BY <1>4 DEF P!Reentered, P!RestartIfAdvanced
  <2> QED BY <1>4, <2>1 DEF Kept
<1> QED BY <1>3, <1>4

LEMMA MovedIs ==
  ASSUME NEW a \in Records, NEW again \in BOOLEAN, NEW b,
         b = [P!Reentered(a, again) EXCEPT !.reupload = TRUE]
  PROVE  Kept(a, b, again) /\ b.reupload
<1> DEFINE c == P!Reentered(a, again)
<1>1. Kept(a, c, again)
  BY ReenteredIs
<1>2. c \in Records
  BY <1>1 DEF Kept
<1>3. b = [c EXCEPT !.reupload = TRUE]
  OBVIOUS
<1> HIDE DEF c
<1>4. b \in Records /\ b.reupload
  BY <1>2, <1>3 DEF Records, P!SlotRecords
<1>5. b.key = c.key /\ b.kind = c.kind /\ b.gen = c.gen /\ b.holds = c.holds /\ b.shown = c.shown
      /\ b.at = c.at
  BY <1>2, <1>3 DEF Records, P!SlotRecords
<1> QED BY <1>1, <1>4, <1>5 DEF Kept, P!Entered

LEMMA CreatedIs ==
  ASSUME DecksTyped, NEW t \in Tables, NEW k \in Keys, NEW c \in P!Contents,
         NEW u, u = P!Created(t, k, c)
  PROVE  /\ u \in Tables /\ DOMAIN u.slots = DOMAIN t.slots \cup {k}
         /\ Made(u.slots[k], c)
         /\ \A j \in DOMAIN t.slots : j # k => u.slots[j] = t.slots[j]
         /\ Awaits(t) => Awaits(u)
<1> DEFINE new == P!NewSlot(c)
<1>1. /\ new \in Records /\ new.key = c /\ new.at = "cold" /\ new.kind = "pending"
  BY DEF P!NewSlot, Records, P!SlotRecords
<1>2. CASE c \in Colors
  <2> DEFINE sl == [new EXCEPT !.kind = "color", !.holds = c]
  <2>1. sl \in Records /\ Made(sl, c) /\ sl.kind = "color"
    BY <1>1 DEF Made, Records, P!SlotRecords
  <2>2. u = P!Put(t, k, sl)
    BY <1>2 DEF P!Created
  <2> HIDE DEF sl
  <2>3. /\ u \in Tables /\ u.requests = t.requests
        /\ DOMAIN u.slots = DOMAIN t.slots \cup {k} /\ u.slots[k] = sl
        /\ \A j \in DOMAIN t.slots : j # k => u.slots[j] = t.slots[j]
    BY <2>1, <2>2, PutIs
  <2>4. Awaits(t) => Awaits(u)
    BY <2>1, <2>3 DEF Awaits, Meet
  <2> QED BY <2>1, <2>3, <2>4
<1>3. CASE c \notin Colors /\ c \in Absent
  <2> DEFINE sl == [new EXCEPT !.kind = "missing"]
  <2>1. sl \in Records /\ Made(sl, c) /\ sl.kind = "missing"
    BY <1>1 DEF Made, Records, P!SlotRecords
  <2>2. u = P!Put(t, k, sl)
    BY <1>3 DEF P!Created
  <2> HIDE DEF sl
  <2>3. /\ u \in Tables /\ u.requests = t.requests
        /\ DOMAIN u.slots = DOMAIN t.slots \cup {k} /\ u.slots[k] = sl
        /\ \A j \in DOMAIN t.slots : j # k => u.slots[j] = t.slots[j]
    BY <2>1, <2>2, PutIs
  <2>4. Awaits(t) => Awaits(u)
    BY <2>1, <2>3 DEF Awaits, Meet
  <2> QED BY <2>1, <2>3, <2>4
<1>4. CASE c \notin Colors /\ c \notin Absent
  <2> DEFINE gen == P!FreshGen(t)
             sl == [new EXCEPT !.gen = gen]
             v == P!Put(t, k, sl)
             r == [op |-> "load", gen |-> gen, key |-> c]
  <2>1. gen \in Nat /\ gen \notin P!UsedGens(t)
    BY FreshGenIs
  <2>2. sl \in Records /\ Made(sl, c) /\ sl.kind = "pending" /\ sl.gen = gen /\ sl.key = c
    BY <1>1, <2>1 DEF Made, Records, P!SlotRecords
  <2>3. r \in Requests /\ r.op = "load" /\ r.gen = gen /\ r.key = c
    BY <2>1 DEF Requests
  <2>4. u = [v EXCEPT !.requests = Append(@, r)]
    BY <1>4 DEF P!Created
  <2>5. \A j \in DOMAIN t.slots : t.slots[j].gen # gen
    BY <2>1 DEF P!UsedGens
  <2>6. \A i \in DOMAIN t.requests : t.requests[i].gen # gen
    BY <2>1 DEF P!UsedGens
  <2> HIDE DEF sl, r
  <2>7. /\ v \in Tables /\ v.requests = t.requests
        /\ DOMAIN v.slots = DOMAIN t.slots \cup {k} /\ v.slots[k] = sl
        /\ \A j \in DOMAIN t.slots : j # k => v.slots[j] = t.slots[j]
    BY <2>2, PutIs
  <2> HIDE DEF v
  <2>8. /\ u \in Tables /\ u.slots = v.slots
        /\ \A i \in DOMAIN u.requests :
             (i \in DOMAIN t.requests /\ u.requests[i] = t.requests[i]) \/ u.requests[i] = r
    BY <2>3, <2>4, <2>7, Requested
  <2>9. ASSUME Awaits(t), NEW j \in DOMAIN u.slots, NEW i \in DOMAIN u.requests
        PROVE  Meet(u.slots[j], u.requests[i])
    <3> HIDE DEF gen
    <3>1. j = k \/ (j \in DOMAIN t.slots /\ u.slots[j] = t.slots[j])
      BY <2>7, <2>8
    <3>2. CASE u.requests[i] = r
      BY <2>2, <2>3, <2>5, <2>7, <2>8, <3>1, <3>2 DEF Meet
    <3>3. CASE i \in DOMAIN t.requests /\ u.requests[i] = t.requests[i]
      BY <2>2, <2>6, <2>7, <2>8, <2>9, <3>1, <3>3 DEF Meet, Awaits
    <3> QED BY <2>8, <3>2, <3>3
  <2> QED BY <2>2, <2>7, <2>8, <2>9 DEF Awaits
<1> QED BY <1>2, <1>3, <1>4

LEMMA EnsuredIs ==
  ASSUME DecksTyped, NEW t \in Tables, NEW s \in Slices, NEW d \in P!Decks, NEW c \in P!Contents,
         NEW again \in BOOLEAN, NEW u, u = P!Ensured(t, s, d, c, again)
  PROVE  /\ u \in Tables /\ Ensures(t, u, s, d, c, again)
         /\ \A j \in Keys : j[1] # s => Untouched(t, u, j)
         /\ Awaits(t) => Awaits(u)
<1> DEFINE here == <<s, d>>
           there == <<s, P!Other(d)>>
<1>1. /\ here \in Keys /\ there \in Keys /\ here # there
      /\ \A j \in Keys : j[1] # s => j # here /\ j # there
  BY KeysFinite
<1>2. t.slots \in SlotMaps /\ \A j \in DOMAIN t.slots : t.slots[j] \in Records /\ j \in Keys
  BY IsSlotMap DEF Tables
<1>3. CASE P!HoldsKey(t, here, c)
  <2> DEFINE sl == P!Reentered(t.slots[here], again)
  <2>1. here \in DOMAIN t.slots /\ t.slots[here] \in Records
    BY <1>2, <1>3 DEF P!HoldsKey
  <2>2. Kept(t.slots[here], sl, again)
    BY <2>1, ReenteredIs
  <2>3. u = [t EXCEPT !.slots[here] = sl]
    BY <1>3 DEF P!Ensured
  <2>4. /\ u = [t EXCEPT !.slots = [t.slots EXCEPT ![here] = sl]]
    BY <2>3, <1>2 DEF Tables
  <2> DEFINE f == [t.slots EXCEPT ![here] = sl]
  <2>5. /\ DOMAIN f = DOMAIN t.slots /\ f[here] = sl /\ \A j \in DOMAIN t.slots : j # here => f[j] = t.slots[j]
    BY <1>2, <2>1
  <2>6. sl \in Records
    BY <2>2 DEF Kept
  <2>7. f \in SlotMaps
    <3>1. t.slots \in [DOMAIN t.slots -> Records] /\ DOMAIN t.slots \in SUBSET Keys
      BY <1>2 DEF SlotMaps
    <3>2. f \in [DOMAIN t.slots -> Records]
      BY <2>6, <3>1
    <3> HIDE DEF f
    <3> QED BY <3>1, <3>2, IsSlotMap
  <2> HIDE DEF f, sl
  <2>8. u \in Tables /\ u.slots = f /\ u.requests = t.requests
    BY <2>4, <2>7 DEF Tables, f
  <2>9. Ensures(t, u, s, d, c, again)
    BY <1>1, <1>3, <2>1, <2>2, <2>5, <2>8 DEF Ensures, Untouched
  <2>10. \A j \in Keys : j[1] # s => Untouched(t, u, j)
    BY <1>1, <2>5, <2>8 DEF Untouched
  <2>11. Awaits(t) => Awaits(u)
    BY <2>1, <2>2, <2>5, <2>8 DEF Awaits, Meet, Kept
  <2> QED BY <2>8, <2>9, <2>10, <2>11
<1>4. CASE ~P!HoldsKey(t, here, c) /\ P!HoldsKey(t, there, c)
  <2> DEFINE sl == [P!Reentered(t.slots[there], again) EXCEPT !.reupload = TRUE]
             v == P!Drop(t, there)
  <2>1. there \in DOMAIN t.slots /\ t.slots[there] \in Records
    BY <1>2, <1>4 DEF P!HoldsKey
  <2>2. Kept(t.slots[there], sl, again) /\ sl.reupload
    BY <2>1, MovedIs
  <2>3. u = P!Put(v, here, sl)
    BY <1>4 DEF P!Ensured
  <2>4. sl \in Records
    BY <2>2 DEF Kept
  <2>5. /\ v \in Tables /\ v.requests = t.requests /\ DOMAIN v.slots = DOMAIN t.slots \ {there}
        /\ \A j \in DOMAIN v.slots : v.slots[j] = t.slots[j]
    BY DropIs
  <2> HIDE DEF sl, v
  <2>6. /\ u \in Tables /\ u.requests = v.requests
        /\ DOMAIN u.slots = DOMAIN v.slots \cup {here} /\ u.slots[here] = sl
        /\ \A j \in DOMAIN v.slots : j # here => u.slots[j] = v.slots[j]
    <3>1. here \in Keys /\ v \in Tables
      BY <1>1, <2>5
    <3> HIDE DEF here
    <3> QED BY <2>3, <2>4, <3>1, PutIs
  <2>7. Ensures(t, u, s, d, c, again)
    BY <1>1, <1>4, <2>2, <2>5, <2>6 DEF Ensures
  <2>8. \A j \in Keys : j[1] # s => Untouched(t, u, j)
    BY <1>1, <2>5, <2>6 DEF Untouched
  <2>9. Awaits(t) => Awaits(u)
    BY <2>1, <2>2, <2>5, <2>6 DEF Awaits, Meet, Kept
  <2> QED BY <2>6, <2>7, <2>8, <2>9
<1>5. CASE ~P!HoldsKey(t, here, c) /\ ~P!HoldsKey(t, there, c)
  <2>1. u = P!Created(t, here, c)
    BY <1>5 DEF P!Ensured
  <2>2. /\ u \in Tables /\ DOMAIN u.slots = DOMAIN t.slots \cup {here}
        /\ Made(u.slots[here], c)
        /\ \A j \in DOMAIN t.slots : j # here => u.slots[j] = t.slots[j]
        /\ Awaits(t) => Awaits(u)
    BY <1>1, <2>1, CreatedIs
  <2>3. Ensures(t, u, s, d, c, again)
    BY <1>1, <1>5, <2>2 DEF Ensures, Untouched
  <2>4. \A j \in Keys : j[1] # s => Untouched(t, u, j)
    BY <1>1, <2>2 DEF Untouched
  <2> QED BY <2>2, <2>3, <2>4
<1> QED BY <1>3, <1>4, <1>5

-----------------------------------------------------------------------------
(* The slices of a deck, one after the other, in any order.                *)

Scene == [Slices -> P!Contents \cup {NoContent}]
Pick(S) == CHOOSE x \in S : TRUE

\* What SyncedA and SyncedB do of a slice.
Step(d, u, s, deck, again) ==
  IF d = "B" /\ P!Same(u, s, deck) THEN P!Drop(u, <<s, "B">>)
  ELSE P!Ensured(u, s, d, deck[s], s \in again)
SliceDone(t, u, s, d, deck, again) ==
  IF d = "B" /\ P!Same(t, s, deck)
  THEN <<s, "B">> \notin DOMAIN u.slots /\ Untouched(t, u, <<s, "A">>)
  ELSE Ensures(t, u, s, d, deck[s], s \in again)
Done(t, u, S, d, deck, again) ==
  /\ u \in Tables /\ (Awaits(t) => Awaits(u))
  /\ \A s \in S : SliceDone(t, u, s, d, deck, again)
  /\ \A j \in Keys : j[1] \notin S => Untouched(t, u, j)
StepsOf(f, t, W, d, deck, again) ==
  \A S \in SUBSET W : f[S] = IF S = {} THEN t
                             ELSE Step(d, f[S \ {Pick(S)}], Pick(S), deck, again)

LEMMA DecksAre ==
  /\ P!Decks = {"A", "B"} /\ P!Other("A") = "B" /\ P!Other("B") = "A"
  /\ \A s : s \in Slices => <<s, "A">> \in Keys /\ <<s, "B">> \in Keys /\ <<s, "A">> # <<s, "B">>
                            /\ <<s, "A">>[1] = s /\ <<s, "B">>[1] = s
BY DEF P!Decks, P!Other, Keys

LEMMA WantingIs ==
  ASSUME NEW deck \in Scene
  PROVE  P!Wanting(deck) \in SUBSET Slices /\ \A s \in P!Wanting(deck) : deck[s] \in P!Contents
BY DEF P!Wanting, Scene

LEMMA StepIs ==
  ASSUME DecksTyped, NEW t \in Tables, NEW d \in P!Decks, NEW deck \in Scene,
         NEW s \in P!Wanting(deck), NEW again \in SUBSET Slices, NEW u, u = Step(d, t, s, deck, again)
  PROVE  Done(t, u, {s}, d, deck, again)
<1>1. s \in Slices /\ deck[s] \in P!Contents /\ (s \in again) \in BOOLEAN
  BY WantingIs
<1>2. CASE d = "B" /\ P!Same(t, s, deck)
  <2>1. u = P!Drop(t, <<s, "B">>)
    BY <1>2 DEF Step
  <2>2. /\ u \in Tables /\ u.requests = t.requests
        /\ DOMAIN u.slots = DOMAIN t.slots \ {<<s, "B">>}
        /\ \A j \in DOMAIN u.slots : u.slots[j] = t.slots[j]
    BY <2>1, DropIs
  <2>3. \A j \in Keys : j # <<s, "B">> => Untouched(t, u, j)
    BY <2>2 DEF Untouched
  <2>4. SliceDone(t, u, s, d, deck, again)
    BY <1>1, <1>2, <2>2, <2>3, DecksAre DEF SliceDone
  <2>5. Awaits(t) => Awaits(u)
    BY <2>2 DEF Awaits
  <2> QED BY <1>1, <2>2, <2>3, <2>4, <2>5, DecksAre DEF Done
<1>3. CASE ~(d = "B" /\ P!Same(t, s, deck))
  <2> DEFINE b == s \in again
  <2>1. u = P!Ensured(t, s, d, deck[s], b)
    BY <1>3 DEF Step
  <2> HIDE DEF b
  <2>2. b \in BOOLEAN
    BY DEF b
  <2>3. /\ u \in Tables /\ Ensures(t, u, s, d, deck[s], b)
        /\ \A j \in Keys : j[1] # s => Untouched(t, u, j)
        /\ Awaits(t) => Awaits(u)
    BY <1>1, <2>1, <2>2, EnsuredIs
  <2>4. SliceDone(t, u, s, d, deck, again)
    BY <1>3, <2>3 DEF SliceDone, b
  <2> QED BY <2>3, <2>4 DEF Done
<1> QED BY <1>2, <1>3

\* What a slice comes to only depends on that slice.
LEMMA HoldsSame ==
  ASSUME NEW t, NEW u, NEW k, NEW c, Untouched(t, u, k)
  PROVE  P!HoldsKey(t, k, c) <=> P!HoldsKey(u, k, c)
BY DEF P!HoldsKey, Untouched

LEMMA UntouchedTwice ==
  ASSUME NEW t, NEW v, NEW u, NEW k, Untouched(t, v, k), Untouched(v, u, k)
  PROVE  Untouched(t, u, k)
BY DEF Untouched

LEMMA DoneBefore ==
  ASSUME NEW t, NEW v, NEW u, NEW s \in Slices, NEW d \in P!Decks, NEW deck, NEW again,
         Untouched(t, v, <<s, "A">>), Untouched(t, v, <<s, "B">>), SliceDone(v, u, s, d, deck, again)
  PROVE  SliceDone(t, u, s, d, deck, again)
<1> DEFINE here == <<s, d>>
           there == <<s, P!Other(d)>>
           c == deck[s]
<1>1. Untouched(t, v, here) /\ Untouched(t, v, there)
  BY DecksAre
<1>2. P!Same(t, s, deck) <=> P!Same(v, s, deck)
  BY HoldsSame DEF P!Same
<1>3. /\ P!HoldsKey(t, here, c) <=> P!HoldsKey(v, here, c)
      /\ P!HoldsKey(t, there, c) <=> P!HoldsKey(v, there, c)
  BY <1>1, HoldsSame
<1>4. CASE d = "B" /\ P!Same(v, s, deck)
  BY <1>2, <1>4, UntouchedTwice DEF SliceDone
<1>5. CASE ~(d = "B" /\ P!Same(v, s, deck))
  <2>1. Ensures(v, u, s, d, c, s \in again)
    BY <1>5 DEF SliceDone
  <2>2. P!HoldsKey(v, here, c) => t.slots[here] = v.slots[here]
    BY <1>1 DEF P!HoldsKey, Untouched
  <2>3. P!HoldsKey(v, there, c) => t.slots[there] = v.slots[there]
    BY <1>1 DEF P!HoldsKey, Untouched
  <2>4. Untouched(v, u, there) => Untouched(t, u, there)
    BY <1>1, UntouchedTwice
  <2>5. Ensures(t, u, s, d, c, s \in again)
    BY <1>3, <2>1, <2>2, <2>3, <2>4 DEF Ensures
  <2> QED BY <1>2, <1>5, <2>5 DEF SliceDone
<1> QED BY <1>4, <1>5

LEMMA DoneAfter ==
  ASSUME NEW t, NEW v, NEW u, NEW s \in Slices, NEW d \in P!Decks, NEW deck, NEW again,
         Untouched(v, u, <<s, "A">>), Untouched(v, u, <<s, "B">>), SliceDone(t, v, s, d, deck, again)
  PROVE  SliceDone(t, u, s, d, deck, again)
<1> DEFINE here == <<s, d>>
           there == <<s, P!Other(d)>>
           c == deck[s]
<1>1. Untouched(v, u, here) /\ Untouched(v, u, there)
  BY DecksAre
<1>2. CASE d = "B" /\ P!Same(t, s, deck)
  <2>1. <<s, "B">> \notin DOMAIN u.slots /\ Untouched(t, v, <<s, "A">>)
    BY <1>2 DEF SliceDone, Untouched
  <2> QED BY <1>2, <2>1, UntouchedTwice DEF SliceDone
<1>3. CASE ~(d = "B" /\ P!Same(t, s, deck))
  <2>1. Ensures(t, v, s, d, c, s \in again)
    BY <1>3 DEF SliceDone
  <2>2. here \in DOMAIN v.slots => here \in DOMAIN u.slots /\ u.slots[here] = v.slots[here]
    BY <1>1 DEF Untouched
  <2>3. there \notin DOMAIN v.slots => there \notin DOMAIN u.slots
    BY <1>1 DEF Untouched
  <2>4. Untouched(t, v, there) => Untouched(t, u, there)
    BY <1>1, UntouchedTwice
  <2>5. Ensures(t, u, s, d, c, s \in again)
    BY <2>1, <2>2, <2>3, <2>4 DEF Ensures
  <2> QED BY <1>3, <2>5 DEF SliceDone
<1> QED BY <1>2, <1>3

LEMMA StepsDone ==
  ASSUME DecksTyped, NEW t \in Tables, NEW d \in P!Decks, NEW deck \in Scene,
         NEW again \in SUBSET Slices, NEW f, StepsOf(f, t, P!Wanting(deck), d, deck, again)
  PROVE  Done(t, f[P!Wanting(deck)], P!Wanting(deck), d, deck, again)
<1> DEFINE W == P!Wanting(deck)
           Bad == {S \in SUBSET W : ~Done(t, f[S], S, d, deck, again)}
<1>1. W \in SUBSET Slices /\ IsFiniteSet(W)
  BY WantingIs, FS_Subset, ScenesAssumption
<1>2. SUFFICES ASSUME Bad # {} PROVE FALSE
  OBVIOUS
<1>3. PICK S \in Bad : \A x \in S : S \ {x} \notin Bad
  <2> HIDE DEF W
  <2>1. Bad \in SUBSET SUBSET W
    OBVIOUS
  <2> HIDE DEF Bad
  <2> QED BY <1>1, <1>2, <2>1, LeastSubset
<1>4. S \in SUBSET W /\ ~Done(t, f[S], S, d, deck, again)
  BY <1>3
<1>5. S # {}
  <2> SUFFICES ASSUME S = {} PROVE FALSE
    OBVIOUS
  <2>1. f[S] = t
    BY <1>4 DEF StepsOf
  <2>2. Done(t, t, {}, d, deck, again)
    BY DEF Done, Untouched
  <2> QED BY <1>4, <2>1, <2>2
<1> DEFINE x == Pick(S)
           v == f[S \ {x}]
           u == f[S]
<1>6. x \in S
  BY <1>5 DEF Pick
<1>7. x \in W /\ x \in Slices /\ S \ {x} \in SUBSET W
  BY <1>1, <1>4, <1>6
<1>8. u = Step(d, v, x, deck, again)
  BY <1>4, <1>5 DEF StepsOf
<1>9. Done(t, v, S \ {x}, d, deck, again)
  BY <1>3, <1>6, <1>7
<1> HIDE DEF x, v, u, Bad
<1>10. v \in Tables
  BY <1>9 DEF Done
<1>11. Done(v, u, {x}, d, deck, again)
  BY <1>7, <1>8, <1>10, StepIs
<1>12. u \in Tables /\ (Awaits(t) => Awaits(u))
  BY <1>9, <1>11 DEF Done
<1>13. \A j \in Keys : j[1] \notin S => Untouched(t, u, j)
  <2> SUFFICES ASSUME NEW j \in Keys, j[1] \notin S PROVE Untouched(t, u, j)
    OBVIOUS
  <2>1. Untouched(t, v, j) /\ Untouched(v, u, j)
    BY <1>6, <1>9, <1>11 DEF Done
  <2> QED BY <2>1, UntouchedTwice
<1>14. ASSUME NEW s \in S PROVE SliceDone(t, u, s, d, deck, again)
  <2>1. s \in Slices
    BY <1>1, <1>4
  <2>2. CASE s = x
    <3>1. Untouched(t, v, <<s, "A">>) /\ Untouched(t, v, <<s, "B">>)
      BY <1>9, <2>1, <2>2, DecksAre DEF Done
    <3>2. SliceDone(v, u, s, d, deck, again)
      BY <1>11, <2>2 DEF Done
    <3> QED BY <2>1, <3>1, <3>2, DoneBefore
  <2>3. CASE s # x
    <3>1. Untouched(v, u, <<s, "A">>) /\ Untouched(v, u, <<s, "B">>)
      BY <1>11, <2>1, <2>3, DecksAre DEF Done
    <3>2. SliceDone(t, v, s, d, deck, again)
      BY <1>9, <2>3 DEF Done
    <3> QED BY <2>1, <3>1, <3>2, DoneAfter
  <2> QED BY <2>2, <2>3
<1>15. Done(t, u, S, d, deck, again)
  BY <1>12, <1>13, <1>14 DEF Done
<1> QED BY <1>4, <1>15 DEF u

LEMMA StepsExist ==
  ASSUME DecksTyped, NEW t \in Tables, NEW d \in P!Decks, NEW deck \in Scene, NEW again \in SUBSET Slices
  PROVE  \E h \in [SUBSET P!Wanting(deck) -> Tables] : StepsOf(h, t, P!Wanting(deck), d, deck, again)
<1> DEFINE W == P!Wanting(deck)
           G == [z \in W \X Tables |-> Step(d, z[2], z[1], deck, again)]
           ch == [S \in SUBSET W |-> Pick(S)]
<1>1. IsFiniteSet(W)
  BY WantingIs, FS_Subset, ScenesAssumption
<1>2. \A S \in (SUBSET W) \ {{}} : ch[S] \in S /\ ch[S] = Pick(S)
  <2> SUFFICES ASSUME NEW S \in SUBSET W, S # {} PROVE ch[S] \in S /\ ch[S] = Pick(S)
    OBVIOUS
  <2>1. \E x : x \in S
    OBVIOUS
  <2>2. Pick(S) \in S
    BY <2>1 DEF Pick
  <2> QED BY <2>2
<1>3. \A s \in W, v \in Tables : Step(d, v, s, deck, again) \in Tables
  BY StepIs DEF Done
<1>4. G \in [W \X Tables -> Tables]
  BY <1>3
<1>5. \A s \in W, v \in Tables : G[<<s, v>>] = Step(d, v, s, deck, again)
  OBVIOUS
<1> HIDE DEF W, G, ch
<1>6. PICK h \in [SUBSET W -> Tables] : Unfolds(h, SUBSET W, t, G, ch)
  BY <1>1, <1>2, <1>4, FoldExists
<1>7. StepsOf(h, t, W, d, deck, again)
  <2> SUFFICES ASSUME NEW S \in SUBSET W, S # {}
               PROVE  h[S] = Step(d, h[S \ {Pick(S)}], Pick(S), deck, again)
    BY <1>6 DEF Unfolds, StepsOf
  <2>1. h[S] = G[<<ch[S], h[S \ {ch[S]}]>>] /\ ch[S] = Pick(S) /\ Pick(S) \in W
    BY <1>2, <1>6 DEF Unfolds
  <2>2. h[S \ {Pick(S)}] \in Tables
    OBVIOUS
  <2> QED BY <1>5, <2>1, <2>2
<1> QED BY <1>7 DEF W

LEMMA SyncedAIs ==
  ASSUME DecksTyped, NEW t \in Tables, NEW deck \in Scene, NEW again \in SUBSET Slices
  PROVE  Done(t, P!SyncedA(t, deck, again), P!Wanting(deck), "A", deck, again)
<1> DEFINE W == P!Wanting(deck)
           Body(f) == [S \in SUBSET W |-> IF S = {} THEN t
                         ELSE P!Ensured(f[S \ {CHOOSE x \in S : TRUE}], CHOOSE x \in S : TRUE, "A",
                                        deck[CHOOSE x \in S : TRUE], (CHOOSE x \in S : TRUE) \in again)]
           g == CHOOSE f : f = Body(f)
<1>1. P!SyncedA(t, deck, again) = g[W]
  BY DEF P!SyncedA, P!FoldSet, P!MapThenFoldSet
<1>2. \A u, s : Step("A", u, s, deck, again) = P!Ensured(u, s, "A", deck[s], s \in again)
  BY DEF Step
<1>3. PICK h \in [SUBSET W -> Tables] : StepsOf(h, t, W, "A", deck, again)
  BY StepsExist, DecksAre
<1>4. h = Body(h)
  <2>1. \A S \in SUBSET W : h[S] = Body(h)[S]
    BY <1>2, <1>3 DEF StepsOf, Pick
  <2> QED BY <2>1
<1>5. g = Body(g)
  BY <1>4
<1> HIDE DEF g
<1>6. StepsOf(g, t, W, "A", deck, again)
  <2> SUFFICES ASSUME NEW S \in SUBSET W
               PROVE  g[S] = IF S = {} THEN t ELSE Step("A", g[S \ {Pick(S)}], Pick(S), deck, again)
    BY DEF StepsOf
  <2>1. g[S] = Body(g)[S]
    BY <1>5
  <2>2. Body(g)[S] = IF S = {} THEN t ELSE Step("A", g[S \ {Pick(S)}], Pick(S), deck, again)
    BY <1>2 DEF Pick
  <2> QED BY <2>1, <2>2
<1> QED BY <1>1, <1>6, StepsDone, DecksAre

LEMMA SyncedBIs ==
  ASSUME DecksTyped, NEW t \in Tables, NEW deck \in Scene, NEW again \in SUBSET Slices
  PROVE  Done(t, P!SyncedB(t, deck, again), P!Wanting(deck), "B", deck, again)
<1> DEFINE W == P!Wanting(deck)
           One(u, s) == IF P!Same(u, s, deck) THEN P!Drop(u, <<s, "B">>)
                        ELSE P!Ensured(u, s, "B", deck[s], s \in again)
           Body(f) == [S \in SUBSET W |-> IF S = {} THEN t
                         ELSE One(f[S \ {CHOOSE x \in S : TRUE}], CHOOSE x \in S : TRUE)]
           g == CHOOSE f : f = Body(f)
<1>1. P!SyncedB(t, deck, again) = g[W]
  BY DEF P!SyncedB, P!FoldSet, P!MapThenFoldSet
<1>2. \A u, s : Step("B", u, s, deck, again) = One(u, s)
  BY DEF Step
<1>3. PICK h \in [SUBSET W -> Tables] : StepsOf(h, t, W, "B", deck, again)
  BY StepsExist, DecksAre
<1> HIDE DEF One
<1>4. h = Body(h)
  <2>1. \A S \in SUBSET W : h[S] = Body(h)[S]
    BY <1>2, <1>3 DEF StepsOf, Pick
  <2> QED BY <2>1
<1>5. g = Body(g)
  BY <1>4
<1> HIDE DEF g
<1>6. StepsOf(g, t, W, "B", deck, again)
  <2> SUFFICES ASSUME NEW S \in SUBSET W
               PROVE  g[S] = IF S = {} THEN t ELSE Step("B", g[S \ {Pick(S)}], Pick(S), deck, again)
    BY DEF StepsOf
  <2>1. g[S] = Body(g)[S]
    BY <1>5
  <2>2. Body(g)[S] = IF S = {} THEN t ELSE Step("B", g[S \ {Pick(S)}], Pick(S), deck, again)
    BY <1>2 DEF Pick
  <2> QED BY <2>1, <2>2
<1> QED BY <1>1, <1>6, StepsDone, DecksAre

-----------------------------------------------------------------------------
(* The slots that no deck wants.                                           *)

PruneDone(t, u, S) ==
  /\ u \in Tables /\ (Awaits(t) => Awaits(u))
  /\ DOMAIN u.slots = DOMAIN t.slots \ S
  /\ \A k \in DOMAIN u.slots : u.slots[k] = t.slots[k]
Evicts(f, t, W) ==
  \A S \in SUBSET W :
    IF S = {} THEN f[S] = t
    ELSE f[S \ {Pick(S)}] \in Tables /\ Pick(S) \in DOMAIN f[S \ {Pick(S)}].slots
           => f[S] = P!Evicted(f[S \ {Pick(S)}], Pick(S))

LEMMA EvictedIs ==
  ASSUME NEW t \in Tables, NEW k \in DOMAIN t.slots, NEW u, u = P!Evicted(t, k)
  PROVE  PruneDone(t, u, {k})
<1> DEFINE v == P!Drop(t, k)
<1>1. /\ v \in Tables /\ v.requests = t.requests /\ DOMAIN v.slots = DOMAIN t.slots \ {k}
      /\ \A j \in DOMAIN v.slots : v.slots[j] = t.slots[j]
  BY DropIs
<1>2. Awaits(t) => Awaits(v)
  BY <1>1 DEF Awaits
<1> DEFINE gen == t.slots[k].gen
<1>3. gen \in Nat
  BY IsSlotMap DEF Tables, Records, P!SlotRecords
<1>4. u = P!Dispose(v, gen) \/ u = v
  BY DEF P!Evicted
<1> HIDE DEF v, gen
<1>5. CASE u = v
  BY <1>1, <1>2, <1>5 DEF PruneDone
<1>6. CASE u = P!Dispose(v, gen)
  <2>1. /\ u \in Tables /\ u.slots = v.slots
        /\ \A i \in DOMAIN u.requests :
             (i \in DOMAIN v.requests /\ u.requests[i] = v.requests[i]) \/ u.requests[i].op = "dispose"
    BY <1>1, <1>3, <1>6, DisposeIs
  <2>2. Awaits(v) => Awaits(u)
    BY <2>1 DEF Awaits, Meet
  <2> QED BY <1>1, <1>2, <2>1, <2>2 DEF PruneDone
<1> QED BY <1>4, <1>5, <1>6

LEMMA EvictsDone ==
  ASSUME NEW t \in Tables, NEW W \in SUBSET DOMAIN t.slots, NEW f, Evicts(f, t, W)
  PROVE  \A S \in SUBSET W : PruneDone(t, f[S], S)
<1> DEFINE Bad == {S \in SUBSET W : ~PruneDone(t, f[S], S)}
<1>1. IsFiniteSet(W)
  <2>1. DOMAIN t.slots \in SUBSET Keys
    BY IsSlotMap DEF Tables
  <2> QED BY <2>1, KeysFinite, FS_Subset
<1>2. SUFFICES ASSUME Bad # {} PROVE FALSE
  OBVIOUS
<1>3. PICK S \in Bad : \A x \in S : S \ {x} \notin Bad
  <2>1. Bad \in SUBSET SUBSET W
    OBVIOUS
  <2> HIDE DEF Bad
  <2> QED BY <1>1, <1>2, <2>1, LeastSubset
<1>4. S \in SUBSET W /\ ~PruneDone(t, f[S], S)
  BY <1>3
<1>5. S # {}
  <2> SUFFICES ASSUME S = {} PROVE FALSE
    OBVIOUS
  <2>1. f[S] = t
    BY <1>4 DEF Evicts
  <2> QED BY <1>4, <2>1 DEF PruneDone
<1> DEFINE x == Pick(S)
           v == f[S \ {x}]
           u == f[S]
<1>6. x \in S
  <2>1. \E y : y \in S
    BY <1>5
  <2> QED BY <2>1 DEF Pick
<1>7. S \ {x} \in SUBSET W /\ x \in DOMAIN t.slots
  BY <1>4, <1>6
<1>8. PruneDone(t, v, S \ {x})
  BY <1>3, <1>6, <1>7
<1>9. v \in Tables /\ x \in DOMAIN v.slots
  BY <1>6, <1>7, <1>8 DEF PruneDone
<1>10. u = P!Evicted(v, x)
  BY <1>4, <1>5, <1>9 DEF Evicts
<1> HIDE DEF x, v, u, Bad
<1>11. PruneDone(v, u, {x})
  BY <1>9, <1>10, EvictedIs
<1>12. DOMAIN u.slots = DOMAIN t.slots \ S
  BY <1>6, <1>8, <1>11 DEF PruneDone
<1>13. PruneDone(t, u, S)
  BY <1>8, <1>11, <1>12 DEF PruneDone
<1> QED BY <1>4, <1>13 DEF u

LEMMA PrunedIs ==
  ASSUME NEW t \in Tables, NEW wanted
  PROVE  PruneDone(t, P!Pruned(t, wanted), DOMAIN t.slots \ wanted)
<1> DEFINE W == DOMAIN t.slots \ wanted
           G == [z \in W \X Tables |-> IF z[1] \in DOMAIN z[2].slots THEN P!Evicted(z[2], z[1]) ELSE z[2]]
           ch == [S \in SUBSET W |-> Pick(S)]
           Body(f) == [S \in SUBSET W |-> IF S = {} THEN t
                         ELSE P!Evicted(f[S \ {CHOOSE x \in S : TRUE}], CHOOSE x \in S : TRUE)]
           g == CHOOSE f : f = Body(f)
<1>1. P!Pruned(t, wanted) = g[W]
  BY DEF P!Pruned, P!FoldSet, P!MapThenFoldSet
<1>2. IsFiniteSet(W) /\ W \in SUBSET DOMAIN t.slots
  <2>1. DOMAIN t.slots \in SUBSET Keys
    BY IsSlotMap DEF Tables
  <2> QED BY <2>1, KeysFinite, FS_Subset
<1>3. \A S \in (SUBSET W) \ {{}} : ch[S] \in S /\ ch[S] = Pick(S)
  <2> SUFFICES ASSUME NEW S \in SUBSET W, S # {} PROVE ch[S] \in S /\ ch[S] = Pick(S)
    OBVIOUS
  <2>1. \E x : x \in S
    OBVIOUS
  <2>2. Pick(S) \in S
    BY <2>1 DEF Pick
  <2> QED BY <2>2
<1>4. \A k \in W, v \in Tables : k \in DOMAIN v.slots => P!Evicted(v, k) \in Tables
  BY EvictedIs DEF PruneDone
<1>5. G \in [W \X Tables -> Tables]
  BY <1>4
<1>6. \A k \in W, v \in Tables : k \in DOMAIN v.slots => G[<<k, v>>] = P!Evicted(v, k)
  OBVIOUS
<1> HIDE DEF G, W, ch
<1>7. PICK h \in [SUBSET W -> Tables] : Unfolds(h, SUBSET W, t, G, ch)
  BY <1>2, <1>3, <1>5, FoldExists
<1>8. Evicts(h, t, W)
  <2> SUFFICES ASSUME NEW S \in SUBSET W, S # {}, Pick(S) \in DOMAIN h[S \ {Pick(S)}].slots
               PROVE  h[S] = P!Evicted(h[S \ {Pick(S)}], Pick(S))
    BY <1>7 DEF Unfolds, Evicts
  <2>1. h[S] = G[<<ch[S], h[S \ {ch[S]}]>>] /\ ch[S] = Pick(S) /\ Pick(S) \in W
    BY <1>3, <1>7 DEF Unfolds
  <2>2. h[S \ {Pick(S)}] \in Tables
    OBVIOUS
  <2> QED BY <1>6, <2>1, <2>2
<1>9. \A S \in SUBSET W : PruneDone(t, h[S], S)
  BY <1>2, <1>8, EvictsDone
<1>10. h = Body(h)
  <2>1. ASSUME NEW S \in SUBSET W PROVE h[S] = Body(h)[S]
    <3>1. CASE S = {}
      BY <1>7, <3>1 DEF Unfolds
    <3>2. CASE S # {}
      <4>1. Pick(S) \in S /\ S \ {Pick(S)} \in SUBSET W
        BY <1>3, <3>2
      <4>2. Pick(S) \in DOMAIN h[S \ {Pick(S)}].slots /\ h[S \ {Pick(S)}] \in Tables
        <5>1. Pick(S) \in DOMAIN t.slots
          BY <1>2, <4>1
        <5> QED BY <1>9, <4>1, <5>1 DEF PruneDone
      <4>3. h[S] = P!Evicted(h[S \ {Pick(S)}], Pick(S))
        BY <1>8, <3>2, <4>2 DEF Evicts
      <4> QED BY <3>2, <4>3 DEF Pick
    <3> QED BY <3>1, <3>2
  <2> QED BY <2>1
<1>11. g = Body(g)
  BY <1>10
<1> HIDE DEF g
<1>12. Evicts(g, t, W)
  <2> SUFFICES ASSUME NEW S \in SUBSET W
               PROVE  g[S] = IF S = {} THEN t ELSE P!Evicted(g[S \ {Pick(S)}], Pick(S))
    BY DEF Evicts
  <2>1. g[S] = Body(g)[S]
    BY <1>11
  <2> QED BY <2>1 DEF Pick
<1>13. PruneDone(t, g[W], W)
  BY <1>2, <1>12, EvictsDone
<1> QED BY <1>1, <1>13 DEF W

-----------------------------------------------------------------------------
(* The answers of the preload thread.                                      *)

\* From a to b: nothing, or the answer that a slot waits for.
Answered(a, b) ==
  \/ b = a
  \/ /\ a.kind = "pending" /\ b \in Records
     /\ b.key = a.key /\ b.gen = a.gen /\ b.at = a.at
     /\ \/ b.kind = "missing"
        \/ b.kind = P!KindOf(a.key) /\ b.holds = a.key
InstallDone(t, u) ==
  /\ u \in Tables /\ (Awaits(t) => Awaits(u))
  /\ DOMAIN u.slots = DOMAIN t.slots
  /\ \A k \in DOMAIN t.slots : Answered(t.slots[k], u.slots[k])

\* An answer a slot waits for is about its content.
Answers1(t, a) ==
  \A k \in DOMAIN t.slots :
    t.slots[k].kind = "pending" /\ t.slots[k].gen = a.gen => t.slots[k].key = a.key

LEMMA AnsweredTwice ==
  ASSUME NEW a \in Records, NEW b, NEW c, Answered(a, b), Answered(b, c)
  PROVE  Answered(a, c)
BY DEF Answered, P!KindOf

LEMMA InstalledIs ==
  ASSUME NEW t \in Tables, NEW a \in Answers, Answers1(t, a), NEW u, u = P!Installed(t, a)
  PROVE  InstallDone(t, u)
<1> DEFINE ks == {k \in DOMAIN t.slots : t.slots[k].kind = "pending" /\ t.slots[k].gen = a.gen}
<1>1. t.slots \in SlotMaps /\ \A k \in DOMAIN t.slots : t.slots[k] \in Records /\ k \in Keys
  BY IsSlotMap DEF Tables
<1>2. \A x \in Records : Answered(x, x)
  BY DEF Answered
<1>3. CASE ks = {}
  <2>1. u = t \/ u = P!Dispose(t, a.gen)
    BY <1>3 DEF P!Installed
  <2>2. CASE u = t
    BY <1>1, <1>2, <2>2 DEF InstallDone
  <2>3. CASE u = P!Dispose(t, a.gen)
    <3>1. a.gen \in Nat
      BY DEF Answers
    <3>2. /\ u \in Tables /\ u.slots = t.slots
          /\ \A i \in DOMAIN u.requests :
               (i \in DOMAIN t.requests /\ u.requests[i] = t.requests[i]) \/ u.requests[i].op = "dispose"
      BY <2>3, <3>1, DisposeIs
    <3>3. Awaits(t) => Awaits(u)
      BY <3>2 DEF Awaits, Meet
    <3> QED BY <1>1, <1>2, <3>2, <3>3 DEF InstallDone
  <2> QED BY <2>1, <2>2, <2>3
<1>4. CASE ks # {}
  <2> DEFINE k == CHOOSE j \in ks : TRUE
             kind == IF a.ok THEN P!KindOf(a.key) ELSE "missing"
             holds == IF a.ok THEN a.key ELSE NoContent
             sl == [t.slots[k] EXCEPT !.kind = kind, !.holds = holds]
             f == [t.slots EXCEPT ![k] = sl]
  <2>1. k \in ks
    BY <1>4
  <2>2. u = [t EXCEPT !.slots[k].kind = kind, !.slots[k].holds = holds]
    BY <1>4 DEF P!Installed
  <2> HIDE DEF k
  <2>3. k \in DOMAIN t.slots /\ t.slots[k] \in Records /\ t.slots[k].kind = "pending" /\ t.slots[k].key = a.key
    BY <1>1, <2>1 DEF Answers1
  <2>4. kind \in {"video", "image", "color", "missing"} /\ holds \in P!Contents \cup {NoContent}
    BY DEF P!KindOf, Answers
  <2>5. u = [t EXCEPT !.slots = f]
    <3> DEFINE mid == [t.slots[k] EXCEPT !.kind = kind]
               g == [t.slots EXCEPT ![k] = mid]
               v == [t EXCEPT !.slots = g]
    <3>1. v = [t EXCEPT !.slots[k].kind = kind]
      OBVIOUS
    <3>2. u = [v EXCEPT !.slots[k].holds = holds]
      BY <2>2
    <3>3. v.slots = g
      BY DEF Tables
    <3>4. u = [v EXCEPT !.slots = [g EXCEPT ![k] = [g[k] EXCEPT !.holds = holds]]]
      BY <3>2, <3>3
    <3>5. g[k] = mid
      BY <2>3
    <3>6. [g EXCEPT ![k] = [mid EXCEPT !.holds = holds]] = [t.slots EXCEPT ![k] = [mid EXCEPT !.holds = holds]]
      OBVIOUS
    <3>7. [mid EXCEPT !.holds = holds] = sl
      OBVIOUS
    <3>8. u = [v EXCEPT !.slots = f]
      BY <3>4, <3>5, <3>6, <3>7
    <3> QED BY <3>8
  <2> DEFINE old == t.slots[k]
  <2>6. kind = "missing" \/ (kind = P!KindOf(old.key) /\ holds = old.key)
    BY <2>3
  <2> HIDE DEF kind, holds
  <2>7. /\ sl \in Records /\ sl.key = old.key /\ sl.gen = old.gen /\ sl.at = old.at
        /\ sl.kind = kind /\ sl.holds = holds
    BY <2>3, <2>4 DEF Records, P!SlotRecords
  <2>8. Answered(old, sl) /\ sl.kind # "pending"
    BY <2>3, <2>4, <2>6, <2>7 DEF Answered
  <2> HIDE DEF sl
  <2>9. DOMAIN f = DOMAIN t.slots /\ f[k] = sl /\ \A j \in DOMAIN t.slots : j # k => f[j] = t.slots[j]
    BY <1>1, <2>3
  <2>10. f \in SlotMaps
    <3>1. t.slots \in [DOMAIN t.slots -> Records] /\ DOMAIN t.slots \in SUBSET Keys
      BY <1>1 DEF SlotMaps
    <3>2. f \in [DOMAIN t.slots -> Records]
      BY <2>7, <3>1
    <3> HIDE DEF f
    <3> QED BY <3>1, <3>2, IsSlotMap
  <2> HIDE DEF f
  <2>11. u \in Tables /\ u.slots = f /\ u.requests = t.requests
    BY <2>5, <2>10 DEF Tables
  <2>12. Awaits(t) => Awaits(u)
    BY <2>8, <2>9, <2>11 DEF Awaits, Meet
  <2> QED BY <1>1, <1>2, <2>8, <2>9, <2>11, <2>12 DEF InstallDone
<1> QED BY <1>3, <1>4

\* The greatest of some positions of a sequence.
LEMMA MaxIsIn ==
  ASSUME NEW n \in Nat, NEW S \in SUBSET (1 .. n), S # {}
  PROVE  Max(S) \in S
<1> DEFINE T == {n - x : x \in S}
<1>1. T \in SUBSET Nat /\ T # {}
  <2>1. \A x \in S : n - x \in Nat
    OBVIOUS
  <2> QED BY <2>1
<1>2. PICK m \in T : \A y \in T : m <= y
  BY <1>1, LeastNat
<1>3. PICK x \in S : m = n - x
  BY <1>2
<1>4. \A y \in S : x >= y
  <2> SUFFICES ASSUME NEW y \in S PROVE x >= y
    OBVIOUS
  <2>1. n - y \in T
    OBVIOUS
  <2>2. n - x <= n - y
    BY <1>2, <1>3, <2>1
  <2> QED BY <2>2
<1>5. \E z \in S : \A y \in S : z >= y
  BY <1>4
<1> QED BY <1>5 DEF Max

Installs(f, t, W) ==
  \A S \in SUBSET W :
    IF S = {} THEN f[S] = t
    ELSE f[S \ {Max(S)}] \in Tables /\ Answers1(f[S \ {Max(S)}], done[Max(S)])
           => f[S] = P!Installed(f[S \ {Max(S)}], done[Max(S)])

LEMMA AnswersStay ==
  ASSUME NEW t \in Tables, NEW u, NEW a, InstallDone(t, u), Answers1(t, a)
  PROVE  Answers1(u, a)
<1> SUFFICES ASSUME NEW k \in DOMAIN u.slots, u.slots[k].kind = "pending", u.slots[k].gen = a.gen
             PROVE  u.slots[k].key = a.key
  BY DEF Answers1
<1>1. k \in DOMAIN t.slots /\ Answered(t.slots[k], u.slots[k])
  BY DEF InstallDone
<1>2. u.slots[k] = t.slots[k]
  BY <1>1 DEF Answered, P!KindOf
<1> QED BY <1>1, <1>2 DEF Answers1

LEMMA InstalledTwice ==
  ASSUME NEW t \in Tables, NEW v, NEW u, InstallDone(t, v), InstallDone(v, u)
  PROVE  InstallDone(t, u)
<1>1. ASSUME NEW k \in DOMAIN t.slots PROVE Answered(t.slots[k], u.slots[k])
  <2>1. t.slots[k] \in Records
    BY IsSlotMap DEF Tables
  <2>2. Answered(t.slots[k], v.slots[k]) /\ Answered(v.slots[k], u.slots[k])
    BY DEF InstallDone
  <2> QED BY <2>1, <2>2, AnsweredTwice
<1> QED BY <1>1 DEF InstallDone

LEMMA InstallsDone ==
  ASSUME done \in Seq(Answers), NEW t \in Tables, \A i \in DOMAIN done : Answers1(t, done[i]),
         NEW f, Installs(f, t, DOMAIN done)
  PROVE  \A S \in SUBSET DOMAIN done : InstallDone(t, f[S])
<1> DEFINE W == DOMAIN done
           Bad == {S \in SUBSET W : ~InstallDone(t, f[S])}
<1>1. W = 1 .. Len(done) /\ Len(done) \in Nat
  OBVIOUS
<1>2. IsFiniteSet(W)
  BY <1>1, FS_Interval
<1>3. SUFFICES ASSUME Bad # {} PROVE FALSE
  OBVIOUS
<1>4. PICK S \in Bad : \A x \in S : S \ {x} \notin Bad
  <2>1. Bad \in SUBSET SUBSET W
    OBVIOUS
  <2> HIDE DEF Bad, W
  <2> QED BY <1>2, <1>3, <2>1, LeastSubset
<1>5. S \in SUBSET W /\ ~InstallDone(t, f[S])
  BY <1>4
<1>6. S # {}
  <2> SUFFICES ASSUME S = {} PROVE FALSE
    OBVIOUS
  <2>1. f[S] = t
    BY <1>5 DEF Installs
  <2>2. InstallDone(t, t)
    BY DEF InstallDone, Answered
  <2> QED BY <1>5, <2>1, <2>2
<1> DEFINE x == Max(S)
           v == f[S \ {x}]
           u == f[S]
<1>7. x \in S
  BY <1>1, <1>5, <1>6, MaxIsIn
<1>8. S \ {x} \in SUBSET W /\ x \in DOMAIN done /\ done[x] \in Answers
  BY <1>5, <1>7
<1>9. InstallDone(t, v)
  BY <1>4, <1>7, <1>8
<1>10. v \in Tables /\ Answers1(v, done[x])
  BY <1>8, <1>9, AnswersStay DEF InstallDone
<1>11. u = P!Installed(v, done[x])
  BY <1>5, <1>6, <1>10 DEF Installs
<1> HIDE DEF x, v, u, Bad
<1>12. InstallDone(v, u)
  BY <1>8, <1>10, <1>11, InstalledIs
<1>13. InstallDone(t, u)
  BY <1>9, <1>12, InstalledTwice
<1> QED BY <1>5, <1>13 DEF u

\* drain_loader, for all the answers there are.
LEMMA AllInstalled ==
  ASSUME done \in Seq(Answers), NEW t \in Tables, \A i \in DOMAIN done : Answers1(t, done[i])
  PROVE  InstallDone(t, P!FoldLeft(P!Installed, t, done))
<1> DEFINE W == DOMAIN done
           G == [z \in W \X Tables |-> IF Answers1(z[2], done[z[1]])
                                       THEN P!Installed(z[2], done[z[1]]) ELSE z[2]]
           ch == [S \in SUBSET W |-> Max(S)]
           Body(f) == [S \in SUBSET W |-> IF S = {} THEN t
                         ELSE P!Installed(f[S \ {P!Max(S)}], done[P!Max(S)])]
           g == CHOOSE f : f = Body(f)
<1>1. P!FoldLeft(P!Installed, t, done) = g[W]
  BY DEF P!FoldLeft, P!MapThenFoldSet
<1>2. W = 1 .. Len(done) /\ Len(done) \in Nat /\ \A i \in W : done[i] \in Answers
  OBVIOUS
<1>3. IsFiniteSet(W)
  BY <1>2, FS_Interval
<1>4. \A S \in (SUBSET W) \ {{}} : ch[S] \in S /\ ch[S] = Max(S)
  BY <1>2, MaxIsIn
<1>5. \A S : P!Max(S) = Max(S)
  BY DEF P!Max, Max
<1>6. \A i \in W, v \in Tables : Answers1(v, done[i]) => P!Installed(v, done[i]) \in Tables
  BY <1>2, InstalledIs DEF InstallDone
<1>7. G \in [W \X Tables -> Tables]
  BY <1>6
<1>8. \A i \in W, v \in Tables : Answers1(v, done[i]) => G[<<i, v>>] = P!Installed(v, done[i])
  OBVIOUS
<1> HIDE DEF G, ch, W
<1>9. PICK h \in [SUBSET W -> Tables] : Unfolds(h, SUBSET W, t, G, ch)
  BY <1>3, <1>4, <1>7, FoldExists
<1>10. Installs(h, t, W)
  <2> SUFFICES ASSUME NEW S \in SUBSET W, S # {}, Answers1(h[S \ {Max(S)}], done[Max(S)])
               PROVE  h[S] = P!Installed(h[S \ {Max(S)}], done[Max(S)])
    BY <1>9 DEF Unfolds, Installs
  <2>1. h[S] = G[<<ch[S], h[S \ {ch[S]}]>>] /\ ch[S] = Max(S) /\ Max(S) \in W
    BY <1>4, <1>9 DEF Unfolds
  <2>2. h[S \ {Max(S)}] \in Tables
    OBVIOUS
  <2> QED BY <1>8, <2>1, <2>2
<1>11. \A S \in SUBSET W : InstallDone(t, h[S])
  BY <1>10, InstallsDone DEF W
<1>12. h = Body(h)
  <2>1. ASSUME NEW S \in SUBSET W PROVE h[S] = Body(h)[S]
    <3>1. CASE S = {}
      BY <1>9, <3>1 DEF Unfolds
    <3>2. CASE S # {}
      <4> DEFINE x == Max(S)
      <4>1. x \in S /\ S \ {x} \in SUBSET W /\ x \in DOMAIN done
        BY <1>4, <3>2 DEF W
      <4>2. InstallDone(t, h[S \ {x}])
        BY <1>11, <4>1
      <4>3. h[S \ {x}] \in Tables /\ Answers1(h[S \ {x}], done[x])
        BY <4>1, <4>2, AnswersStay DEF InstallDone
      <4>4. h[S] = P!Installed(h[S \ {x}], done[x])
        BY <1>10, <3>2, <4>3 DEF Installs
      <4> QED BY <1>5, <3>2, <4>4
    <3> QED BY <3>1, <3>2
  <2> QED BY <2>1
<1>13. g = Body(g)
  BY <1>12
<1> HIDE DEF g
<1>14. Installs(g, t, W)
  <2> SUFFICES ASSUME NEW S \in SUBSET W
               PROVE  g[S] = IF S = {} THEN t ELSE P!Installed(g[S \ {Max(S)}], done[Max(S)])
    BY DEF Installs
  <2>1. g[S] = Body(g)[S]
    BY <1>13
  <2> QED BY <1>5, <2>1
<1>15. InstallDone(t, g[W])
  BY <1>14, InstallsDone DEF W
<1> QED BY <1>1, <1>15

-----------------------------------------------------------------------------
(* sync().                                                                 *)

Base == [slots |-> slots, requests |-> requests]
Awaited == Awaits(Base) /\ \A i \in DOMAIN done : Answers1(Base, done[i])

\* The decks wanted of a synchronisation, and what it keeps.
Aliased(t, deckB) == {s \in P!Wanting(deckB) : P!Same(t, s, deckB)}
Wanted(t, deckA, deckB) ==
  (P!Wanting(deckA) \X {"A"}) \cup ((P!Wanting(deckB) \ Aliased(t, deckB)) \X {"B"})

Syncs(t0, tA, tB, t, deckA, deckB, again) ==
  /\ InstallDone(Base, t0)
  /\ Done(t0, tA, P!Wanting(deckA), "A", deckA, again)
  /\ Done(tA, tB, P!Wanting(deckB), "B", deckB, again)
  /\ PruneDone(tB, t, DOMAIN tB.slots \ Wanted(tA, deckA, deckB))
  /\ slots' = t.slots /\ requests' = t.requests /\ done' = <<>>
  /\ alias' = Aliased(tA, deckB) /\ fresh' = Aliased(tA, deckB) \ alias
  /\ tex' = tex

LEMMA BaseIs ==
  ASSUME DecksTyped
  PROVE  Base \in Tables /\ Base.slots = slots /\ Base.requests = requests
BY DEF DecksTyped, Base, Tables

LEMMA SyncIs ==
  ASSUME DecksTyped, Awaited, NEW deckA \in Scene, NEW deckB \in Scene, NEW playsB \in BOOLEAN,
         NEW again \in SUBSET Slices, P!Sync(deckA, deckB, playsB, again)
  PROVE  /\ \E t0 \in Tables, tA \in Tables, tB \in Tables, t \in Tables :
              Syncs(t0, tA, tB, t, deckA, deckB, again)
         /\ moving' \in BOOLEAN
<1> DEFINE t0 == P!FoldLeft(P!Installed, Base, done)
           tA == P!SyncedA(t0, deckA, again)
           tB == P!SyncedB(tA, deckB, again)
           t == P!Pruned(tB, Wanted(tA, deckA, deckB))
<1>1. InstallDone(Base, t0)
  BY BaseIs, AllInstalled DEF DecksTyped, Awaited
<1>2. /\ slots' = t.slots /\ requests' = t.requests /\ done' = <<>>
      /\ alias' = Aliased(tA, deckB) /\ fresh' = Aliased(tA, deckB) \ alias
      /\ tex' = tex /\ moving' = playsB
  BY DEF P!Sync, Base, Aliased, Wanted
<1>3. t0 \in Tables
  BY <1>1 DEF InstallDone
<1> HIDE DEF t0
<1>4. Done(t0, tA, P!Wanting(deckA), "A", deckA, again)
  BY <1>3, SyncedAIs
<1>5. tA \in Tables
  BY <1>4 DEF Done
<1> HIDE DEF tA
<1>6. Done(tA, tB, P!Wanting(deckB), "B", deckB, again)
  BY <1>5, SyncedBIs
<1>7. tB \in Tables
  BY <1>6 DEF Done
<1> HIDE DEF tB
<1>8. PruneDone(tB, t, DOMAIN tB.slots \ Wanted(tA, deckA, deckB))
  BY <1>7, PrunedIs
<1>9. t \in Tables
  BY <1>8 DEF PruneDone
<1> HIDE DEF t
<1>10. Syncs(t0, tA, tB, t, deckA, deckB, again)
  BY <1>1, <1>2, <1>4, <1>6, <1>8 DEF Syncs
<1> QED BY <1>2, <1>3, <1>5, <1>7, <1>9, <1>10

\* From a to b: one player, at the same place or back at its entry point.
Lives(a, b) ==
  /\ b.key = a.key /\ b.kind = a.kind /\ b.gen = a.gen /\ b.holds = a.holds /\ b.shown = a.shown
  /\ b.at = a.at \/ b.at = "cold"

\* What the decks are after a synchronisation, slice by slice.  A slot of deck A
\* comes from that of deck A or, if that one has another content, from deck B.
OnA(t0, u, s, c, again) ==
  LET a == <<s, "A">>  b == <<s, "B">>
  IN  /\ a \in DOMAIN u /\ u[a].key = c
      /\ \/ P!HoldsKey(t0, a, c) /\ Kept(t0.slots[a], u[a], again)
         \/ /\ ~P!HoldsKey(t0, a, c) /\ P!HoldsKey(t0, b, c)
            /\ Kept(t0.slots[b], u[a], again) /\ u[a].reupload
         \/ Made(u[a], c) /\ ~P!HoldsKey(t0, a, c) /\ ~P!HoldsKey(t0, b, c)
\* A slot of deck B was there, or is new.
OnB(t0, u, s, c, again) ==
  LET b == <<s, "B">>
  IN  /\ u[b].key = c
      /\ \/ P!HoldsKey(t0, b, c) /\ Kept(t0.slots[b], u[b], again)
         \/ Made(u[b], c) /\ ~P!HoldsKey(t0, b, c)

LEMMA DeckA ==
  ASSUME NEW t0 \in Tables, NEW tA \in Tables, NEW deck \in Scene, NEW again \in SUBSET Slices,
         Done(t0, tA, P!Wanting(deck), "A", deck, again), NEW s \in P!Wanting(deck)
  PROVE  OnA(t0, tA.slots, s, deck[s], s \in again)
<1>1. Ensures(t0, tA, s, "A", deck[s], s \in again)
  BY DEF Done, SliceDone
<1>2. P!Other("A") = "B"
  BY DEF P!Other
<1> QED BY <1>1, <1>2 DEF Ensures, OnA, Kept, Made, P!HoldsKey

\* The second deck leaves the first alone.
LEMMA DeckAStays ==
  ASSUME NEW tA \in Tables, NEW tB \in Tables, NEW deck \in Scene, NEW again \in SUBSET Slices,
         Done(tA, tB, P!Wanting(deck), "B", deck, again), NEW s \in Slices
  PROVE  Untouched(tA, tB, <<s, "A">>)
<1>1. CASE s \notin P!Wanting(deck)
  <2>1. <<s, "A">> \in Keys /\ <<s, "A">>[1] = s
    BY DecksAre
  <2> QED BY <1>1, <2>1 DEF Done
<1>2. CASE s \in P!Wanting(deck)
  <2>1. SliceDone(tA, tB, s, "B", deck, again)
    BY <1>2 DEF Done
  <2>2. P!Other("B") = "A"
    BY DEF P!Other
  <2> QED BY <2>1, <2>2 DEF SliceDone, Ensures, P!Same
<1> QED BY <1>1, <1>2

LEMMA DeckB ==
  ASSUME NEW t0 \in Tables, NEW tA \in Tables, NEW tB \in Tables,
         NEW deckA \in Scene, NEW deckB \in Scene, NEW again \in SUBSET Slices,
         Done(t0, tA, P!Wanting(deckA), "A", deckA, again),
         Done(tA, tB, P!Wanting(deckB), "B", deckB, again),
         NEW s \in P!Wanting(deckB), ~P!Same(tA, s, deckB)
  PROVE  <<s, "B">> \in DOMAIN tB.slots /\ OnB(t0, tB.slots, s, deckB[s], s \in again)
<1> DEFINE a == <<s, "A">>
           b == <<s, "B">>
           c == deckB[s]
<1>1. Ensures(tA, tB, s, "B", c, s \in again)
  BY DEF Done, SliceDone
<1>2. P!Other("B") = "A" /\ P!Other("A") = "B" /\ s \in Slices
  BY WantingIs DEF P!Other
<1>3. /\ b \in DOMAIN tB.slots
      /\ \/ P!HoldsKey(tA, b, c) /\ Kept(tA.slots[b], tB.slots[b], s \in again)
         \/ ~P!HoldsKey(tA, b, c) /\ Made(tB.slots[b], c)
  BY <1>1, <1>2 DEF Ensures, P!Same
<1>4. \/ Untouched(t0, tA, b)
      \/ b \notin DOMAIN tA.slots /\ P!HoldsKey(t0, b, deckA[s]) /\ deckA[s] # c
  <2>1. CASE s \notin P!Wanting(deckA)
    <3>1. b \in Keys /\ b[1] = s
      BY <1>2, DecksAre
    <3> QED BY <2>1, <3>1 DEF Done
  <2>2. CASE s \in P!Wanting(deckA)
    <3>1. Ensures(t0, tA, s, "A", deckA[s], s \in again)
      BY <2>2 DEF Done, SliceDone
    <3>2. \/ Untouched(t0, tA, b)
          \/ /\ b \notin DOMAIN tA.slots /\ P!HoldsKey(t0, b, deckA[s])
             /\ a \in DOMAIN tA.slots /\ tA.slots[a].key = deckA[s]
      BY <1>2, <3>1 DEF Ensures, Kept, P!HoldsKey
    <3> QED BY <3>2 DEF P!Same, P!HoldsKey
  <2> QED BY <2>1, <2>2
<1>5. /\ P!HoldsKey(tA, b, c) <=> P!HoldsKey(t0, b, c)
      /\ P!HoldsKey(tA, b, c) => tA.slots[b] = t0.slots[b]
  BY <1>4 DEF P!HoldsKey, Untouched
<1> QED BY <1>3, <1>5 DEF OnB, Kept, Made, P!HoldsKey

\* The slots after a synchronisation.
LEMMA SyncedSlots ==
  ASSUME NEW t0 \in Tables, NEW tA \in Tables, NEW tB \in Tables, NEW t \in Tables,
         NEW deckA \in Scene, NEW deckB \in Scene, NEW again \in SUBSET Slices,
         Syncs(t0, tA, tB, t, deckA, deckB, again)
  PROVE  /\ \A s \in P!Wanting(deckA) : OnA(t0, slots', s, deckA[s], s \in again)
         /\ \A s \in Slices : <<s, "A">> \in DOMAIN slots' => s \in P!Wanting(deckA)
         /\ \A s \in Slices : <<s, "B">> \in DOMAIN slots' <=>
              s \in P!Wanting(deckB) /\ ~P!Same(tA, s, deckB)
         /\ \A s \in Slices : <<s, "B">> \in DOMAIN slots' =>
              OnB(t0, slots', s, deckB[s], s \in again)
         /\ \A s \in P!Wanting(deckA) : P!Same(tA, s, deckB) <=> deckA[s] = deckB[s]
         /\ \A s \in Slices \ P!Wanting(deckA) :
              P!Same(tA, s, deckB) <=> P!HoldsKey(t0, <<s, "A">>, deckB[s])
<1> DEFINE W == Wanted(tA, deckA, deckB)
<1>1. /\ Done(t0, tA, P!Wanting(deckA), "A", deckA, again)
      /\ Done(tA, tB, P!Wanting(deckB), "B", deckB, again)
      /\ PruneDone(tB, t, DOMAIN tB.slots \ W) /\ slots' = t.slots
  BY DEF Syncs
<1>2. /\ DOMAIN slots' = DOMAIN tB.slots \cap W
      /\ \A k \in DOMAIN slots' : slots'[k] = tB.slots[k]
  BY <1>1 DEF PruneDone
<1>3. /\ \A s \in Slices : <<s, "A">> \in W <=> s \in P!Wanting(deckA)
      /\ \A s \in Slices : <<s, "B">> \in W <=> s \in P!Wanting(deckB) /\ ~P!Same(tA, s, deckB)
  BY DEF Wanted, Aliased
<1> HIDE DEF W
<1>4. P!Wanting(deckA) \in SUBSET Slices /\ P!Wanting(deckB) \in SUBSET Slices
  BY WantingIs
<1>5. ASSUME NEW s \in P!Wanting(deckA)
      PROVE  /\ OnA(t0, slots', s, deckA[s], s \in again)
             /\ P!Same(tA, s, deckB) <=> deckA[s] = deckB[s]
  <2>1. OnA(t0, tA.slots, s, deckA[s], s \in again)
    BY <1>1, DeckA
  <2>2. Untouched(tA, tB, <<s, "A">>)
    BY <1>1, <1>4, DeckAStays
  <2>3. <<s, "A">> \in DOMAIN slots' /\ slots'[<<s, "A">>] = tA.slots[<<s, "A">>]
    BY <1>2, <1>3, <1>4, <2>1, <2>2 DEF OnA, Untouched
  <2>4. OnA(t0, slots', s, deckA[s], s \in again)
    BY <2>1, <2>3 DEF OnA
  <2> QED BY <2>1, <2>4 DEF OnA, P!Same, P!HoldsKey
<1>6. ASSUME NEW s \in Slices, s \in P!Wanting(deckB), ~P!Same(tA, s, deckB)
      PROVE  <<s, "B">> \in DOMAIN slots' /\ OnB(t0, slots', s, deckB[s], s \in again)
  <2>1. <<s, "B">> \in DOMAIN tB.slots /\ OnB(t0, tB.slots, s, deckB[s], s \in again)
    BY <1>1, <1>6, DeckB
  <2>2. <<s, "B">> \in DOMAIN slots' /\ slots'[<<s, "B">>] = tB.slots[<<s, "B">>]
    BY <1>2, <1>3, <1>6, <2>1
  <2> QED BY <2>1, <2>2 DEF OnB
<1>7. ASSUME NEW s \in Slices \ P!Wanting(deckA)
      PROVE  P!Same(tA, s, deckB) <=> P!HoldsKey(t0, <<s, "A">>, deckB[s])
  <2>1. Untouched(t0, tA, <<s, "A">>)
    BY <1>1, DecksAre DEF Done
  <2> QED BY <1>7, <2>1, HoldsSame DEF P!Same
<1> QED BY <1>2, <1>3, <1>5, <1>6, <1>7

-----------------------------------------------------------------------------
(* The inductive invariant.                                                *)

\* What a slot is, by its kind.
Good(b) ==
  /\ b.kind \in {"video", "image", "color"} => b.holds = b.key
  /\ b.kind = "video" => b.key \in Videos
  /\ b.kind = "pending" => b.at = "cold"
  /\ b.kind = "video" /\ b.at \in {"ready", "on"} => b.shown
AllGood == \A k \in DOMAIN slots : Good(slots[k])

TexTyped ==
  /\ fresh \subseteq alias /\ alias \subseteq Slices /\ moving \in BOOLEAN
  /\ tex \in [Keys -> P!Contents \cup {NoContent, Black}]

\* No content is on both decks of a slice, an aliased one included.
Apart ==
  \A s \in Slices :
    <<s, "B">> \in DOMAIN slots =>
      s \notin alias /\ (<<s, "A">> \in DOMAIN slots => slots[<<s, "A">>].key # slots[<<s, "B">>].key)

\* The texture of a slot that has shown a frame shows its media, or is about to.
Showing(k) == k \in DOMAIN slots /\ slots[k].kind = "video" /\ slots[k].at \in {"ready", "on"}
Visible ==
  \A k \in Keys : Showing(k) =>
    /\ tex[k] = slots[k].key \/ (~played /\ slots[k].reupload)
    /\ k[2] = "A" /\ k[1] \in alias =>
         tex[<<k[1], "B">>] = slots[k].key \/ (~played /\ k[1] \in fresh)

\* During a fade that no cue has just started the slots are those of its frame.
Settled ==
  show.transition.to # NoCue /\ StartedNow = {} =>
    \A k \in DOMAIN slots :
      slots[k].key = SceneOf(IF k[2] = "A" THEN show.active ELSE show.transition.to)[k[1]]

SInv ==
  /\ IInv /\ DecksTyped /\ TexTyped /\ Awaited /\ AllGood /\ Apart /\ Visible /\ Settled
  /\ played \in BOOLEAN /\ (~played => phase = "idle")

-----------------------------------------------------------------------------
(* What a synchronisation makes of a slot.                                 *)

Live(b) == b.kind = "video" /\ b.at \in {"ready", "on"}

LEMMA RecordIs ==
  ASSUME NEW a \in Records
  PROVE  /\ a.key \in P!Contents /\ a.gen \in Nat
         /\ a.kind \in {"pending", "video", "image", "color", "missing"}
         /\ a.at \in {"cold", "ready", "on", "end", "black"}
         /\ a.shown \in BOOLEAN /\ a.reupload \in BOOLEAN
         /\ a.holds \in P!Contents \cup {NoContent}
BY DEF Records, P!SlotRecords

LEMMA MadeIsGood ==
  ASSUME NEW b, NEW c, Made(b, c)
  PROVE  Good(b) /\ ~Live(b) /\ P!Entered(b)
BY DEF Made, Good, Live, P!Entered

\* A player that a slot has kept, after the answer it may have got.
LEMMA KeptIsGood ==
  ASSUME NEW a \in Records, Good(a), NEW x, Answered(a, x), NEW b, NEW again, Kept(x, b, again)
  PROVE  /\ Good(b) /\ b.key = a.key
         /\ Live(b) => Live(a)
         /\ a.kind = "video" => Kept(a, b, again)
<1>1. Good(x) /\ x.key = a.key /\ x.at = a.at
  <2>1. CASE x = a
    BY <2>1
  <2>2. CASE x # a
    <3>1. /\ a.kind = "pending" /\ x.key = a.key /\ x.at = a.at
          /\ x.kind = "missing" \/ (x.kind = P!KindOf(a.key) /\ x.holds = a.key)
      BY <2>2 DEF Answered
    <3>2. P!KindOf(a.key) = "video" => a.key \in Videos
      BY DEF P!KindOf
    <3>3. a.at = "cold"
      BY <3>1 DEF Good
    <3>4. P!KindOf(a.key) # "pending"
      BY DEF P!KindOf
    <3> QED BY <3>1, <3>2, <3>3, <3>4 DEF Good
  <2> QED BY <2>1, <2>2
<1>2. Good(b) /\ b.key = a.key
  BY <1>1 DEF Kept, Good
<1>3. a.kind = "video" => x = a
  BY DEF Answered
<1>4. Live(b) => Live(a)
  <2> SUFFICES ASSUME Live(b) PROVE Live(a)
    OBVIOUS
  <2>1. x.kind = "video" /\ x.at = b.at /\ b.at # "cold"
    BY DEF Kept, Live
  <2>2. a.at # "cold" /\ a.at = b.at
    BY <1>1, <2>1
  <2>3. x = a
    BY <2>2 DEF Good, Answered
  <2> QED BY <2>1, <2>2, <2>3 DEF Live
<1> QED BY <1>2, <1>3, <1>4

Synced(t0, tA, deckA, deckB, again) ==
  /\ InstallDone(Base, t0)
  /\ \A s \in P!Wanting(deckA) : OnA(t0, slots', s, deckA[s], s \in again)
  /\ \A s \in Slices : <<s, "A">> \in DOMAIN slots' => s \in P!Wanting(deckA)
  /\ \A s \in Slices : <<s, "B">> \in DOMAIN slots' <=>
       s \in P!Wanting(deckB) /\ ~P!Same(tA, s, deckB)
  /\ \A s \in Slices : <<s, "B">> \in DOMAIN slots' => OnB(t0, slots', s, deckB[s], s \in again)
  /\ \A s \in P!Wanting(deckA) : P!Same(tA, s, deckB) <=> deckA[s] = deckB[s]
  /\ \A s \in Slices \ P!Wanting(deckA) :
       P!Same(tA, s, deckB) <=> P!HoldsKey(t0, <<s, "A">>, deckB[s])
  /\ alias' = Aliased(tA, deckB) /\ fresh' = Aliased(tA, deckB) \ alias /\ tex' = tex
  /\ slots' \in SlotMaps /\ requests' \in Seq(Requests) /\ done' = <<>> /\ moving' \in BOOLEAN
  /\ Awaits([slots |-> slots', requests |-> requests'])

LEMMA SyncedIs ==
  ASSUME DecksTyped, Awaited, NEW deckA \in Scene, NEW deckB \in Scene, NEW playsB \in BOOLEAN,
         NEW again \in SUBSET Slices, P!Sync(deckA, deckB, playsB, again)
  PROVE  \E t0 \in Tables, tA \in Tables : Synced(t0, tA, deckA, deckB, again)
<1>1. PICK t0 \in Tables, tA \in Tables, tB \in Tables, t \in Tables :
        Syncs(t0, tA, tB, t, deckA, deckB, again)
  BY SyncIs
<1>2. /\ \A s \in P!Wanting(deckA) : OnA(t0, slots', s, deckA[s], s \in again)
      /\ \A s \in Slices : <<s, "A">> \in DOMAIN slots' => s \in P!Wanting(deckA)
      /\ \A s \in Slices : <<s, "B">> \in DOMAIN slots' <=>
           s \in P!Wanting(deckB) /\ ~P!Same(tA, s, deckB)
      /\ \A s \in Slices : <<s, "B">> \in DOMAIN slots' =>
           OnB(t0, slots', s, deckB[s], s \in again)
      /\ \A s \in P!Wanting(deckA) : P!Same(tA, s, deckB) <=> deckA[s] = deckB[s]
      /\ \A s \in Slices \ P!Wanting(deckA) :
           P!Same(tA, s, deckB) <=> P!HoldsKey(t0, <<s, "A">>, deckB[s])
  BY <1>1, SyncedSlots
<1>3. slots' = t.slots /\ requests' = t.requests
  BY <1>1 DEF Syncs
<1>4. slots' \in SlotMaps /\ requests' \in Seq(Requests)
  BY <1>3 DEF Tables
<1>5. Awaits(t)
  BY <1>1 DEF Syncs, InstallDone, Done, PruneDone, Awaited
<1>6. Awaits([slots |-> slots', requests |-> requests'])
  BY <1>3, <1>5 DEF Awaits
<1>7. moving' \in BOOLEAN
  BY SyncIs
<1>8. /\ InstallDone(Base, t0) /\ done' = <<>>
      /\ alias' = Aliased(tA, deckB) /\ fresh' = Aliased(tA, deckB) \ alias /\ tex' = tex
  BY <1>1 DEF Syncs
<1> QED BY <1>2, <1>4, <1>6, <1>7, <1>8 DEF Synced

\* Where a slot that was there comes from.
LEMMA OriginIs ==
  ASSUME DecksTyped, AllGood, NEW t0, InstallDone(Base, t0), NEW k, k \in DOMAIN t0.slots
  PROVE  /\ k \in DOMAIN slots /\ slots[k] \in Records /\ Good(slots[k])
         /\ Answered(slots[k], t0.slots[k])
         /\ t0.slots[k].key = slots[k].key
<1>1. k \in DOMAIN slots /\ Answered(slots[k], t0.slots[k])
  BY BaseIs DEF InstallDone
<1>2. slots[k] \in Records
  BY <1>1, IsSlotMap DEF DecksTyped
<1> QED BY <1>1, <1>2 DEF AllGood, Answered

LEMMA HeldBefore ==
  ASSUME DecksTyped, AllGood, NEW t0, InstallDone(Base, t0), NEW k, NEW c
  PROVE  P!HoldsKey(t0, k, c) <=> P!HoldsKey([slots |-> slots], k, c)
<1>1. DOMAIN t0.slots = DOMAIN slots
  BY BaseIs DEF InstallDone
<1>2. k \in DOMAIN slots => t0.slots[k].key = slots[k].key
  BY <1>1, OriginIs
<1> QED BY <1>1, <1>2 DEF P!HoldsKey

\* Deck A and deck B after a synchronisation, from the slots there were.
FromA(s, c, again) ==
  LET a == <<s, "A">>  b == <<s, "B">>
  IN  /\ Good(slots'[a]) /\ slots'[a].key = c
      /\ slots'[a].kind = "video" /\ again => P!Entered(slots'[a])
      /\ \/ /\ P!HoldsKey([slots |-> slots], a, c)
            /\ Live(slots'[a]) => Live(slots[a])
            /\ slots[a].kind = "video" => Kept(slots[a], slots'[a], again)
         \/ /\ ~P!HoldsKey([slots |-> slots], a, c) /\ P!HoldsKey([slots |-> slots], b, c)
            /\ slots'[a].reupload
            /\ slots[b].kind = "video" => Kept(slots[b], slots'[a], again)
         \/ /\ ~Live(slots'[a])
            /\ ~P!HoldsKey([slots |-> slots], a, c) /\ ~P!HoldsKey([slots |-> slots], b, c)
FromB(s, c, again) ==
  LET b == <<s, "B">>
  IN  /\ Good(slots'[b]) /\ slots'[b].key = c
      /\ slots'[b].kind = "video" /\ again => P!Entered(slots'[b])
      /\ \/ /\ P!HoldsKey([slots |-> slots], b, c)
            /\ Live(slots'[b]) => Live(slots[b])
            /\ slots[b].kind = "video" => Kept(slots[b], slots'[b], again)
         \/ ~Live(slots'[b]) /\ ~P!HoldsKey([slots |-> slots], b, c)

LEMMA FromAIs ==
  ASSUME DecksTyped, AllGood, NEW t0, InstallDone(Base, t0),
         NEW s \in Slices, NEW c, NEW again, OnA(t0, slots', s, c, again)
  PROVE  FromA(s, c, again)
<1> DEFINE a == <<s, "A">>
           b == <<s, "B">>
           new == slots'[a]
<1>1. CASE P!HoldsKey(t0, a, c) /\ Kept(t0.slots[a], new, again)
  <2>1. /\ slots[a] \in Records /\ Good(slots[a]) /\ Answered(slots[a], t0.slots[a])
    BY <1>1, OriginIs DEF P!HoldsKey
  <2>2. /\ Good(new) /\ (Live(new) => Live(slots[a]))
        /\ slots[a].kind = "video" => Kept(slots[a], new, again)
    BY <1>1, <2>1, KeptIsGood
  <2>3. new.kind = "video" /\ again => P!Entered(new)
    BY <1>1 DEF Kept
  <2>4. new.key = c /\ P!HoldsKey([slots |-> slots], a, c)
    BY <1>1, HeldBefore DEF OnA
  <2> QED BY <2>2, <2>3, <2>4 DEF FromA
<1>2. CASE ~P!HoldsKey(t0, a, c) /\ P!HoldsKey(t0, b, c) /\ Kept(t0.slots[b], new, again)
           /\ new.reupload
  <2>1. /\ slots[b] \in Records /\ Good(slots[b]) /\ Answered(slots[b], t0.slots[b])
    BY <1>2, OriginIs DEF P!HoldsKey
  <2>2. /\ Good(new)
        /\ slots[b].kind = "video" => Kept(slots[b], new, again)
    BY <1>2, <2>1, KeptIsGood
  <2>3. new.kind = "video" /\ again => P!Entered(new)
    BY <1>2 DEF Kept
  <2>4. new.key = c /\ ~P!HoldsKey([slots |-> slots], a, c) /\ P!HoldsKey([slots |-> slots], b, c)
    BY <1>2, HeldBefore DEF OnA
  <2> QED BY <1>2, <2>2, <2>3, <2>4 DEF FromA
<1>3. CASE Made(new, c) /\ ~P!HoldsKey(t0, a, c) /\ ~P!HoldsKey(t0, b, c)
  <2>1. Good(new) /\ ~Live(new) /\ P!Entered(new)
    BY <1>3, MadeIsGood
  <2>2. new.key = c /\ ~P!HoldsKey([slots |-> slots], a, c) /\ ~P!HoldsKey([slots |-> slots], b, c)
    BY <1>3, HeldBefore DEF OnA
  <2> QED BY <2>1, <2>2 DEF FromA
<1> QED BY <1>1, <1>2, <1>3 DEF OnA

LEMMA FromBIs ==
  ASSUME DecksTyped, AllGood, NEW t0, InstallDone(Base, t0),
         NEW s \in Slices, NEW c, NEW again, OnB(t0, slots', s, c, again)
  PROVE  FromB(s, c, again)
<1> DEFINE b == <<s, "B">>
           new == slots'[b]
<1>1. CASE P!HoldsKey(t0, b, c) /\ Kept(t0.slots[b], new, again)
  <2>1. /\ slots[b] \in Records /\ Good(slots[b]) /\ Answered(slots[b], t0.slots[b])
    BY <1>1, OriginIs DEF P!HoldsKey
  <2>2. /\ Good(new) /\ (Live(new) => Live(slots[b]))
        /\ slots[b].kind = "video" => Kept(slots[b], new, again)
    BY <1>1, <2>1, KeptIsGood
  <2>3. new.kind = "video" /\ again => P!Entered(new)
    BY <1>1 DEF Kept
  <2>4. new.key = c /\ P!HoldsKey([slots |-> slots], b, c)
    BY <1>1, HeldBefore DEF OnB
  <2> QED BY <2>2, <2>3, <2>4 DEF FromB
<1>2. CASE Made(new, c) /\ ~P!HoldsKey(t0, b, c)
  <2>1. Good(new) /\ ~Live(new) /\ P!Entered(new)
    BY <1>2, MadeIsGood
  <2>2. new.key = c /\ ~P!HoldsKey([slots |-> slots], b, c)
    BY <1>2, HeldBefore DEF OnB
  <2> QED BY <2>1, <2>2 DEF FromB
<1> QED BY <1>1, <1>2 DEF OnB

\* A synchronisation, slice by slice, in terms of the slots before and after.
Follows(tA, deckA, deckB, again) ==
  /\ \A s \in P!Wanting(deckA) : <<s, "A">> \in DOMAIN slots' /\ FromA(s, deckA[s], s \in again)
  /\ \A s \in Slices : <<s, "A">> \in DOMAIN slots' => s \in P!Wanting(deckA)
  /\ \A s \in Slices : <<s, "B">> \in DOMAIN slots' <=>
       s \in P!Wanting(deckB) /\ ~P!Same(tA, s, deckB)
  /\ \A s \in Slices : <<s, "B">> \in DOMAIN slots' => FromB(s, deckB[s], s \in again)
  /\ \A s \in P!Wanting(deckA) : P!Same(tA, s, deckB) <=> deckA[s] = deckB[s]
  /\ \A s \in Slices \ P!Wanting(deckA) :
       P!Same(tA, s, deckB) <=> P!HoldsKey([slots |-> slots], <<s, "A">>, deckB[s])
  /\ alias' = Aliased(tA, deckB) /\ fresh' = Aliased(tA, deckB) \ alias /\ tex' = tex

LEMMA FollowsIs ==
  ASSUME DecksTyped, Awaited, AllGood, NEW deckA \in Scene, NEW deckB \in Scene,
         NEW playsB \in BOOLEAN, NEW again \in SUBSET Slices, P!Sync(deckA, deckB, playsB, again)
  PROVE  /\ \E tA : Follows(tA, deckA, deckB, again)
         /\ DecksTyped' /\ Awaited' /\ moving' \in BOOLEAN
<1>1. PICK t0 \in Tables, tA \in Tables : Synced(t0, tA, deckA, deckB, again)
  BY SyncedIs
<1>2. P!Wanting(deckA) \in SUBSET Slices
  BY WantingIs
<1>3. ASSUME NEW s \in P!Wanting(deckA)
      PROVE  <<s, "A">> \in DOMAIN slots' /\ FromA(s, deckA[s], s \in again)
  <2>1. OnA(t0, slots', s, deckA[s], s \in again) /\ InstallDone(Base, t0) /\ s \in Slices
    BY <1>1, <1>2 DEF Synced
  <2> QED BY <2>1, FromAIs DEF OnA
<1>4. ASSUME NEW s \in Slices, <<s, "B">> \in DOMAIN slots'
      PROVE  FromB(s, deckB[s], s \in again)
  <2>1. OnB(t0, slots', s, deckB[s], s \in again) /\ InstallDone(Base, t0)
    BY <1>1, <1>4 DEF Synced
  <2> QED BY <2>1, FromBIs
<1>5. Follows(tA, deckA, deckB, again)
  <2>1. ASSUME NEW s \in Slices \ P!Wanting(deckA)
        PROVE  P!Same(tA, s, deckB) <=> P!HoldsKey([slots |-> slots], <<s, "A">>, deckB[s])
    BY <1>1, <2>1, HeldBefore DEF Synced
  <2> QED BY <1>1, <1>3, <1>4, <2>1 DEF Follows, Synced
<1>6. slots' \in SlotMaps /\ requests' \in Seq(Requests) /\ done' = <<>> /\ moving' \in BOOLEAN
      /\ Awaits([slots |-> slots', requests |-> requests'])
  BY <1>1 DEF Synced
<1>7. done' \in Seq(Answers) /\ DOMAIN done' = {}
  BY <1>6
<1> QED BY <1>5, <1>6, <1>7 DEF DecksTyped, Awaited, Base

-----------------------------------------------------------------------------
(* A synchronisation keeps the invariant.                                  *)

LEMMA SceneIs ==
  ASSUME cues \in CueLists, NEW n \in DOMAIN cues \cup {NoCue}
  PROVE  SceneOf(n) \in Scene
BY ScenesAssumption DEF SceneOf, Scene

LEMMA KeyOfSlot ==
  ASSUME DecksTyped, NEW k \in DOMAIN slots
  PROVE  /\ slots[k] \in Records /\ k \in Keys /\ slots[k].key \in P!Contents
         /\ k[1] \in Slices /\ (k = <<k[1], "A">> \/ k = <<k[1], "B">>)
<1>1. k \in Keys /\ slots[k] \in Records
  BY IsSlotMap DEF DecksTyped
<1>2. k = <<k[1], k[2]>> /\ k[1] \in Slices /\ k[2] \in {"A", "B"}
  BY <1>1, KeysFinite DEF P!Decks
<1> QED BY <1>1, <1>2, RecordIs

LEMMA NewSlots ==
  ASSUME DecksTyped', NEW deckA \in Scene, NEW deckB \in Scene, NEW again, NEW tA,
         Follows(tA, deckA, deckB, again), NEW k \in DOMAIN slots'
  PROVE  \/ \E s \in P!Wanting(deckA) : s \in Slices /\ k = <<s, "A">> /\ FromA(s, deckA[s], s \in again)
         \/ \E s \in P!Wanting(deckB) : s \in Slices /\ k = <<s, "B">> /\ FromB(s, deckB[s], s \in again)
<1>1. k[1] \in Slices /\ (k = <<k[1], "A">> \/ k = <<k[1], "B">>)
  <2>1. slots' \in SlotMaps
    BY DEF DecksTyped
  <2>2. k \in Keys
    BY <2>1, IsSlotMap
  <2> QED BY <2>2, KeysFinite DEF P!Decks
<1> QED BY <1>1 DEF Follows

LEMMA SyncGood ==
  ASSUME DecksTyped', NEW deckA \in Scene, NEW deckB \in Scene, NEW again, NEW tA,
         Follows(tA, deckA, deckB, again)
  PROVE  AllGood'
<1> SUFFICES ASSUME NEW k \in DOMAIN slots' PROVE Good(slots'[k])
  BY DEF AllGood
<1> QED BY NewSlots DEF FromA, FromB

LEMMA SyncApart ==
  ASSUME NEW deckA \in Scene, NEW deckB \in Scene, NEW again, NEW tA,
         Follows(tA, deckA, deckB, again)
  PROVE  Apart'
<1> SUFFICES ASSUME NEW s \in Slices, <<s, "B">> \in DOMAIN slots'
             PROVE  /\ s \notin alias'
                    /\ <<s, "A">> \in DOMAIN slots' => slots'[<<s, "A">>].key # slots'[<<s, "B">>].key
  BY DEF Apart
<1>1. s \in P!Wanting(deckB) /\ ~P!Same(tA, s, deckB) /\ FromB(s, deckB[s], s \in again)
  BY DEF Follows
<1>2. s \notin alias'
  BY <1>1 DEF Follows, Aliased
<1>3. ASSUME <<s, "A">> \in DOMAIN slots' PROVE slots'[<<s, "A">>].key # slots'[<<s, "B">>].key
  <2>1. s \in P!Wanting(deckA)
    BY <1>3 DEF Follows
  <2>2. FromA(s, deckA[s], s \in again) /\ deckA[s] # deckB[s]
    BY <1>1, <2>1 DEF Follows
  <2> QED BY <1>1, <2>2 DEF FromA, FromB
<1> QED BY <1>2, <1>3

LEMMA SyncVisible ==
  ASSUME DecksTyped', Apart, Visible, played = TRUE, played' = FALSE,
         NEW deckA \in Scene, NEW deckB \in Scene, NEW again, NEW tA,
         Follows(tA, deckA, deckB, again)
  PROVE  Visible'
<1> SUFFICES ASSUME NEW k \in Keys, Showing(k)'
             PROVE  /\ tex'[k] = slots'[k].key \/ slots'[k].reupload
                    /\ k[2] = "A" /\ k[1] \in alias' =>
                         tex'[<<k[1], "B">>] = slots'[k].key \/ k[1] \in fresh'
  BY Zenon DEF Visible
<1>1. k \in DOMAIN slots' /\ Live(slots'[k])
  BY DEF Showing, Live
<1>2. tex' = tex /\ fresh' = alias' \ alias
  BY DEF Follows
<1>3. \A j \in Keys : j \in DOMAIN slots /\ Live(slots[j]) =>
        /\ tex[j] = slots[j].key
        /\ j[2] = "A" /\ j[1] \in alias => tex[<<j[1], "B">>] = slots[j].key
  BY DEF Visible, Showing, Live
<1>4. ASSUME NEW s \in Slices, k = <<s, "A">>, NEW c, NEW g, FromA(s, c, g)
      PROVE  /\ tex'[k] = slots'[k].key \/ slots'[k].reupload
             /\ k[1] \in alias' => tex'[<<k[1], "B">>] = slots'[k].key \/ k[1] \in fresh'
  <2>1. k[1] = s /\ k[2] = "A" /\ slots'[k].key = c
    BY <1>4 DEF FromA
  <2>2. CASE P!HoldsKey([slots |-> slots], k, c) /\ Live(slots[k])
    <3>1. k \in DOMAIN slots /\ slots[k].key = c
      BY <2>2 DEF P!HoldsKey
    <3>2. tex[k] = c /\ (s \in alias => tex[<<s, "B">>] = c)
      BY <1>3, <2>1, <2>2, <3>1
    <3> QED BY <1>2, <2>1, <3>2
  <2>3. CASE P!HoldsKey([slots |-> slots], <<s, "B">>, c) /\ slots'[k].reupload
    <3>1. s \notin alias
      BY <2>3 DEF P!HoldsKey, Apart
    <3> QED BY <1>2, <2>1, <2>3, <3>1
  <2> QED BY <1>1, <1>4, <2>2, <2>3 DEF FromA
<1>5. ASSUME NEW s \in Slices, k = <<s, "B">>, NEW c, NEW g, FromB(s, c, g)
      PROVE  tex'[k] = slots'[k].key /\ k[2] # "A"
  <2>1. P!HoldsKey([slots |-> slots], k, c) /\ Live(slots[k]) /\ slots'[k].key = c
    BY <1>1, <1>5 DEF FromB
  <2>2. k \in DOMAIN slots /\ slots[k].key = c
    BY <2>1 DEF P!HoldsKey
  <2>3. tex[k] = c
    BY <1>3, <2>1, <2>2
  <2> QED BY <1>2, <1>5, <2>1, <2>3
<1> QED BY <1>1, <1>4, <1>5, NewSlots

LEMMA FrameDecks ==
  ASSUME IInv
  PROVE  /\ SceneOf(Frame.deckA) \in Scene /\ SceneOf(Frame.deckB) \in Scene
         /\ Frame.deckA = show.active
         /\ show.transition.to # NoCue => Frame.deckB = show.transition.to
         /\ Restarts \in SUBSET Slices /\ OnAir(show) \in DOMAIN cues \cup {NoCue}
         /\ OnAir(show) = IF show.transition.to # NoCue THEN Frame.deckB ELSE Frame.deckA
<1>1. /\ Frame.deckA = show.active
      /\ Frame.deckB = IF show.transition.to # NoCue THEN show.transition.to ELSE show.standby
  BY DEF Frame
<1>2. {show.active, show.standby, show.transition.to} \subseteq DOMAIN cues \cup {NoCue}
      /\ cues \in CueLists
  BY DEF IInv, Sound
<1> QED BY <1>1, <1>2, SceneIs DEF Restarts, OnAir

LEMMA RenderIs ==
  ASSUME SInv, Render
  PROVE  /\ \E tA : Follows(tA, SceneOf(Frame.deckA), SceneOf(Frame.deckB), Restarts)
         /\ DecksTyped' /\ Awaited' /\ moving' \in BOOLEAN
         /\ EmitFrame /\ played = TRUE /\ played' = FALSE
         /\ cues' = cues /\ show'.active = show.active /\ show'.transition = show.transition
         /\ show' \in Shows /\ IInv'
<1>1. EmitFrame /\ played' = FALSE
  BY DEF Render
<1>2. cues' = cues /\ show'.active = show.active /\ show'.transition = show.transition
  BY <1>1 DEF EmitFrame, SInv, IInv, Sound, Shows
<1>3. IInv' /\ show' \in Shows
  <2>1. IInv'
    BY <1>1, EmitFrameIInv DEF SInv
  <2> QED BY <2>1 DEF IInv, Sound
<1>4. played = TRUE
  BY <1>1 DEF SInv, EmitFrame
<1> DEFINE b == show.transition.to # NoCue /\ ~Frame.freezeB
<1>5. b \in BOOLEAN
  OBVIOUS
<1>6. P!Sync(SceneOf(Frame.deckA), SceneOf(Frame.deckB), b, Restarts)
  BY DEF Render
<1> HIDE DEF b
<1>7. /\ \E tA : Follows(tA, SceneOf(Frame.deckA), SceneOf(Frame.deckB), Restarts)
      /\ DecksTyped' /\ Awaited' /\ moving' \in BOOLEAN
  BY <1>5, <1>6, FrameDecks, FollowsIs DEF SInv
<1> QED BY <1>1, <1>2, <1>3, <1>4, <1>7

LEMMA RenderSInv == ASSUME SInv, Render PROVE SInv'
<1> DEFINE deckA == SceneOf(Frame.deckA)
           deckB == SceneOf(Frame.deckB)
<1>1. deckA \in Scene /\ deckB \in Scene
  BY FrameDecks DEF SInv
<1>2. PICK tA : Follows(tA, deckA, deckB, Restarts)
  BY RenderIs
<1>3. DecksTyped' /\ Awaited' /\ moving' \in BOOLEAN /\ played = TRUE /\ played' = FALSE /\ IInv'
      /\ cues' = cues /\ show'.active = show.active /\ show'.transition = show.transition
      /\ EmitFrame
  BY RenderIs
<1> HIDE DEF deckA, deckB
<1>4. AllGood' /\ Apart' /\ Visible'
  BY <1>1, <1>2, <1>3, SyncGood, SyncApart, SyncVisible DEF SInv
<1>5. TexTyped'
  <2>1. alias' \subseteq Slices /\ fresh' \subseteq alias' /\ tex' = tex
    BY <1>1, <1>2, WantingIs DEF Follows, Aliased
  <2> QED BY <1>3, <2>1 DEF SInv, TexTyped
<1>6. Settled'
  <2> SUFFICES ASSUME show.transition.to # NoCue, NEW k \in DOMAIN slots'
               PROVE  slots'[k].key = SceneOf(IF k[2] = "A" THEN show.active ELSE show.transition.to)[k[1]]
    BY <1>3 DEF Settled, SceneOf
  <2>1. Frame.deckA = show.active /\ Frame.deckB = show.transition.to
    BY FrameDecks DEF SInv
  <2>2. CASE \E s \in P!Wanting(deckA) : k = <<s, "A">> /\ FromA(s, deckA[s], s \in Restarts)
    BY <2>1, <2>2 DEF FromA, deckA
  <2>3. CASE \E s \in P!Wanting(deckB) : k = <<s, "B">> /\ FromB(s, deckB[s], s \in Restarts)
    BY <2>1, <2>3 DEF FromB, deckB
  <2> QED BY <1>1, <1>2, <1>3, <2>2, <2>3, NewSlots
<1>7. phase' = "idle"
  BY <1>3 DEF EmitFrame
<1> QED BY <1>3, <1>4, <1>5, <1>6, <1>7 DEF SInv

-----------------------------------------------------------------------------
(* What a synchronisation promises.                                        *)

LEMMA FrameEnds ==
  ASSUME PlaybackNext, phase = "frame", phase' = "idle"
  PROVE  Render
<1>1. ~Command /\ ~EditCues /\ ~EditMedia /\ ~StartTick /\ ~PlaySlots /\ ~Preload
  BY DEF Command, EditCues, EditMedia, StartTick, PlaySlots, Preload, Between, vars
<1>2. ~EngineStep
  BY DEF EngineStep, ApplyPending, ApplyGo, ApplyBack, ApplyGoto, ApplyStandby, ApplyPanic,
         Applying, FinishTransition, ChaseOff, Follow, CheckFollow
<1> QED BY <1>1, <1>2 DEF PlaybackNext, TickSteps

Served(s) ==
  LET a == SceneOf(Frame.deckA)[s]  b == SceneOf(Frame.deckB)[s]
      served == {k \in DOMAIN slots' : k[1] = s}
  IN  /\ (<<s, "A">> \in served) = (a # NoContent)
      /\ <<s, "A">> \in served => slots'[<<s, "A">>].key = a
      /\ (s \in alias') = (b # NoContent /\ (a = b \/ Stale(s, a, b)))
      /\ (<<s, "B">> \in served) = (b \notin {a, NoContent} /\ ~Stale(s, a, b))
      /\ <<s, "B">> \in served => slots'[<<s, "B">>].key = b

LEMMA ServedStep == ASSUME SInv, Render PROVE \A s \in Slices : Served(s)
<1> DEFINE deckA == SceneOf(Frame.deckA)
           deckB == SceneOf(Frame.deckB)
<1>1. PICK tA : Follows(tA, deckA, deckB, Restarts)
  BY RenderIs
<1> SUFFICES ASSUME NEW s \in Slices PROVE Served(s)
  OBVIOUS
<1> DEFINE served == {k \in DOMAIN slots' : k[1] = s}
<1>2. \A d \in {"A", "B"} : <<s, d>> \in served <=> <<s, d>> \in DOMAIN slots'
  OBVIOUS
<1>3. /\ s \in P!Wanting(deckA) <=> deckA[s] # NoContent
      /\ s \in P!Wanting(deckB) <=> deckB[s] # NoContent
  BY DEF P!Wanting
<1> HIDE DEF deckA, deckB, served
<1>4. /\ <<s, "A">> \in DOMAIN slots' <=> s \in P!Wanting(deckA)
      /\ <<s, "A">> \in DOMAIN slots' => FromA(s, deckA[s], s \in Restarts)
  BY <1>1 DEF Follows
<1>5. s \in alias' <=> s \in P!Wanting(deckB) /\ P!Same(tA, s, deckB)
  BY <1>1 DEF Follows, Aliased
<1>6. /\ <<s, "B">> \in DOMAIN slots' <=> s \in P!Wanting(deckB) /\ ~P!Same(tA, s, deckB)
      /\ <<s, "B">> \in DOMAIN slots' => FromB(s, deckB[s], s \in Restarts)
  BY <1>1 DEF Follows
\* Deck B shares what deck A wants, or what its slot held where it wants nothing.
<1>7. s \in P!Wanting(deckB) =>
        (P!Same(tA, s, deckB) <=> deckA[s] = deckB[s] \/ Stale(s, deckA[s], deckB[s]))
  <2>1. CASE s \in P!Wanting(deckA)
    <3>1. P!Same(tA, s, deckB) <=> deckA[s] = deckB[s]
      BY <1>1, <2>1 DEF Follows
    <3> QED BY <1>3, <2>1, <3>1 DEF Stale
  <2>2. CASE s \notin P!Wanting(deckA)
    <3>1. P!Same(tA, s, deckB) <=> P!HoldsKey([slots |-> slots], <<s, "A">>, deckB[s])
      BY <1>1, <2>2 DEF Follows
    <3> QED BY <1>3, <2>2, <3>1 DEF Stale
  <2> QED BY <2>1, <2>2
<1>8. <<s, "A">> \in DOMAIN slots' => slots'[<<s, "A">>].key = deckA[s]
  BY <1>4 DEF FromA
<1>9. <<s, "B">> \in DOMAIN slots' => slots'[<<s, "B">>].key = deckB[s]
  BY <1>6 DEF FromB
<1>10. /\ (<<s, "A">> \in served) = (deckA[s] # NoContent)
       /\ (s \in alias') = (deckB[s] # NoContent /\ (deckA[s] = deckB[s] \/ Stale(s, deckA[s], deckB[s])))
       /\ (<<s, "B">> \in served)
            = (deckB[s] \notin {deckA[s], NoContent} /\ ~Stale(s, deckA[s], deckB[s]))
  BY <1>2, <1>3, <1>4, <1>5, <1>6, <1>7
<1> QED BY <1>2, <1>8, <1>9, <1>10 DEF Served, served, deckA, deckB

\* The slots that show a content.
LEMMA ShownIs ==
  ASSUME NEW s \in Slices, NEW n, NEW k
  PROVE  k \in Shown(s, n) <=>
           /\ k \in {<<s, "A">>, <<s, "B">>}
           /\ k \in DOMAIN slots /\ slots[k].key = SceneOf(n)[s]
BY DEF Shown, P!HoldsKey, P!Decks

FromTop ==
  \A s \in Slices : \A k \in Shown(s, OnAir(show))' :
    slots'[k].kind = "video" => P!Entered(slots'[k])

LEMMA TopStep == ASSUME SInv, Render, OnAir(show) \in StartedNow PROVE FromTop
<1> DEFINE deckA == SceneOf(Frame.deckA)
           deckB == SceneOf(Frame.deckB)
           on == OnAir(show)
<1>1. deckA \in Scene /\ deckB \in Scene /\ on \in DOMAIN cues \cup {NoCue}
  BY FrameDecks DEF SInv
<1>2. PICK tA : Follows(tA, deckA, deckB, Restarts)
  BY RenderIs
<1>3. DecksTyped' /\ cues' = cues /\ OnAir(show)' = on /\ AllGood'
  <2>1. /\ DecksTyped' /\ cues' = cues
        /\ show'.active = show.active /\ show'.transition = show.transition
    BY RenderIs
  <2> QED BY <1>1, <1>2, <2>1, SyncGood DEF OnAir
<1> SUFFICES ASSUME NEW s \in Slices, NEW k, k \in Shown(s, OnAir(show))', slots'[k].kind = "video"
             PROVE  P!Entered(slots'[k])
  BY DEF FromTop
<1>4. k \in DOMAIN slots' /\ slots'[k].key = SceneOf(on)[s] /\ k \in {<<s, "A">>, <<s, "B">>}
  BY <1>3 DEF Shown, P!HoldsKey, P!Decks, SceneOf
<1>5. slots'[k].key \in Videos /\ slots'[k].key \in P!Contents
  <2>1. Good(slots'[k])
    BY <1>3, <1>4 DEF AllGood
  <2> QED BY <2>1 DEF Good, P!Contents, P!Media
<1>6. on # NoCue
  BY <1>4, <1>5, ScenesAssumption DEF SceneOf, P!ContentsAssumption
<1>7. s \in Restarts
  BY <1>1, <1>4, <1>5, <1>6 DEF Restarts, P!Media
<1> HIDE DEF deckA, deckB, on
<1>8. CASE \E r \in P!Wanting(deckA) : k = <<r, "A">> /\ FromA(r, deckA[r], r \in Restarts)
  BY <1>4, <1>7, <1>8 DEF FromA
<1>9. CASE \E r \in P!Wanting(deckB) : k = <<r, "B">> /\ FromB(r, deckB[r], r \in Restarts)
  BY <1>4, <1>7, <1>9 DEF FromB
<1> QED BY <1>1, <1>2, <1>3, <1>4, <1>8, <1>9, NewSlots

Continues ==
  \A s \in Slices : \A k \in Shown(s, OnAir(show)) :
    slots[k].kind = "video" =>
      \E j \in Shown(s, OnAir(show))' :
        slots'[j].gen = slots[k].gen /\ slots'[j].at = slots[k].at

LEMMA ContinuesStep == ASSUME SInv, Render, StartedNow = {} PROVE Continues
<1> DEFINE deckA == SceneOf(Frame.deckA)
           deckB == SceneOf(Frame.deckB)
           on == OnAir(show)
<1>1. deckA \in Scene /\ deckB \in Scene
  BY FrameDecks DEF SInv
<1>2. PICK tA : Follows(tA, deckA, deckB, Restarts)
  BY RenderIs
<1>3. cues' = cues /\ OnAir(show)' = on /\ Restarts = {}
  <2>1. cues' = cues /\ show'.active = show.active /\ show'.transition = show.transition
    BY RenderIs
  <2> QED BY <2>1 DEF OnAir, Restarts
<1> SUFFICES ASSUME NEW s \in Slices, NEW k, k \in Shown(s, on), slots[k].kind = "video"
             PROVE  \E j \in Shown(s, OnAir(show))' :
                      slots'[j].gen = slots[k].gen /\ slots'[j].at = slots[k].at
  BY DEF Continues
<1> DEFINE a == <<s, "A">>
           b == <<s, "B">>
           c == SceneOf(on)[s]
<1>4. k \in DOMAIN slots /\ slots[k].key = c /\ k \in {a, b}
  BY ShownIs
<1>5. slots[k] \in Records /\ c \in P!Contents /\ c # NoContent
  <2>1. slots[k] \in Records /\ slots[k].key \in P!Contents
    BY <1>4, KeyOfSlot DEF SInv
  <2> QED BY <1>4, <2>1, ScenesAssumption DEF P!ContentsAssumption
<1>6. ASSUME NEW j \in {a, b}, j \in DOMAIN slots', slots'[j].key = c
      PROVE  j \in Shown(s, OnAir(show))'
  BY <1>3, <1>6 DEF Shown, P!HoldsKey, P!Decks, SceneOf
<1>7. ASSUME NEW y, Kept(slots[k], y, FALSE)
      PROVE  y.gen = slots[k].gen /\ y.at = slots[k].at
  BY <1>7 DEF Kept
<1>8. s \notin Restarts
  BY <1>3
\* Deck A has the content on air: the slot is there, or is moved there.
<1>9. CASE deckA[s] = c
  <2>1. s \in P!Wanting(deckA)
    BY <1>5, <1>9 DEF P!Wanting
  <2>2. a \in DOMAIN slots' /\ FromA(s, c, FALSE)
    <3>1. a \in DOMAIN slots' /\ FromA(s, deckA[s], s \in Restarts)
      BY <1>2, <2>1 DEF Follows
    <3>2. (s \in Restarts) = FALSE
      BY <1>8
    <3> QED BY <1>9, <3>1, <3>2
  <2>3. P!HoldsKey([slots |-> slots], k, c)
    BY <1>4 DEF P!HoldsKey
  <2>4. Kept(slots[k], slots'[a], FALSE)
    <3>1. CASE k = a
      BY <2>2, <2>3, <3>1 DEF FromA
    <3>2. CASE k = b
      <4>1. ~P!HoldsKey([slots |-> slots], a, c)
        BY <1>4, <3>2 DEF SInv, Apart, P!HoldsKey
      <4> QED BY <2>2, <2>3, <3>2, <4>1 DEF FromA
    <3> QED BY <1>4, <3>1, <3>2
  <2>5. slots'[a].key = c
    BY <2>2 DEF FromA
  <2> QED BY <1>6, <1>7, <2>2, <2>4, <2>5
\* Otherwise a fade is running, and the slot is that of deck B.
<1>10. CASE deckA[s] # c
  <2>1. show.transition.to # NoCue /\ deckB[s] = c
    BY <1>10, FrameDecks DEF SInv
  <2>2. slots[k].key = SceneOf(IF k[2] = "A" THEN show.active ELSE show.transition.to)[s]
    <3>1. Settled /\ k[1] = s
      BY <1>4 DEF SInv
    <3> QED BY <1>4, <2>1, <3>1 DEF Settled
  <2>3. k = b
    <3>1. Frame.deckA = show.active
      BY FrameDecks DEF SInv
    <3>2. k = a => slots[k].key = deckA[s]
      BY <2>2, <3>1
    <3> QED BY <1>4, <1>10, <3>2
  <2>4. s \in P!Wanting(deckB)
    BY <1>5, <2>1 DEF P!Wanting
  <2>5. ~P!Same(tA, s, deckB)
    <3>1. CASE s \in P!Wanting(deckA)
      BY <1>2, <1>10, <2>1, <3>1 DEF Follows
    <3>2. CASE s \notin P!Wanting(deckA)
      <4>1. P!Same(tA, s, deckB) => a \in DOMAIN slots
        BY <1>2, <3>2 DEF Follows, P!HoldsKey
      <4>2. ASSUME a \in DOMAIN slots PROVE FALSE
        <5>1. slots[a].key = SceneOf(show.active)[s] /\ Settled
          BY <2>1, <4>2 DEF SInv, Settled
        <5>2. slots[a].key \in P!Contents
          BY <4>2, KeyOfSlot DEF SInv
        <5>3. deckA[s] = NoContent /\ Frame.deckA = show.active
          BY <3>2, FrameDecks DEF SInv, P!Wanting
        <5> QED BY <5>1, <5>2, <5>3, ScenesAssumption DEF P!ContentsAssumption
      <4> QED BY <4>1, <4>2
    <3> QED BY <3>1, <3>2
  <2>6. b \in DOMAIN slots' /\ FromB(s, c, FALSE)
    <3>1. b \in DOMAIN slots' /\ FromB(s, deckB[s], s \in Restarts)
      BY <1>2, <2>4, <2>5 DEF Follows
    <3>2. (s \in Restarts) = FALSE
      BY <1>8
    <3> QED BY <2>1, <3>1, <3>2
  <2>7. Kept(slots[b], slots'[b], FALSE) /\ slots'[b].key = c
    BY <1>4, <2>3, <2>6 DEF FromB, P!HoldsKey
  <2> QED BY <1>6, <1>7, <2>3, <2>6, <2>7
<1> QED BY <1>9, <1>10

-----------------------------------------------------------------------------
(* advance() and poll_uploads().                                           *)

Ats == {"cold", "ready", "on", "end", "black"}

LEMMA PolledIs ==
  ASSUME NEW k, NEW p \in P!Polls
  PROVE  /\ P!Polled(k, p) \in {"unasked", "nothing", "frame", "end"}
         /\ P!Polled(k, p) = "unasked" /\ slots[k].kind = "video" /\ k[2] = "A"
              => slots[k].at \in {"end", "black"}
         /\ P!Polled(k, p) # "unasked" => slots[k].kind = "video"
BY DEF P!Polled, P!Polls, P!Ended, P!Runs

LEMMA PlayedAtIs ==
  ASSUME NEW k, slots[k] \in Records, NEW p \in P!Polls
  PROVE  /\ P!PlayedAt(k, p) \in Ats
         /\ P!PlayedAt(k, p) \in {"ready", "on"} /\ slots[k].kind = "video" =>
              /\ slots[k].at = "end" => slots[k].key \notin BlackEnds
              /\ P!Polled(k, p) = "frame" \/ slots[k].at \in {"ready", "on"}
<1> DEFINE sl == slots[k]
           q == P!Polled(k, p)
           at == IF sl.kind = "video" /\ sl.at = "ready" /\ P!Runs(k) THEN "on" ELSE sl.at
<1>1. sl.at \in Ats /\ at \in Ats
  BY RecordIs DEF Ats
<1>2. CASE sl.kind \in {"image", "color"}
  BY <1>2 DEF P!PlayedAt, Ats
<1>3. CASE sl.kind \notin {"image", "color"} /\ sl.kind = "video" /\ sl.at = "end" /\ sl.key \in BlackEnds
  BY <1>3 DEF P!PlayedAt, Ats
<1>4. CASE sl.kind \notin {"image", "color"} /\ ~(sl.kind = "video" /\ sl.at = "end" /\ sl.key \in BlackEnds)
  <2>1. P!PlayedAt(k, p) = CASE q = "end" -> "end"
                             [] q = "frame" /\ at = "cold" -> "ready"
                             [] OTHER -> at
    BY <1>4 DEF P!PlayedAt
  <2> HIDE DEF q
  <2>2. CASE q = "end"
    <3>1. P!PlayedAt(k, p) = "end"
      BY <2>1, <2>2
    <3> QED BY <3>1 DEF Ats
  <2>3. CASE q = "frame"
    <3>1. P!PlayedAt(k, p) = "ready" \/ P!PlayedAt(k, p) = at
      BY <2>1, <2>3
    <3> QED BY <1>1, <1>4, <2>3, <3>1 DEF Ats, q
  <2>4. CASE q # "end" /\ q # "frame"
    <3>1. P!PlayedAt(k, p) = at
      BY <2>1, <2>4
    <3> QED BY <1>1, <1>4, <3>1
  <2> QED BY <2>2, <2>3, <2>4
<1> QED BY <1>2, <1>3, <1>4

LEMMA PlayedIs ==
  ASSUME NEW k, slots[k] \in Records, Good(slots[k]), NEW p \in P!Polls,
         NEW b, b = P!Played(k, p)
  PROVE  /\ b \in Records /\ Good(b) /\ b.key = slots[k].key /\ b.kind = slots[k].kind
         /\ b.gen = slots[k].gen
         /\ Live(b) =>
              /\ P!Polled(k, p) = "frame" \/ Live(slots[k])
              /\ slots[k].at = "end" => slots[k].key \notin BlackEnds
<1> DEFINE sl == slots[k]
           at == P!PlayedAt(k, p)
           polled == P!Polled(k, p) = "frame"
           shown == sl.shown \/ polled
<1>1. CASE sl.kind \in {"pending", "missing"}
  <2>1. b = sl
    BY <1>1 DEF P!Played
  <2> QED BY <1>1, <2>1 DEF Live
<1>2. CASE sl.kind \notin {"pending", "missing"}
  <2>1. b = [sl EXCEPT !.at = at, !.reupload = FALSE, !.shown = shown]
    BY <1>2 DEF P!Played
  <2>2. at \in Ats /\ shown \in BOOLEAN
    BY PlayedAtIs, RecordIs
  <2>3. at \in {"ready", "on"} /\ sl.kind = "video" =>
          /\ sl.at = "end" => sl.key \notin BlackEnds
          /\ polled \/ sl.at \in {"ready", "on"}
    BY PlayedAtIs
  <2> HIDE DEF at, shown, polled
  <2>4. /\ b \in Records /\ b.key = sl.key /\ b.kind = sl.kind /\ b.gen = sl.gen
        /\ b.holds = sl.holds /\ b.at = at /\ b.shown = shown
    BY <2>1, <2>2 DEF Records, P!SlotRecords, Ats
  <2>5. Live(b) => at \in {"ready", "on"} /\ sl.kind = "video"
    BY <2>4 DEF Live
  <2>6. Live(b) => polled \/ Live(sl)
    BY <2>3, <2>5 DEF Live
  <2>7. Live(b) => b.shown
    <3>1. Live(sl) => sl.shown
      BY DEF Good, Live
    <3>2. polled \/ sl.shown => shown
      BY DEF shown
    <3> QED BY <2>4, <2>6, <3>1, <3>2
  <2>8. Good(b)
    BY <1>2, <2>4, <2>7 DEF Good, Live
  <2> QED BY <2>3, <2>4, <2>5, <2>6, <2>8 DEF polled
<1> QED BY <1>1, <1>2

\* What is uploaded is a content.
LEMMA UploadedIs ==
  ASSUME DecksTyped, NEW p \in P!Polls
  PROVE  /\ \A k \in DOMAIN slots : P!Uploaded(k, p) \in P!Contents \cup {NoContent, Black}
         /\ \A s : P!UploadedTwin(s, p) \in P!Contents \cup {NoContent, Black}
<1>1. \A k \in DOMAIN slots : slots[k].holds \in P!Contents \cup {NoContent}
  BY KeyOfSlot, RecordIs
<1> QED BY <1>1 DEF P!Uploaded, P!UploadedTwin

\* The texture of a slot that shows a frame, and that of its alias.
LEMMA OwnTexture ==
  ASSUME DecksTyped, AllGood, Apart, Visible, NEW k \in DOMAIN slots, NEW p \in P!Polls,
         Live(P!Played(k, p))
  PROVE  P!Uploaded(k, p) = slots[k].key \/ (P!Uploaded(k, p) = NoContent /\ tex[k] = slots[k].key)
<1>1. /\ slots[k] \in Records /\ Good(slots[k]) /\ k \in Keys
  BY KeyOfSlot DEF AllGood
<1>2. /\ P!Polled(k, p) = "frame" \/ Live(slots[k])
      /\ slots[k].at = "end" => slots[k].key \notin BlackEnds
      /\ slots[k].kind = "video"
  BY <1>1, PlayedIs DEF Live
<1>3. slots[k].holds = slots[k].key
  BY <1>1, <1>2 DEF Good
<1>4. P!Uploaded(k, p) = IF P!Polled(k, p) = "frame" \/ (slots[k].reupload /\ slots[k].shown)
                         THEN slots[k].key ELSE NoContent
  BY <1>2, <1>3 DEF P!Uploaded
<1>5. CASE P!Polled(k, p) = "frame"
  BY <1>4, <1>5
<1>6. CASE Live(slots[k])
  <2>1. slots[k].shown /\ (tex[k] = slots[k].key \/ slots[k].reupload)
    BY <1>1, <1>6 DEF Good, Live, Visible, Showing
  <2> QED BY <1>4, <2>1
<1> QED BY <1>2, <1>5, <1>6

LEMMA TwinTexture ==
  ASSUME DecksTyped, AllGood, Apart, Visible, NEW s \in alias, NEW k, k = <<s, "A">>, k \in DOMAIN slots,
         NEW p \in P!Polls, Live(P!Played(k, p))
  PROVE  \/ P!UploadedTwin(s, p) = slots[k].key
         \/ P!UploadedTwin(s, p) = NoContent /\ tex[<<s, "B">>] = slots[k].key
<1>1. /\ slots[k] \in Records /\ Good(slots[k]) /\ k \in Keys /\ k[1] = s /\ k[2] = "A"
  BY KeyOfSlot DEF AllGood
<1>2. /\ P!Polled(k, p) = "frame" \/ Live(slots[k])
      /\ slots[k].at = "end" => slots[k].key \notin BlackEnds
      /\ slots[k].kind = "video"
  BY <1>1, PlayedIs DEF Live
<1>3. slots[k].holds = slots[k].key
  BY <1>1, <1>2 DEF Good
<1>4. P!UploadedTwin(s, p) =
        IF \/ P!Polled(k, p) = "frame"
           \/ P!Polled(k, p) \in {"nothing", "end"} /\ s \in fresh /\ slots[k].shown
        THEN slots[k].key ELSE NoContent
  BY <1>2, <1>3 DEF P!UploadedTwin
<1>5. CASE P!Polled(k, p) = "frame"
  BY <1>4, <1>5
<1>6. CASE Live(slots[k]) /\ P!Polled(k, p) # "frame"
  <2>1. slots[k].shown /\ (tex[<<s, "B">>] = slots[k].key \/ s \in fresh)
    BY <1>1, <1>6 DEF Good, Live, Visible, Showing
  <2>2. P!Polled(k, p) \in {"nothing", "end"}
    BY <1>1, <1>6, PolledIs DEF Live
  <2> QED BY <1>4, <2>1, <2>2
<1> QED BY <1>2, <1>5, <1>6

\* The contents of the slots and the cues stay as they are.
LEMMA SettledStays ==
  ASSUME Settled, show' = show, cues' = cues, DOMAIN slots' \subseteq DOMAIN slots,
         \A k \in DOMAIN slots' : slots'[k].key = slots[k].key
  PROVE  Settled'
<1>1. StartedNow' = StartedNow
  BY DEF StartedNow
<1>2. \A n : (IF n = NoCue THEN [s \in Slices |-> NoContent] ELSE Scenes[cues'][n]) = SceneOf(n)
  BY DEF SceneOf
<1> QED BY <1>1, <1>2 DEF Settled, SceneOf

LEMMA PlaySInv == ASSUME SInv, PlaySlots PROVE SInv'
<1>1. PICK poll \in [DOMAIN slots -> P!Polls] : P!Play(poll)
  BY DEF PlaySlots
<1>2. /\ played' = TRUE /\ UNCHANGED vars /\ UNCHANGED <<alias, fresh, moving, requests, done>>
      /\ slots' = [k \in DOMAIN slots |-> P!Played(k, poll[k])]
  BY <1>1 DEF PlaySlots, P!Play
<1>3. ASSUME NEW k \in DOMAIN slots
      PROVE  /\ slots'[k] \in Records /\ Good(slots'[k]) /\ slots'[k].key = slots[k].key
             /\ slots'[k].kind = slots[k].kind /\ slots'[k].gen = slots[k].gen
             /\ slots'[k] = P!Played(k, poll[k]) /\ poll[k] \in P!Polls
  <2>1. slots[k] \in Records /\ Good(slots[k]) /\ poll[k] \in P!Polls
    BY KeyOfSlot DEF SInv, AllGood
  <2>2. slots'[k] = P!Played(k, poll[k])
    BY <1>2
  <2> QED BY <2>1, <2>2, PlayedIs
<1>4. DOMAIN slots' = DOMAIN slots
  BY <1>2
<1> DEFINE own(k) == IF k \in DOMAIN slots THEN P!Uploaded(k, poll[k]) ELSE NoContent
           twin(k) == IF k[2] = "B" /\ <<k[1], "A">> \in DOMAIN slots
                      THEN P!UploadedTwin(k[1], poll[<<k[1], "A">>]) ELSE NoContent
           new(k) == IF twin(k) # NoContent THEN twin(k)
                     ELSE IF own(k) # NoContent THEN own(k) ELSE tex[k]
<1>5. tex' = [k \in Keys |-> new(k)]
  BY <1>1 DEF P!Play, Keys
<1>6. DecksTyped'
  <2>1. slots' \in [DOMAIN slots -> Records] /\ DOMAIN slots \in SUBSET Keys
    BY <1>2, <1>3, IsSlotMap DEF SInv, DecksTyped
  <2>2. slots' \in SlotMaps
    BY <2>1, IsSlotMap
  <2> QED BY <1>2, <2>2 DEF SInv, DecksTyped
<1>7. AllGood'
  BY <1>3, <1>4 DEF AllGood
<1>8. Apart'
  BY <1>2, <1>3, <1>4 DEF SInv, Apart
<1>9. Awaited'
  BY <1>2, <1>3, <1>4 DEF SInv, Awaited, Awaits, Meet, Answers1, Base
<1>10. TexTyped'
  <2>1. \A k \in Keys : own(k) \in P!Contents \cup {NoContent, Black}
    BY <1>3, UploadedIs DEF SInv
  <2>2. \A k \in Keys : twin(k) \in P!Contents \cup {NoContent, Black}
    BY <1>3, UploadedIs DEF SInv
  <2> HIDE DEF own, twin
  <2>3. \A k \in Keys : new(k) \in P!Contents \cup {NoContent, Black}
    BY <2>1, <2>2 DEF SInv, TexTyped
  <2> HIDE DEF new
  <2>4. tex' \in [Keys -> P!Contents \cup {NoContent, Black}]
    BY <1>5, <2>3
  <2> QED BY <1>2, <2>4 DEF SInv, TexTyped
<1>11. Visible'
  <2> SUFFICES ASSUME NEW k \in Keys, k \in DOMAIN slots, Live(slots'[k])
               PROVE  /\ tex'[k] = slots'[k].key
                      /\ k[2] = "A" /\ k[1] \in alias => tex'[<<k[1], "B">>] = slots'[k].key
    BY <1>2, <1>4, Zenon DEF Visible, Showing, Live
  <2>1. Live(P!Played(k, poll[k])) /\ poll[k] \in P!Polls /\ slots'[k].key = slots[k].key
    BY <1>3
  <2>2. slots[k].key \in P!Contents /\ slots[k].key # NoContent /\ k[1] \in Slices
        /\ (k = <<k[1], "A">> \/ k = <<k[1], "B">>)
    BY KeyOfSlot, ScenesAssumption DEF SInv, P!ContentsAssumption
  <2>3. twin(k) = NoContent
    <3>1. k[2] = "B" => k = <<k[1], "B">>
      BY <2>2
    <3>2. k[2] = "B" => k[1] \notin alias
      BY <2>2, <3>1 DEF SInv, Apart
    <3> QED BY <3>2 DEF P!UploadedTwin
  <2>4. own(k) = slots[k].key \/ (own(k) = NoContent /\ tex[k] = slots[k].key)
    BY <2>1, OwnTexture DEF SInv
  <2>5. tex'[k] = slots[k].key
    <3>1. tex'[k] = new(k)
      BY <1>5
    <3> HIDE DEF own, twin
    <3> QED BY <2>2, <2>3, <2>4, <3>1
  <2>6. ASSUME k[2] = "A", k[1] \in alias PROVE tex'[<<k[1], "B">>] = slots[k].key
    <3> DEFINE s == k[1]
               b == <<s, "B">>
    <3>1. k = <<s, "A">> /\ s \in Slices /\ b \in Keys /\ b[1] = s /\ b[2] = "B"
      BY <2>2, <2>6, DecksAre
    <3>2. b \notin DOMAIN slots
      BY <2>6, <3>1 DEF SInv, Apart
    <3>3. twin(b) = P!UploadedTwin(s, poll[k])
      BY <3>1
    <3>4. own(b) = NoContent
      BY <3>2
    <3>5. twin(b) = slots[k].key \/ (twin(b) = NoContent /\ tex[b] = slots[k].key)
      BY <2>1, <2>6, <3>1, <3>3, TwinTexture DEF SInv
    <3>6. tex'[b] = new(b)
      BY <1>5, <3>1
    <3> HIDE DEF own, twin
    <3> QED BY <2>2, <3>4, <3>5, <3>6
  <2> QED BY <2>1, <2>5, <2>6
<1>12. IInv' /\ Settled'
  <2>1. IInv'
    BY <1>2, NextIInv DEF SInv
  <2>2. show' = show /\ cues' = cues
    BY <1>2 DEF vars
  <2> QED BY <1>3, <1>4, <2>1, <2>2, SettledStays DEF SInv
<1> QED BY <1>2, <1>6, <1>7, <1>8, <1>9, <1>10, <1>11, <1>12 DEF SInv

-----------------------------------------------------------------------------
(* The other steps.                                                        *)

LEMMA SetToSeqIs ==
  ASSUME NEW S, IsFiniteSet(S)
  PROVE  P!SetToSeq(S) \in Seq(S)
<1> DEFINE n == Cardinality(S)
           ok(f) == f \in [1 .. n -> S] /\ IsInjective(f)
<1>1. n \in Nat /\ ExistsBijection(1 .. n, S)
  BY FS_CardinalityType
<1>2. \E f \in [1 .. n -> S] : IsInjective(f)
  <2>1. \E f : f \in Bijection(1 .. n, S)
    BY <1>1 DEF ExistsBijection
  <2> QED BY <2>1 DEF Bijection, Injection
<1>3. P!SetToSeq(S) = CHOOSE f \in [1 .. n -> S] : IsInjective(f)
  BY DEF P!SetToSeq, P!IsInjective, IsInjective, P!Cardinality, Cardinality
<1> HIDE DEF n
<1>4. P!SetToSeq(S) \in [1 .. n -> S]
  BY <1>2, <1>3
<1> QED BY <1>1, <1>4, IsASeq

LEMMA ClearTyped ==
  ASSUME SInv, P!Clear
  PROVE  requests' \in Seq(Requests)
<1> DEFINE V == {j \in DOMAIN slots : slots[j].kind = "video"}
           mk(k) == [op |-> "dispose", gen |-> slots[k].gen, key |-> NoContent]
           g == [k \in V |-> mk(k)]
           S == {mk(k) : k \in V}
<1>1. IsFiniteSet(S)
  <2>1. IsFiniteSet(V)
    <3>1. V \in SUBSET Keys
      BY IsSlotMap DEF SInv, DecksTyped
    <3> QED BY <3>1, KeysFinite, FS_Subset
  <2>2. g \in Surjection(V, S)
    BY DEF Surjection
  <2> HIDE DEF g, S, V
  <2> QED BY <2>1, <2>2, FS_Surjection
<1>2. S \subseteq Requests
  <2>1. \A k \in V : slots[k].gen \in Nat
    BY KeyOfSlot, RecordIs DEF SInv
  <2> QED BY <2>1 DEF Requests
<1>3. requests' = requests \o P!SetToSeq(S)
  BY DEF P!Clear
<1> HIDE DEF S
<1>4. P!SetToSeq(S) \in Seq(Requests)
  <2>1. P!SetToSeq(S) \in Seq(S)
    BY <1>1, SetToSeqIs
  <2> QED BY <1>2, <2>1
<1>5. requests \in Seq(Requests)
  BY DEF SInv, DecksTyped
<1> QED BY <1>3, <1>4, <1>5

LEMMA ClearSInv == ASSUME SInv, EditMedia PROVE SInv'
<1>1. /\ slots' = <<>> /\ alias' = {} /\ fresh' = {} /\ UNCHANGED <<moving, done, tex>>
      /\ UNCHANGED vars /\ played' = played /\ P!Clear
  BY DEF EditMedia, P!Clear
<1>2. DOMAIN slots' = {} /\ slots' \in SlotMaps
  <2>1. <<>> \in [{} -> Records] /\ {} \in SUBSET Keys
    OBVIOUS
  <2>2. <<>> \in SlotMaps
    BY <2>1, IsSlotMap
  <2> QED BY <1>1, <2>2
<1>3. requests' \in Seq(Requests)
  BY <1>1, ClearTyped
<1>4. DecksTyped' /\ TexTyped'
  BY <1>1, <1>2, <1>3 DEF SInv, DecksTyped, TexTyped
<1>5. Awaited' /\ AllGood' /\ Apart' /\ Visible' /\ Settled'
  BY <1>2 DEF Awaited, Awaits, Answers1, Base, AllGood, Apart, Visible, Showing, Settled
<1>6. IInv' /\ phase' = phase
  BY <1>1, NextIInv DEF SInv, vars
<1> QED BY <1>1, <1>4, <1>5, <1>6 DEF SInv

LEMMA PreloadSInv == ASSUME SInv, Preload PROVE SInv'
<1> DEFINE r == Head(requests)
<1>1. /\ requests # <<>> /\ requests' = Tail(requests)
      /\ UNCHANGED <<slots, alias, fresh, moving, tex>> /\ UNCHANGED vars /\ played' = played
      /\ \/ /\ r.op = "load"
            /\ \E ok \in BOOLEAN : done' = Append(done, [gen |-> r.gen, key |-> r.key, ok |-> ok])
         \/ done' = done
  BY DEF Preload, P!Load
<1>2. /\ requests \in Seq(Requests) /\ done \in Seq(Answers)
      /\ \A k \in DOMAIN slots, i \in DOMAIN requests : Meet(slots[k], requests[i])
      /\ \A k \in DOMAIN slots, i \in DOMAIN done :
           slots[k].kind = "pending" /\ slots[k].gen = done[i].gen => slots[k].key = done[i].key
  BY DEF SInv, DecksTyped, Awaited, Awaits, Answers1, Base
<1>3. /\ Tail(requests) \in Seq(Requests) /\ r \in Requests /\ 1 \in DOMAIN requests /\ r = requests[1]
      /\ \A i \in DOMAIN Tail(requests) : i + 1 \in DOMAIN requests /\ Tail(requests)[i] = requests[i + 1]
  BY <1>1, <1>2
<1>4. \A k \in DOMAIN slots, i \in DOMAIN requests' : Meet(slots[k], requests'[i])
  BY <1>1, <1>2, <1>3
<1>5. ASSUME NEW k \in DOMAIN slots, r.op = "load", slots[k].kind = "pending", slots[k].gen = r.gen
      PROVE  slots[k].key = r.key
  <2>1. Meet(slots[k], r)
    BY <1>2, <1>3
  <2> QED BY <1>5, <2>1 DEF Meet
<1> HIDE DEF r
<1>6. /\ done' \in Seq(Answers)
      /\ \A k \in DOMAIN slots, i \in DOMAIN done' :
           slots[k].kind = "pending" /\ slots[k].gen = done'[i].gen => slots[k].key = done'[i].key
  <2>1. CASE done' = done
    BY <1>2, <2>1
  <2>2. ASSUME r.op = "load", NEW ok \in BOOLEAN,
               done' = Append(done, [gen |-> r.gen, key |-> r.key, ok |-> ok])
        PROVE  /\ done' \in Seq(Answers)
               /\ \A k \in DOMAIN slots, i \in DOMAIN done' :
                    slots[k].kind = "pending" /\ slots[k].gen = done'[i].gen => slots[k].key = done'[i].key
    <3> DEFINE ans == [gen |-> r.gen, key |-> r.key, ok |-> ok]
    <3>1. ans \in Answers /\ ans.gen = r.gen /\ ans.key = r.key
      <4>1. r.gen \in Nat /\ r.key \in P!Contents
        BY <1>3, <2>2 DEF Requests
      <4> QED BY <4>1 DEF Answers
    <3> HIDE DEF ans
    <3>2. done' = Append(done, ans)
      BY <2>2 DEF ans
    <3>3. /\ done' \in Seq(Answers)
          /\ \A i \in DOMAIN done' : (i \in DOMAIN done /\ done'[i] = done[i]) \/ done'[i] = ans
      BY <1>2, <3>1, <3>2
    <3> QED BY <1>2, <1>5, <2>2, <3>1, <3>3
  <2> QED BY <1>1, <2>1, <2>2
<1>7. DecksTyped' /\ TexTyped' /\ Awaited'
  BY <1>1, <1>3, <1>4, <1>6
     DEF SInv, DecksTyped, TexTyped, Awaited, Awaits, Answers1, Base
<1>8. AllGood' /\ Apart' /\ Visible'
  BY <1>1 DEF SInv, AllGood, Apart, Visible, Showing
<1>9. IInv' /\ Settled' /\ phase' = phase
  <2>1. IInv'
    BY <1>1, NextIInv DEF SInv
  <2>2. Settled'
    BY <1>1, SettledStays DEF SInv, vars
  <2> QED BY <1>1, <2>1, <2>2 DEF vars
<1> QED BY <1>1, <1>7, <1>8, <1>9 DEF SInv

\* A step of the engine alone, between two synchronisations: a fade it leaves
\* running without starting a cue was running before.
LEMMA EngineSettled ==
  ASSUME IInv, Settled, Next, ~EmitFrame, slots' = slots
  PROVE  Settled'
<1> SUFFICES ASSUME show'.transition.to # NoCue, StartedNow' = {} PROVE Settled'
  BY DEF Settled
<1>1. Shape /\ Posts
  BY NextShape
<1>2. PICK e : Adds(cues, show, e, show') /\ ~Has(e, "started")
  <2>1. CASE \E e : Adds(cues, show, e, show')
    <3>1. PICK e : Adds(cues, show, e, show')
      BY <2>1
    <3>2. Has(e, "started") => \E j \in DOMAIN show'.events : show'.events[j].type = "started"
      BY <3>1, StepAdds
    <3>3. ~\E j \in DOMAIN show'.events : show'.events[j].type = "started"
      BY DEF StartedNow
    <3> QED BY <3>1, <3>2, <3>3
  <2>2. CASE show' = Fresh(cues')
    BY <2>2 DEF Fresh, NoTransition
  <2>3. CASE phase = "frame" /\ show'.events = <<>>
    <3>1. EmitFrame
      BY <2>3 DEF Next, SessionStep, TickStep, Enqueue, Load, LoadHot, BeginTick, ApplyPending,
             ApplyGo, ApplyBack, ApplyGoto, ApplyStandby, ApplyPanic, Applying, FinishTransition,
             CheckChase, ChaseOff, ChaseLocked, ChaseUnlocked, ChaseFire, CheckFollow
    <3> QED BY <3>1
  <2> QED BY <1>1, <2>1, <2>2, <2>3 DEF Posts
<1>3. ~Happens("started")
  BY <1>2, StepAdds
<1>4. StartedNow = {}
  <2>1. show.events \in Seq(Events) /\ e \in Seq(Events) /\ show'.events = show.events \o e
    BY <1>2, EventsTyped DEF Adds
  <2>2. \A i \in DOMAIN show.events : i \in DOMAIN show'.events /\ show'.events[i] = show.events[i]
    BY <2>1, Followed
  <2> QED BY <2>2 DEF StartedNow
<1>5. cues' = cues /\ show'.active = show.active /\ show'.transition.to = show.transition.to
  BY <1>1, <1>3 DEF Shape, Rests, Pins, Plays, Lands, Darkens, Misses, Loads, Edits, SameShow
<1> QED BY <1>4, <1>5 DEF Settled, SceneOf

LEMMA EngineSInv ==
  ASSUME SInv, Next, ~EmitFrame, UNCHANGED <<decks, played>>, played = TRUE
  PROVE  SInv'
<1>1. UNCHANGED <<slots, alias, fresh, moving, requests, done, tex>> /\ played' = TRUE
  BY DEF decks
<1>2. IInv' /\ Settled'
  BY <1>1, NextIInv, EngineSettled DEF SInv
<1>3. DecksTyped' /\ TexTyped' /\ Awaited' /\ AllGood' /\ Apart' /\ Visible'
  BY <1>1 DEF SInv, DecksTyped, TexTyped, Awaited, Awaits, Answers1, Base, AllGood, Apart,
              Visible, Showing
<1> QED BY <1>1, <1>2, <1>3 DEF SInv

-----------------------------------------------------------------------------
(* The theorems.                                                           *)

LEMMA InitSInv == PlaybackInit => SInv
<1> SUFFICES ASSUME PlaybackInit PROVE SInv
  OBVIOUS
<1>1. /\ Init /\ slots = <<>> /\ alias = {} /\ fresh = {} /\ moving = FALSE /\ requests = <<>>
      /\ done = <<>> /\ played = TRUE /\ tex = [k \in Keys |-> NoContent]
  BY DEF PlaybackInit, P!InitSlots, Keys
<1>2. DOMAIN slots = {} /\ slots \in SlotMaps
  <2>1. <<>> \in [{} -> Records] /\ {} \in SUBSET Keys
    OBVIOUS
  <2>2. <<>> \in SlotMaps
    BY <2>1, IsSlotMap
  <2> QED BY <1>1, <2>2
<1>3. DecksTyped /\ TexTyped
  <2>1. tex \in [Keys -> P!Contents \cup {NoContent, Black}]
    BY <1>1
  <2>2. <<>> \in Seq(Requests) /\ <<>> \in Seq(Answers)
    OBVIOUS
  <2> QED BY <1>1, <1>2, <2>1, <2>2 DEF DecksTyped, TexTyped
<1>4. Awaited /\ AllGood /\ Apart /\ Visible /\ Settled
  BY <1>1, <1>2 DEF Awaited, Awaits, Answers1, Base, AllGood, Apart, Visible, Showing, Settled
<1> QED BY <1>1, <1>3, <1>4, InitIInv DEF SInv

\* A step of the engine in the composition is one of the engine's.
LEMMA EngineNext ==
  ASSUME SInv, Command \/ EditCues \/ StartTick \/ EngineStep
  PROVE  Next /\ ~EmitFrame /\ UNCHANGED <<decks, played>> /\ played = TRUE
<1>1. SInv => (phase # "idle" => played = TRUE)
  BY DEF SInv
<1>2. CASE Command
  <2>1. PICK c \in Inputs : Enqueue(c)
    BY <1>2 DEF Command
  <2>2. c \in Commands /\ phase = "idle"
    BY <2>1, ScenesAssumption DEF Enqueue
  <2> QED BY <1>2, <2>1, <2>2 DEF Command, Between, Next, SessionStep, EmitFrame
<1>3. CASE EditCues
  <2>1. PICK l \in CueLists : LoadHot(l)
    BY <1>3 DEF EditCues
  <2>2. phase = "idle"
    BY <2>1 DEF LoadHot
  <2> QED BY <1>3, <2>1, <2>2 DEF EditCues, Between, Next, SessionStep, EmitFrame
<1>4. CASE StartTick
  BY <1>4 DEF StartTick, Between, Next, TickStep, EmitFrame
<1>5. CASE EngineStep
  <2>1. Next
    <3>1. CASE ApplyPending \/ FinishTransition
      BY <3>1 DEF Next, TickStep
    <3>2. CASE ChaseOff
      <4>1. <<>> \in TcStates /\ CheckChase(<<>>)
        BY <3>2 DEF TcStates, CheckChase
      <4> QED BY <4>1 DEF Next, TickStep
    <3>3. CASE Follow
      <4>1. {s \in Slices : P!MediaEof(s)} \in SUBSET Slices
        OBVIOUS
      <4> QED BY <3>3, <4>1 DEF Next, TickStep, Follow
    <3> QED BY <1>5, <3>1, <3>2, <3>3 DEF EngineStep
  <2>2. phase \notin {"idle", "frame"}
    BY <1>5 DEF EngineStep, ApplyPending, ApplyGo, ApplyBack, ApplyGoto, ApplyStandby,
            ApplyPanic, Applying, FinishTransition, ChaseOff, Follow, CheckFollow
  <2> QED BY <1>1, <1>5, <2>1, <2>2 DEF EngineStep, EmitFrame
<1> QED BY <1>2, <1>3, <1>4, <1>5

LEMMA PlaybackSInv == SInv /\ [PlaybackNext]_allVars => SInv'
<1> SUFFICES ASSUME SInv, [PlaybackNext]_allVars PROVE SInv'
  OBVIOUS
<1>1. CASE UNCHANGED allVars
  <2>1. /\ UNCHANGED <<slots, alias, fresh, moving, requests, done, tex>> /\ played' = played
        /\ UNCHANGED vars
    BY <1>1 DEF allVars, decks
  <2>2. IInv' /\ phase' = phase
    BY <2>1, NextIInv DEF SInv, vars
  <2>3. Settled'
    BY <2>1, SettledStays DEF SInv, vars
  <2>4. DecksTyped' /\ TexTyped' /\ Awaited' /\ AllGood' /\ Apart' /\ Visible'
    BY <2>1 DEF SInv, DecksTyped, TexTyped, Awaited, Awaits, Answers1, Base, AllGood, Apart,
                Visible, Showing
  <2> QED BY <2>1, <2>2, <2>3, <2>4 DEF SInv
<1>2. CASE Command \/ EditCues \/ StartTick \/ EngineStep
  BY <1>2, EngineNext, EngineSInv
<1>3. CASE EditMedia
  BY <1>3, ClearSInv
<1>4. CASE Render
  BY <1>4, RenderSInv
<1>5. CASE PlaySlots
  BY <1>5, PlaySInv
<1>6. CASE Preload
  BY <1>6, PreloadSInv
<1> QED BY <1>1, <1>2, <1>3, <1>4, <1>5, <1>6 DEF PlaybackNext, TickSteps

LEMMA SInvImplies == SInv => PlaybackInvariant
<1> SUFFICES ASSUME SInv PROVE PlaybackInvariant
  OBVIOUS
<1>1. P!SlotsTypeOK
  <2>1. DOMAIN slots \subseteq Keys /\ \A k \in DOMAIN slots : slots[k] \in Records
    BY IsSlotMap DEF SInv, DecksTyped
  <2>2. requests \in Seq([op : {"load", "dispose"}, gen : Nat, key : P!Contents \cup {NoContent}])
    <3> DEFINE R == [op : {"load", "dispose"}, gen : Nat, key : P!Contents \cup {NoContent}]
    <3>1. \A r \in Requests : r \in R
      BY DEF Requests
    <3>2. requests \in Seq(Requests)
      BY DEF SInv, DecksTyped
    <3> HIDE DEF R
    <3>3. requests \in Seq(R)
      BY <3>1, <3>2
    <3> QED BY <3>3 DEF R
  <2>3. done \in Seq([gen : Nat, key : P!Contents, ok : BOOLEAN])
    BY DEF SInv, DecksTyped, Answers
  <2> QED BY <2>1, <2>2, <2>3 DEF SInv, TexTyped, P!SlotsTypeOK, Keys, Records
<1>2. PlaybackTypeOK
  BY <1>1, IInvImplies DEF SInv, PlaybackTypeOK
<1>3. HoldsItsContent
  BY DEF SInv, AllGood, Good, HoldsItsContent
<1>4. TextureShows
  <2> SUFFICES ASSUME played, NEW k \in DOMAIN slots, slots[k].kind = "video",
                      slots[k].at \in {"ready", "on"}
               PROVE  /\ tex[k] = slots[k].key
                      /\ k[2] = "A" /\ k[1] \in alias => tex[<<k[1], "B">>] = slots[k].key
    BY DEF TextureShows
  <2>1. k \in Keys /\ Showing(k)
    BY KeyOfSlot DEF SInv, Showing
  <2> QED BY <2>1 DEF SInv, Visible
<1> QED BY <1>2, <1>3, <1>4 DEF PlaybackInvariant

\* What the slots hold and show is right after every step of the tick, of the
\* operator and of the preload thread, whatever the order in which sync,
\* advance and poll_uploads meet the answers of the loader (players.rs).
THEOREM SlotsHoldTheirContent == PlaybackSpec => []PlaybackInvariant
<1>1. PlaybackInit => SInv
  BY InitSInv
<1>2. SInv /\ [PlaybackNext]_allVars => SInv'
  BY PlaybackSInv
<1>3. SInv => PlaybackInvariant
  BY SInvImplies
<1> QED BY <1>1, <1>2, <1>3, PTL DEF PlaybackSpec

\* A synchronisation gives the decks to their contents: each has its own or
\* shares it, unless the programme has nothing there and deck B wants what the
\* slot being pruned holds; a cue that starts finds its medias at their entry
\* point, and without one no player is reopened or sought (Players::sync).
THEOREM DecksFollow == PlaybackSpec => DecksFollowCues
<1> DEFINE Over == phase = "frame" /\ phase' = "idle"
           AllServed == Over => \A s \in Slices : Served(s)
           Tops == Over /\ OnAir(show) \in StartedNow => FromTop
           Goes == Over /\ StartedNow = {} => Continues
<1>1. SInv /\ [PlaybackNext]_allVars => AllServed /\ Tops /\ Goes
  <2> SUFFICES ASSUME SInv, [PlaybackNext]_allVars, Over
               PROVE  /\ \A s \in Slices : Served(s)
                      /\ OnAir(show) \in StartedNow => FromTop
                      /\ StartedNow = {} => Continues
    OBVIOUS
  <2>1. PlaybackNext
    BY DEF allVars, vars
  <2>2. Render
    BY <2>1, FrameEnds
  <2> QED BY <2>2, ServedStep, TopStep, ContinuesStep
<1>2. PlaybackInit => SInv
  BY InitSInv
<1>3. SInv /\ [PlaybackNext]_allVars => SInv'
  BY PlaybackSInv
<1>4. PlaybackSpec => [][AllServed]_allVars /\ [][Tops]_allVars /\ [][Goes]_allVars
  <2> HIDE DEF AllServed, Tops, Goes
  <2> QED BY <1>1, <1>2, <1>3, PTL DEF PlaybackSpec
<1>5. [][AllServed]_allVars => DecksServed
  <2>1. AllServed =>
          (phase = "frame" /\ phase' = "idle" =>
             \A s \in Slices :
               LET a == SceneOf(Frame.deckA)[s]  b == SceneOf(Frame.deckB)[s]
                   served == {k \in DOMAIN slots' : k[1] = s}
               IN  /\ (<<s, "A">> \in served) = (a # NoContent)
                   /\ <<s, "A">> \in served => slots'[<<s, "A">>].key = a
                   /\ (s \in alias') = (b # NoContent /\ (a = b \/ Stale(s, a, b)))
                   /\ (<<s, "B">> \in served) = (b \notin {a, NoContent} /\ ~Stale(s, a, b))
                   /\ <<s, "B">> \in served => slots'[<<s, "B">>].key = b)
    BY DEF Served
  <2> HIDE DEF AllServed
  <2> QED BY <2>1, PTL DEF DecksServed
<1>6. [][Tops]_allVars => StartsFromTop
  <2>1. Tops =>
          (phase = "frame" /\ phase' = "idle" /\ OnAir(show) \in StartedNow =>
             \A s \in Slices : \A k \in Shown(s, OnAir(show))' :
               slots'[k].kind = "video" => P!Entered(slots'[k]))
    BY DEF FromTop
  <2> HIDE DEF Tops
  <2> QED BY <2>1, PTL DEF StartsFromTop
<1>7. [][Goes]_allVars => Continuity
  <2>1. Goes =>
          (phase = "frame" /\ phase' = "idle" /\ StartedNow = {} =>
             \A s \in Slices : \A k \in Shown(s, OnAir(show)) :
               slots[k].kind = "video" =>
                 \E j \in Shown(s, OnAir(show))' :
                   slots'[j].gen = slots[k].gen /\ slots'[j].at = slots[k].at)
    BY DEF Continues
  <2> HIDE DEF Goes
  <2> QED BY <2>1, PTL DEF Continuity
<1> QED BY <1>4, <1>5, <1>6, <1>7 DEF DecksFollowCues
=============================================================================
