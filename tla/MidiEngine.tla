----------------------------- MODULE MidiEngine -----------------------------
(***************************************************************************)
(* The MIDI engine (crates/control-midi/src/engine.rs with cc14.rs,        *)
(* learn.rs, pickup.rs, resolve.rs, msc.rs and msg.rs): what the source    *)
(* calls its pure part, as operators on its state.                         *)
(*                                                                         *)
(* One MIDI channel: channels only double the controllers.  A 7-bit value  *)
(* is in 0..Coarse, a 14-bit one in 0..Fine, and 1.0 is Fine.  The times   *)
(* of arrival are ages, stopped at Timeout, the only value they are        *)
(* compared with.                                                          *)
(***************************************************************************)
EXTENDS Integers, Sequences, SequencesExt, Functions

CONSTANTS
  Coarse,       \* the largest 7-bit value (127)
  Timeout       \* DEFAULT_PAIR_TIMEOUT_MS

ASSUME CoarseAssumption == {Coarse, Timeout} \subseteq Nat \ {0}

Fine == Coarse * (Coarse + 2)     \* the largest 14-bit value

NoEngine ==
  [bindings |-> <<>>, pairs |-> {}, pending |-> <<>>, lastMsb |-> <<>>,
   logical |-> <<>>, faders |-> <<>>, armed |-> FALSE, capture |-> {}]

Put(f, k, v) == [x \in DOMAIN f \cup {k} |-> IF x = k THEN v ELSE f[x]]

----------------------------------------------------------------------------
(* Messages (msg.rs): a note-on of velocity 0 is a note-off, and what is   *)
(* not of use is ignored.                                                  *)

Parsed(raw) ==
  IF raw.type = "note_on" /\ raw.velocity = 0 THEN {[type |-> "note_off", note |-> raw.note]}
  ELSE IF raw.type \in {"note_on", "note_off", "cc", "pitch", "sysex"} THEN {raw} ELSE {}

\* MIDI Show Control (msc.rs).  A cue number that is absent is {}, one that
\* cannot be read is "invalid".
AllCall == 127
ShowControl(frame, device) ==
  LET forUs == frame.device = AllCall \/ device = AllCall \/ frame.device = device
      number == frame.cue # {} /\ "invalid" \notin frame.cue
      cue == CHOOSE n \in frame.cue : TRUE
  IN  IF ~frame.msc \/ ~forUs THEN {}
      ELSE CASE frame.command = "go" /\ frame.cue = {} -> {[op |-> "go"]}
             [] frame.command = "go" /\ number         -> {[op |-> "goto", cue |-> cue]}
             [] frame.command = "stop"                 -> {[op |-> "panic", fade |-> 0]}
             [] frame.command = "resume"               -> {[op |-> "go"]}
             [] frame.command = "load" /\ number       -> {[op |-> "standby", cue |-> cue]}
             [] OTHER                                  -> {}

----------------------------------------------------------------------------
(* Pairs of 14-bit controllers (cc14.rs).                                  *)

Cc14(cc, value) == [type |-> "cc14", cc |-> cc, value |-> value]

\* MSBs whose window is over leave alone, with a coarse value.
Overdue(e) == {cc \in DOMAIN e.pending : e.pending[cc].age >= Timeout}
FlushedPairs(e) ==
  [e   |-> [e EXCEPT !.pending = Restrict(@, DOMAIN @ \ Overdue(e))],
   out |-> SetToSeq({Cc14(cc, e.pending[cc].msb * (Coarse + 1)) : cc \in Overdue(e)})]

\* Mutant: a second MSB replaces the one that waits, which is never sent.
Assembled_Overwrites(e, msg) ==
  LET f == FlushedPairs(e) IN
  IF msg.type = "cc" /\ msg.cc \in e.pairs
  THEN [e |-> [f.e EXCEPT !.pending = Put(@, msg.cc, [msb |-> msg.value, age |-> 0])],
        out |-> f.out]
  ELSE IF msg.type = "cc" /\ msg.cc - 32 \in e.pairs
  THEN [e |-> f.e, out |-> Append(f.out, Cc14(msg.cc - 32, msg.value))]
  ELSE [e |-> f.e, out |-> Append(f.out, msg)]

\* feed: an MSB waits for its LSB; an LSB completes it, or the last MSB known.
Assembled(e, msg) ==
  LET f == FlushedPairs(e)
      p == f.e.pending
      lsbOf == msg.cc - 32
      msb == IF lsbOf \in DOMAIN p THEN p[lsbOf].msb
             ELSE IF lsbOf \in DOMAIN f.e.lastMsb THEN f.e.lastMsb[lsbOf] ELSE 0
  IN  IF msg.type = "cc" /\ msg.cc \in e.pairs
      THEN [e   |-> [f.e EXCEPT !.pending = Put(p, msg.cc, [msb |-> msg.value, age |-> 0]),
                                !.lastMsb = Put(@, msg.cc, msg.value)],
            out |-> IF msg.cc \in DOMAIN p
                    THEN Append(f.out, Cc14(msg.cc, p[msg.cc].msb * (Coarse + 1))) ELSE f.out]
      ELSE IF msg.type = "cc" /\ lsbOf \in e.pairs
      THEN [e   |-> [f.e EXCEPT !.pending = Restrict(p, DOMAIN p \ {lsbOf})],
            out |-> Append(f.out, Cc14(lsbOf, msb * (Coarse + 1) + msg.value))]
      ELSE [e |-> f.e, out |-> Append(f.out, msg)]

\* set_bindings: the pairs follow; what waits for a pair that is gone is dropped.
Rebound(e, bindings) ==
  LET wide == {i \in DOMAIN bindings : bindings[i].type = "cc" /\ bindings[i].wide}
      pairs == {bindings[i].cc : i \in wide} \cap (0..31)
  IN  [e EXCEPT !.bindings = bindings, !.pairs = pairs,
                !.pending = Restrict(@, DOMAIN @ \cap pairs),
                !.lastMsb = Restrict(@, DOMAIN @ \cap pairs)]

----------------------------------------------------------------------------
(* Learn (learn.rs): the first message that counts becomes a binding.      *)

Armed(e) == [e EXCEPT !.armed = TRUE, !.capture = {}]
Disarmed(e) == [e EXCEPT !.armed = FALSE, !.capture = {}]

CcBinding(cc, wide) ==
  [type |-> "cc", cc |-> cc, wide |-> wide, addr |-> "", min |-> 0, max |-> Fine, pickup |-> TRUE]
NoteBinding(note) == [type |-> "note", note |-> note, command |-> [op |-> "go"]]

Captured(e, binding) ==
  [e |-> Disarmed(e), out |-> <<[type |-> "learned", binding |-> binding]>>]
Nothing(e) == [e |-> e, out |-> <<>>]

LearnFlushed(e) ==
  IF \E p \in e.capture : p.age >= Timeout
  THEN Captured(e, CcBinding((CHOOSE p \in e.capture : TRUE).cc, FALSE)) ELSE Nothing(e)

\* The controller captured is 14-bit if its LSB comes next, within the window.
LearnFed(e, msg) ==
  IF LearnFlushed(e).out # <<>> THEN LearnFlushed(e)
  ELSE CASE msg.type = "note_on" -> Captured(e, NoteBinding(msg.note))
         [] msg.type = "cc" /\ e.capture # {} ->
              LET first == (CHOOSE p \in e.capture : TRUE).cc
              IN  Captured(e, CcBinding(first, msg.cc = first + 32))
         [] msg.type = "cc" /\ e.capture = {} /\ msg.cc <= 31 ->
              Nothing([e EXCEPT !.capture = {[cc |-> msg.cc, age |-> 0]}])
         [] msg.type = "cc" /\ e.capture = {} /\ msg.cc > 31 -> Captured(e, CcBinding(msg.cc, FALSE))
         [] msg.type = "cc14" -> Captured(e, CcBinding(msg.cc, TRUE))
         [] OTHER -> Nothing(e)

----------------------------------------------------------------------------
(* Soft takeover (pickup.rs).                                              *)

LogicalUpdated(e, addr, value) == [e EXCEPT !.logical = Put(@, addr, value)]

Near(x, y, tolerance) == x - y <= tolerance /\ y - x <= tolerance

NewFader(addr) == [addr |-> addr, engaged |-> FALSE, last |-> {}]

\* The fader as it is before this move, started again if it was patched elsewhere.
FaderOf(e, cc, addr) ==
  IF cc \in DOMAIN e.faders /\ e.faders[cc].addr = addr THEN e.faders[cc] ELSE NewFader(addr)

\* Mutant of filter: a hand once taken is never let go.
Engages_ForEver(e, cc, addr, incoming, tolerance) ==
  LET f == FaderOf(e, cc, addr)
  IN  f.engaged \/ addr \notin DOMAIN e.logical
        \/ Near(incoming, e.logical[addr], tolerance)

\* filter: the hand is let go when the value has moved elsewhere, and taken
\* back when the fader comes near the value or crosses it.
Engages(e, cc, addr, incoming, tolerance) ==
  LET f == FaderOf(e, cc, addr)
      now == e.logical[addr]
      held == f.engaged /\ \A l \in f.last : Near(now, l, tolerance)
      crossed == \E l \in f.last : (l <= now /\ incoming >= now) \/ (l >= now /\ incoming <= now)
  IN  addr \notin DOMAIN e.logical \/ held \/ Near(incoming, now, tolerance) \/ crossed

Filtered(e, cc, addr, incoming, tolerance) ==
  LET on == Engages(e, cc, addr, incoming, tolerance)
      f == [addr |-> addr, engaged |-> on, last |-> {incoming}]
  IN  [e EXCEPT !.faders = Put(@, cc, f),
                !.logical = IF on THEN Put(@, addr, incoming) ELSE @]

----------------------------------------------------------------------------
(* Bindings (resolve.rs) and the engine itself.                            *)

\* scale: a binding whose min is above its max reverses the fader.
Scaled(value, top, b) == b.min + (value * (b.max - b.min)) \div top
ParamSet(addr, value) ==
  [type |-> "command", cmd |-> [op |-> "set", addr |-> addr, value |-> [type |-> "F", x |-> value]]]

Binds(b, cc, wide) == b.type = "cc" /\ b.cc = cc /\ b.wide = wide
FirstIn(bindings, P(_)) ==
  {bindings[i] : i \in {j \in DOMAIN bindings :
                          P(bindings[j]) /\ \A k \in 1..(j - 1) : ~P(bindings[k])}}

\* cc_event.
ControlMoved(e, b, value) ==
  LET tolerance == (IF b.max > b.min THEN b.max - b.min ELSE b.min - b.max) \div Coarse
      was == b.cc \in DOMAIN e.faders /\ e.faders[b.cc].engaged
      f == Filtered(e, b.cc, b.addr, value, tolerance)
      event(type) == [type |-> type, addr |-> b.addr]
  IN  IF ~b.pickup
      THEN [e |-> LogicalUpdated(e, b.addr, value), out |-> <<ParamSet(b.addr, value)>>]
      ELSE [e |-> f,
            out |-> IF ~f.faders[b.cc].engaged THEN <<event("blocked")>>
                    ELSE IF was THEN <<ParamSet(b.addr, value)>>
                    ELSE <<event("engaged"), ParamSet(b.addr, value)>>]

Resolved(e, msg) ==
  LET found == FirstIn(e.bindings, LAMBDA b : b.type = "note" /\ b.note = msg.note)
  IN  [e |-> e, out |-> IF msg.type # "note_on" \/ found = {} THEN <<>>
                        ELSE <<[type |-> "command", cmd |-> (CHOOSE b \in found : TRUE).command]>>]

\* process: an armed learn takes the message.
Processed(e, msg) ==
  IF e.armed THEN LearnFed(e, msg)
  ELSE IF msg.type \in {"cc", "cc14"}
  THEN LET wide == msg.type = "cc14"
           found == FirstIn(e.bindings, LAMBDA b : Binds(b, msg.cc, wide))
       IN  IF found = {} THEN Nothing(e)
           ELSE LET b == CHOOSE x \in found : TRUE
                IN  ControlMoved(e, b, Scaled(msg.value, IF wide THEN Fine ELSE Coarse, b))
  ELSE Resolved(e, msg)

Chained(r, msg) ==
  LET n == Processed(r.e, msg) IN [e |-> n.e, out |-> r.out \o n.out]

\* handle: show control passes even while learning.
Handled(e, raw, device) ==
  IF Parsed(raw) = {} THEN Nothing(e)
  ELSE LET msg == CHOOSE m \in Parsed(raw) : TRUE
           a == Assembled(e, msg)
       IN  IF msg.type = "sysex"
           THEN [e |-> e, out |-> SetToSeq({[type |-> "command", cmd |-> c] : c \in ShowControl(msg, device)})]
           ELSE FoldLeft(Chained, [e |-> a.e, out |-> <<>>], a.out)

\* flush: what the supervisor does at each of its turns.
Flushed(e) ==
  LET p == FlushedPairs(e)
      r == FoldLeft(Chained, [e |-> p.e, out |-> <<>>], p.out)
      l == LearnFlushed(r.e)
  IN  [e |-> l.e, out |-> r.out \o l.out]

\* Time passes for what waits.
Aged(e, d) ==
  LET older(p) == [p EXCEPT !.age = IF @ + d < Timeout THEN @ + d ELSE Timeout]
  IN  [e EXCEPT !.pending = [cc \in DOMAIN @ |-> older(@[cc])],
                !.capture = {older(p) : p \in @}]
=============================================================================
