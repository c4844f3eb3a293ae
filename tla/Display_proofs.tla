----------------------------- MODULE Display_proofs -----------------------------
(***************************************************************************)
(* Proofs about Display, for every set of monitors, of outputs, of sizes   *)
(* and of cards, and every length of the ring and of the queue of the      *)
(* driver: the program takes the card for lost only in the dark, a slot of *)
(* the ring shows the picture it was given, and a window is of an output,  *)
(* on a monitor that is there.                                             *)
(***************************************************************************)
EXTENDS Display, SequenceTheorems, WellFoundedInduction, TLAPS

----------------------------------------------------------------------------
(* Frames that could not be presented.                                     *)

\* Between two frames nothing is presented; within one, what was presented
\* since the failures began was in this frame; and the thread stops with
\* the card.
Dark ==
  /\ at \in {"idle", "upload", "draw", "over"}
  /\ lit \in BOOLEAN /\ presented \in BOOLEAN
  /\ at = "idle" => ~presented
  /\ at # "over" => fatal = "none" /\ (lit => presented)
  /\ FatalOnlyInTheDark

\* Finish ends the frame, and the program when the card was lost.
LEMMA FinishEnds ==
  ASSUME Finish
  PROVE  /\ at' \in {"idle", "over"} /\ presented' = FALSE
         /\ at' # "over" => fatal' = "none"
BY DEF Finish, Running, GpuLost, OK

\* A failure adds nothing to what the outputs have shown, and the streak
\* alone makes it fatal.
LEMMA FailuresDarken ==
  ASSUME NEW n, lit \in BOOLEAN, fatal = "none", Failures(n), fatal' = Fatal
  PROVE  /\ lit' \in BOOLEAN /\ (lit' => lit)
         /\ fatal' \in {"none", "failures"}
BY DEF Failures, Fatal

\* A frame that was presented begins a new series, which is young.
LEMMA SuccessIsSafe ==
  ASSUME NEW n, fatal = "none", Success(n), fatal' = Fatal
  PROVE  lit' = FALSE /\ fatal' = "none"
BY DEF Success, Fatal

LEMMA DarkInit == Init => Dark
BY DEF Init, OutputsInit, Dark, FatalOnlyInTheDark

LEMMA DarkBegin == Dark /\ Begin => Dark'
<1> SUFFICES ASSUME Dark, Begin PROVE Dark'
  OBVIOUS
<1>1. at = "idle" /\ ~presented /\ fatal = "none" /\ ~lit /\ lit \in BOOLEAN
  BY DEF Dark, Begin
<1>2. \/ UNCHANGED failures /\ Finish
      \/ Failures(1) /\ fatal' = Fatal /\ Finish
      \/ at' = "upload" /\ UNCHANGED <<failures, todo, presented, exit>>
  BY DEF Begin
<1>3. CASE UNCHANGED failures /\ Finish
  BY <1>1, <1>3, FinishEnds DEF failures, Dark, FatalOnlyInTheDark
<1>4. CASE Failures(1) /\ fatal' = Fatal /\ Finish
  <2>1. lit' \in BOOLEAN /\ ~lit' /\ fatal' \in {"none", "failures"}
    BY <1>1, <1>4, FailuresDarken
  <2> QED BY <1>4, <2>1, FinishEnds DEF Dark, FatalOnlyInTheDark
<1>5. CASE at' = "upload" /\ UNCHANGED <<failures, todo, presented, exit>>
  BY <1>1, <1>5 DEF failures, Dark, FatalOnlyInTheDark
<1> QED BY <1>2, <1>3, <1>4, <1>5

LEMMA DarkDraw == Dark /\ DrawWindow => Dark'
<1> SUFFICES ASSUME Dark, DrawWindow PROVE Dark'
  OBVIOUS
<1>1. at = "draw" /\ at' = at /\ fatal' = fatal
  BY DEF DrawWindow
<1>2. \/ presented' = presented /\ lit' = lit
      \/ \E swapped \in BOOLEAN : presented' = (presented \/ swapped) /\ lit' = (lit \/ swapped)
  BY DEF DrawWindow
<1>3. lit' \in BOOLEAN /\ presented' \in BOOLEAN /\ (lit' => presented')
  BY <1>1, <1>2 DEF Dark
<1> QED BY <1>1, <1>3 DEF Dark, FatalOnlyInTheDark

LEMMA DarkHealth == Dark /\ Health => Dark'
<1> SUFFICES ASSUME Dark, Health PROVE Dark'
  OBVIOUS
<1>1. /\ fatal = "none" /\ (lit => presented) /\ Finish
      /\ lit \in BOOLEAN /\ presented \in BOOLEAN
  BY DEF Dark, Health
<1>2. \/ fatal' = "reset" /\ UNCHANGED <<streak, since, lit>>
      \/ \E previews \in 0..2 :
           /\ IF presented THEN Success(previews) ELSE Failures(1 + previews)
           /\ fatal' = Fatal
  BY DEF Health
<1>3. CASE fatal' = "reset" /\ UNCHANGED <<streak, since, lit>>
  BY <1>1, <1>3, FinishEnds DEF Dark, FatalOnlyInTheDark
<1>4. ASSUME NEW previews \in 0..2, presented, Success(previews), fatal' = Fatal
      PROVE  Dark'
  <2>1. lit' = FALSE /\ fatal' = "none"
    BY <1>1, <1>4, SuccessIsSafe
  <2> QED BY <1>1, <2>1, FinishEnds DEF Dark, FatalOnlyInTheDark
<1>5. ASSUME NEW previews \in 0..2, ~presented, Failures(1 + previews), fatal' = Fatal
      PROVE  Dark'
  <2>2. lit' \in BOOLEAN /\ ~lit' /\ fatal' \in {"none", "failures"}
    BY <1>1, <1>5, FailuresDarken
  <2> QED BY <1>1, <2>2, FinishEnds DEF Dark, FatalOnlyInTheDark
<1> QED BY <1>2, <1>3, <1>4, <1>5

LEMMA DarkStep == Dark /\ [Next]_vars => Dark'
<1> SUFFICES ASSUME Dark, [Next]_vars PROVE Dark'
  OBVIOUS
<1> USE DEF Dark, FatalOnlyInTheDark
<1>1. CASE Begin
  BY <1>1, DarkBegin
<1>2. CASE Pictured
  BY <1>2 DEF Pictured, failures
<1>3. CASE DrawWindow
  BY <1>3, DarkDraw
<1>4. CASE WaitForCard
  BY <1>4 DEF WaitForCard, failures, thread
<1>5. CASE Health
  BY <1>5, DarkHealth
<1>6. CASE PollTimer
  BY <1>6 DEF PollTimer, failures
<1>7. CASE Hall
  <2>1. UNCHANGED <<at, presented>>
    BY <1>7 DEF Hall, thread
  <2>2. Age \/ UNCHANGED failures
    BY <1>7 DEF Hall, Unplug, Plug, SetOutput
  <2>3. lit' = lit /\ fatal' = fatal
    BY <2>2 DEF Age, failures
  <2> QED BY <2>1, <2>3
<1>8. CASE Card
  BY <1>8 DEF Card, failures, thread
<1>9. CASE UNCHANGED vars
  BY <1>9 DEF vars, failures, thread
<1> QED BY <1>1, <1>2, <1>3, <1>4, <1>5, <1>6, <1>7, <1>8, <1>9 DEF Next, Thread

\* One output that still plays keeps the show running: the program takes
\* the card for lost, for the failures alone, only when no output has shown
\* a picture since they began (note_gl_success, gl_failure_is_fatal).
THEOREM TheShowGoesOn == Spec => []FatalOnlyInTheDark
<1>1. Dark => FatalOnlyInTheDark
  BY DEF Dark
<1> QED BY <1>1, DarkInit, DarkStep, PTL DEF Spec

----------------------------------------------------------------------------
(* The pictures in the ring.                                               *)

Rings == [kind : {"none", "persistent", "orphan"}, next : Slots, fenced : [Slots -> BOOLEAN]]
Flaws == [pbo : BOOLEAN, persistent : BOOLEAN]

\* A command that has still to read a slot is watched by the fence of that
\* slot, unless no one watches it any more; only such a command is torn.
WatchedBy(r, c) ==
  /\ c.torn => c.lost
  /\ c.slot # NoSlot => r.kind = "persistent" /\ (c.lost \/ r.fenced[c.slot])
Watched(r, q) == \A i \in DOMAIN q : WatchedBy(r, q[i])

CardTypes ==
  /\ texture \in Sizes \cup {0} /\ ring \in Rings /\ broken \in Flaws
  /\ queue \in Seq(Commands) /\ Len(queue) <= DriverQueue
Whole == CardTypes /\ Watched(ring, queue)

\* What makes a command.
LEMMA CommandsMade ==
  /\ \A slot \in 0..RingSlots, lost \in BOOLEAN :
       Upload(slot, lost) \in Commands /\ Upload(slot, lost).torn = FALSE
         /\ Upload(slot, lost).slot = slot /\ Upload(slot, lost).lost = lost
  /\ \A lost \in BOOLEAN :
       Drawing(lost) \in Commands /\ Drawing(lost).torn = FALSE /\ Drawing(lost).slot = NoSlot
BY UploadAssumption DEF Upload, Drawing, Commands, NoSlot

\* A function on 1..n is a sequence.
LEMMA FunctionsAreSequences ==
  ASSUME NEW S, NEW n \in Nat, NEW f \in [1..n -> S]
  PROVE  f \in Seq(S) /\ Len(f) = n
OBVIOUS

\* A ring that was just made.
LEMMA RingsMade ==
  /\ NoRing \in Rings /\ NoRing.kind = "none" /\ NoRing.fenced = [s \in Slots |-> FALSE]
  /\ \A k \in {"persistent", "orphan"} : [NoRing EXCEPT !.kind = k] \in Rings
       /\ [NoRing EXCEPT !.kind = k].kind = k
       /\ [NoRing EXCEPT !.kind = k].fenced = [s \in Slots |-> FALSE]
<1>1. 1 \in Slots /\ [s \in Slots |-> FALSE] \in [Slots -> BOOLEAN]
  BY UploadAssumption DEF Slots
<1> DEFINE f == [s \in Slots |-> FALSE]
<1>0. NoRing = [kind |-> "none", next |-> 1, fenced |-> f]
  BY DEF NoRing
<1> HIDE DEF f
<1>2. \A k : [NoRing EXCEPT !.kind = k] = [kind |-> k, next |-> 1, fenced |-> f]
  BY <1>0
<1>3. \A k \in {"none", "persistent", "orphan"} : [kind |-> k, next |-> 1, fenced |-> f] \in Rings
  BY <1>1 DEF Rings, f
<1> QED BY <1>0, <1>2, <1>3 DEF f

\* What the queue holds stays well formed and watched when a watched command
\* goes behind it.
LEMMA WatchedAppend ==
  ASSUME NEW q \in Seq(Commands), NEW c \in Commands, NEW r, Watched(r, q), WatchedBy(r, c)
  PROVE  Append(q, c) \in Seq(Commands) /\ Watched(r, Append(q, c))
<1>1. Append(q, c) \in Seq(Commands)
  OBVIOUS
<1>2. \A i \in DOMAIN Append(q, c) : (i \in DOMAIN q /\ Append(q, c)[i] = q[i]) \/ Append(q, c)[i] = c
  OBVIOUS
<1> DEFINE s == Append(q, c)
<1> HIDE DEF s
<1>3. \A i \in DOMAIN s : (i \in DOMAIN q /\ s[i] = q[i]) \/ s[i] = c
  BY <1>2 DEF s
<1>4. Watched(r, s)
  BY <1>3, Zenon DEF Watched
<1> QED BY <1>1, <1>4 DEF s

\* The ring released: no command reads a slot any more.
LEMMA ReleasedIsWatched ==
  ASSUME NEW q \in Seq(Commands), NEW r, NEW old, Watched(old, q)
  PROVE  /\ Released(q) \in Seq(Commands) /\ Len(Released(q)) = Len(q)
         /\ Watched(r, Released(q)) /\ \A i \in DOMAIN Released(q) : Released(q)[i].slot = NoSlot
<1>1. \A c \in Commands : [c EXCEPT !.slot = NoSlot] \in Commands
                          /\ [c EXCEPT !.slot = NoSlot].slot = NoSlot
                          /\ [c EXCEPT !.slot = NoSlot].torn = c.torn
                          /\ [c EXCEPT !.slot = NoSlot].lost = c.lost
  BY UploadAssumption DEF Commands, NoSlot
<1>2. DOMAIN q = 1..Len(q) /\ \A i \in DOMAIN q : q[i] \in Commands
  OBVIOUS
<1>3. /\ DOMAIN Released(q) = 1..Len(q)
      /\ \A i \in DOMAIN q : Released(q)[i] = [q[i] EXCEPT !.slot = NoSlot]
  BY <1>2 DEF Released
<1>4. Released(q) \in Seq(Commands) /\ Len(Released(q)) = Len(q)
  <2>1. Released(q) \in [1..Len(q) -> Commands]
    BY <1>1, <1>2 DEF Released
  <2>2. Len(q) \in Nat
    OBVIOUS
  <2> QED BY <2>1, <2>2, FunctionsAreSequences
<1>5. \A i \in DOMAIN q : /\ Released(q)[i].slot = NoSlot
                          /\ Released(q)[i].torn = q[i].torn /\ Released(q)[i].lost = q[i].lost
  <2> TAKE i \in DOMAIN q
  <2> DEFINE c == q[i]
  <2>1. c \in Commands /\ Released(q)[i] = [c EXCEPT !.slot = NoSlot]
    BY <1>2, <1>3
  <2> HIDE DEF c
  <2>2. Released(q)[i].slot = NoSlot /\ Released(q)[i].torn = c.torn /\ Released(q)[i].lost = c.lost
    BY <1>1, <2>1
  <2> QED BY <2>2 DEF c
<1>6. \A i \in DOMAIN q : q[i].torn => q[i].lost
  BY DEF Watched, WatchedBy
<1>7. DOMAIN Released(q) = DOMAIN q
  BY <1>2, <1>3
<1> QED BY <1>4, <1>5, <1>6, <1>7 DEF Watched, WatchedBy

\* A picture is copied over the slot to be written, whose commands no one
\* watches or whose fence was waited for, unless the wait gave up: then no
\* one watches them any more.
LEMMA OverwrittenIsWatched ==
  ASSUME NEW q \in Seq(Commands), NEW r \in Rings, r.kind = "persistent", Watched(r, q),
         NEW given \in BOOLEAN, NEW fence \in BOOLEAN,
         r.fenced[r.next] /\ (\E i \in DOMAIN q : q[i].slot = r.next) => given
  PROVE  LET o == Overwritten(q, r.next, given)
             s == [r EXCEPT !.next = (@ % RingSlots) + 1, !.fenced[r.next] = fence]
         IN  o \in Seq(Commands) /\ Len(o) = Len(q) /\ s \in Rings /\ Watched(s, o)
             /\ s.kind = "persistent" /\ s.fenced[r.next] = fence
<1> DEFINE o == Overwritten(q, r.next, given)
           n == r.next
           s == [r EXCEPT !.next = (@ % RingSlots) + 1, !.fenced[r.next] = fence]
<1>1. n \in Slots /\ n # NoSlot /\ n \in 0..RingSlots /\ (n % RingSlots) + 1 \in Slots
  BY UploadAssumption DEF Rings, Slots, NoSlot
<1>2. r.fenced \in [Slots -> BOOLEAN]
  BY DEF Rings
<1>3. /\ s \in Rings /\ s.kind = "persistent" /\ s.fenced[n] = fence
      /\ \A t \in Slots \ {n} : s.fenced[t] = r.fenced[t]
  BY <1>1, <1>2 DEF Rings
<1>4. DOMAIN q = 1..Len(q) /\ \A i \in DOMAIN q : q[i] \in Commands
  OBVIOUS
<1>5. /\ DOMAIN o = 1..Len(q)
      /\ \A i \in DOMAIN q :
           o[i] = IF q[i].slot = n THEN [q[i] EXCEPT !.torn = TRUE, !.lost = @ \/ given] ELSE q[i]
  BY <1>4 DEF Overwritten
<1>6. ASSUME NEW c \in Commands
      PROVE  /\ [c EXCEPT !.torn = TRUE, !.lost = @ \/ given] \in Commands
             /\ [c EXCEPT !.torn = TRUE, !.lost = @ \/ given].slot = c.slot
             /\ [c EXCEPT !.torn = TRUE, !.lost = @ \/ given].lost = (c.lost \/ given)
  BY DEF Commands
<1>7. o \in Seq(Commands) /\ Len(o) = Len(q)
  <2>1. o \in [1..Len(q) -> Commands]
    BY <1>4, <1>6 DEF Overwritten
  <2>2. Len(q) \in Nat
    OBVIOUS
  <2> HIDE DEF o
  <2> QED BY <2>1, <2>2, FunctionsAreSequences
<1> HIDE DEF o, n, s
<1>8. ASSUME NEW i \in DOMAIN o
      PROVE  WatchedBy(s, o[i])
  <2>1. i \in DOMAIN q /\ q[i] \in Commands /\ WatchedBy(r, q[i])
    BY <1>4, <1>5 DEF Watched
  <2>2. CASE q[i].slot = n
    <3> DEFINE c == q[i]
    <3>0. c \in Commands /\ o[i] = [c EXCEPT !.torn = TRUE, !.lost = @ \/ given]
      BY <1>5, <2>1, <2>2
    <3> HIDE DEF c
    <3>1. o[i].slot = c.slot /\ o[i].lost = (c.lost \/ given)
      <4>1. /\ [c EXCEPT !.torn = TRUE, !.lost = @ \/ given].slot = c.slot
            /\ [c EXCEPT !.torn = TRUE, !.lost = @ \/ given].lost = (c.lost \/ given)
        BY <1>6, <3>0, Zenon
      <4> QED BY <3>0, <4>1, Zenon
    <3>2. c.slot = n /\ (c.lost \/ r.fenced[n])
      BY <1>1, <2>1, <2>2 DEF WatchedBy, c
    <3>3. r.fenced[n] => given
      BY <2>1, <2>2 DEF n
    <3> QED BY <1>3, <3>1, <3>2, <3>3 DEF WatchedBy
  <2>3. CASE q[i].slot # n
    <3>0. o[i] = q[i]
      BY <1>5, <2>1, <2>3
    <3>1. q[i].slot \in Slots \cup {NoSlot}
      BY <2>1, UploadAssumption DEF Commands, Slots, NoSlot
    <3> QED BY <1>3, <2>1, <2>3, <3>0, <3>1 DEF WatchedBy
  <2> QED BY <2>2, <2>3
<1> QED BY <1>3, <1>7, <1>8 DEF Watched, o, n, s

\* A picture is written, into a ring that is the one in use, or into another
\* one that no command reads.
LEMMA WriteKeeps ==
  ASSUME NEW r \in Rings, NEW q \in Seq(Commands), Watched(r, q), NEW fence \in BOOLEAN, NEW abandon \in BOOLEAN,
         (\E i \in DOMAIN q : q[i].slot = r.next) /\ r.fenced[r.next] => Waiting(r.next),
         Write(r, q, fence, abandon)
  PROVE  ring' \in Rings /\ queue' \in Seq(Commands) /\ Len(queue') = Len(q) + 1 /\ Watched(ring', queue')
<1>1. CASE r.kind = "persistent"
  <2> DEFINE given == MustWait(r) /\ abandon
             o == Overwritten(q, r.next, given)
             s == [r EXCEPT !.next = (@ % RingSlots) + 1, !.fenced[r.next] = fence]
             c == Upload(r.next, ~fence)
  <2>1. given \in BOOLEAN /\ (MustWait(r) => given) /\ ring' = s /\ queue' = Append(o, c)
    BY <1>1 DEF Write, WaitOver
  <2>2. r.fenced[r.next] /\ (\E i \in DOMAIN q : q[i].slot = r.next) => given
    BY <1>1, <2>1 DEF MustWait
  <2>3. r.next \in 0..RingSlots
    BY UploadAssumption DEF Rings, Slots
  <2>4. c \in Commands /\ c.torn = FALSE /\ c.slot = r.next /\ c.lost = ~fence
    BY <2>3, CommandsMade
  <2> HIDE DEF given
  <2>5. /\ o \in Seq(Commands) /\ Len(o) = Len(q) /\ s \in Rings /\ Watched(s, o)
        /\ s.kind = "persistent" /\ s.fenced[r.next] = fence
    BY <1>1, <2>1, <2>2, OverwrittenIsWatched
  <2> HIDE DEF o, s, c
  <2>6. WatchedBy(s, c)
    BY <2>4, <2>5 DEF WatchedBy
  <2>7. Append(o, c) \in Seq(Commands) /\ Watched(s, Append(o, c)) /\ Len(Append(o, c)) = Len(o) + 1
    BY <2>4, <2>5, <2>6, WatchedAppend
  <2> QED BY <2>1, <2>5, <2>7
<1>2. CASE r.kind # "persistent"
  <2> DEFINE c == Upload(NoSlot, FALSE)
  <2>1. ring' = r /\ queue' = Append(q, c)
    BY <1>2 DEF Write
  <2>0. NoSlot \in 0..RingSlots /\ FALSE \in BOOLEAN
    BY UploadAssumption DEF NoSlot
  <2>2. c \in Commands /\ c.torn = FALSE /\ c.slot = NoSlot
    BY <2>0, CommandsMade, Zenon
  <2> HIDE DEF c
  <2>3. WatchedBy(r, c)
    BY <2>2 DEF WatchedBy
  <2>4. Append(q, c) \in Seq(Commands) /\ Watched(r, Append(q, c)) /\ Len(Append(q, c)) = Len(q) + 1
    BY <2>2, <2>3, WatchedAppend
  <2> QED BY <2>1, <2>4
<1> QED BY <1>1, <1>2

\* ensure_upload_ring(): the ring in use, or a new one, with no fence.
LEMMA EnsuredIsRing ==
  ASSUME NEW r \in Rings, NEW persistent \in BOOLEAN, NEW pair \in BOOLEAN, broken \in Flaws
  PROVE  LET e == EnsuredRing(r, persistent, pair)
         IN  /\ e.ring \in Rings
             /\ e.ring = r \/ (r.kind = "none" /\ e.ring.fenced = [s \in Slots |-> FALSE])
<1> DEFINE a == [NoRing EXCEPT !.kind = "persistent"]
           b == [NoRing EXCEPT !.kind = "orphan"]
<1>1. /\ a \in Rings /\ a.fenced = [s \in Slots |-> FALSE]
      /\ b \in Rings /\ b.fenced = [s \in Slots |-> FALSE]
  BY RingsMade
<1>2. EnsuredRing(r, persistent, pair).ring \in {r, a, b}
      /\ (r.kind # "none" => EnsuredRing(r, persistent, pair).ring = r)
  BY DEF EnsuredRing
<1> HIDE DEF a, b
<1> QED BY <1>1, <1>2

LEMMA EnsuredFlaws ==
  ASSUME NEW r, NEW persistent \in BOOLEAN, NEW pair \in BOOLEAN, broken \in Flaws
  PROVE  EnsuredRing(r, persistent, pair).broken \in Flaws
<1> DEFINE ways == r.kind = "none" /\ ~broken.pbo
           first == ways /\ caps.bufferStorage /\ caps.fences /\ ~broken.persistent
           second == ways /\ ~(first /\ persistent)
<1>1. broken.pbo \in BOOLEAN /\ broken.persistent \in BOOLEAN
  BY DEF Flaws
<1>2. EnsuredRing(r, persistent, pair).broken =
        [pbo |-> broken.pbo \/ (second /\ ~pair), persistent |-> broken.persistent \/ (first /\ ~persistent)]
  BY DEF EnsuredRing
<1>3. (broken.pbo \/ (second /\ ~pair)) \in BOOLEAN /\ (broken.persistent \/ (first /\ ~persistent)) \in BOOLEAN
  OBVIOUS
<1> HIDE DEF ways, first, second
<1> QED BY <1>2, <1>3 DEF Flaws

LEMMA UploadKeeps ==
  ASSUME Whole, NEW size \in Sizes, NEW made \in BOOLEAN, NEW persistent \in BOOLEAN, NEW pair \in BOOLEAN,
         NEW fence \in BOOLEAN, NEW abandon \in BOOLEAN,
         UploadFrame(size, made, persistent, pair, fence, abandon)
  PROVE  Whole'
<1> DEFINE resized == size # texture
           r == IF resized THEN NoRing ELSE ring
           e == EnsuredRing(r, persistent, pair)
           q == IF resized THEN Released(queue) ELSE queue
<1>1. Len(queue) \in Nat /\ DriverQueue \in Nat /\ Len(queue) < DriverQueue
  BY UploadAssumption DEF UploadFrame, Whole, CardTypes
<1>2. r \in Rings
  BY RingsMade DEF Whole, CardTypes
<1>3. /\ q \in Seq(Commands) /\ Len(q) = Len(queue)
      /\ resized => \A x : Watched(x, q)
      /\ resized => \A i \in DOMAIN q : q[i].slot = NoSlot
      /\ ~resized => q = queue
  <2>1. CASE resized
    BY <2>1, ReleasedIsWatched DEF Whole, CardTypes
  <2>2. CASE ~resized
    BY <2>2 DEF Whole, CardTypes
  <2> QED BY <2>1, <2>2
<1>4. e.ring \in Rings /\ (e.ring = r \/ (r.kind = "none" /\ e.ring.fenced = [s \in Slots |-> FALSE]))
  BY <1>2, EnsuredIsRing DEF Whole, CardTypes
<1>5. e.broken \in Flaws
  BY EnsuredFlaws DEF Whole, CardTypes
<1>6. \/ resized /\ ring' = NoRing /\ queue' = q /\ UNCHANGED <<texture, broken>>
      \/ texture' = size /\ broken' = e.broken /\ Write(e.ring, q, fence, abandon)
  BY DEF UploadFrame
<1>7. texture \in Sizes \cup {0} /\ broken \in Flaws /\ ring \in Rings /\ Watched(ring, queue) /\ queue \in Seq(Commands)
  BY DEF Whole, CardTypes
<1>8. ~resized => r = ring
  OBVIOUS
<1>r. resized => r = NoRing
  OBVIOUS
<1> HIDE DEF e, q, r, resized
<1>9. Watched(e.ring, q)
  <2>1. CASE resized
    BY <1>3, <2>1
  <2>2. CASE ~resized /\ e.ring = r
    BY <1>3, <1>7, <1>8, <2>2
  <2>3. CASE ~resized /\ r.kind = "none"
    <3>1. ring.kind # "persistent" /\ q = queue
      BY <1>3, <1>8, <2>3
    <3> QED BY <1>7, <3>1 DEF Watched, WatchedBy
  <2> QED BY <1>4, <2>1, <2>2, <2>3
<1>10. (\E i \in DOMAIN q : q[i].slot = e.ring.next) /\ e.ring.fenced[e.ring.next] => Waiting(e.ring.next)
  <2>1. CASE resized
    BY <1>3, <1>4, <2>1, UploadAssumption DEF Rings, Slots, NoSlot
  <2>2. CASE ~resized
    BY <1>3, <2>2 DEF Waiting
  <2> QED BY <2>1, <2>2
<1>11. CASE resized /\ ring' = NoRing /\ queue' = q /\ UNCHANGED <<texture, broken>>
  BY <1>1, <1>3, <1>7, <1>11, RingsMade DEF Whole, CardTypes
<1>12. CASE texture' = size /\ broken' = e.broken /\ Write(e.ring, q, fence, abandon)
  <2>1. ring' \in Rings /\ queue' \in Seq(Commands) /\ Len(queue') = Len(q) + 1 /\ Watched(ring', queue')
    BY <1>3, <1>4, <1>9, <1>10, <1>12, WriteKeeps
  <2>2. Len(queue') <= DriverQueue
    BY <1>1, <1>3, <2>1
  <2> QED BY <1>5, <1>12, <2>1, <2>2 DEF Whole, CardTypes
<1> QED BY <1>6, <1>11, <1>12

LEMMA DrawKeeps ==
  ASSUME Whole, NEW fence \in BOOLEAN, Draw(fence)
  PROVE  Whole'
<1> DEFINE lost == fenceBroken' \/ ~caps.fences
           c == Drawing(lost)
<1>1. lost \in BOOLEAN /\ queue' = Append(queue, c) /\ UNCHANGED <<texture, ring, broken>> /\ Len(queue) < DriverQueue
  BY DEF Draw
<1>2. c \in Commands /\ c.torn = FALSE /\ c.slot = NoSlot
  BY CommandsMade
<1> HIDE DEF lost, c
<1>3. queue \in Seq(Commands) /\ Watched(ring, queue) /\ Len(queue) \in Nat /\ DriverQueue \in Nat
  BY UploadAssumption DEF Whole, CardTypes
<1>4. WatchedBy(ring, c)
  BY <1>2 DEF WatchedBy
<1>5. Append(queue, c) \in Seq(Commands) /\ Watched(ring, Append(queue, c)) /\ Len(Append(queue, c)) = Len(queue) + 1
  BY <1>2, <1>3, <1>4, WatchedAppend
<1> QED BY <1>1, <1>3, <1>5 DEF Whole, CardTypes

\* The wait that gives up.
LEMMA GiveUpKeeps ==
  ASSUME Whole, GiveUp
  PROVE  Whole'
<1>1. \E k : queue' = [queue EXCEPT ![k].lost = TRUE]
  BY DEF GiveUp
<1>2. PICK k : queue' = [queue EXCEPT ![k].lost = TRUE]
  BY <1>1
<1>3. queue \in Seq(Commands) /\ Watched(ring, queue) /\ UNCHANGED <<texture, ring, broken>>
  BY DEF Whole, CardTypes, GiveUp
<1>4. DOMAIN queue = 1..Len(queue) /\ \A i \in DOMAIN queue : queue[i] \in Commands
  BY <1>3
<1>5. \A c \in Commands : /\ [c EXCEPT !.lost = TRUE] \in Commands /\ [c EXCEPT !.lost = TRUE].lost
                          /\ [c EXCEPT !.lost = TRUE].slot = c.slot
  BY DEF Commands
<1>6. /\ DOMAIN queue' = 1..Len(queue)
      /\ \A i \in DOMAIN queue : queue'[i] = queue[i] \/ queue'[i] = [queue[i] EXCEPT !.lost = TRUE]
  BY <1>2, <1>4
<1>7. queue' \in Seq(Commands) /\ Len(queue') = Len(queue)
  <2>1. queue' \in [1..Len(queue) -> Commands]
    <3>1. queue' = [i \in 1..Len(queue) |-> queue'[i]]
      BY <1>2, <1>4
    <3>2. \A i \in 1..Len(queue) : queue'[i] \in Commands
      BY <1>4, <1>5, <1>6
    <3> QED BY <3>1, <3>2
  <2>2. Len(queue) \in Nat
    BY <1>3
  <2> QED BY <2>1, <2>2, FunctionsAreSequences
<1>8. ASSUME NEW i \in DOMAIN queue'
      PROVE  WatchedBy(ring, queue'[i])
  <2>1. i \in DOMAIN queue /\ queue[i] \in Commands /\ WatchedBy(ring, queue[i])
    BY <1>3, <1>4, <1>6 DEF Watched
  <2>2. queue'[i] = queue[i] \/ (queue'[i].lost /\ queue'[i].slot = queue[i].slot)
    BY <1>5, <1>6, <2>1
  <2> QED BY <2>1, <2>2 DEF WatchedBy
<1> QED BY <1>3, <1>7, <1>8 DEF Whole, CardTypes, Watched

LEMMA ExecuteKeeps ==
  ASSUME Whole, Execute
  PROVE  Whole'
<1>1. queue \in Seq(Commands) /\ queue # <<>> /\ queue' = Tail(queue) /\ UNCHANGED <<texture, ring, broken>>
  BY DEF Whole, CardTypes, Execute
<1>2. /\ queue' \in Seq(Commands) /\ Len(queue') = Len(queue) - 1 /\ Len(queue) \in Nat
      /\ \A i \in DOMAIN queue' : i + 1 \in DOMAIN queue /\ queue'[i] = queue[i + 1]
  BY <1>1
<1>3. Watched(ring, queue')
  BY <1>2 DEF Whole, Watched
<1>4. Len(queue') <= DriverQueue
  BY <1>2, UploadAssumption DEF Whole, CardTypes
<1> QED BY <1>1, <1>2, <1>3, <1>4 DEF Whole, CardTypes, Watched

LEMMA WholeInit == Init => Whole
<1> SUFFICES ASSUME Init PROVE Whole
  OBVIOUS
<1>1. texture = 0 /\ ring = NoRing /\ broken = [pbo |-> FALSE, persistent |-> FALSE] /\ queue = <<>>
  BY DEF Init, GpuInit
<1>2. broken \in Flaws
  BY <1>1 DEF Flaws
<1>3. queue \in Seq(Commands) /\ Len(queue) = 0 /\ DOMAIN queue = {}
  BY <1>1
<1>4. Len(queue) <= DriverQueue
  BY <1>3, UploadAssumption
<1> QED BY <1>1, <1>2, <1>3, <1>4, RingsMade DEF Whole, CardTypes, Watched

LEMMA WholeUnchanged == Whole /\ UNCHANGED gpu => Whole'
BY DEF Whole, CardTypes, Watched, WatchedBy, gpu

LEMMA WholeStep == Whole /\ [Next]_vars => Whole'
<1> SUFFICES ASSUME Whole, [Next]_vars PROVE Whole'
  OBVIOUS
<1>1. CASE Begin
  BY <1>1, WholeUnchanged DEF Begin
<1>2. CASE Pictured
  BY <1>2, WholeUnchanged, UploadKeeps DEF Pictured
<1>3. CASE DrawWindow
  <2>1. UNCHANGED gpu \/ \E fence \in Outcomes : Draw(fence)
    BY <1>3 DEF DrawWindow
  <2>2. Outcomes \subseteq BOOLEAN
    BY DEF Outcomes
  <2> QED BY <2>1, <2>2, WholeUnchanged, DrawKeeps
<1>4. CASE WaitForCard
  BY <1>4, GiveUpKeeps DEF WaitForCard
<1>5. CASE Health
  BY <1>5, WholeUnchanged DEF Health
<1>6. CASE PollTimer
  BY <1>6, WholeUnchanged DEF PollTimer
<1>7. CASE Hall
  BY <1>7, WholeUnchanged DEF Hall
<1>8. CASE Card
  BY <1>8, ExecuteKeeps DEF Card
<1>9. CASE UNCHANGED vars
  BY <1>9, WholeUnchanged DEF vars
<1> QED BY <1>1, <1>2, <1>3, <1>4, <1>5, <1>6, <1>7, <1>8, <1>9 DEF Next, Thread

\* Whatever the driver and the card do, however late, a texture shows the
\* frame its slot was given: no picture is written over one the card has
\* still to read, unless a wait gave up or a fence could not be made
\* (PersistentRing, upload_frame).
LEMMA PicturesAreWhole == Whole => GpuTypeOK /\ SlotsHoldTheirFrame
BY DEF Whole, CardTypes, Watched, WatchedBy, GpuTypeOK, SlotsHoldTheirFrame, Rings

----------------------------------------------------------------------------
(* The windows.                                                            *)

LEMMA LeastNat ==
  ASSUME NEW S \in SUBSET Nat, S # {}
  PROVE  \E x \in S : \A y \in S : x <= y
<1> DEFINE R == OpToRel(<, Nat)
<1>1. \A x, y \in Nat : <<x, y>> \in R <=> x < y
  BY DEF OpToRel
<1>2. IsWellFoundedOn(R, Nat)
  BY NatLessThanWellFounded
<1> HIDE DEF R
<1>3. PICK x \in S : \A y \in S : ~(<<y, x>> \in R)
  BY <1>2, WFMin
<1>4. ASSUME NEW y \in S PROVE x <= y
  <2>1. ~(y < x)
    BY <1>1, <1>3
  <2> QED BY <2>1
<1> QED BY <1>4

\* What is kept of a sequence is a sequence of its elements.
LEMMA KeptIs ==
  ASSUME NEW T, NEW seq \in Seq(T), NEW set
  PROVE  Kept(seq, set) \in Seq(T \cap set)
<1> DEFINE C == Seq(T \cap set)
           n == Len(seq)
           Next1(f, i) == IF seq[i] \in set THEN Append(f[i - 1], seq[i]) ELSE f[i - 1]
           Body(f, m) == [i \in 0..m |-> IF i = 0 THEN <<>> ELSE Next1(f, i)]
           Ok(m) == \E f \in [0..m -> C] : f = Body(f, m)
           Bad == {m \in 0..n : ~Ok(m)}
<1>1. n \in Nat /\ \A i \in 1..n : seq[i] \in T
  OBVIOUS
<1>2. \A c \in C : \A i \in 1..n : seq[i] \in set => Append(c, seq[i]) \in C
  BY <1>1
<1>3. <<>> \in C
  OBVIOUS
<1> HIDE DEF C
<1>4. Ok(0)
  <2> DEFINE f == [i \in 0..0 |-> <<>>]
  <2>1. f \in [0..0 -> C]
    BY <1>3
  <2>2. f = Body(f, 0)
    OBVIOUS
  <2> QED BY <2>1, <2>2
<1>5. ASSUME NEW m \in Nat, m < n, Ok(m) PROVE Ok(m + 1)
  <2>1. PICK f \in [0..m -> C] : f = Body(f, m)
    BY <1>5
  <2> DEFINE last == Next1(f, m + 1)
             g == [i \in 0..(m + 1) |-> IF i \in 0..m THEN f[i] ELSE last]
  <2>2. m + 1 \in 1..n /\ m \in 0..m /\ (m + 1) - 1 = m /\ f[m] \in C
    BY <1>1, <1>5
  <2>3. last \in C
    BY <1>2, <2>2
  <2>4. g \in [0..(m + 1) -> C]
    BY <2>3
  <2>5. ASSUME NEW i \in 0..(m + 1) PROVE g[i] = IF i = 0 THEN <<>> ELSE Next1(g, i)
    <3>1. CASE i \in 0..m
      <4>1. f[i] = IF i = 0 THEN <<>> ELSE Next1(f, i)
        BY <2>1, <3>1
      <4>2. i # 0 => i - 1 \in 0..m /\ i - 1 \in 0..(m + 1)
        BY <3>1
      <4>3. g[i] = f[i] /\ (i # 0 => g[i - 1] = f[i - 1])
        BY <3>1, <4>2
      <4> HIDE DEF g
      <4> QED BY <4>1, <4>3
    <3>2. CASE i \notin 0..m
      <4>1. i = m + 1 /\ i # 0 /\ i - 1 = m
        BY <3>2
      <4>2. g[i] = last /\ g[m] = f[m]
        BY <2>2, <4>1
      <4>3. Next1(g, i) = last
        BY <2>2, <4>1, <4>2
      <4> HIDE DEF g, last
      <4> QED BY <4>1, <4>2, <4>3
    <3> QED BY <3>1, <3>2
  <2>6. g = Body(g, m + 1)
    <3>1. DOMAIN g = 0..(m + 1) /\ g = [i \in DOMAIN g |-> g[i]]
      OBVIOUS
    <3> HIDE DEF g
    <3> QED BY <2>5, <3>1
  <2> HIDE DEF g
  <2> QED BY <2>4, <2>6
<1>6. Ok(n)
  <2> HIDE DEF Ok
  <2> SUFFICES ASSUME Bad # {} PROVE FALSE
    BY <1>1
  <2>1. Bad \in SUBSET Nat
    BY <1>1
  <2>2. PICK m \in Bad : \A k \in Bad : m <= k
    BY <2>1, LeastNat
  <2>3. m \in 0..n /\ m # 0 /\ ~Ok(m)
    BY <1>4, <2>2
  <2>4. m - 1 \in Nat /\ m - 1 \in 0..n /\ m - 1 < n /\ ~(m <= m - 1) /\ (m - 1) + 1 = m
    BY <1>1, <2>3
  <2>5. Ok(m - 1)
    BY <2>2, <2>4
  <2>6. Ok((m - 1) + 1)
    BY <1>5, <2>4, <2>5
  <2> QED BY <2>3, <2>4, <2>6
<1> DEFINE kept == CHOOSE f : f = Body(f, n)
<1>7. kept = Body(kept, n) /\ Kept(seq, set) = kept[n]
  <2>1. kept = Body(kept, n)
    BY <1>6
  <2>2. Kept(seq, set) = kept[n]
    BY DEF Kept
  <2> QED BY <2>1, <2>2
<1> HIDE DEF kept
<1> DEFINE Wrong == {m \in 0..n : kept[m] \notin C}
<1>8. kept[n] \in C
  <2> SUFFICES ASSUME Wrong # {} PROVE FALSE
    BY <1>1
  <2>1. Wrong \in SUBSET Nat
    BY <1>1
  <2>2. PICK m \in Wrong : \A k \in Wrong : m <= k
    BY <2>1, LeastNat
  <2>3. m \in 0..n /\ kept[m] \notin C /\ kept[m] = IF m = 0 THEN <<>> ELSE Next1(kept, m)
    BY <1>7, <2>2
  <2>4. m # 0
    BY <1>3, <2>3
  <2>5. m - 1 \in 0..n /\ ~(m <= m - 1) /\ m \in 1..n
    BY <1>1, <2>3, <2>4
  <2>6. kept[m - 1] \in C
    BY <2>2, <2>5
  <2>7. Next1(kept, m) \in C
    BY <1>2, <2>5, <2>6
  <2> QED BY <2>3, <2>4, <2>7
<1> QED BY <1>7, <1>8 DEF C

LEMMA MinIsIn ==
  ASSUME NEW S \in SUBSET Nat, S # {}
  PROVE  Min(S) \in S
BY LeastNat DEF Min

LEMMA EnumeratedAre == Enumerated \in Seq(DOMAIN plugged)
<1>1. Enumerated \in Seq(Monitors \cap DOMAIN plugged)
  BY OutputsAssumption, KeptIs DEF Enumerated
<1> QED BY <1>1

LEMMA EnabledAre == Enabled \in Seq(Outputs)
<1> DEFINE on == {o \in Outputs : outputs[o].enabled}
<1>1. Enabled \in Seq(Outputs \cap on)
  BY OutputsAssumption, KeptIs DEF Enabled
<1> HIDE DEF on
<1> QED BY <1>1

\* What is found is a monitor that is there.
LEMMA FoundIsThere ==
  ASSUME NEW want, FindMonitor(want) # NoMonitor
  PROVE  FindMonitor(want) \in DOMAIN plugged
<1> DEFINE En == Enumerated
           A == {i \in 1..Len(En) : SpecOf(En[i]) = want}
           B == {i \in 1..Len(En) : NameOf[En[i]] = want.name}
           D == {i \in 1..Len(En) : plugged[En[i]] = want.pos}
           At(I) == LET i == IF I # {} THEN Min(I) ELSE 0 IN IF i = 0 THEN NoMonitor ELSE En[i]
<1>1. FindMonitor(want) = IF At(A) # NoMonitor THEN At(A)
                          ELSE IF want.name # NoName THEN At(B) ELSE At(D)
  BY DEF FindMonitor, SelectInSeq
<1>2. En \in Seq(DOMAIN plugged) /\ Len(En) \in Nat
  BY EnumeratedAre
<1> HIDE DEF En
<1>3. ASSUME NEW I \in SUBSET (1..Len(En)), At(I) # NoMonitor PROVE At(I) \in DOMAIN plugged
  <2>1. I # {} /\ At(I) = En[Min(I)]
    BY <1>3
  <2>2. Min(I) \in I
    BY <1>2, <2>1, MinIsIn
  <2>3. \A i \in 1..Len(En) : En[i] \in DOMAIN plugged
    BY <1>2
  <2> DEFINE m == Min(I)
  <2>4. m \in 1..Len(En) /\ At(I) = En[m]
    BY <2>1, <2>2
  <2> HIDE DEF m, At
  <2> QED BY <2>3, <2>4
<1>4. A \in SUBSET (1..Len(En)) /\ B \in SUBSET (1..Len(En)) /\ D \in SUBSET (1..Len(En))
  OBVIOUS
<1> HIDE DEF A, B, D, At
<1> QED BY <1>1, <1>3, <1>4

\* A window is of an output, on a monitor that is there, and falls back only
\* from full screen.
Placed(w) ==
  /\ w = [output |-> w.output, vsync |-> w.vsync, full |-> w.full, at |-> w.at,
          fallback |-> w.fallback, target |-> w.target]
  /\ w.output \in Outputs /\ w.at \in DOMAIN plugged /\ (w.fallback => w.full)

Framed ==
  /\ Desk \in DOMAIN plugged
  /\ \A i \in DOMAIN windows : Placed(windows[i])
  /\ gl # "ready" => windows = <<>>
  /\ streak \in 0..FatalStreak /\ since \in {"none", "young", "old"}
  /\ fatal \in {"none", "reset", "failures"} /\ exit \in {Running, OK, GpuLost}

LEMMA WindowIs ==
  ASSUME Desk \in DOMAIN plugged, NEW o \in Outputs, NEW vsync
  PROVE  Placed(Window(o, vsync))
<1> DEFINE c == outputs[o]
           at0 == IF c.fullscreen /\ c.monitor \in DOMAIN Enumerated THEN Enumerated[c.monitor] ELSE Desk
           full == c.fullscreen
           target == IF full THEN SpecOf(at0) ELSE NoSpec
<1>1. at0 \in DOMAIN plugged
  BY EnumeratedAre
<1>2. Window(o, vsync) = [output |-> o, vsync |-> vsync, full |-> full, at |-> at0,
                          fallback |-> FALSE, target |-> target]
  BY DEF Window
<1> HIDE DEF at0, full, target
<1> QED BY <1>1, <1>2 DEF Placed

LEMMA PolledIs ==
  ASSUME NEW w, Placed(w)
  PROVE  Placed(Polled(w))
<1> DEFINE found == FindMonitor(w.target)
<1>1. \/ Polled(w) = w
      \/ found # NoMonitor /\ Polled(w) = [w EXCEPT !.at = found, !.fallback = FALSE]
      \/ w.full /\ Polled(w) = [w EXCEPT !.fallback = TRUE]
  BY DEF Polled
<1>2. found # NoMonitor => found \in DOMAIN plugged
  BY FoundIsThere
<1> HIDE DEF found
<1>3. CASE found # NoMonitor /\ Polled(w) = [w EXCEPT !.at = found, !.fallback = FALSE]
  BY <1>2, <1>3 DEF Placed
<1>4. CASE w.full /\ Polled(w) = [w EXCEPT !.fallback = TRUE]
  BY <1>4 DEF Placed
<1> QED BY <1>1, <1>3, <1>4

\* ensure_windows() makes windows of outputs, once the card is ready.
LEMMA EnsuredArePlaced ==
  ASSUME Framed, NEW works, NEW refused
  PROVE  LET r == EnsureWindows(works, refused)
         IN  /\ \A i \in DOMAIN r.windows : Placed(r.windows[i])
             /\ r.gl # "ready" => r.windows = <<>>
<1> USE DEF Framed
<1> DEFINE fresh == gl = "none" /\ Enabled # <<>>
           state == IF fresh THEN (IF works THEN "ready" ELSE "failed") ELSE gl
           ready == IF fresh /\ works THEN <<Window(Enabled[1], TRUE)>> ELSE windows
           same == ready # <<>> /\ [i \in DOMAIN ready |-> ready[i].output] = Enabled
           made == Kept(Enabled, Outputs \ refused)
           ws == IF state # "ready" \/ same THEN ready ELSE WindowsBut(refused)
<1>1. EnsureWindows(works, refused) = [gl |-> state, windows |-> ws]
  BY DEF EnsureWindows
<1>2. \A i \in DOMAIN ready : Placed(ready[i])
  <2>1. CASE fresh /\ works
    <3>1. Enabled[1] \in Outputs
      BY <2>1, EnabledAre
    <3>2. Placed(Window(Enabled[1], TRUE))
      BY <3>1, WindowIs
    <3> DEFINE w == Window(Enabled[1], TRUE)
    <3>3. Placed(w) /\ ready = <<w>>
      BY <2>1, <3>2
    <3> HIDE DEF w, ready, Placed
    <3> QED BY <3>3
  <2>2. CASE ~(fresh /\ works)
    BY <2>2
  <2> QED BY <2>1, <2>2
<1>3. \A i \in DOMAIN WindowsBut(refused) : Placed(WindowsBut(refused)[i])
  <2>1. made \in Seq(Outputs \cap (Outputs \ refused))
    BY EnabledAre, KeptIs
  <2>2. WindowsBut(refused) = [i \in DOMAIN made |-> Window(made[i], made[i] = Enabled[1])]
    BY DEF WindowsBut
  <2> HIDE DEF made
  <2>3. \A i \in DOMAIN made : made[i] \in Outputs
    BY <2>1
  <2> QED BY <2>2, <2>3, WindowIs
<1>4. state # "ready" => ws = <<>>
  OBVIOUS
<1> HIDE DEF ready, state
<1>5. \A i \in DOMAIN ws : Placed(ws[i])
  BY <1>2, <1>3
<1> HIDE DEF ws
<1> QED BY <1>1, <1>4, <1>5

\* What Failures, Fatal and Finish leave.
LEMMA Failed ==
  ASSUME Framed, NEW n \in Nat, Failures(n), fatal' = Fatal
  PROVE  /\ streak' \in 0..FatalStreak /\ since' \in {"none", "young", "old"}
         /\ fatal' \in {"none", "reset", "failures"}
<1>1. FatalStreak \in Nat
  BY OutputsAssumption
<1> QED BY <1>1 DEF Framed, Failures, Capped, Fatal

LEMMA Exits ==
  ASSUME Finish
  PROVE  exit' \in {Running, OK, GpuLost}
BY DEF Finish

LEMMA FramedInit == Init => Framed
<1> SUFFICES ASSUME Init PROVE Framed
  OBVIOUS
<1>1. Desk \in Monitors /\ DOMAIN Places = Monitors /\ FatalStreak \in Nat
  BY OutputsAssumption DEF Desk
<1>2. /\ plugged = Places /\ windows = <<>> /\ streak = 0 /\ since = "none" /\ fatal = "none"
      /\ exit = Running
  BY DEF Init, OutputsInit
<1> QED BY <1>1, <1>2 DEF Framed

LEMMA FramedBegin == Framed /\ Begin => Framed'
<1> SUFFICES ASSUME Framed, Begin PROVE Framed'
  OBVIOUS
<1>1. PICK works \in BOOLEAN, current \in BOOLEAN, refused \in SUBSET Outputs :
        LET ensured == IF dirty THEN EnsureWindows(works, refused) ELSE [gl |-> gl, windows |-> windows]
        IN  /\ gl' = ensured.gl
            /\ windows' = IF pollDue THEN PollMonitors(ensured.windows) ELSE ensured.windows
            /\ IF windows' = <<>> THEN UNCHANGED failures /\ Finish
               ELSE IF ~current THEN Failures(1) /\ fatal' = Fatal /\ Finish
               ELSE /\ at' = "upload"
                    /\ UNCHANGED <<failures, todo, presented, exit>>
  BY DEF Begin
<1> DEFINE e == IF dirty THEN EnsureWindows(works, refused) ELSE [gl |-> gl, windows |-> windows]
           ws == e.windows
<1>2. (\A i \in DOMAIN ws : Placed(ws[i])) /\ (e.gl # "ready" => ws = <<>>)
  BY EnsuredArePlaced DEF Framed
<1>3. gl' = e.gl /\ windows' = IF pollDue THEN PollMonitors(ws) ELSE ws
  BY <1>1
<1>4. plugged' = plugged
  BY DEF Begin
<1> HIDE DEF ws, e
<1>5. (\A i \in DOMAIN windows' : Placed(windows'[i])) /\ (gl' # "ready" => windows' = <<>>)
  <2>1. CASE pollDue
    <3>1. windows' = [i \in DOMAIN ws |-> Polled(ws[i])]
      BY <1>3, <2>1 DEF PollMonitors
    <3>2. \A i \in DOMAIN ws : Placed(Polled(ws[i]))
      BY <1>2, PolledIs
    <3>3. ws = <<>> => windows' = <<>>
      BY <3>1
    <3> QED BY <1>2, <1>3, <3>1, <3>2, <3>3
  <2>2. CASE ~pollDue
    BY <1>2, <1>3, <2>2
  <2> QED BY <2>1, <2>2
<1>6. \A i \in DOMAIN windows' : Placed(windows[i])'
  BY <1>4, <1>5 DEF Placed
<1>7. /\ streak' \in 0..FatalStreak /\ since' \in {"none", "young", "old"}
      /\ fatal' \in {"none", "reset", "failures"} /\ exit' \in {Running, OK, GpuLost}
  <2>1. CASE UNCHANGED failures /\ Finish
    BY <2>1, Exits DEF Framed, failures
  <2>2. CASE Failures(1) /\ fatal' = Fatal /\ Finish
    BY <2>2, Exits, Failed
  <2>3. CASE UNCHANGED <<failures, exit>>
    BY <2>3 DEF Framed, failures
  <2> QED BY <1>1, <2>1, <2>2, <2>3
<1> QED BY <1>4, <1>5, <1>6, <1>7 DEF Framed

LEMMA FramedHall == Framed /\ Hall => Framed'
<1> SUFFICES ASSUME Framed, Hall PROVE Framed'
  OBVIOUS
<1>1. exit' = exit
  BY DEF Hall, thread
<1>2. CASE Age
  BY <1>1, <1>2 DEF Age, screens, Framed, Placed
<1>3. ASSUME NEW m \in Monitors, Unplug(m) PROVE Framed'
  <2>1. /\ m # Desk /\ DOMAIN plugged' = DOMAIN plugged \ {m}
        /\ windows' = [i \in DOMAIN windows |-> IF windows[i].at = m THEN [windows[i] EXCEPT !.at = Desk] ELSE windows[i]]
        /\ UNCHANGED <<gl, failures>>
    BY <1>3 DEF Unplug
  <2>2. ASSUME NEW i \in DOMAIN windows PROVE Placed(windows[i])'
    <3> DEFINE w == windows[i]
               v == IF w.at = m THEN [w EXCEPT !.at = Desk] ELSE w
    <3>1. Placed(w) /\ windows'[i] = v /\ Desk \in DOMAIN plugged
      BY <2>1 DEF Framed
    <3> HIDE DEF w
    <3>2. /\ v = [output |-> v.output, vsync |-> v.vsync, full |-> v.full, at |-> v.at,
                  fallback |-> v.fallback, target |-> v.target]
          /\ v.output \in Outputs /\ v.at \in DOMAIN plugged \ {m} /\ (v.fallback => v.full)
      BY <2>1, <3>1 DEF Placed
    <3> HIDE DEF v
    <3> QED BY <2>1, <3>1, <3>2 DEF Placed
  <2>3. Desk \in DOMAIN plugged' /\ DOMAIN windows' = DOMAIN windows
    BY <2>1 DEF Framed
  <2>4. windows = <<>> => windows' = <<>>
    BY <2>1
  <2> QED BY <1>1, <2>1, <2>2, <2>3, <2>4 DEF Framed, failures
<1>4. ASSUME NEW m \in Monitors, NEW pos \in Positions, Plug(m, pos) PROVE Framed'
  <2>1. DOMAIN plugged' = DOMAIN plugged \cup {m} /\ UNCHANGED <<gl, windows, failures>>
    BY <1>4 DEF Plug
  <2> QED BY <1>1, <2>1 DEF Framed, Placed, failures
<1>5. ASSUME NEW o \in Outputs, NEW c \in Configs, SetOutput(o, c) PROVE Framed'
  <2>1. UNCHANGED <<plugged, gl, windows, failures>>
    BY <1>5 DEF SetOutput
  <2> QED BY <1>1, <2>1 DEF Framed, Placed, failures
<1> QED BY <1>2, <1>3, <1>4, <1>5 DEF Hall

LEMMA FramedSame ==
  ASSUME Framed, UNCHANGED <<plugged, gl, windows>>,
         /\ streak' \in 0..FatalStreak /\ since' \in {"none", "young", "old"}
         /\ fatal' \in {"none", "reset", "failures"} /\ exit' \in {Running, OK, GpuLost}
  PROVE  Framed'
BY DEF Framed, Placed

LEMMA FramedStep == Framed /\ [Next]_vars => Framed'
<1> SUFFICES ASSUME Framed, [Next]_vars PROVE Framed'
  OBVIOUS
<1>1. CASE Begin
  BY <1>1, FramedBegin
<1>2. CASE Pictured
  BY <1>2, FramedSame DEF Pictured, screens, failures, Framed
<1>3. CASE DrawWindow
  BY <1>3, FramedSame DEF DrawWindow, screens, Framed
<1>4. CASE WaitForCard
  BY <1>4, FramedSame DEF WaitForCard, screens, failures, thread, Framed
<1>5. CASE Health
  <2>1. UNCHANGED <<plugged, gl, windows>> /\ exit' \in {Running, OK, GpuLost}
    BY <1>5, Exits DEF Health, screens
  <2>2. CASE fatal' = "reset" /\ UNCHANGED <<streak, since, lit>>
    BY <2>1, <2>2, FramedSame DEF Framed
  <2>3. ASSUME NEW n \in 0..2, Success(n), fatal' = Fatal PROVE Framed'
    <3>1. FatalStreak \in Nat
      BY OutputsAssumption
    <3>2. /\ streak' \in 0..FatalStreak /\ since' \in {"none", "young", "old"}
          /\ fatal' \in {"none", "reset", "failures"}
      BY <2>3, <3>1 DEF Framed, Success, Capped, Fatal
    <3> QED BY <2>1, <3>2, FramedSame
  <2>4. ASSUME NEW n \in 0..2, Failures(1 + n), fatal' = Fatal PROVE Framed'
    <3>1. 1 + n \in Nat
      OBVIOUS
    <3> QED BY <2>1, <2>4, <3>1, Failed, FramedSame
  <2> QED BY <1>5, <2>2, <2>3, <2>4 DEF Health
<1>6. CASE PollTimer
  BY <1>6, FramedSame DEF PollTimer, screens, failures, Framed
<1>7. CASE Hall
  BY <1>7, FramedHall
<1>8. CASE Card
  BY <1>8, FramedSame DEF Card, screens, failures, thread, Framed
<1>9. CASE UNCHANGED vars
  BY <1>9, FramedSame DEF vars, screens, failures, thread, Framed
<1> QED BY <1>1, <1>2, <1>3, <1>4, <1>5, <1>6, <1>7, <1>8, <1>9 DEF Next, Thread

\* DisplayInvariant: windows are of outputs of the show, on monitors that are
\* there, whatever is unplugged, plugged elsewhere or edited; counters are in
\* their range; and a texture shows the frame its slot was given
\* (ensure_windows, poll_monitors, PersistentRing).
THEOREM DisplayIsSafe == Spec => []DisplayInvariant
<1>1. Framed /\ Whole => DisplayInvariant
  <2> SUFFICES ASSUME Framed, Whole PROVE DisplayInvariant
    OBVIOUS
  <2>1. GpuTypeOK /\ SlotsHoldTheirFrame
    BY PicturesAreWhole
  <2> QED BY <2>1 DEF Framed, Placed, DisplayTypeOK, DisplayInvariant
<1> QED BY <1>1, FramedInit, FramedStep, WholeInit, WholeStep, PTL DEF Spec

================================================================================
