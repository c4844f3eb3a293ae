------------------------- MODULE FfmpegPlayer_proofs -------------------------
(***************************************************************************)
(* Proofs about FfmpegPlayer, for every set of media, every ring capacity  *)
(* and any number of seeks and faults: type correctness, the end of media  *)
(* that is never a death of ffmpeg, the player that leaves nothing behind, *)
(* the seek that is honoured and the frames that never go back.            *)
(*                                                                         *)
(* The inductive invariant says what one thread may rely on while another  *)
(* is at work: at most one reader, whose process is the one the supervisor *)
(* reaps; at most one message of the end of a reader, which is stale once  *)
(* a seek has replaced it; and, from them, how far the ring has come.      *)
(***************************************************************************)
EXTENDS FfmpegPlayer, FiniteSets, FiniteSetTheorems, TLAPS

\* The values of the variables.
Messages ==
  [type : {"Seek"}, pos : Nat] \cup [type : {"Shutdown"}]
    \cup [type : {"ReaderDone"}, generation : Nat, last : Pts]

Players ==
  [phase : {"up", "closing", "joining", "gone"}, eof : BOOLEAN,
   target : Nat, served : Pts, seeks : Nat]
Flags == [ended : BOOLEAN, healthy : BOOLEAN, pendingSeeks : Nat]
Rings == [frames : Seq(Nat), closed : BOOLEAN]
Supervisors ==
  [pc : {"idle", "seek", "stop", "ended"}, pos : Nat, generation : Nat, retries : 0 .. 1,
   base : Nat, end : {Infinity} \cup Nat, hw : BOOLEAN]
Processes ==
  [state : {"none", "running", "exited", "failed"}, start : Nat, endless : BOOLEAN]
Readers ==
  [pc : {"none", "read", "push", "exit"}, generation : Nat, index : Nat, last : Pts]

Types ==
  /\ media \in Medias
  /\ player \in Players /\ shared \in Flags /\ ring \in Rings
  /\ sup \in Supervisors /\ proc \in Processes /\ reader \in Readers
  /\ hwBroken \in BOOLEAN /\ faults \in 0 .. MaxFaults
  /\ msgs \in Seq(Messages)

\* The ring is bounded.
Bounded == Len(ring.frames) <= Capacity

----------------------------------------------------------------------------
(* Seeks: each that is pending has a message, or is the one being served,  *)
(* and the position asked last is that of the last of them.                *)

\* The seeks in the queue, and the one being served.
SeekMsgs(m) == {i \in DOMAIN m : m[i].type = "Seek"}
Serving == IF sup.pc = "seek" THEN 1 ELSE 0
Counted ==
  /\ shared.pendingSeeks = Cardinality(SeekMsgs(msgs)) + Serving
  /\ shared.pendingSeeks <= player.seeks /\ player.seeks <= MaxSeeks
Asked ==
  /\ \A i \in SeekMsgs(msgs) : (\A j \in SeekMsgs(msgs) : j <= i) => msgs[i].pos = player.target
  /\ sup.pc = "seek" /\ SeekMsgs(msgs) = {} => sup.pos = player.target

----------------------------------------------------------------------------
(* The reader and its message.                                             *)

\* The messages of the ends of readers.
DoneMsgs == {i \in DOMAIN msgs : msgs[i].type = "ReaderDone"}
\* The messages the supervisor would not ignore.
Answers == {i \in DoneMsgs : msgs[i].generation = sup.generation /\ sup.pc # "ended"}

\* A reader says once that it ends, and says it last.
OneReader ==
  /\ reader.generation <= sup.generation
  /\ \A i \in DoneMsgs : msgs[i].generation <= reader.generation
  /\ \A i, j \in DoneMsgs : msgs[i].generation = msgs[j].generation => i = j
  /\ \A i \in DoneMsgs : msgs[i].generation = reader.generation =>
       reader.pc = "none" /\ msgs[i].last = reader.last

\* What a process started with, and how far its reader has come.
Exact == reader.last = IF reader.index = 0 THEN NoPts ELSE sup.base + reader.index - 1
Working ==
  proc.state # "none" =>
    /\ reader.generation = sup.generation /\ Exact
    /\ sup.end = SpawnEnd(sup.base, proc.start)
    /\ proc.endless = StreamLoop(proc.start)
    /\ Segment = 0 => proc.start <= sup.base

----------------------------------------------------------------------------
(* Who stops whom.                                                         *)

Joined ==
  /\ reader.pc # "none" => proc.state # "none"
  /\ sup.pc \in {"seek", "stop", "ended"} => ~Running
  /\ sup.pc = "ended" => proc = NoProcess /\ reader.pc = "none"
  /\ player.phase = "gone" => sup.pc = "ended"
  /\ sup.pc \in {"stop", "ended"} => player.phase # "up"
  /\ \A i \in DOMAIN msgs : msgs[i].type = "Shutdown" => player.phase # "up"
\* The ring closes under a reader, or a reader leaves a process, only when the
\* process is being stopped or the player dropped.
NotCut ==
  player.phase = "up" =>
    /\ ring.closed /\ reader.pc # "none" => sup.pc = "seek"
    /\ Running => reader.pc \in {"read", "push"}
    /\ proc.state = "exited" => ~proc.endless /\ proc.start + reader.index >= media.real

----------------------------------------------------------------------------
(* The end of the media.                                                   *)

Reached ==
  LET end == IF sup.end = Infinity THEN media.real ELSE sup.end
  IN  reader.last >= end - Tolerance \/ sup.base >= end - Tolerance
\* What a player that has ended has left: no process, no reader, no answer to
\* come; and the frames have come to the end of the media.
Ends ==
  /\ shared.healthy /\ Answers # {} => proc.state # "none"
  /\ player.eof => shared.ended /\ shared.pendingSeeks = 0
  /\ player.eof /\ shared.healthy => ring.frames = <<>>
  /\ shared.ended /\ shared.healthy /\ (player.phase = "up" \/ player.eof) =>
       /\ proc = NoProcess /\ reader.pc = "none"
       /\ Answers = {} /\ Reached

\* Where the stream starts after the last seek.
Honoured ==
  shared.healthy /\ shared.pendingSeeks = 0 =>
    /\ player.target <= sup.base
    /\ \A i \in DOMAIN ring.frames : ring.frames[i] >= player.target

\* The inductive invariant.
IInv ==
  /\ Types /\ Bounded /\ Counted /\ Asked
  /\ OneReader /\ Working /\ Joined /\ NotCut /\ Ends /\ Honoured

----------------------------------------------------------------------------
(* The order of the frames.                                                *)

\* ffprobe announces no less than what ffmpeg decodes.
AnnouncedIsEnough == \A m \in Medias : m.loop /\ m.announced > 0 => m.real <= m.announced

\* The frames announced, those in the ring and the one being read go up.
Ordered ==
  /\ \A i, j \in DOMAIN ring.frames : i < j => ring.frames[i] < ring.frames[j]
  /\ \A i \in DOMAIN ring.frames : player.served < ring.frames[i]
  /\ shared.pendingSeeks > 0 => player.served = NoPts
  /\ proc.state # "none" =>
       /\ player.served < sup.base + reader.index
       /\ \A i \in DOMAIN ring.frames : ring.frames[i] < sup.base + reader.index
       /\ ~proc.endless => reader.index = 0 \/ proc.start + reader.index <= media.real
       /\ reader.pc = "push" /\ ~proc.endless => proc.start + reader.index < media.real
  /\ proc.state = "none" /\ Answers # {} => ring.frames = <<>> /\ player.served = NoPts

----------------------------------------------------------------------------
(* Sequences.                                                              *)

\* What is left of a queue when its first message is taken.
LEMMA TailOf ==
  ASSUME NEW S, NEW q \in Seq(S), q # <<>>
  PROVE  /\ Head(q) = q[1] /\ 1 \in DOMAIN q /\ Head(q) \in S
         /\ Tail(q) \in Seq(S) /\ Len(Tail(q)) = Len(q) - 1
         /\ \A i \in DOMAIN Tail(q) : i + 1 \in DOMAIN q /\ Tail(q)[i] = q[i + 1]
         /\ \A i \in DOMAIN q : i = 1 \/ i - 1 \in DOMAIN Tail(q)
  OBVIOUS

\* A queue with one more message.
LEMMA AppendOf ==
  ASSUME NEW S, NEW q \in Seq(S), NEW x \in S
  PROVE  /\ Append(q, x) \in Seq(S) /\ Len(Append(q, x)) = Len(q) + 1
         /\ DOMAIN Append(q, x) = DOMAIN q \cup {Len(q) + 1}
         /\ Len(q) + 1 \notin DOMAIN q
         /\ Append(q, x)[Len(q) + 1] = x
         /\ \A i \in DOMAIN q : Append(q, x)[i] = q[i]
  OBVIOUS

\* What is left of a queue after its i-th element.
LEMMA RestOf ==
  ASSUME NEW S, NEW q \in Seq(S), NEW i \in 1 .. Len(q)
  PROVE  /\ SubSeq(q, i + 1, Len(q)) \in Seq(S)
         /\ Len(SubSeq(q, i + 1, Len(q))) = Len(q) - i
         /\ \A k \in DOMAIN SubSeq(q, i + 1, Len(q)) :
              i + k \in DOMAIN q /\ SubSeq(q, i + 1, Len(q))[k] = q[i + k]
  OBVIOUS

\* The seeks in a queue are counted.
LEMMA SeekMsgsFinite ==
  ASSUME NEW q \in Seq(Messages)
  PROVE  IsFiniteSet(SeekMsgs(q)) /\ Cardinality(SeekMsgs(q)) \in Nat
<1>1. IsFiniteSet(1 .. Len(q))
  BY FS_Interval
<1>2. SeekMsgs(q) \subseteq 1 .. Len(q)
  BY DEF SeekMsgs
<1> QED
  BY <1>1, <1>2, FS_Subset, FS_CardinalityType

\* A message more is a seek more, or not.
LEMMA SeekMsgsAppend ==
  ASSUME NEW q \in Seq(Messages), NEW x \in Messages
  PROVE  Cardinality(SeekMsgs(Append(q, x))) =
           Cardinality(SeekMsgs(q)) + (IF x.type = "Seek" THEN 1 ELSE 0)
<1>1. CASE x.type = "Seek"
  <2>1. SeekMsgs(Append(q, x)) = SeekMsgs(q) \cup {Len(q) + 1}
    BY <1>1, AppendOf DEF SeekMsgs
  <2>2. Len(q) + 1 \notin SeekMsgs(q)
    BY AppendOf DEF SeekMsgs
  <2> QED
    BY <1>1, <2>1, <2>2, SeekMsgsFinite, FS_AddElement
<1>2. CASE x.type # "Seek"
  <2>1. SeekMsgs(Append(q, x)) = SeekMsgs(q)
    BY <1>2, AppendOf DEF SeekMsgs
  <2> QED
    BY <1>2, <2>1, SeekMsgsFinite
<1> QED
  BY <1>1, <1>2

\* The message taken was a seek, or not.
LEMMA SeekMsgsTail ==
  ASSUME NEW q \in Seq(Messages), q # <<>>
  PROVE  Cardinality(SeekMsgs(q)) =
           Cardinality(SeekMsgs(Tail(q))) + (IF Head(q).type = "Seek" THEN 1 ELSE 0)
<1> DEFINE left == SeekMsgs(Tail(q))
           later == SeekMsgs(q) \ {1}
           shift == [i \in left |-> i + 1]
<1>1. shift \in Bijection(left, later)
  <2>1. shift \in [left -> later]
    BY TailOf DEF SeekMsgs
  <2>2. IsInjective(shift)
    BY TailOf DEF SeekMsgs, IsInjective
  <2>3. \A k \in later : \E i \in left : shift[i] = k
    <3> SUFFICES ASSUME NEW k \in later PROVE \E i \in left : shift[i] = k
      OBVIOUS
    <3>1. k - 1 \in left
      BY TailOf DEF SeekMsgs
    <3> QED
      BY <3>1 DEF SeekMsgs
  <2> HIDE DEF left, later, shift
  <2> QED
    BY <2>1, <2>2, <2>3 DEF Bijection, Injection, Surjection
<1>2. Tail(q) \in Seq(Messages) /\ IsFiniteSet(left)
  BY TailOf, SeekMsgsFinite
<1> HIDE DEF left, later, shift
<1>3. Cardinality(later) = Cardinality(left)
  BY <1>1, <1>2, FS_Bijection DEF ExistsBijection
<1>4. Cardinality(SeekMsgs(q)) = Cardinality(later) + (IF 1 \in SeekMsgs(q) THEN 1 ELSE 0)
  <2>1. IsFiniteSet(SeekMsgs(q)) /\ Cardinality(SeekMsgs(q)) \in Nat
    BY SeekMsgsFinite
  <2>2. Cardinality(SeekMsgs(q) \ {1}) =
          IF 1 \in SeekMsgs(q) THEN Cardinality(SeekMsgs(q)) - 1 ELSE Cardinality(SeekMsgs(q))
    BY <2>1, FS_RemoveElement
  <2> QED
    BY <2>1, <2>2 DEF later
<1>5. 1 \in SeekMsgs(q) <=> Head(q).type = "Seek"
  BY TailOf DEF SeekMsgs
<1> QED
  BY <1>3, <1>4, <1>5, <1>2, SeekMsgsFinite DEF left

\* What a new message adds.
LEMMA QueueGrows ==
  ASSUME Types, NEW m \in Messages, msgs' = Append(msgs, m)
  PROVE  /\ msgs' \in Seq(Messages)
         /\ \A i \in DOMAIN msgs : i \in DOMAIN msgs' /\ msgs'[i] = msgs[i]
         /\ \A i \in DOMAIN msgs' : i \in DOMAIN msgs \/ msgs'[i] = m
         /\ m.type # "ReaderDone" => DoneMsgs' = DoneMsgs
         /\ m.type = "ReaderDone" => /\ DoneMsgs' = DoneMsgs \cup {Len(msgs) + 1}
                                     /\ Len(msgs) + 1 \notin DoneMsgs
         /\ m.type # "Seek" => SeekMsgs(msgs') = SeekMsgs(msgs)
         /\ m.type = "Seek" => /\ SeekMsgs(msgs') = SeekMsgs(msgs) \cup {Len(msgs) + 1}
                               /\ Len(msgs) + 1 \notin SeekMsgs(msgs)
                               /\ \A i \in SeekMsgs(msgs) : i \in Nat /\ i <= Len(msgs)
         /\ msgs'[Len(msgs) + 1] = m /\ Len(msgs) \in Nat
<1>1. msgs \in Seq(Messages)
  BY DEF Types
<1>2. /\ msgs' \in Seq(Messages) /\ DOMAIN msgs' = DOMAIN msgs \cup {Len(msgs) + 1}
      /\ Len(msgs) + 1 \notin DOMAIN msgs /\ msgs'[Len(msgs) + 1] = m
      /\ \A i \in DOMAIN msgs : msgs'[i] = msgs[i]
  BY <1>1, AppendOf
<1>3. \A i \in DOMAIN msgs : i \in Nat /\ i <= Len(msgs)
  BY <1>1
<1>4. /\ m.type # "ReaderDone" => DoneMsgs' = DoneMsgs
      /\ m.type = "ReaderDone" => DoneMsgs' = DoneMsgs \cup {Len(msgs) + 1}
      /\ Len(msgs) + 1 \notin DoneMsgs
  BY <1>2 DEF DoneMsgs
<1>5. /\ m.type # "Seek" => SeekMsgs(msgs') = SeekMsgs(msgs)
      /\ m.type = "Seek" => SeekMsgs(msgs') = SeekMsgs(msgs) \cup {Len(msgs) + 1}
      /\ Len(msgs) + 1 \notin SeekMsgs(msgs)
      /\ \A i \in SeekMsgs(msgs) : i \in Nat /\ i <= Len(msgs)
  BY <1>2, <1>3 DEF SeekMsgs
<1> QED
  BY <1>1, <1>2, <1>4, <1>5

\* What is left when the first message is taken.
LEMMA QueueServed ==
  ASSUME Types, msgs # <<>>, msgs' = Tail(msgs)
  PROVE  /\ msgs' \in Seq(Messages) /\ Head(msgs) = msgs[1] /\ 1 \in DOMAIN msgs
         /\ Head(msgs) \in Messages
         /\ \A i \in DOMAIN msgs' : i \in Nat \ {0} /\ i + 1 \in DOMAIN msgs /\ msgs'[i] = msgs[i + 1]
         /\ \A i \in DoneMsgs' : i \in Nat \ {0} /\ i + 1 \in DoneMsgs /\ msgs'[i] = msgs[i + 1]
         /\ \A i \in SeekMsgs(msgs') : i \in Nat \ {0} /\ i + 1 \in SeekMsgs(msgs) /\ msgs'[i] = msgs[i + 1]
         /\ \A i \in SeekMsgs(msgs) : i = 1 \/ (i \in Nat /\ i - 1 \in SeekMsgs(msgs'))
         /\ 1 \in DoneMsgs <=> Head(msgs).type = "ReaderDone"
         /\ 1 \in SeekMsgs(msgs) <=> Head(msgs).type = "Seek"
<1>1. msgs \in Seq(Messages)
  BY DEF Types
<1>2. /\ msgs' \in Seq(Messages) /\ Head(msgs) = msgs[1] /\ 1 \in DOMAIN msgs
      /\ Head(msgs) \in Messages
      /\ \A i \in DOMAIN msgs' : i + 1 \in DOMAIN msgs /\ msgs'[i] = msgs[i + 1]
      /\ \A i \in DOMAIN msgs : i = 1 \/ i - 1 \in DOMAIN msgs'
  BY <1>1, TailOf
<1>3. /\ \A i \in DOMAIN msgs' : i \in Nat \ {0}
      /\ \A i \in DOMAIN msgs : i \in Nat \ {0} /\ (i - 1) + 1 = i
  BY <1>1, <1>2
<1>4. \A i \in DoneMsgs' : i \in Nat \ {0} /\ i + 1 \in DoneMsgs /\ msgs'[i] = msgs[i + 1]
  BY <1>2, <1>3 DEF DoneMsgs
<1>5. /\ \A i \in SeekMsgs(msgs') : i \in Nat \ {0} /\ i + 1 \in SeekMsgs(msgs) /\ msgs'[i] = msgs[i + 1]
      /\ \A i \in SeekMsgs(msgs) : i = 1 \/ (i \in Nat /\ i - 1 \in SeekMsgs(msgs'))
  BY <1>2, <1>3 DEF SeekMsgs
<1>6. /\ 1 \in DoneMsgs <=> Head(msgs).type = "ReaderDone"
      /\ 1 \in SeekMsgs(msgs) <=> Head(msgs).type = "Seek"
  BY <1>2 DEF DoneMsgs, SeekMsgs
<1> QED
  BY <1>2, <1>3, <1>4, <1>5, <1>6

\* The messages of readers, when another message is sent, or one is taken.
LEMMA DoneMsgsKept ==
  ASSUME DoneMsgs' = DoneMsgs, \A i \in DoneMsgs : msgs'[i] = msgs[i],
         reader' = reader, sup' = sup, OneReader
  PROVE  OneReader' /\ Answers' = Answers
  BY DEF OneReader, Answers

\* Taking a message leaves at most the ends of readers there were.
LEMMA DoneMsgsServed ==
  ASSUME \A i \in DoneMsgs' : i \in Nat \ {0} /\ i + 1 \in DoneMsgs /\ msgs'[i] = msgs[i + 1],
         1 \in DoneMsgs <=> Head(msgs).type = "ReaderDone", Head(msgs) = msgs[1],
         reader' = reader, sup'.generation = sup.generation, sup.pc # "ended", OneReader
  PROVE  /\ OneReader'
         /\ Answers = {} => Answers' = {}
         /\ Head(msgs).type = "ReaderDone" /\ Head(msgs).generation = sup.generation
              => Answers # {} /\ Answers' = {}
<1>1. \A i, j \in DoneMsgs' : i + 1 = j + 1 => i = j
  OBVIOUS
<1>2. OneReader'
  BY <1>1 DEF OneReader
<1>3. \A i \in Answers' : i \in Nat \ {0} /\ i + 1 \in Answers
  BY DEF Answers
<1>4. ASSUME Head(msgs).type = "ReaderDone", Head(msgs).generation = sup.generation
      PROVE  Answers # {} /\ Answers' = {}
  <2>1. 1 \in Answers
    BY <1>4 DEF Answers
  <2>2. \A i \in Answers' : i + 1 = 1
    BY <1>3, <1>4, <2>1 DEF Answers, OneReader
  <2> QED
    BY <1>3, <2>1, <2>2
<1> QED
  BY <1>2, <1>3, <1>4

\* The position asked last, when a message is taken.
LEMMA AskedServed ==
  ASSUME \A i \in SeekMsgs(msgs') : i \in Nat \ {0} /\ i + 1 \in SeekMsgs(msgs) /\ msgs'[i] = msgs[i + 1],
         \A i \in SeekMsgs(msgs) : i = 1 \/ (i \in Nat /\ i - 1 \in SeekMsgs(msgs')),
         1 \in SeekMsgs(msgs) <=> Head(msgs).type = "Seek", Head(msgs) = msgs[1],
         player'.target = player.target, Asked,
         sup'.pc = "seek" => Head(msgs).type = "Seek" /\ sup'.pos = Head(msgs).pos
  PROVE  Asked'
<1>1. ASSUME NEW i \in SeekMsgs(msgs'), \A j \in SeekMsgs(msgs') : j <= i
      PROVE  msgs'[i].pos = player'.target
  <2>1. \A j \in SeekMsgs(msgs) : j <= i + 1
    BY <1>1
  <2> QED
    BY <1>1, <2>1 DEF Asked
<1>2. ASSUME sup'.pc = "seek", SeekMsgs(msgs') = {}
      PROVE  sup'.pos = player'.target
  <2>1. 1 \in SeekMsgs(msgs) /\ \A j \in SeekMsgs(msgs) : j <= 1
    BY <1>2
  <2> QED
    BY <1>2, <2>1 DEF Asked
<1> QED
  BY <1>1, <1>2 DEF Asked

----------------------------------------------------------------------------
(* A process that is launched, or not.                                     *)

\* What the assumption about the media gives for the one that plays.
LEMMA MediaFacts ==
  ASSUME media \in Medias
  PROVE  /\ Segment \in Nat /\ media.real \in Nat /\ media.loop \in BOOLEAN
         /\ media.whole \in BOOLEAN /\ media.hw \in BOOLEAN
         /\ Positions \subseteq Nat
<1>1. media \in [announced : Nat, real : Nat, whole : BOOLEAN, loop : BOOLEAN, hw : BOOLEAN]
  BY MediasAssumption
<1> QED
  BY <1>1 DEF Segment, Positions

\* Where the stream of a process ends is known unless it is endless or the media
\* has no length, and is never before its base.
LEMMA SpawnEndFacts ==
  ASSUME media \in Medias, NEW base \in Nat, NEW start \in Nat
  PROVE  /\ SpawnEnd(base, start) \in {Infinity} \cup Nat
         /\ SpawnEnd(base, start) = Infinity <=> StreamLoop(start) \/ Segment = 0
         /\ SpawnEnd(base, start) # Infinity =>
              /\ SpawnEnd(base, start) >= base
              /\ SpawnEnd(base, start) >= base + Segment - start
  BY MediaFacts DEF SpawnEnd, Infinity

\* The supervisor once it has launched a process.
LEMMA SupervisorTyped ==
  ASSUME NEW s \in Supervisors, NEW g \in Nat, NEW e \in {Infinity} \cup Nat, NEW h \in BOOLEAN
  PROVE  [s EXCEPT !.pc = "idle", !.generation = g, !.end = e, !.hw = h] \in Supervisors
  BY DEF Supervisors

\* The supervisor before it launches one again.
Based(s, b) == [s EXCEPT !.retries = 0, !.base = b]
LEMMA SupervisorBased ==
  ASSUME NEW s \in Supervisors, NEW b \in Nat
  PROVE  Based(s, b) \in Supervisors /\ Based(s, b).generation = s.generation /\ Based(s, b).base = b
<1>1. 0 \in 0 .. 1
  OBVIOUS
<1>2. Based(s, b) \in Supervisors
  BY <1>1 DEF Based, Supervisors
<1>3. Based(s, b).generation = s.generation
  BY DEF Based, Supervisors
<1>4. Based(s, b).base = b
  BY DEF Based, Supervisors
<1> QED BY <1>2, <1>3, <1>4

\* spawn_run when ffmpeg starts: a reader and a process of a new generation.
LEMMA LaunchedFacts ==
  ASSUME media \in Medias, hwBroken' \in BOOLEAN, NEW s \in Supervisors,
         NEW start \in Nat, NEW frames \in Seq(Nat), Launched(s, start, frames)
  PROVE  /\ sup' \in Supervisors /\ sup'.pc = "idle"
         /\ sup'.generation = s.generation + 1 /\ sup'.base = s.base
         /\ sup'.end = SpawnEnd(s.base, start)
         /\ proc' \in Processes /\ proc'.state = "running" /\ proc'.start = start
         /\ proc'.endless = StreamLoop(start)
         /\ reader' \in Readers /\ reader'.pc = "read" /\ reader'.generation = s.generation + 1
         /\ reader'.index = 0 /\ reader'.last = NoPts
         /\ ring' = [frames |-> frames, closed |-> FALSE]
<1>1. SpawnEnd(s.base, start) \in {Infinity} \cup Nat
  BY SpawnEndFacts DEF Supervisors
<1>2. StreamLoop(start) \in BOOLEAN
  BY MediaFacts DEF StreamLoop
<1>3. NoPts \in Pts
  BY DEF Pts
<1>4. PICK hw \in BOOLEAN : hw = (media.hw /\ ~hwBroken')
  BY MediaFacts
<1>5. sup' = [s EXCEPT !.pc = "idle", !.generation = @ + 1,
                       !.end = SpawnEnd(s.base, start), !.hw = hw]
  BY <1>4, Zenon DEF Launched
<1>6. /\ sup' \in Supervisors /\ sup'.pc = "idle"
      /\ sup'.generation = s.generation + 1 /\ sup'.base = s.base
      /\ sup'.end = SpawnEnd(s.base, start)
  <2>1. sup'.pc = "idle"
    BY <1>5 DEF Supervisors
  <2>2. sup'.base = s.base
    BY <1>5 DEF Supervisors
  <2>3. sup'.generation = s.generation + 1
    BY <1>5 DEF Supervisors
  <2>4. sup'.end = SpawnEnd(s.base, start)
    BY <1>5 DEF Supervisors
  <2>5. s.generation + 1 \in Nat
    BY DEF Supervisors
  <2>6. sup' \in Supervisors
    BY <1>1, <1>5, <2>5, SupervisorTyped
  <2> QED
    BY <2>1, <2>2, <2>3, <2>4, <2>6
<1>7. /\ proc' \in Processes /\ proc'.state = "running" /\ proc'.start = start
      /\ proc'.endless = StreamLoop(start)
  BY <1>2 DEF Launched, Processes
<1>8. s.generation + 1 \in Nat
  BY DEF Supervisors
<1>9. /\ reader' \in Readers /\ reader'.pc = "read" /\ reader'.generation = s.generation + 1
      /\ reader'.index = 0 /\ reader'.last = NoPts
  BY <1>3, <1>8 DEF Launched, Readers
<1> QED
  BY <1>6, <1>7, <1>9 DEF Launched

\* spawn_run when ffmpeg does not start: the player is ill.
LEMMA NotLaunchedFacts ==
  ASSUME media \in Medias, hwBroken' \in BOOLEAN, NEW s \in Supervisors, reader \in Readers,
         ring \in Rings, faults \in 0 .. MaxFaults,
         NEW start \in Nat, NEW frames \in Seq(Nat), NotLaunched(s, start, frames)
  PROVE  /\ sup' \in Supervisors /\ sup'.pc = "idle" /\ sup'.base = s.base
         /\ sup'.generation \in {s.generation, s.generation + 1}
         /\ proc' = NoProcess /\ proc' \in Processes /\ proc'.state = "none"
         /\ reader' \in Readers /\ reader'.pc = "none"
         /\ reader'.generation = reader.generation /\ reader'.last = reader.last
         /\ ring'.frames = frames /\ ring' \in Rings
         /\ faults' \in 0 .. MaxFaults
<1>1. SpawnEnd(s.base, start) \in {Infinity} \cup Nat
  BY SpawnEndFacts DEF Supervisors
<1>2. PICK hw \in BOOLEAN : hw = (media.hw /\ ~hwBroken')
  BY MediaFacts
<1>3. faults' \in 0 .. MaxFaults
  BY PlayerBoundsAssumption DEF NotLaunched, Fault
<1>4. PICK late \in BOOLEAN :
        /\ sup' = [s EXCEPT !.pc = "idle", !.end = SpawnEnd(s.base, start),
                            !.generation = IF late THEN @ + 1 ELSE @,
                            !.hw = hw]
        /\ ring' = [frames |-> frames, closed |-> ring.closed /\ ~late]
  BY <1>2, Zenon DEF NotLaunched
<1>5. proc' = NoProcess /\ reader' = [reader EXCEPT !.pc = "none"]
  BY DEF NotLaunched
<1>6. /\ sup' \in Supervisors /\ sup'.pc = "idle" /\ sup'.base = s.base
      /\ sup'.generation \in {s.generation, s.generation + 1}
  <2> DEFINE g == IF late THEN s.generation + 1 ELSE s.generation
  <2>1. g \in Nat /\ g \in {s.generation, s.generation + 1}
    BY DEF Supervisors
  <2>2. sup' = [s EXCEPT !.pc = "idle", !.generation = g, !.end = SpawnEnd(s.base, start), !.hw = hw]
    BY <1>4 DEF Supervisors
  <2> HIDE DEF g
  <2>3. sup' \in Supervisors
    BY <1>1, <2>1, <2>2, SupervisorTyped
  <2>4. sup'.pc = "idle" /\ sup'.base = s.base /\ sup'.generation = g
    BY <2>2 DEF Supervisors
  <2> QED
    BY <2>1, <2>3, <2>4
<1>7. proc' = NoProcess /\ proc' \in Processes /\ proc'.state = "none"
  BY <1>5 DEF Processes, NoProcess
<1>8. /\ reader' \in Readers /\ reader'.pc = "none"
      /\ reader'.generation = reader.generation /\ reader'.last = reader.last
  BY <1>5 DEF Readers
<1>9. ring'.frames = frames /\ ring' \in Rings
  BY <1>4 DEF Rings
<1> QED
  BY <1>3, <1>6, <1>7, <1>8, <1>9

----------------------------------------------------------------------------
(* The message of the reader whose process the supervisor has reaped.      *)

\* What the supervisor knows when the reader of its process has ended.
LEMMA ReapingFacts ==
  ASSUME IInv, Reaping
  PROVE  /\ reader.pc = "none" /\ reader.last = Head(msgs).last /\ reader.last \in Pts
         /\ sup.pc = "idle" /\ Head(msgs).type = "ReaderDone" /\ Answers # {}
         /\ LastPts \in Nat
         /\ LastPts = IF reader.last = NoPts THEN sup.base ELSE reader.last
         /\ player.phase # "gone"
         /\ shared.ended /\ shared.healthy => player.phase # "up" /\ ~player.eof
         /\ shared.healthy => proc.state # "none"
<1>0. Types /\ OneReader /\ Joined /\ Ends
  BY DEF IInv
<1>1. sup.pc = "idle" /\ msgs # <<>> /\ Head(msgs).type = "ReaderDone"
      /\ Head(msgs).generation = sup.generation /\ msgs' = Tail(msgs)
  BY DEF Reaping, Receives
<1>2. Head(msgs) = msgs[1] /\ 1 \in DoneMsgs
  BY <1>0, <1>1, QueueServed
<1>3. 1 \in Answers
  BY <1>1, <1>2 DEF Answers
<1>4. msgs[1].generation = reader.generation
  BY <1>0, <1>1, <1>2 DEF Types, Readers, Supervisors, OneReader
<1>5. reader.pc = "none" /\ reader.last = Head(msgs).last
  BY <1>0, <1>2, <1>4 DEF OneReader
<1>6. reader.last \in Pts /\ sup.base \in Nat
  BY <1>0 DEF Types, Readers, Supervisors
<1>7. LastPts \in Nat /\ LastPts = IF reader.last = NoPts THEN sup.base ELSE reader.last
  BY <1>5, <1>6 DEF LastPts, Pts, NoPts
<1> QED
  BY <1>0, <1>1, <1>3, <1>5, <1>6, <1>7 DEF Joined, Ends

----------------------------------------------------------------------------
(* Every step keeps the invariant.                                         *)

\* A seek (seek()) keeps the invariant.
LEMMA SeekKeeps ==
  ASSUME IInv, NEW pos \in Positions, Seek(pos)
  PROVE  IInv'
<1>0. Types /\ Bounded /\ Counted /\ Asked /\ OneReader /\ Working /\ Joined /\ NotCut /\ Ends /\ Honoured
  BY DEF IInv
<1> DEFINE m == [type |-> "Seek", pos |-> pos]
<1>m. m \in Messages
  BY <1>0, MediaFacts DEF Types, Messages, Readers
<1>q. msgs' = Append(msgs, m)
  BY DEF Seek
<1>h. msgs' \in Seq(Messages)
  BY <1>0, <1>m, <1>q, QueueGrows
<1>e. Len(msgs) \in Nat /\ msgs'[Len(msgs) + 1] = m
      /\ \A i \in DOMAIN msgs : msgs'[i] = msgs[i]
  BY <1>0, <1>m, <1>q, QueueGrows
<1>d. DoneMsgs' = DoneMsgs /\ \A i \in DoneMsgs : msgs'[i] = msgs[i]
  BY <1>0, <1>m, <1>q, QueueGrows, <1>e DEF DoneMsgs
<1>s. /\ SeekMsgs(msgs') = SeekMsgs(msgs) \cup {Len(msgs) + 1}
      /\ \A i \in SeekMsgs(msgs) : i \in Nat /\ i <= Len(msgs)
  BY <1>0, <1>m, <1>q, QueueGrows
<1>x. \A i \in DOMAIN msgs' : (i \in DOMAIN msgs /\ msgs'[i] = msgs[i]) \/ msgs'[i] = m
  BY <1>0, <1>m, <1>q, QueueGrows
<1>a. OneReader' /\ Answers' = Answers
  BY <1>0, <1>d, DoneMsgsKept DEF Seek
<1>1. Types'
  <2>0. pos \in Nat
    BY <1>0, MediaFacts DEF Types
  <2>1. player' \in Players
    <3>1. /\ player.seeks + 1 \in Nat /\ NoPts \in Pts /\ player \in Players
          /\ player' = [player EXCEPT !.eof = FALSE, !.target = pos, !.served = NoPts,
                                      !.seeks = player.seeks + 1]
      BY <1>0 DEF Types, Players, Pts, Seek
    <3> QED
      BY <2>0, <3>1 DEF Players
  <2>2. shared' \in Flags
    BY <1>0, MediaFacts DEF Types, Flags, Seek, Up
  <2> QED
    BY <1>0, <2>1, <2>2, <1>h DEF Types, Seek, Up
<1>2. Bounded' /\ Working'
  BY <1>0 DEF Seek, Bounded, Working, Exact, SpawnEnd, StreamLoop, Segment
<1>3. Counted'
  <2>1. Cardinality(SeekMsgs(msgs')) = Cardinality(SeekMsgs(msgs)) + 1
    BY <1>0, <1>m, <1>q, SeekMsgsAppend DEF Types
  <2>2. Cardinality(SeekMsgs(msgs)) \in Nat
    BY <1>0, SeekMsgsFinite DEF Types
  <2>3. /\ player'.seeks = player.seeks + 1 /\ player.seeks < MaxSeeks
        /\ shared'.pendingSeeks = shared.pendingSeeks + 1 /\ sup' = sup
        /\ player.seeks \in Nat /\ shared.pendingSeeks \in Nat
    BY <1>0 DEF Types, Players, Flags, Seek
  <2> QED
    BY <1>0, <2>1, <2>2, <2>3, PlayerBoundsAssumption DEF Counted, Serving
<1>4. Asked'
  BY <1>0, <1>1, <1>s, <1>e DEF Types, Messages, Players, Seek, Asked
<1>5. OneReader'
  BY <1>a
<1>6. Joined'
  BY <1>0, <1>x DEF Supervisors, Seek, Joined, Running, NoProcess
<1>7. NotCut'
  BY <1>0 DEF Supervisors, Seek, NotCut, Running, NoProcess
<1>8. Ends'
  BY <1>0, <1>a, <1>e, <1>e DEF Seek, Ends, Reached, OneReader, NotCut
<1>9. Honoured'
  BY <1>0, <1>1, SeekMsgsFinite DEF Types, Flags, Seek, Honoured, Ends
<1> QED
  BY <1>1, <1>2, <1>3, <1>4, <1>5, <1>6, <1>7, <1>8, <1>9 DEF IInv

\* A frame taken (poll()) keeps the invariant.
LEMMA PollKeeps ==
  ASSUME IInv, NEW i \in 1 .. Capacity, Poll(i)
  PROVE  IInv'
<1>0. Types /\ Bounded /\ Counted /\ Asked /\ OneReader /\ Working /\ Joined /\ NotCut /\ Ends /\ Honoured
  BY DEF IInv
<1>r. /\ i \in 1 .. Len(ring.frames) /\ ring.frames \in Seq(Nat)
      /\ ring' = [frames |-> SubSeq(ring.frames, i + 1, Len(ring.frames)), closed |-> ring.closed]
  <2>1. ring.frames \in Seq(Nat) /\ i \in Nat \ {0}
    BY <1>0, PlayerBoundsAssumption DEF Types, Rings
  <2>2. i <= Len(ring.frames) /\ Len(ring.frames) \in Nat
    BY <2>1 DEF Poll
  <2>3. ring' = [frames |-> SubSeq(ring.frames, i + 1, Len(ring.frames)), closed |-> ring.closed]
    BY <1>0 DEF Types, Rings, Poll
  <2> QED
    BY <2>1, <2>2, <2>3
<1>f. /\ ring'.frames \in Seq(Nat) /\ Len(ring'.frames) = Len(ring.frames) - i
      /\ \A k \in DOMAIN ring'.frames : i + k \in DOMAIN ring.frames
                                       /\ ring'.frames[k] = ring.frames[i + k]
  BY <1>r, RestOf
<1>1. Types'
  <2>0. ring.frames[i] \in Nat
    BY <1>r
  <2>1. player' \in Players
    BY <1>0, <2>0 DEF Types, Players, Pts, Poll
  <2>2. ring' \in Rings
    BY <1>0, <1>r, <1>f DEF Types, Rings
  <2> QED
    BY <1>0, <2>1, <2>2 DEF Types, Poll
<1>2. OneReader' /\ Working'
  BY <1>0 DEF DoneMsgs, Poll, OneReader, Working, Exact, SpawnEnd, StreamLoop, Segment
<1>3. Bounded'
  <2>1. i \in Nat /\ Len(ring.frames) \in Nat
    BY <1>r
  <2> QED
    BY <1>0, <1>f, <2>1, PlayerBoundsAssumption DEF Bounded
<1>4. Counted'
  BY <1>0, <1>1 DEF Types, Poll, Up, Counted, Serving
<1>5. Asked'
  BY <1>0, <1>1 DEF Types, Messages, Players, Poll, Asked
<1>6. Joined'
  BY <1>0 DEF Supervisors, Poll, Joined, Running, NoProcess
<1>7. NotCut'
  BY <1>0 DEF Supervisors, Poll, NotCut, Running, NoProcess
<1>8. Ends'
  BY <1>0 DEF DoneMsgs, Poll, Up, Ends, Answers, Reached, OneReader, Working, NotCut,
     Counted, Serving
<1>9. Honoured'
  <2>1. shared.healthy =>
          /\ player.target <= sup.base
          /\ \A k \in DOMAIN ring.frames : ring.frames[k] >= player.target
    BY <1>0 DEF Honoured, Poll
  <2>2. player'.target = player.target /\ sup' = sup /\ shared' = shared
    BY <1>0 DEF Types, Players, Poll
  <2> QED
    BY <1>f, <2>1, <2>2 DEF Honoured
<1> QED
  BY <1>1, <1>2, <1>3, <1>4, <1>5, <1>6, <1>7, <1>8, <1>9 DEF IInv

\* The end seen by poll() keeps the invariant.
LEMMA PollEofKeeps ==
  ASSUME IInv, PollEof
  PROVE  IInv'
<1>0. Types /\ Bounded /\ Counted /\ Asked /\ OneReader /\ Working /\ Joined /\ NotCut /\ Ends /\ Honoured
  BY DEF IInv
<1>1. Types'
  <2>1. player' \in Players
    BY <1>0 DEF Types, Players, PollEof, Up
  <2> QED
    BY <1>0, <2>1 DEF Types, PollEof, Up
<1>2. Bounded' /\ OneReader' /\ Working'
  BY <1>0 DEF DoneMsgs, PollEof, Bounded, OneReader, Working, Exact, SpawnEnd, StreamLoop,
     Segment
<1>3. Counted'
  BY <1>0, <1>1 DEF Types, PollEof, Up, Counted, Serving
<1>4. Asked'
  BY <1>0, <1>1 DEF Types, Messages, Players, PollEof, Asked
<1>5. Joined'
  BY <1>0 DEF Supervisors, PollEof, Joined, Running, NoProcess
<1>6. NotCut'
  BY <1>0 DEF Supervisors, PollEof, NotCut, Running, NoProcess
<1>7. Ends'
  BY <1>0 DEF DoneMsgs, PollEof, Up, Ends, Answers, Reached, OneReader, Working, NotCut,
     Counted, Serving
<1>8. Honoured'
  BY <1>0, <1>1, SeekMsgsFinite DEF Types, Flags, PollEof, Honoured, Ends
<1> QED
  BY <1>1, <1>2, <1>3, <1>4, <1>5, <1>6, <1>7, <1>8 DEF IInv

\* The ring closed by drop() keeps the invariant.
LEMMA DropCloseKeeps ==
  ASSUME IInv, DropClose
  PROVE  IInv'
<1>0. Types /\ Bounded /\ Counted /\ Asked /\ OneReader /\ Working /\ Joined /\ NotCut /\ Ends /\ Honoured
  BY DEF IInv
<1>1. Types'
  <2>1. player' \in Players
    BY <1>0 DEF Types, Players, DropClose, Up
  <2>2. ring' \in Rings
    BY <1>0 DEF Types, Rings, DropClose, Up
  <2> QED
    BY <1>0, <2>1, <2>2 DEF Types, DropClose, Up
<1>2. OneReader' /\ Working'
  BY <1>0 DEF DoneMsgs, DropClose, OneReader, Working, Exact, SpawnEnd, StreamLoop, Segment
<1>3. Bounded'
  BY <1>0, <1>1 DEF Types, Rings, DropClose, Up, Bounded
<1>4. Counted'
  BY <1>0, <1>1 DEF Types, DropClose, Up, Counted, Serving
<1>5. Asked'
  BY <1>0, <1>1 DEF Types, Messages, Players, DropClose, Asked
<1>6. Joined'
  BY <1>0 DEF Supervisors, DropClose, Joined, Running, NoProcess
<1>7. NotCut'
  BY <1>0, <1>1 DEF Types, Processes, DropClose, NotCut, Joined
<1>8. Ends'
  BY <1>0 DEF DoneMsgs, DropClose, Ends, Answers, Reached, OneReader, NotCut
<1>9. Honoured'
  BY <1>0, <1>1, SeekMsgsFinite DEF Types, Flags, DropClose, Honoured, Ends
<1> QED
  BY <1>1, <1>2, <1>3, <1>4, <1>5, <1>6, <1>7, <1>8, <1>9 DEF IInv

\* The message of drop() keeps the invariant.
LEMMA DropShutdownKeeps ==
  ASSUME IInv, DropShutdown
  PROVE  IInv'
<1>0. Types /\ Bounded /\ Counted /\ Asked /\ OneReader /\ Working /\ Joined /\ NotCut /\ Ends /\ Honoured
  BY DEF IInv
<1> DEFINE m == [type |-> "Shutdown"]
<1>m. m \in Messages
  BY <1>0, MediaFacts DEF Types, Messages, Readers
<1>q. msgs' = Append(msgs, m)
  BY DEF DropShutdown
<1>h. msgs' \in Seq(Messages)
  BY <1>0, <1>m, <1>q, QueueGrows
<1>e. Len(msgs) \in Nat /\ msgs'[Len(msgs) + 1] = m
      /\ \A i \in DOMAIN msgs : msgs'[i] = msgs[i]
  BY <1>0, <1>m, <1>q, QueueGrows
<1>d. DoneMsgs' = DoneMsgs /\ \A i \in DoneMsgs : msgs'[i] = msgs[i]
  BY <1>0, <1>m, <1>q, QueueGrows, <1>e DEF DoneMsgs
<1>s. SeekMsgs(msgs') = SeekMsgs(msgs) /\ \A i \in SeekMsgs(msgs) : msgs'[i] = msgs[i]
  BY <1>0, <1>m, <1>q, QueueGrows, <1>e DEF SeekMsgs
<1>x. \A i \in DOMAIN msgs' : (i \in DOMAIN msgs /\ msgs'[i] = msgs[i]) \/ msgs'[i] = m
  BY <1>0, <1>m, <1>q, QueueGrows
<1>a. OneReader' /\ Answers' = Answers
  BY <1>0, <1>d, DoneMsgsKept DEF DropShutdown
<1>1. Types'
  <2>1. player' \in Players
    BY <1>0 DEF Types, Players, DropShutdown
  <2> QED
    BY <1>0, <2>1, <1>h DEF Types, DropShutdown
<1>2. Bounded' /\ Working'
  BY <1>0 DEF DropShutdown, Bounded, Working, Exact, SpawnEnd, StreamLoop, Segment
<1>3. Counted'
  <2>1. Cardinality(SeekMsgs(msgs')) = Cardinality(SeekMsgs(msgs))
          + (IF m.type = "Seek" THEN 1 ELSE 0)
    BY <1>0, <1>m, <1>q, SeekMsgsAppend DEF Types
  <2>2. Cardinality(SeekMsgs(msgs)) \in Nat /\ Cardinality(SeekMsgs(msgs')) \in Nat
    BY <1>0, <1>1, SeekMsgsFinite DEF Types
  <2> QED
    BY <1>0, <1>1, <2>1, <2>2 DEF Types, Flags, Counted, Serving, DropShutdown
<1>4. Asked'
  BY <1>0, <1>1, <1>s DEF Types, Messages, Players, DropShutdown, Asked
<1>5. OneReader'
  BY <1>a
<1>6. Joined'
  BY <1>0, <1>x DEF Supervisors, DropShutdown, Joined, Running, NoProcess
<1>7. NotCut'
  BY <1>0, <1>1 DEF Types, Processes, DropShutdown, NotCut, Joined
<1>8. Ends'
  BY <1>0, <1>a, <1>e, <1>e DEF DropShutdown, Ends, Reached, OneReader, NotCut
<1>9. Honoured'
  BY <1>0, <1>1, SeekMsgsFinite DEF Types, Flags, DropShutdown, Honoured, Ends
<1> QED
  BY <1>1, <1>2, <1>3, <1>4, <1>5, <1>6, <1>7, <1>8, <1>9 DEF IInv

\* The join of drop() keeps the invariant.
LEMMA DropJoinKeeps ==
  ASSUME IInv, DropJoin
  PROVE  IInv'
<1>0. Types /\ Bounded /\ Counted /\ Asked /\ OneReader /\ Working /\ Joined /\ NotCut /\ Ends /\ Honoured
  BY DEF IInv
<1>1. Types'
  <2>1. player' \in Players
    BY <1>0 DEF Types, Players, DropJoin
  <2> QED
    BY <1>0, <2>1 DEF Types, DropJoin
<1>2. Bounded' /\ OneReader' /\ Working'
  BY <1>0 DEF DoneMsgs, DropJoin, Bounded, OneReader, Working, Exact, SpawnEnd, StreamLoop,
     Segment
<1>3. Counted'
  BY <1>0, <1>1 DEF Types, Flags, DropJoin, Counted, Serving
<1>4. Asked'
  BY <1>0, <1>1 DEF Types, Messages, Players, DropJoin, Asked
<1>5. Joined'
  BY <1>0 DEF Supervisors, DropJoin, Joined, Running, NoProcess
<1>6. NotCut'
  BY <1>0, <1>1 DEF Types, Processes, DropJoin, NotCut, Joined
<1>7. Ends'
  BY <1>0 DEF DoneMsgs, DropJoin, Ends, Answers, Reached, OneReader, NotCut
<1>8. Honoured'
  BY <1>0, <1>1, SeekMsgsFinite DEF Types, Flags, DropJoin, Honoured, Ends
<1> QED
  BY <1>1, <1>2, <1>3, <1>4, <1>5, <1>6, <1>7, <1>8 DEF IInv

\* The end of a process keeps the invariant.
LEMMA ProcessExitKeeps ==
  ASSUME IInv, ProcessExit
  PROVE  IInv'
<1>0. Types /\ Bounded /\ Counted /\ Asked /\ OneReader /\ Working /\ Joined /\ NotCut /\ Ends /\ Honoured
  BY DEF IInv
<1>1. Types'
  <2>1. proc' \in Processes
    BY <1>0 DEF Types, Processes, ProcessExit, LastWritten
  <2> QED
    BY <1>0, <2>1 DEF Types, ProcessExit, Running, LastWritten
<1>2. Bounded' /\ Counted' /\ Asked' /\ OneReader' /\ Honoured'
  BY <1>0 DEF DoneMsgs, ProcessExit, LastWritten, Bounded, Counted, Serving, Asked,
     OneReader, Honoured
<1>3. Working'
  BY <1>0 DEF Types, Processes, Supervisors, Pts, ProcessExit, Running, LastWritten,
     Working, Exact, SpawnEnd, StreamLoop, Segment, Joined, NoProcess
<1>4. Joined'
  BY <1>0, <1>1 DEF Types, Processes, ProcessExit, LastWritten, Joined
<1>5. NotCut'
  BY <1>0 DEF Types, Readers, Processes, Pts, ProcessExit, LastWritten, NotCut, Joined,
     Working, Exact, SpawnEnd, StreamLoop, Segment
<1>6. Ends'
  BY <1>0 DEF Types, Flags, Supervisors, Processes, ProcessExit, Running, LastWritten, Ends,
     NoProcess, Joined
<1> QED
  BY <1>1, <1>2, <1>3, <1>4, <1>5, <1>6 DEF IInv

\* The death of a process keeps the invariant.
LEMMA ProcessDiesKeeps ==
  ASSUME IInv, ProcessDies
  PROVE  IInv'
<1>0. Types /\ Bounded /\ Counted /\ Asked /\ OneReader /\ Working /\ Joined /\ NotCut /\ Ends /\ Honoured
  BY DEF IInv
<1>1. Types'
  <2>1. proc' \in Processes
    BY <1>0 DEF Types, Processes, ProcessDies, Fault
  <2> QED
    BY <1>0, <2>1, PlayerBoundsAssumption DEF Types, ProcessDies, Running, Fault
<1>2. Bounded' /\ Counted' /\ Asked' /\ OneReader' /\ Honoured'
  BY <1>0 DEF DoneMsgs, ProcessDies, Fault, Bounded, Counted, Serving, Asked, OneReader,
     Honoured
<1>3. Working'
  BY <1>0 DEF Processes, Pts, ProcessDies, Fault, Working, Exact, SpawnEnd, StreamLoop,
     Segment, Joined
<1>4. Joined'
  BY <1>0, <1>1 DEF Types, Processes, ProcessDies, Fault, Joined
<1>5. NotCut'
  BY <1>0, <1>1 DEF Types, ProcessDies, Fault, NotCut
<1>6. Ends'
  BY <1>0, <1>1 DEF Types, ProcessDies, Fault, Ends
<1> QED
  BY <1>1, <1>2, <1>3, <1>4, <1>5, <1>6 DEF IInv

\* A frame read keeps the invariant.
LEMMA ReadFrameKeeps ==
  ASSUME IInv, ReadFrame
  PROVE  IInv'
<1>0. Types /\ Bounded /\ Counted /\ Asked /\ OneReader /\ Working /\ Joined /\ NotCut /\ Ends /\ Honoured
  BY DEF IInv
<1>1. Types'
  <2>1. reader' \in Readers
    BY <1>0 DEF Types, Readers, ReadFrame, Running
  <2> QED
    BY <1>0, <2>1 DEF Types, ReadFrame, Running
<1>2. Bounded' /\ Counted' /\ Asked' /\ Honoured'
  BY <1>0 DEF ReadFrame, Bounded, Counted, Serving, Asked, Honoured
<1>3. OneReader'
  BY <1>0, <1>1 DEF Types, DoneMsgs, ReadFrame, OneReader, Joined
<1>4. Working'
  BY <1>0 DEF Pts, ReadFrame, Working, Exact, SpawnEnd, StreamLoop, Segment
<1>5. Joined'
  BY <1>0, <1>1 DEF Types, Processes, ReadFrame, Joined
<1>6. NotCut'
  BY <1>0, <1>1 DEF Types, Processes, ReadFrame, NotCut, Joined
<1>7. Ends'
  BY <1>0 DEF Flags, Processes, ReadFrame, Ends, Joined
<1> QED
  BY <1>1, <1>2, <1>3, <1>4, <1>5, <1>6, <1>7 DEF IInv

\* A pipe that ends keeps the invariant.
LEMMA ReadEndKeeps ==
  ASSUME IInv, ReadEnd
  PROVE  IInv'
<1>0. Types /\ Bounded /\ Counted /\ Asked /\ OneReader /\ Working /\ Joined /\ NotCut /\ Ends /\ Honoured
  BY DEF IInv
<1>1. Types'
  <2>1. reader' \in Readers
    BY <1>0 DEF Types, Readers, ReadEnd, Running
  <2> QED
    BY <1>0, <2>1 DEF Types, ReadEnd, Running
<1>2. Bounded' /\ Counted' /\ Asked' /\ Honoured'
  BY <1>0 DEF ReadEnd, Bounded, Counted, Serving, Asked, Honoured
<1>3. OneReader'
  BY <1>0, <1>1 DEF Types, DoneMsgs, ReadEnd, OneReader, Joined
<1>4. Working'
  BY <1>0 DEF Pts, ReadEnd, Working, Exact, SpawnEnd, StreamLoop, Segment
<1>5. Joined'
  BY <1>0 DEF Supervisors, ReadEnd, Running, Joined, NoProcess
<1>6. NotCut'
  BY <1>0 DEF Supervisors, ReadEnd, Running, NotCut, NoProcess
<1>7. Ends'
  BY <1>0 DEF Flags, Processes, ReadEnd, Ends, Joined
<1> QED
  BY <1>1, <1>2, <1>3, <1>4, <1>5, <1>6, <1>7 DEF IInv

\* A frame pushed, or the ring closed, keeps the invariant.
LEMMA PushKeeps ==
  ASSUME IInv, Push
  PROVE  IInv'
<1>0. Types /\ Bounded /\ Counted /\ Asked /\ OneReader /\ Working /\ Joined /\ NotCut /\ Ends /\ Honoured
  BY DEF IInv
<1>p. reader.pc = "push" /\ proc.state # "none" /\ player' = player /\ proc' = proc
      /\ sup' = sup /\ msgs' = msgs /\ shared' = shared /\ media' = media
  BY <1>0 DEF Push, Joined
<1>c. CASE ring.closed
  <2>1. ring' = ring /\ reader' = [reader EXCEPT !.pc = "exit"]
    BY <1>c DEF Push
  <2>2. /\ reader' \in Readers /\ reader'.pc = "exit" /\ reader'.generation = reader.generation
        /\ reader'.index = reader.index /\ reader'.last = reader.last
    BY <1>0, <2>1 DEF Types, Readers
  <2>3. Types' /\ Bounded' /\ Counted' /\ Asked' /\ Honoured'
    BY <1>0, <1>p, <2>1, <2>2 DEF Types, Bounded, Counted, Serving, Asked, Honoured, Push
  <2>4. OneReader' /\ Working'
    BY <1>0, <1>p, <2>2 DEF OneReader, DoneMsgs, Working, Exact, SpawnEnd, StreamLoop,
       Segment
  <2>5. Joined' /\ NotCut'
    BY <1>0, <1>p, <1>c, <2>1, <2>2 DEF Joined, NotCut, Running
  <2>6. Ends'
    BY <1>0, <1>p, <2>1, <2>2 DEF Ends, Answers, DoneMsgs, Reached, NoProcess
  <2> QED
    BY <2>3, <2>4, <2>5, <2>6 DEF IInv
<1>o. CASE ~ring.closed
  <2> DEFINE pts == sup.base + reader.index
  <2>1. /\ Len(ring.frames) < Capacity
        /\ ring' = [ring EXCEPT !.frames = Append(@, pts)]
        /\ reader' = [reader EXCEPT !.pc = "read", !.index = @ + 1, !.last = pts]
    BY <1>o DEF Push
  <2>2. pts \in Nat /\ reader.index \in Nat /\ sup.base \in Nat
    BY <1>0 DEF Types, Supervisors, Readers
  <2>3. /\ reader' \in Readers /\ reader'.pc = "read" /\ reader'.generation = reader.generation
        /\ reader'.index = reader.index + 1 /\ reader'.last = pts
    <3>1. reader' = [reader EXCEPT !.pc = "read", !.index = reader.index + 1, !.last = pts]
      BY <1>0, <2>1 DEF Types, Readers
    <3>2. reader.index + 1 \in Nat /\ pts \in Pts /\ reader \in Readers
      BY <1>0, <2>2 DEF Types, Pts
    <3> HIDE DEF pts
    <3> QED
      BY <3>1, <3>2 DEF Readers
  <2>4. /\ ring.frames \in Seq(Nat) /\ ring'.closed = ring.closed
        /\ ring'.frames = Append(ring.frames, pts) /\ ring' \in Rings
    <3>1. ring = [frames |-> ring.frames, closed |-> ring.closed] /\ ring.frames \in Seq(Nat)
          /\ ring.closed \in BOOLEAN
      BY <1>0 DEF Types, Rings
    <3>2. ring' = [frames |-> Append(ring.frames, pts), closed |-> ring.closed]
      BY <2>1, <3>1
    <3>3. Append(ring.frames, pts) \in Seq(Nat)
      BY <2>2, <3>1, AppendOf
    <3> QED
      BY <3>1, <3>2, <3>3 DEF Rings
  <2>5. /\ Len(ring'.frames) = Len(ring.frames) + 1 /\ Len(ring.frames) \in Nat
        /\ \A i \in DOMAIN ring'.frames :
             \/ i \in DOMAIN ring.frames /\ ring'.frames[i] = ring.frames[i]
             \/ ring'.frames[i] = pts
    BY <2>2, <2>4, AppendOf
  <2>6. Types' /\ Counted' /\ Asked'
    BY <1>0, <1>p, <2>3, <2>4 DEF Types, Counted, Serving, Asked, Push
  <2>7. Bounded'
    BY <2>1, <2>5, PlayerBoundsAssumption DEF Bounded
  <2>8. OneReader'
    BY <1>0, <1>p, <2>3 DEF OneReader, DoneMsgs
  <2>9. Working'
    BY <1>0, <1>p, <2>2, <2>3 DEF Working, Exact, SpawnEnd, StreamLoop, Segment
  <2>10. Joined' /\ NotCut'
    <3>1. Joined'
      BY <1>0, <1>p, <2>3 DEF Joined, Running
    <3>2. proc.start + reader.index >= media.real => proc.start + (reader.index + 1) >= media.real
      BY <1>0, <2>2, MediaFacts DEF Types, Processes
    <3>3. NotCut'
      BY <1>0, <1>p, <1>o, <2>3, <2>4, <3>2 DEF NotCut, Running
    <3> QED
      BY <3>1, <3>3
  <2>11. Ends'
    BY <1>0, <1>p, <2>3 DEF Ends, NoProcess, Answers, DoneMsgs, NotCut
  <2>12. Honoured'
    <3>1. shared.healthy /\ shared.pendingSeeks = 0 => pts >= player.target
      BY <1>0, <2>2 DEF Honoured, Types, Players
    <3> QED
      BY <1>0, <1>p, <2>5, <3>1 DEF Honoured
  <2> QED
    BY <2>6, <2>7, <2>8, <2>9, <2>10, <2>11, <2>12 DEF IInv
<1> QED
  BY <1>c, <1>o

\* The last message of a reader keeps the invariant.
LEMMA ReaderExitKeeps ==
  ASSUME IInv, ReaderExit
  PROVE  IInv'
<1>0. Types /\ Bounded /\ Counted /\ Asked /\ OneReader /\ Working /\ Joined /\ NotCut /\ Ends /\ Honoured
  BY DEF IInv
<1> DEFINE m == [type |-> "ReaderDone", generation |-> reader.generation, last |-> reader.last]
<1>m. m \in Messages
  BY <1>0, MediaFacts DEF Types, Messages, Readers
<1>q. msgs' = Append(msgs, m)
  BY DEF ReaderExit
<1>h. msgs' \in Seq(Messages)
  BY <1>0, <1>m, <1>q, QueueGrows
<1>e. Len(msgs) \in Nat /\ msgs'[Len(msgs) + 1] = m
      /\ \A i \in DOMAIN msgs : msgs'[i] = msgs[i]
  BY <1>0, <1>m, <1>q, QueueGrows
<1>d. DoneMsgs' = DoneMsgs \cup {Len(msgs) + 1} /\ Len(msgs) + 1 \notin DoneMsgs
      /\ \A i \in DoneMsgs : msgs'[i] = msgs[i]
  BY <1>0, <1>m, <1>q, QueueGrows, <1>e DEF DoneMsgs
<1>s. SeekMsgs(msgs') = SeekMsgs(msgs) /\ \A i \in SeekMsgs(msgs) : msgs'[i] = msgs[i]
  BY <1>0, <1>m, <1>q, QueueGrows, <1>e DEF SeekMsgs
<1>x. \A i \in DOMAIN msgs' : (i \in DOMAIN msgs /\ msgs'[i] = msgs[i]) \/ msgs'[i] = m
  BY <1>0, <1>m, <1>q, QueueGrows
<1>1. Types'
  <2>1. ring' \in Rings
    BY <1>0 DEF Types, Rings, ReaderExit
  <2>2. reader' \in Readers
    BY <1>0 DEF Types, Readers, ReaderExit
  <2> QED
    BY <1>0, <2>1, <2>2, <1>h DEF Types, ReaderExit
<1>2. Bounded'
  BY <1>0, <1>1 DEF Types, Rings, ReaderExit, Bounded
<1>3. Counted'
  <2>1. Cardinality(SeekMsgs(msgs')) = Cardinality(SeekMsgs(msgs))
          + (IF m.type = "Seek" THEN 1 ELSE 0)
    BY <1>0, <1>m, <1>q, SeekMsgsAppend DEF Types
  <2>2. Cardinality(SeekMsgs(msgs)) \in Nat /\ Cardinality(SeekMsgs(msgs')) \in Nat
    BY <1>0, <1>1, SeekMsgsFinite DEF Types
  <2> QED
    BY <1>0, <1>1, <2>1, <2>2 DEF Types, Flags, Counted, Serving, ReaderExit
<1>4. Asked'
  BY <1>0, <1>1, <1>s, <1>e DEF Types, Messages, Players, ReaderExit, Asked
<1>5. OneReader'
  <2>1. /\ reader.pc # "none" /\ reader'.pc = "none" /\ reader'.generation = reader.generation
        /\ reader'.last = reader.last /\ sup' = sup
    BY <1>0 DEF Types, Readers, ReaderExit
  <2>2. \A i \in DoneMsgs : msgs'[i].generation # reader.generation
    BY <1>0, <1>d, <2>1 DEF OneReader
  <2>3. m.generation = reader.generation /\ m.last = reader.last /\ reader.generation \in Nat
    BY <1>0 DEF Types, Readers
  <2> HIDE DEF m
  <2>4. \A i \in DoneMsgs' : i \in DoneMsgs \/ msgs'[i] = m
    BY <1>d, <1>e
  <2>5. \A i, j \in DoneMsgs' : msgs'[i].generation = msgs'[j].generation => i = j
    BY <1>0, <1>d, <1>e, <2>2, <2>3, <2>4 DEF OneReader
  <2> QED
    BY <1>0, <1>d, <2>1, <2>2, <2>3, <2>4, <2>5 DEF OneReader
<1>6. Working'
  BY <1>0 DEF Pts, ReaderExit, Working, Exact, SpawnEnd, StreamLoop, Segment
<1>7. Joined'
  BY <1>0, <1>x DEF Supervisors, ReaderExit, Joined, Running, NoProcess
<1>8. NotCut'
  BY <1>0 DEF Supervisors, ReaderExit, NotCut, Running, NoProcess
<1>9. Ends'
  BY <1>0, <1>d, <1>e DEF Flags, Processes, ReaderExit, Ends, Joined
<1>10. Honoured'
  BY <1>0, <1>1, SeekMsgsFinite DEF Types, Flags, ReaderExit, Honoured, Ends
<1> QED
  BY <1>1, <1>2, <1>3, <1>4, <1>5, <1>6, <1>7, <1>8, <1>9, <1>10 DEF IInv

\* A seek taken by the supervisor keeps the invariant.
LEMMA SeekBeginKeeps ==
  ASSUME IInv, SeekBegin
  PROVE  IInv'
<1>0. Types /\ Bounded /\ Counted /\ Asked /\ OneReader /\ Working /\ Joined /\ NotCut /\ Ends /\ Honoured
  BY DEF IInv
<1>q. msgs # <<>> /\ msgs' = Tail(msgs)
  BY DEF SeekBegin, Receives
<1>h. msgs' \in Seq(Messages) /\ Head(msgs) = msgs[1] /\ Head(msgs) \in Messages
  BY <1>0, <1>q, QueueServed
<1>d. /\ \A i \in DoneMsgs' : i \in Nat \ {0} /\ i + 1 \in DoneMsgs /\ msgs'[i] = msgs[i + 1]
      /\ 1 \in DoneMsgs <=> Head(msgs).type = "ReaderDone"
  BY <1>0, <1>q, QueueServed
<1>s. /\ \A i \in SeekMsgs(msgs') : i \in Nat \ {0} /\ i + 1 \in SeekMsgs(msgs) /\ msgs'[i] = msgs[i + 1]
      /\ \A i \in SeekMsgs(msgs) : i = 1 \/ (i \in Nat /\ i - 1 \in SeekMsgs(msgs'))
      /\ 1 \in SeekMsgs(msgs) <=> Head(msgs).type = "Seek"
  BY <1>0, <1>q, QueueServed
<1>x. /\ \A i \in DOMAIN msgs' : i + 1 \in DOMAIN msgs /\ msgs'[i] = msgs[i + 1]
      /\ 1 \in DOMAIN msgs
  BY <1>0, <1>q, QueueServed
<1>c. /\ reader' = reader /\ sup'.generation = sup.generation /\ sup.pc = "idle"
      /\ player' = player
  BY <1>0 DEF Types, SeekBegin, Receives, Stopping
<1>a. /\ OneReader' /\ (Answers = {} => Answers' = {})
      /\ Head(msgs).type = "ReaderDone" /\ Head(msgs).generation = sup.generation
           => Answers # {} /\ Answers' = {}
  BY <1>0, <1>d, <1>h, <1>c, DoneMsgsServed
<1>1. Types'
  <2>1. ring' \in Rings
    BY <1>0 DEF Types, Rings, SeekBegin, Receives, Stopping
  <2>2. proc' \in Processes
    BY <1>0 DEF Types, Processes, SeekBegin, Receives, Stopping
  <2>3. sup' \in Supervisors
    BY <1>0, <1>h DEF Types, Supervisors, Messages, SeekBegin, Receives, Stopping
  <2> QED
    BY <1>0, <2>1, <2>2, <2>3, <1>h DEF Types, SeekBegin, Receives, Stopping, Running
<1>2. Bounded'
  BY <1>0, <1>1 DEF Types, SeekBegin, Receives, Stopping, Bounded
<1>3. Counted'
  <2>1. Cardinality(SeekMsgs(msgs)) = Cardinality(SeekMsgs(msgs'))
          + (IF Head(msgs).type = "Seek" THEN 1 ELSE 0)
    BY <1>0, <1>q, SeekMsgsTail DEF Types
  <2>2. Cardinality(SeekMsgs(msgs)) \in Nat /\ Cardinality(SeekMsgs(msgs')) \in Nat
    BY <1>0, <1>1, SeekMsgsFinite DEF Types
  <2> QED
    BY <1>0, <2>1, <2>2 DEF Counted, Serving, SeekBegin, Receives, Stopping
<1>4. Asked'
  <2>1. sup'.pc = "seek" => Head(msgs).type = "Seek" /\ sup'.pos = Head(msgs).pos
    BY <1>0, <1>c DEF Types, SeekBegin, Receives, Stopping
  <2> QED
    BY <1>0, <1>s, <1>h, <1>c, <2>1, AskedServed
<1>5. OneReader'
  BY <1>a
<1>6. Working'
  BY <1>0, <1>h DEF Supervisors, Pts, SeekBegin, Receives, Stopping, Running, Working,
     Exact, SpawnEnd, StreamLoop, Segment, NoProcess
<1>7. Joined'
  BY <1>0, <1>x, <1>h DEF Supervisors, SeekBegin, Receives, Stopping, Running, Joined,
     NoProcess
<1>8. NotCut'
  BY <1>0 DEF Supervisors, SeekBegin, Receives, Stopping, Running, NotCut, NoProcess
<1>9. Ends'
  <2>1. /\ proc.state # "none" => proc'.state # "none"
        /\ proc = NoProcess => proc' = proc
    BY <1>0 DEF Types, SeekBegin, Stopping, Running, NoProcess
  <2>2. /\ ring'.frames = ring.frames /\ shared' = shared /\ media' = media
        /\ sup'.base = sup.base /\ sup'.end = sup.end
    BY <1>0 DEF Types, Rings, Supervisors, SeekBegin, Stopping
  <2> QED
    BY <1>0, <1>a, <1>c, <2>1, <2>2 DEF Ends, Reached
<1>10. Honoured'
  BY <1>0 DEF Types, SeekBegin, Receives, Stopping, Honoured
<1> QED
  BY <1>1, <1>2, <1>3, <1>4, <1>5, <1>6, <1>7, <1>8, <1>9, <1>10 DEF IInv

\* The end of a stale reader keeps the invariant.
LEMMA DoneIgnoredKeeps ==
  ASSUME IInv, DoneIgnored
  PROVE  IInv'
<1>0. Types /\ Bounded /\ Counted /\ Asked /\ OneReader /\ Working /\ Joined /\ NotCut /\ Ends /\ Honoured
  BY DEF IInv
<1>q. msgs # <<>> /\ msgs' = Tail(msgs)
  BY DEF DoneIgnored, Receives
<1>h. msgs' \in Seq(Messages) /\ Head(msgs) = msgs[1] /\ Head(msgs) \in Messages
  BY <1>0, <1>q, QueueServed
<1>d. /\ \A i \in DoneMsgs' : i \in Nat \ {0} /\ i + 1 \in DoneMsgs /\ msgs'[i] = msgs[i + 1]
      /\ 1 \in DoneMsgs <=> Head(msgs).type = "ReaderDone"
  BY <1>0, <1>q, QueueServed
<1>s. /\ \A i \in SeekMsgs(msgs') : i \in Nat \ {0} /\ i + 1 \in SeekMsgs(msgs) /\ msgs'[i] = msgs[i + 1]
      /\ \A i \in SeekMsgs(msgs) : i = 1 \/ (i \in Nat /\ i - 1 \in SeekMsgs(msgs'))
      /\ 1 \in SeekMsgs(msgs) <=> Head(msgs).type = "Seek"
  BY <1>0, <1>q, QueueServed
<1>x. /\ \A i \in DOMAIN msgs' : i + 1 \in DOMAIN msgs /\ msgs'[i] = msgs[i + 1]
      /\ 1 \in DOMAIN msgs
  BY <1>0, <1>q, QueueServed
<1>c. /\ reader' = reader /\ sup'.generation = sup.generation /\ sup.pc = "idle"
      /\ player' = player
  BY <1>0 DEF Types, Supervisors, DoneIgnored, Receives
<1>a. /\ OneReader' /\ (Answers = {} => Answers' = {})
      /\ Head(msgs).type = "ReaderDone" /\ Head(msgs).generation = sup.generation
           => Answers # {} /\ Answers' = {}
  BY <1>0, <1>d, <1>h, <1>c, DoneMsgsServed
<1>1. Types'
  <2> QED
    BY <1>0, <1>h DEF Types, DoneIgnored, Receives
<1>2. Bounded' /\ Working' /\ NotCut' /\ Honoured'
  BY <1>0 DEF DoneIgnored, Receives, Bounded, Working, Exact, SpawnEnd, StreamLoop, Segment,
     NotCut, Running, Honoured
<1>3. Counted'
  <2>1. Cardinality(SeekMsgs(msgs)) = Cardinality(SeekMsgs(msgs'))
          + (IF Head(msgs).type = "Seek" THEN 1 ELSE 0)
    BY <1>0, <1>q, SeekMsgsTail DEF Types
  <2>2. Cardinality(SeekMsgs(msgs)) \in Nat /\ Cardinality(SeekMsgs(msgs')) \in Nat
    BY <1>0, <1>1, SeekMsgsFinite DEF Types
  <2> QED
    BY <1>0, <1>1, <2>1, <2>2 DEF Types, Counted, Serving, DoneIgnored, Receives
<1>4. Asked'
  <2>1. sup'.pc = "seek" => Head(msgs).type = "Seek" /\ sup'.pos = Head(msgs).pos
    BY <1>0, <1>c DEF Types, Supervisors, DoneIgnored, Receives
  <2> QED
    BY <1>0, <1>s, <1>h, <1>c, <2>1, AskedServed
<1>5. OneReader'
  BY <1>a
<1>6. Joined'
  BY <1>0, <1>1, <1>x, <1>h DEF Types, Processes, DoneIgnored, Receives, Joined
<1>7. Ends'
  BY <1>0, <1>a, <1>c DEF DoneIgnored, Receives, Ends, Reached, OneReader, NotCut
<1> QED
  BY <1>1, <1>2, <1>3, <1>4, <1>5, <1>6, <1>7 DEF IInv

\* The end of the media keeps the invariant.
LEMMA DoneEndKeeps ==
  ASSUME IInv, DoneEnd
  PROVE  IInv'
<1>0. Types /\ Bounded /\ Counted /\ Asked /\ OneReader /\ Working /\ Joined /\ NotCut /\ Ends /\ Honoured
  BY DEF IInv
<1>q. msgs # <<>> /\ msgs' = Tail(msgs)
  BY DEF DoneEnd, Reaping, Receives
<1>h. msgs' \in Seq(Messages) /\ Head(msgs) = msgs[1] /\ Head(msgs) \in Messages
  BY <1>0, <1>q, QueueServed
<1>d. /\ \A i \in DoneMsgs' : i \in Nat \ {0} /\ i + 1 \in DoneMsgs /\ msgs'[i] = msgs[i + 1]
      /\ 1 \in DoneMsgs <=> Head(msgs).type = "ReaderDone"
  BY <1>0, <1>q, QueueServed
<1>s. /\ \A i \in SeekMsgs(msgs') : i \in Nat \ {0} /\ i + 1 \in SeekMsgs(msgs) /\ msgs'[i] = msgs[i + 1]
      /\ \A i \in SeekMsgs(msgs) : i = 1 \/ (i \in Nat /\ i - 1 \in SeekMsgs(msgs'))
      /\ 1 \in SeekMsgs(msgs) <=> Head(msgs).type = "Seek"
  BY <1>0, <1>q, QueueServed
<1>x. /\ \A i \in DOMAIN msgs' : i + 1 \in DOMAIN msgs /\ msgs'[i] = msgs[i + 1]
      /\ 1 \in DOMAIN msgs
  BY <1>0, <1>q, QueueServed
<1>c. /\ reader' = reader /\ sup'.generation = sup.generation /\ sup.pc = "idle"
      /\ player' = player
  BY <1>0 DEF Types, DoneEnd, Reaping, Receives
<1>a. /\ OneReader' /\ (Answers = {} => Answers' = {})
      /\ Head(msgs).type = "ReaderDone" /\ Head(msgs).generation = sup.generation
           => Answers # {} /\ Answers' = {}
  BY <1>0, <1>d, <1>h, <1>c, DoneMsgsServed
<1>1. Types'
  <2>1. shared' \in Flags
    BY <1>0 DEF Types, Flags, DoneEnd, Reaping, Receives
  <2>2. sup' \in Supervisors
    BY <1>0 DEF Types, Supervisors, DoneEnd, Reaping, Receives
  <2>3. proc' \in Processes
    BY <1>0 DEF Processes, NoProcess, DoneEnd, Reaping, Receives, Running
  <2> QED
    BY <1>0, <2>1, <2>2, <2>3, <1>h DEF Types, DoneEnd, Reaping, Receives, Running
<1>2. Bounded'
  BY <1>0 DEF DoneEnd, Reaping, Receives, Running, Bounded
<1>3. Counted'
  <2>1. Cardinality(SeekMsgs(msgs)) = Cardinality(SeekMsgs(msgs'))
          + (IF Head(msgs).type = "Seek" THEN 1 ELSE 0)
    BY <1>0, <1>q, SeekMsgsTail DEF Types
  <2>2. Cardinality(SeekMsgs(msgs)) \in Nat /\ Cardinality(SeekMsgs(msgs')) \in Nat
    BY <1>0, <1>1, SeekMsgsFinite DEF Types
  <2> QED
    BY <1>0, <2>1, <2>2 DEF Counted, Serving, DoneEnd, Reaping, Receives
<1>4. Asked'
  <2>1. sup'.pc = "seek" => Head(msgs).type = "Seek" /\ sup'.pos = Head(msgs).pos
    BY <1>0, <1>c DEF Types, DoneEnd, Reaping, Receives
  <2> QED
    BY <1>0, <1>s, <1>h, <1>c, <2>1, AskedServed
<1>5. OneReader'
  BY <1>a
<1>6. Working'
  BY <1>0, <1>h DEF Supervisors, DoneEnd, Reaping, Receives, Running, Working, NoProcess
<1>7. Joined'
  BY <1>0, <1>1, <1>x, <1>h, <1>c, ReapingFacts DEF DoneEnd, Joined, Running, NoProcess
<1>8. NotCut'
  BY <1>0 DEF Supervisors, DoneEnd, Reaping, Receives, Running, NotCut, NoProcess
<1>9. Ends'
  <2>1. /\ proc' = NoProcess /\ reader' = reader /\ ring' = ring /\ media' = media
        /\ shared'.ended /\ shared'.healthy = shared.healthy
        /\ shared'.pendingSeeks = shared.pendingSeeks
        /\ sup'.base = sup.base /\ sup'.end = sup.end
    BY <1>0 DEF Types, Flags, Supervisors, DoneEnd
  <2>2. Answers # {} /\ Answers' = {} /\ reader.pc = "none"
    BY <1>a, ReapingFacts DEF DoneEnd, Reaping, Receives
  <2>3. ASSUME shared.healthy, player.phase = "up"
        PROVE  Reached
    <3>1. CASE sup.end # Infinity
      BY <3>1, ReapingFacts DEF DoneEnd, Natural, IsNaturalEnd, Reached
    <3>2. CASE sup.end = Infinity
      <4>1. proc.state = "exited"
        BY <3>2 DEF DoneEnd, Natural, IsNaturalEnd, CleanExit
      <4>2. ~proc.endless /\ proc.start + reader.index >= media.real
        BY <1>0, <2>3, <4>1 DEF NotCut
      <4>3. SpawnEnd(sup.base, proc.start) = Infinity /\ ~StreamLoop(proc.start) /\ Exact
            /\ (Segment = 0 => proc.start <= sup.base)
        BY <1>0, <3>2, <4>1, <4>2 DEF Working
      <4>4. sup.base \in Nat /\ proc.start \in Nat /\ reader.index \in Nat /\ media \in Medias
        BY <1>0 DEF Types, Supervisors, Processes, Readers
      <4>5. proc.start <= sup.base
        BY <4>3, <4>4, SpawnEndFacts
      <4>6. media.real \in Nat
        BY <4>4, MediaFacts
      <4> QED
        BY <3>2, <4>2, <4>3, <4>4, <4>5, <4>6, PlayerBoundsAssumption DEF Reached, Exact
    <3> QED
      BY <3>1, <3>2
  <2>4. shared.healthy => ~player.eof
    BY <1>0, <2>2, ReapingFacts DEF Ends, DoneEnd
  <2> QED
    BY <1>0, <1>c, <2>1, <2>2, <2>3, <2>4 DEF Ends, Reached
<1>10. Honoured'
  BY <1>0 DEF Types, DoneEnd, Reaping, Receives, Honoured
<1> QED
  BY <1>1, <1>2, <1>3, <1>4, <1>5, <1>6, <1>7, <1>8, <1>9, <1>10 DEF IInv

\* A player that gives up keeps the invariant.
LEMMA DoneIllKeeps ==
  ASSUME IInv, DoneIll
  PROVE  IInv'
<1>0. Types /\ Bounded /\ Counted /\ Asked /\ OneReader /\ Working /\ Joined /\ NotCut /\ Ends /\ Honoured
  BY DEF IInv
<1>q. msgs # <<>> /\ msgs' = Tail(msgs)
  BY DEF DoneIll, Reaping, Receives
<1>h. msgs' \in Seq(Messages) /\ Head(msgs) = msgs[1] /\ Head(msgs) \in Messages
  BY <1>0, <1>q, QueueServed
<1>d. /\ \A i \in DoneMsgs' : i \in Nat \ {0} /\ i + 1 \in DoneMsgs /\ msgs'[i] = msgs[i + 1]
      /\ 1 \in DoneMsgs <=> Head(msgs).type = "ReaderDone"
  BY <1>0, <1>q, QueueServed
<1>s. /\ \A i \in SeekMsgs(msgs') : i \in Nat \ {0} /\ i + 1 \in SeekMsgs(msgs) /\ msgs'[i] = msgs[i + 1]
      /\ \A i \in SeekMsgs(msgs) : i = 1 \/ (i \in Nat /\ i - 1 \in SeekMsgs(msgs'))
      /\ 1 \in SeekMsgs(msgs) <=> Head(msgs).type = "Seek"
  BY <1>0, <1>q, QueueServed
<1>x. /\ \A i \in DOMAIN msgs' : i + 1 \in DOMAIN msgs /\ msgs'[i] = msgs[i + 1]
      /\ 1 \in DOMAIN msgs
  BY <1>0, <1>q, QueueServed
<1>c. /\ reader' = reader /\ sup'.generation = sup.generation /\ sup.pc = "idle"
      /\ player' = player
  BY <1>0 DEF Types, DoneIll, Reaping, Receives
<1>a. /\ OneReader' /\ (Answers = {} => Answers' = {})
      /\ Head(msgs).type = "ReaderDone" /\ Head(msgs).generation = sup.generation
           => Answers # {} /\ Answers' = {}
  BY <1>0, <1>d, <1>h, <1>c, DoneMsgsServed
<1>1. Types'
  <2>1. shared' \in Flags
    BY <1>0 DEF Types, Flags, DoneIll, Reaping, Receives
  <2>2. proc' \in Processes
    BY <1>0 DEF Processes, NoProcess, DoneIll, Reaping, Receives, Running
  <2> QED
    BY <1>0, <2>1, <2>2, <1>h DEF Types, DoneIll, Reaping, Receives, Running
<1>2. Bounded'
  BY <1>0 DEF DoneIll, Reaping, Receives, Running, Bounded
<1>3. Counted'
  <2>1. Cardinality(SeekMsgs(msgs)) = Cardinality(SeekMsgs(msgs'))
          + (IF Head(msgs).type = "Seek" THEN 1 ELSE 0)
    BY <1>0, <1>q, SeekMsgsTail DEF Types
  <2>2. Cardinality(SeekMsgs(msgs)) \in Nat /\ Cardinality(SeekMsgs(msgs')) \in Nat
    BY <1>0, <1>1, SeekMsgsFinite DEF Types
  <2> QED
    BY <1>0, <2>1, <2>2 DEF Counted, Serving, DoneIll, Reaping, Receives
<1>4. Asked'
  <2>1. sup'.pc = "seek" => Head(msgs).type = "Seek" /\ sup'.pos = Head(msgs).pos
    BY <1>0, <1>c DEF Types, DoneIll, Reaping, Receives
  <2> QED
    BY <1>0, <1>s, <1>h, <1>c, <2>1, AskedServed
<1>5. OneReader'
  BY <1>a
<1>6. Working'
  BY <1>0, <1>h DEF Supervisors, DoneIll, Reaping, Receives, Running, Working, NoProcess
<1>7. Joined'
  BY <1>0, <1>1, <1>x, <1>h, <1>c, ReapingFacts DEF DoneIll, Joined, Running, NoProcess
<1>8. NotCut'
  BY <1>0 DEF Supervisors, DoneIll, Reaping, Receives, Running, NotCut, NoProcess
<1>9. Ends'
  BY <1>0, <1>1, <1>a, <1>c DEF Types, DoneIll, Reaping, Receives, Ends
<1>10. Honoured'
  BY <1>0 DEF Types, DoneIll, Reaping, Receives, Honoured
<1> QED
  BY <1>1, <1>2, <1>3, <1>4, <1>5, <1>6, <1>7, <1>8, <1>9, <1>10 DEF IInv

\* The stop taken by the supervisor keeps the invariant.
LEMMA ShutdownBeginKeeps ==
  ASSUME IInv, ShutdownBegin
  PROVE  IInv'
<1>0. Types /\ Bounded /\ Counted /\ Asked /\ OneReader /\ Working /\ Joined /\ NotCut /\ Ends /\ Honoured
  BY DEF IInv
<1>q. msgs # <<>> /\ msgs' = Tail(msgs)
  BY DEF ShutdownBegin, Receives
<1>h. msgs' \in Seq(Messages) /\ Head(msgs) = msgs[1] /\ Head(msgs) \in Messages
  BY <1>0, <1>q, QueueServed
<1>d. /\ \A i \in DoneMsgs' : i \in Nat \ {0} /\ i + 1 \in DoneMsgs /\ msgs'[i] = msgs[i + 1]
      /\ 1 \in DoneMsgs <=> Head(msgs).type = "ReaderDone"
  BY <1>0, <1>q, QueueServed
<1>s. /\ \A i \in SeekMsgs(msgs') : i \in Nat \ {0} /\ i + 1 \in SeekMsgs(msgs) /\ msgs'[i] = msgs[i + 1]
      /\ \A i \in SeekMsgs(msgs) : i = 1 \/ (i \in Nat /\ i - 1 \in SeekMsgs(msgs'))
      /\ 1 \in SeekMsgs(msgs) <=> Head(msgs).type = "Seek"
  BY <1>0, <1>q, QueueServed
<1>x. /\ \A i \in DOMAIN msgs' : i + 1 \in DOMAIN msgs /\ msgs'[i] = msgs[i + 1]
      /\ 1 \in DOMAIN msgs
  BY <1>0, <1>q, QueueServed
<1>c. /\ reader' = reader /\ sup'.generation = sup.generation /\ sup.pc = "idle"
      /\ player' = player
  BY <1>0 DEF Types, ShutdownBegin, Receives, Stopping
<1>a. /\ OneReader' /\ (Answers = {} => Answers' = {})
      /\ Head(msgs).type = "ReaderDone" /\ Head(msgs).generation = sup.generation
           => Answers # {} /\ Answers' = {}
  BY <1>0, <1>d, <1>h, <1>c, DoneMsgsServed
<1>1. Types'
  <2>1. ring' \in Rings
    BY <1>0 DEF Types, Rings, ShutdownBegin, Receives, Stopping
  <2>2. proc' \in Processes
    BY <1>0 DEF Types, Processes, ShutdownBegin, Receives, Stopping
  <2>3. sup' \in Supervisors
    BY <1>0 DEF Types, Supervisors, ShutdownBegin, Receives, Stopping
  <2> QED
    BY <1>0, <2>1, <2>2, <2>3, <1>h DEF Types, ShutdownBegin, Receives, Stopping, Running
<1>2. Bounded'
  BY <1>0, <1>1 DEF Types, ShutdownBegin, Receives, Stopping, Bounded
<1>3. Counted'
  <2>1. Cardinality(SeekMsgs(msgs)) = Cardinality(SeekMsgs(msgs'))
          + (IF Head(msgs).type = "Seek" THEN 1 ELSE 0)
    BY <1>0, <1>q, SeekMsgsTail DEF Types
  <2>2. Cardinality(SeekMsgs(msgs)) \in Nat /\ Cardinality(SeekMsgs(msgs')) \in Nat
    BY <1>0, <1>1, SeekMsgsFinite DEF Types
  <2> QED
    BY <1>0, <2>1, <2>2 DEF Counted, Serving, ShutdownBegin, Receives, Stopping
<1>4. Asked'
  <2>1. sup'.pc = "seek" => Head(msgs).type = "Seek" /\ sup'.pos = Head(msgs).pos
    BY <1>0, <1>c DEF Types, ShutdownBegin, Receives, Stopping
  <2> QED
    BY <1>0, <1>s, <1>h, <1>c, <2>1, AskedServed
<1>5. OneReader'
  BY <1>a
<1>6. Working'
  BY <1>0, <1>h DEF Supervisors, Pts, ShutdownBegin, Receives, Stopping, Running, Working,
     Exact, SpawnEnd, StreamLoop, Segment, NoProcess
<1>7. Joined'
  BY <1>0, <1>x, <1>h DEF Supervisors, ShutdownBegin, Receives, Stopping, Running, Joined,
     NoProcess
<1>8. NotCut'
  BY <1>0 DEF Processes, ShutdownBegin, Receives, Stopping, NotCut, Joined
<1>9. Ends'
  <2>1. /\ proc.state # "none" => proc'.state # "none"
        /\ proc = NoProcess => proc' = proc
    BY <1>0 DEF Types, ShutdownBegin, Stopping, Running, NoProcess
  <2>2. /\ ring'.frames = ring.frames /\ shared' = shared /\ media' = media
        /\ sup'.base = sup.base /\ sup'.end = sup.end
    BY <1>0 DEF Types, Rings, Supervisors, ShutdownBegin, Stopping
  <2> QED
    BY <1>0, <1>a, <1>c, <2>1, <2>2 DEF Ends, Reached
<1>10. Honoured'
  BY <1>0 DEF Types, ShutdownBegin, Receives, Stopping, Honoured
<1> QED
  BY <1>1, <1>2, <1>3, <1>4, <1>5, <1>6, <1>7, <1>8, <1>9, <1>10 DEF IInv

\* The end of the supervisor keeps the invariant.
LEMMA ShutdownEndKeeps ==
  ASSUME IInv, ShutdownEnd
  PROVE  IInv'
<1>0. Types /\ Bounded /\ Counted /\ Asked /\ OneReader /\ Working /\ Joined /\ NotCut /\ Ends /\ Honoured
  BY DEF IInv
<1>1. Types'
  <2>1. sup' \in Supervisors
    BY <1>0 DEF Types, Supervisors, ShutdownEnd, Running
  <2>2. proc' \in Processes
    BY <1>0 DEF Types, Processes, NoProcess, ShutdownEnd, Running
  <2>3. ring' \in Rings
    BY <1>0 DEF Types, Rings, ShutdownEnd, Running
  <2> QED
    BY <1>0, <2>1, <2>2, <2>3 DEF Types, ShutdownEnd, Running
<1>2. Bounded'
  BY <1>0, <1>1 DEF Types, Rings, ShutdownEnd, Running, Bounded
<1>3. Counted'
  BY <1>0, <1>1 DEF Types, Flags, ShutdownEnd, Counted, Serving
<1>4. Asked'
  BY <1>0, <1>1 DEF Types, Messages, Players, ShutdownEnd, Asked
<1>5. OneReader'
  BY <1>0, <1>1 DEF Types, DoneMsgs, ShutdownEnd, OneReader, Joined
<1>6. Working'
  BY <1>0 DEF Supervisors, ShutdownEnd, Running, Working, NoProcess
<1>7. Joined'
  BY <1>0 DEF Supervisors, ShutdownEnd, Running, Joined, NoProcess
<1>8. NotCut'
  BY <1>0, <1>1 DEF Types, Processes, ShutdownEnd, NotCut, Joined
<1>9. Ends'
  BY <1>0 DEF DoneMsgs, ShutdownEnd, Ends, Answers, Reached, OneReader, NotCut
<1>10. Honoured'
  BY <1>0, <1>1, SeekMsgsFinite DEF Types, Flags, ShutdownEnd, Honoured, Ends
<1> QED
  BY <1>1, <1>2, <1>3, <1>4, <1>5, <1>6, <1>7, <1>8, <1>9, <1>10 DEF IInv
\* A seek served: the new process starts where the last seek asked, and nothing
\* of the old one is left.
LEMMA SeekEndKeeps ==
  ASSUME IInv, SeekEnd
  PROVE  IInv'
<1>0. Types /\ Bounded /\ Counted /\ Asked /\ OneReader /\ Working /\ Joined /\ NotCut /\ Ends /\ Honoured
  BY DEF IInv
<1> DEFINE s == [sup EXCEPT !.retries = 0, !.base = sup.pos]
<1>s. /\ s \in Supervisors /\ s.generation = sup.generation /\ s.base = sup.pos
      /\ sup.pos \in Nat /\ sup.generation \in Nat
  <2>1. sup.pos \in Nat /\ sup.generation \in Nat /\ sup \in Supervisors /\ 0 \in 0 .. 1
    BY <1>0 DEF Types, Supervisors
  <2>2. s = Based(sup, sup.pos)
    BY DEF Based
  <2> HIDE DEF s
  <2>3. s \in Supervisors /\ s.generation = sup.generation /\ s.base = sup.pos
    BY <2>1, <2>2, SupervisorBased, Zenon
  <2> QED
    BY <2>1, <2>3
<1>g. /\ sup.pc = "seek" /\ reader.pc = "none" /\ UNCHANGED <<media, player, msgs, hwBroken>>
      /\ shared'.ended = FALSE /\ shared'.pendingSeeks = shared.pendingSeeks - 1
      /\ shared'.healthy \in BOOLEAN
      /\ shared' = [ended |-> FALSE, healthy |-> shared'.healthy,
                    pendingSeeks |-> shared.pendingSeeks - 1]
      /\ \/ Launched(s, sup.pos, <<>>) /\ UNCHANGED faults
         \/ NotLaunched(s, sup.pos, <<>>) /\ ~shared'.healthy
  <2>1. sup.pc = "seek" /\ reader.pc = "none" /\ UNCHANGED <<media, player, msgs, hwBroken>>
    BY DEF SeekEnd
  <2> DEFINE served(ok) == [ended |-> FALSE, healthy |-> ok, pendingSeeks |-> shared.pendingSeeks - 1]
  <2>2. \/ Launched(s, sup.pos, <<>>) /\ shared' = served(TRUE) /\ UNCHANGED faults
        \/ NotLaunched(s, sup.pos, <<>>) /\ shared' = served(FALSE)
    BY DEF SeekEnd
  <2> HIDE DEF s
  <2>3. CASE Launched(s, sup.pos, <<>>) /\ shared' = served(TRUE) /\ UNCHANGED faults
    BY <2>1, <2>3
  <2>4. CASE NotLaunched(s, sup.pos, <<>>) /\ shared' = served(FALSE)
    BY <2>1, <2>4
  <2> QED
    BY <2>2, <2>3, <2>4
<1> HIDE DEF s
<1>b. SeekMsgs(msgs) \subseteq DOMAIN msgs /\ Cardinality(SeekMsgs(msgs)) \in Nat
      /\ IsFiniteSet(SeekMsgs(msgs))
  BY <1>0, SeekMsgsFinite DEF Types, SeekMsgs
<1>e. <<>> \in Seq(Nat) /\ Len(<<>>) = 0 /\ DOMAIN <<>> = {}
  OBVIOUS
<1>n. shared.pendingSeeks > 0 /\ shared.pendingSeeks \in Nat /\ ~player.eof
  BY <1>0, <1>g, SeekMsgsFinite DEF Types, Flags, Counted, Serving, Ends
<1>p. player.phase # "gone" /\ (player.phase = "up" \/ player.phase # "up")
  BY <1>0, <1>g DEF Joined
<1>f. shared' \in Flags
  <2>1. shared.pendingSeeks - 1 \in Nat
    BY <1>n
  <2> QED
    BY <1>g, <2>1 DEF Flags
<1>c. ASSUME sup'.pc = "idle" PROVE Counted' /\ Asked'
  <2>1. Counted'
    BY <1>0, <1>g, <1>n, <1>c, SeekMsgsFinite DEF Types, Players, Counted, Serving
  <2>2. Asked'
    BY <1>0, <1>g, <1>c DEF Asked
  <2> QED
    BY <2>1, <2>2
<1>h. ASSUME sup'.base = sup.pos, ring'.frames = <<>>
      PROVE  Honoured'
  <2>1. shared'.pendingSeeks = 0 => SeekMsgs(msgs) = {}
    BY <1>0, <1>g, <1>n, SeekMsgsFinite, FS_EmptySet DEF Types, Counted, Serving
  <2>2. shared'.pendingSeeks = 0 => sup.pos = player.target
    BY <1>0, <1>g, <2>1 DEF Asked
  <2>3. player'.target = player.target
    BY <1>g
  <2> QED
    BY <1>h, <1>e, <1>s, <2>2, <2>3 DEF Honoured
<1>1. CASE Launched(s, sup.pos, <<>>) /\ UNCHANGED faults
  <2>1. /\ sup' \in Supervisors /\ sup'.pc = "idle"
        /\ sup'.generation = sup.generation + 1 /\ sup'.base = sup.pos
        /\ sup'.end = SpawnEnd(sup.pos, sup.pos)
        /\ proc' \in Processes /\ proc'.state = "running" /\ proc'.start = sup.pos
        /\ proc'.endless = StreamLoop(sup.pos)
        /\ reader' \in Readers /\ reader'.pc = "read" /\ reader'.generation = sup.generation + 1
        /\ reader'.index = 0 /\ reader'.last = NoPts
        /\ ring' = [frames |-> <<>>, closed |-> FALSE]
    <3>1. media \in Medias /\ hwBroken' \in BOOLEAN
      BY <1>0, <1>g DEF Types
    <3>2. /\ sup' \in Supervisors /\ sup'.pc = "idle"
          /\ sup'.generation = s.generation + 1 /\ sup'.base = s.base
          /\ sup'.end = SpawnEnd(s.base, sup.pos)
          /\ proc' \in Processes /\ proc'.state = "running" /\ proc'.start = sup.pos
          /\ proc'.endless = StreamLoop(sup.pos)
          /\ reader' \in Readers /\ reader'.pc = "read" /\ reader'.generation = s.generation + 1
          /\ reader'.index = 0 /\ reader'.last = NoPts
          /\ ring' = [frames |-> <<>>, closed |-> FALSE]
      BY <1>1, <1>s, <1>e, <3>1, LaunchedFacts, Zenon
    <3> QED
      BY <1>s, <3>2
  <2>2. Types' /\ Bounded'
    BY <1>0, <1>1, <1>g, <1>f, <1>e, <2>1, PlayerBoundsAssumption DEF Types, Rings, Bounded
  <2>3. OneReader'
    <3>1. DoneMsgs' = DoneMsgs
      BY <1>g DEF DoneMsgs
    <3>2. \A i \in DoneMsgs : msgs[i].generation <= sup.generation
      BY <1>0 DEF OneReader, DoneMsgs, Types, Readers, Messages, Supervisors
    <3>3. \A i \in DoneMsgs : msgs[i].generation \in Nat
      BY <1>0 DEF DoneMsgs, Types, Messages
    <3>4. msgs' = msgs /\ sup.generation \in Nat
      BY <1>0, <1>g DEF Types, Supervisors
    <3>5. /\ sup'.generation = sup.generation + 1
          /\ reader'.generation = sup.generation + 1
      BY <2>1
    <3>6. \A i \in DoneMsgs : msgs[i].generation < sup.generation + 1
      BY <3>2, <3>3, <3>4
    <3>7. \A i, j \in DoneMsgs : msgs[i].generation = msgs[j].generation => i = j
      BY <1>0 DEF OneReader
    <3>8. /\ \A i \in DoneMsgs : msgs[i].generation <= reader'.generation
          /\ \A i \in DoneMsgs : msgs[i].generation # reader'.generation
      BY <3>3, <3>4, <3>5, <3>6
    <3>9. reader'.generation <= sup'.generation
      BY <3>4, <3>5
    <3> QED
      BY <3>1, <3>4, <3>7, <3>8, <3>9, Zenon DEF OneReader
  <2>4. Working'
    BY <1>s, <1>g, <2>1 DEF Working, Exact, SpawnEnd, StreamLoop, Segment
  <2>5. Joined' /\ NotCut'
    BY <1>0, <1>g, <1>p, <2>1 DEF Joined, NotCut, Running, NoProcess
  <2>6. Ends'
    BY <1>g, <1>n, <2>1 DEF Ends
  <2> QED
    BY <1>c, <1>h, <2>1, <2>2, <2>3, <2>4, <2>5, <2>6 DEF IInv
<1>2. CASE NotLaunched(s, sup.pos, <<>>) /\ ~shared'.healthy
  <2>1. /\ sup' \in Supervisors /\ sup'.pc = "idle" /\ sup'.base = sup.pos
        /\ sup'.generation \in {sup.generation, sup.generation + 1}
        /\ proc' = NoProcess /\ proc' \in Processes /\ proc'.state = "none"
        /\ reader' \in Readers /\ reader'.pc = "none"
        /\ reader'.generation = reader.generation /\ reader'.last = reader.last
        /\ ring'.frames = <<>> /\ ring' \in Rings
        /\ faults' \in 0 .. MaxFaults
    BY <1>0, <1>2, <1>s, <1>g, <1>e, NotLaunchedFacts DEF Types
  <2>2. Types' /\ Bounded'
    BY <1>0, <1>g, <1>f, <1>e, <2>1, PlayerBoundsAssumption DEF Types, Bounded
  <2>3. OneReader'
    BY <1>0, <1>g, <1>s, <2>1 DEF OneReader, DoneMsgs, Types, Readers
  <2>4. Working' /\ Joined' /\ NotCut' /\ Ends'
    BY <1>0, <1>2, <1>g, <1>n, <1>p, <2>1 DEF Working, Joined, NotCut, Running, Ends
  <2> QED
    BY <1>c, <1>h, <2>1, <2>2, <2>3, <2>4 DEF IInv
<1> QED
  BY <1>g, <1>1, <1>2

\* The message taken was the only one of its reader.
LEMMA NoneLeft ==
  ASSUME IInv, Reaping, NEW i \in DoneMsgs'
  PROVE  /\ i \in Nat /\ i + 1 \in DoneMsgs /\ msgs'[i] = msgs[i + 1]
         /\ msgs'[i].generation \in Nat
         /\ msgs'[i].generation <= reader.generation /\ msgs'[i].generation < sup.generation
<1>0. Types /\ OneReader
  BY DEF IInv
<1>1. msgs # <<>> /\ msgs' = Tail(msgs) /\ Head(msgs).generation = sup.generation
  BY DEF Reaping, Receives
<1>2. msgs' \in Seq(Messages) /\ Head(msgs) = msgs[1] /\ 1 \in DoneMsgs
      /\ \A j \in DoneMsgs' : j \in Nat \ {0} /\ j + 1 \in DoneMsgs /\ msgs'[j] = msgs[j + 1]
  BY <1>0, <1>1, QueueServed, ReapingFacts
<1>3. msgs'[i].generation \in Nat /\ msgs'[i].generation <= reader.generation
  BY <1>0, <1>2 DEF OneReader, DoneMsgs, Messages
<1>4. msgs'[i].generation # sup.generation
  <2>1. i \in Nat \ {0} /\ i + 1 \in DoneMsgs /\ msgs'[i] = msgs[i + 1] /\ i + 1 # 1
    BY <1>2
  <2>2. msgs[i + 1].generation # msgs[1].generation
    BY <1>0, <1>2, <2>1 DEF OneReader
  <2> QED
    BY <1>1, <1>2, <2>1, <2>2
<1>5. reader.generation \in Nat /\ sup.generation \in Nat
  BY <1>0 DEF Types, Readers, Supervisors
<1> QED
  BY <1>0, <1>2, <1>3, <1>4, <1>5 DEF OneReader

\* A process relaunched, or not, at the end of the one before it.
LEMMA RelaunchKeeps ==
  ASSUME IInv, Reaping, UNCHANGED <<media, player>>, hwBroken' \in BOOLEAN,
         NEW s \in Supervisors, s.generation = sup.generation,
         shared.healthy => s.base >= sup.base,
         NEW start \in Nat, Segment = 0 => start <= s.base,
         NEW lost \in Flags, ~lost.healthy, lost.pendingSeeks = shared.pendingSeeks,
         shared.ended => lost.ended,
         Relaunch(s, start, lost)
  PROVE  IInv'
<1>0. Types /\ Bounded /\ Counted /\ Asked /\ OneReader /\ Working /\ Joined /\ NotCut /\ Ends /\ Honoured
  BY DEF IInv
<1>q. msgs # <<>> /\ msgs' = Tail(msgs)
  BY DEF Reaping, Receives
<1>h. msgs' \in Seq(Messages) /\ Head(msgs) = msgs[1] /\ Head(msgs) \in Messages
  BY <1>0, <1>q, QueueServed
<1>d. /\ \A i \in DoneMsgs' : i \in Nat \ {0} /\ i + 1 \in DoneMsgs /\ msgs'[i] = msgs[i + 1]
      /\ 1 \in DoneMsgs
  BY <1>0, <1>q, QueueServed, ReapingFacts
<1>s. /\ \A i \in SeekMsgs(msgs') : i \in Nat \ {0} /\ i + 1 \in SeekMsgs(msgs) /\ msgs'[i] = msgs[i + 1]
      /\ \A i \in SeekMsgs(msgs) : i = 1 \/ (i \in Nat /\ i - 1 \in SeekMsgs(msgs'))
      /\ 1 \in SeekMsgs(msgs) <=> Head(msgs).type = "Seek"
  BY <1>0, <1>q, QueueServed
<1>x. \A i \in DOMAIN msgs' : i + 1 \in DOMAIN msgs /\ msgs'[i] = msgs[i + 1]
  BY <1>0, <1>q, QueueServed
<1>g. /\ reader.pc = "none" /\ sup.pc = "idle" /\ Head(msgs).type = "ReaderDone"
      /\ Head(msgs).generation = sup.generation /\ player.phase # "gone"
      /\ Answers # {}
      /\ shared.ended /\ shared.healthy => player.phase # "up" /\ ~player.eof
  BY ReapingFacts DEF Reaping
<1>n. sup.generation \in Nat /\ sup.base \in Nat /\ s.base \in Nat /\ reader.generation \in Nat
      /\ ring.frames \in Seq(Nat)
  BY <1>0 DEF Types, Supervisors, Readers, Rings
<1>c. ASSUME sup'.pc = "idle", shared'.pendingSeeks = shared.pendingSeeks PROVE Counted' /\ Asked'
  <2>1. Cardinality(SeekMsgs(msgs)) = Cardinality(SeekMsgs(msgs'))
    <3>1. Cardinality(SeekMsgs(msgs)) = Cardinality(SeekMsgs(Tail(msgs)))
            + (IF Head(msgs).type = "Seek" THEN 1 ELSE 0)
      BY <1>0, <1>q, SeekMsgsTail DEF Types
    <3>2. Cardinality(SeekMsgs(msgs')) \in Nat
      BY <1>h, SeekMsgsFinite
    <3> QED
      BY <1>q, <1>g, <3>1, <3>2
  <2>2. Counted'
    BY <1>0, <1>g, <1>c, <2>1 DEF Counted, Serving
  <2>3. Asked'
    BY <1>0, <1>s, <1>h, <1>g, <1>c, AskedServed
  <2> QED
    BY <2>2, <2>3
<1>m. \A i \in DoneMsgs' :
        /\ i \in Nat /\ i + 1 \in DoneMsgs /\ msgs'[i] = msgs[i + 1]
        /\ msgs'[i].generation \in Nat
        /\ msgs'[i].generation <= reader.generation /\ msgs'[i].generation < sup.generation
  BY NoneLeft
<1>o. \A i, j \in DoneMsgs' : msgs'[i].generation = msgs'[j].generation => i = j
  BY <1>0, <1>m DEF OneReader
<1>j. \A i \in DOMAIN msgs' : msgs'[i].type = "Shutdown" => player.phase # "up"
  BY <1>0, <1>x DEF Joined
<1>1. CASE Launched(s, start, ring.frames) /\ UNCHANGED <<shared, faults>>
  <2>1. /\ sup' \in Supervisors /\ sup'.pc = "idle"
        /\ sup'.generation = sup.generation + 1 /\ sup'.base = s.base
        /\ sup'.end = SpawnEnd(s.base, start)
        /\ proc' \in Processes /\ proc'.state = "running" /\ proc'.start = start
        /\ proc'.endless = StreamLoop(start)
        /\ reader' \in Readers /\ reader'.pc = "read" /\ reader'.generation = sup.generation + 1
        /\ reader'.index = 0 /\ reader'.last = NoPts
        /\ ring' = [frames |-> ring.frames, closed |-> FALSE]
    BY <1>0, <1>1, <1>n, LaunchedFacts DEF Types
  <2>2. Types' /\ Bounded'
    BY <1>0, <1>1, <1>h, <1>n, <2>1 DEF Types, Rings, Bounded
  <2>3. OneReader'
    BY <1>m, <1>n, <1>o, <2>1 DEF OneReader
  <2>4. Working'
    BY <1>n, <2>1 DEF Working, Exact, SpawnEnd, StreamLoop, Segment
  <2>5. Joined' /\ NotCut'
    BY <1>g, <1>j, <2>1 DEF Joined, NotCut, Running, NoProcess
  <2>6. Ends'
    BY <1>0, <1>1, <1>g, <2>1 DEF Ends
  <2>7. Honoured'
    BY <1>0, <1>1, <1>n, <2>1 DEF Types, Players, Honoured
  <2> QED
    BY <1>1, <1>c, <2>1, <2>2, <2>3, <2>4, <2>5, <2>6, <2>7 DEF IInv
<1>2. CASE NotLaunched(s, start, ring.frames) /\ shared' = lost
  <2>1. /\ sup' \in Supervisors /\ sup'.pc = "idle" /\ sup'.base = s.base
        /\ sup'.generation \in {sup.generation, sup.generation + 1}
        /\ proc' = NoProcess /\ proc' \in Processes /\ proc'.state = "none"
        /\ reader' \in Readers /\ reader'.pc = "none"
        /\ reader'.generation = reader.generation /\ reader'.last = reader.last
        /\ ring'.frames = ring.frames /\ ring' \in Rings
        /\ faults' \in 0 .. MaxFaults
    BY <1>0, <1>2, <1>n, NotLaunchedFacts DEF Types
  <2>2. Types' /\ Bounded'
    BY <1>0, <1>2, <1>h, <2>1 DEF Types, Bounded
  <2>3. OneReader'
    <3>1. \A i \in DoneMsgs' : msgs'[i].generation = reader.generation => msgs'[i].last = reader.last
      BY <1>0, <1>m DEF OneReader
    <3> QED
      BY <1>0, <1>m, <1>n, <1>o, <2>1, <3>1 DEF OneReader
  <2>4. Working' /\ NotCut' /\ Honoured'
    BY <1>2, <2>1 DEF Working, NotCut, Running, Honoured
  <2>5. Joined'
    BY <1>g, <1>j, <2>1 DEF Joined, Running
  <2>6. Ends'
    BY <1>0, <1>2 DEF Ends
  <2> QED
    BY <1>2, <1>c, <2>1, <2>2, <2>3, <2>4, <2>5, <2>6 DEF IInv
<1> QED
  BY <1>1, <1>2 DEF Relaunch

\* Where the stream of a relaunched process starts.
LEMMA ResumeFacts ==
  ASSUME media \in Medias, NEW last \in Nat
  PROVE  ResumePosition(last) \in Nat /\ (Segment = 0 => ResumePosition(last) <= last)
  BY MediaFacts DEF ResumePosition

\* The frames of the reader that is done come after the base of its process.
LEMMA LastAfterBase ==
  ASSUME IInv, Reaping
  PROVE  shared.healthy => LastPts >= sup.base
  BY ReapingFacts DEF IInv, Types, Working, Exact, Supervisors, Readers

\* What is said of a player whose process could not be relaunched.
LEMMA LostFacts ==
  ASSUME shared \in Flags
  PROVE  /\ LET lost == [shared EXCEPT !.healthy = FALSE]
            IN  /\ lost \in Flags /\ ~lost.healthy /\ lost.pendingSeeks = shared.pendingSeeks
                /\ shared.ended => lost.ended
         /\ LET lost == [shared EXCEPT !.healthy = FALSE, !.ended = TRUE]
            IN  /\ lost \in Flags /\ ~lost.healthy /\ lost.pendingSeeks = shared.pendingSeeks
                /\ shared.ended => lost.ended
  BY DEF Flags

\* A loop keeps the invariant.
LEMMA DoneLoopKeeps ==
  ASSUME IInv, DoneLoop
  PROVE  IInv'
<1> DEFINE base == IF sup.end # Infinity THEN sup.end ELSE LastPts + 1
           s == [sup EXCEPT !.retries = 0, !.base = base]
           lost == [shared EXCEPT !.healthy = FALSE, !.ended = TRUE]
<1>1. Reaping /\ UNCHANGED <<media, player, hwBroken>> /\ Relaunch(s, 0, lost)
  BY DEF DoneLoop
<1>2. sup \in Supervisors /\ shared \in Flags /\ hwBroken' \in BOOLEAN /\ media \in Medias
      /\ 0 \in 0 .. 1
  BY <1>1 DEF IInv, Types
<1>3. LastPts \in Nat
  BY <1>1, ReapingFacts
<1>4. base \in Nat
  BY <1>2, <1>3 DEF Supervisors
<1>5. shared.healthy => base >= sup.base
  <2>1. shared.healthy /\ sup.end # Infinity => sup.end >= sup.base
    BY <1>1, <1>2, ReapingFacts, SpawnEndFacts DEF IInv, Types, Working, Supervisors,
       Processes
  <2>2. sup.base \in Nat
    BY <1>2 DEF Supervisors
  <2> QED
    BY <1>1, <1>3, <2>1, <2>2, LastAfterBase
<1> HIDE DEF base
<1>6. s \in Supervisors /\ s.generation = sup.generation /\ s.base = base
  <2>1. s = Based(sup, base)
    BY DEF Based
  <2> HIDE DEF s
  <2> QED BY <1>2, <1>4, <2>1, SupervisorBased, Zenon
<1>7. /\ lost \in Flags /\ ~lost.healthy /\ lost.pendingSeeks = shared.pendingSeeks
      /\ shared.ended => lost.ended
  BY <1>2, LostFacts
<1>8. 0 \in Nat /\ (Segment = 0 => 0 <= s.base)
  BY <1>4, <1>6
<1> HIDE DEF s, lost
<1> QED
  BY <1>1, <1>2, <1>5, <1>6, <1>7, <1>8, RelaunchKeeps

\* A start again without the hardware keeps the invariant.
LEMMA DoneHardwareKeeps ==
  ASSUME IInv, DoneHardware
  PROVE  IInv'
<1> DEFINE base == IF Head(msgs).last = NoPts THEN sup.base ELSE LastPts + 1
           s == [sup EXCEPT !.base = base]
           lost == [shared EXCEPT !.healthy = FALSE]
<1>1. Reaping /\ UNCHANGED <<media, player>> /\ hwBroken' = TRUE
      /\ Relaunch(s, ResumePosition(base), lost)
  BY DEF DoneHardware
<1>2. sup \in Supervisors /\ shared \in Flags /\ hwBroken' \in BOOLEAN /\ media \in Medias
  BY <1>1 DEF IInv, Types
<1>3. LastPts \in Nat /\ sup.base \in Nat
  BY <1>1, <1>2, ReapingFacts DEF Supervisors
<1>4. base \in Nat
  BY <1>3
<1>5. shared.healthy => base >= sup.base
  BY <1>1, <1>3, LastAfterBase
<1> HIDE DEF base
<1>6. s \in Supervisors /\ s.generation = sup.generation /\ s.base = base
  BY <1>2, <1>4 DEF Supervisors
<1>7. /\ lost \in Flags /\ ~lost.healthy /\ lost.pendingSeeks = shared.pendingSeeks
      /\ shared.ended => lost.ended
  BY <1>2, LostFacts
<1>8. ResumePosition(base) \in Nat /\ (Segment = 0 => ResumePosition(base) <= s.base)
  BY <1>2, <1>4, <1>6, ResumeFacts
<1> HIDE DEF s, lost
<1> QED
  BY <1>1, <1>2, <1>5, <1>6, <1>7, <1>8, RelaunchKeeps

\* A start again after a death keeps the invariant.
LEMMA DoneRetryKeeps ==
  ASSUME IInv, DoneRetry
  PROVE  IInv'
<1> DEFINE base == LastPts + 1
           s == [sup EXCEPT !.retries = 1, !.base = base]
           lost == [shared EXCEPT !.healthy = FALSE]
<1>1. Reaping /\ UNCHANGED <<media, player, hwBroken>>
      /\ Relaunch(s, ResumePosition(LastPts), lost)
  BY DEF DoneRetry
<1>2. sup \in Supervisors /\ shared \in Flags /\ hwBroken' \in BOOLEAN /\ media \in Medias
      /\ 1 \in 0 .. 1
  BY <1>1 DEF IInv, Types
<1>3. LastPts \in Nat /\ sup.base \in Nat
  BY <1>1, <1>2, ReapingFacts DEF Supervisors
<1>4. base \in Nat
  BY <1>3
<1>5. shared.healthy => base >= sup.base
  BY <1>1, <1>3, LastAfterBase
<1>6. ResumePosition(LastPts) \in Nat /\ (Segment = 0 => ResumePosition(LastPts) <= base)
  BY <1>2, <1>3, ResumeFacts
<1> HIDE DEF base
<1>7. s \in Supervisors /\ s.generation = sup.generation /\ s.base = base
  <2>1. sup \in Supervisors /\ [sup EXCEPT !.retries = 1] \in Supervisors
    BY <1>2 DEF Supervisors
  <2> QED
    BY <1>4, <2>1 DEF Supervisors
<1>8. /\ lost \in Flags /\ ~lost.healthy /\ lost.pendingSeeks = shared.pendingSeeks
      /\ shared.ended => lost.ended
  BY <1>2, LostFacts
<1> HIDE DEF s, lost
<1> QED
  BY <1>1, <1>2, <1>5, <1>6, <1>7, <1>8, RelaunchKeeps

\* The player as FfmpegPlayer::open leaves it.
LEMMA InitHolds ==
  ASSUME Init
  PROVE  IInv
<1>1. media \in Medias /\ hwBroken \in BOOLEAN
  BY DEF Init
<1>2. PICK hw \in BOOLEAN : hw = (media.hw /\ ~hwBroken)
  BY <1>1, MediaFacts DEF Init
<1>3. SpawnEnd(0, 0) \in {Infinity} \cup Nat /\ StreamLoop(0) \in BOOLEAN
  <2>1. 0 \in Nat
    OBVIOUS
  <2>2. SpawnEnd(0, 0) \in {Infinity} \cup Nat
    BY <1>1, <2>1, SpawnEndFacts
  <2>3. StreamLoop(0) \in BOOLEAN
    BY <1>1, MediaFacts, Zenon DEF StreamLoop
  <2> QED
    BY <2>2, <2>3
<1>4. sup = [pc |-> "idle", pos |-> 0, generation |-> 1, retries |-> 0, base |-> 0,
             end |-> SpawnEnd(0, 0), hw |-> hw]
  BY <1>2, Zenon DEF Init
<1>5. sup \in Supervisors
  BY <1>3, <1>4 DEF Supervisors
<1>6. /\ player \in Players /\ shared \in Flags /\ ring \in Rings
      /\ proc \in Processes /\ reader \in Readers
  BY <1>3 DEF Init, Players, Flags, Rings, Processes, Readers, Pts
<1>7. Types /\ Bounded
  BY <1>1, <1>5, <1>6, PlayerBoundsAssumption DEF Init, Types, Bounded
<1>8. msgs = <<>> /\ SeekMsgs(msgs) = {} /\ DoneMsgs = {} /\ DOMAIN msgs = {}
  BY DEF Init, SeekMsgs, DoneMsgs
<1>9. Counted /\ Asked
  <2>1. Cardinality(SeekMsgs(msgs)) = 0
    BY <1>8, FS_EmptySet
  <2>2. player.seeks = 0 /\ shared.pendingSeeks = 0 /\ sup.pc = "idle"
    BY <1>4 DEF Init
  <2> QED
    BY <1>8, <2>1, <2>2, PlayerBoundsAssumption DEF Counted, Serving, Asked
<1>10. OneReader /\ Working /\ Joined
  BY <1>4, <1>8 DEF Init, OneReader, Working, Exact, Joined
<1>11. NotCut /\ Ends /\ Honoured
  BY <1>4, <1>8 DEF Init, NotCut, Running, Ends, Honoured
<1> QED
  BY <1>7, <1>9, <1>10, <1>11 DEF IInv

\* Every step of the threads and of the process keeps the invariant.
LEMMA NextKeeps ==
  ASSUME IInv, [Next]_vars
  PROVE  IInv'
<1>1. CASE UNCHANGED vars
  BY <1>1 DEF vars, IInv, Types, Bounded, Counted, Serving, Asked, OneReader, DoneMsgs,
     Working, Exact, SpawnEnd, StreamLoop, Segment, Joined, Running, NotCut, Ends, Answers,
     Reached, Honoured
<1>2. CASE \E pos \in Positions : Seek(pos)
  BY <1>2, SeekKeeps
<1>3. CASE Polls
  BY <1>3, PollKeeps, PollEofKeeps DEF Polls
<1>4. CASE Drop
  BY <1>4, DropCloseKeeps, DropShutdownKeeps, DropJoinKeeps DEF Drop
<1>5. CASE ProcessExit \/ ProcessDies
  BY <1>5, ProcessExitKeeps, ProcessDiesKeeps
<1>6. CASE ReaderStep
  BY <1>6, ReadFrameKeeps, ReadEndKeeps, PushKeeps, ReaderExitKeeps DEF ReaderStep
<1>7. CASE SupervisorStep
  BY <1>7, SeekBeginKeeps, SeekEndKeeps, DoneIgnoredKeeps, DoneLoopKeeps, DoneEndKeeps,
     DoneHardwareKeeps, DoneRetryKeeps, DoneIllKeeps, ShutdownBeginKeeps, ShutdownEndKeeps
     DEF SupervisorStep
<1> QED
  BY <1>1, <1>2, <1>3, <1>4, <1>5, <1>6, <1>7 DEF Next

----------------------------------------------------------------------------
(* The theorems.                                                           *)

\* The inductive invariant holds in every behaviour of the player.
LEMMA Invariance == Spec => []IInv
<1>1. Init => IInv
  BY InitHolds
<1>2. IInv /\ [Next]_vars => IInv'
  BY NextKeeps
<1> QED
  BY <1>1, <1>2, PTL DEF Spec

\* Whatever the render thread, the supervisor, the reader and ffmpeg do, and
\* whenever ffmpeg dies or fails to start: the ring is bounded, the eof of a
\* player that is well means that the media was decoded to its end and shown,
\* and a player that is gone leaves no process and no thread behind.
THEOREM PlayerIsSafe == Spec => []PlayerInvariant
<1>1. IInv => PlayerInvariant
  <2> SUFFICES ASSUME IInv PROVE PlayerInvariant
    OBVIOUS
  <2>0. Types /\ Bounded /\ Counted /\ Joined /\ Ends
    BY DEF IInv
  <2>1. player \in [phase : {"up", "closing", "joining", "gone"}, eof : BOOLEAN,
                    target : Nat, served : Pts, seeks : 0 .. MaxSeeks]
    BY <2>0, PlayerBoundsAssumption DEF Types, Players, Counted
  <2>2. shared \in [ended : BOOLEAN, healthy : BOOLEAN, pendingSeeks : 0 .. MaxSeeks]
    BY <2>0, PlayerBoundsAssumption DEF Types, Players, Flags, Counted
  <2>3. \A i \in DOMAIN msgs : msgs[i].type \in {"Seek", "ReaderDone", "Shutdown"}
    BY <2>0 DEF Types, Messages
  <2>4. TypeOK
    BY <2>0, <2>1, <2>2, <2>3 DEF TypeOK, Types, Bounded, Rings, Supervisors, Processes,
       Readers
  <2>5. EofMeansEnd
    BY <2>0 DEF EofMeansEnd, Ends, Reached
  <2>6. NoOrphan
    BY <2>0 DEF NoOrphan, Joined
  <2> QED
    BY <2>4, <2>5, <2>6 DEF PlayerInvariant
<1> QED
  BY <1>1, Invariance, PTL

\* Once the seeks asked are served, no frame from before the last of them waits
\* in the ring, whatever the old reader was doing when the seek came.
THEOREM SeeksAreHonoured == Spec => []SeekHonoured
<1>1. IInv => SeekHonoured
  BY DEF IInv, Honoured, SeekHonoured
<1> QED
  BY <1>1, Invariance, PTL

----------------------------------------------------------------------------
(* The order of the frames.                                                *)

\* A step that leaves the frames alone.
LEMMA OrderKept ==
  ASSUME Ordered, media' = media, ring'.frames = ring.frames,
         player'.served = player.served, shared'.pendingSeeks = shared.pendingSeeks,
         sup'.base = sup.base, reader'.index = reader.index,
         reader'.pc = "push" => reader.pc = "push",
         proc'.state # "none" =>
           proc.state # "none" /\ proc'.start = proc.start /\ proc'.endless = proc.endless,
         proc'.state = "none" /\ Answers' # {} => proc.state = "none" /\ Answers # {}
  PROVE  Ordered'
  BY DEF Ordered

\* The end seen by the render thread, and its drop, keep the order.
LEMMA OrderOfRenderThread ==
  ASSUME IInv, Ordered, PollEof \/ Drop
  PROVE  Ordered'
<1>0. Types
  BY DEF IInv
<1>1. CASE PollEof
  BY <1>0, <1>1, OrderKept DEF PollEof, Types, Players, Answers, DoneMsgs
<1>2. CASE DropClose
  BY <1>0, <1>2, OrderKept DEF DropClose, Types, Answers, DoneMsgs
<1>3. CASE DropShutdown
  <2> DEFINE m == [type |-> "Shutdown"]
  <2>1. m \in Messages /\ m.type = "Shutdown" /\ msgs' = Append(msgs, m)
    BY <1>3 DEF DropShutdown, Messages
  <2>2. DoneMsgs' = DoneMsgs /\ \A i \in DoneMsgs : msgs'[i] = msgs[i]
    BY <1>0, <2>1, QueueGrows DEF DoneMsgs
  <2>3. Answers' = Answers
    BY <1>3, <2>2, DoneMsgsKept DEF IInv, DropShutdown
  <2> QED
    BY <1>0, <1>3, <2>3, OrderKept DEF DropShutdown, Types, Players
<1>4. CASE DropJoin
  BY <1>0, <1>4, OrderKept DEF DropJoin, Types, Players, Answers, DoneMsgs
<1> QED
  BY <1>1, <1>2, <1>3, <1>4 DEF Drop

\* The process keeps the order.
LEMMA OrderOfProcess ==
  ASSUME IInv, Ordered, ProcessExit \/ ProcessDies
  PROVE  Ordered'
<1>1. proc'.state # "none" /\ proc'.start = proc.start /\ proc'.endless = proc.endless
      /\ proc.state # "none"
  BY DEF IInv, Types, Processes, ProcessExit, ProcessDies, Running
<1>2. UNCHANGED <<media, player, shared, ring, msgs, sup, reader>>
  BY DEF ProcessExit, ProcessDies
<1> QED
  BY <1>1, <1>2, OrderKept

\* A seek forgets the frames before it.
LEMMA OrderOfSeek ==
  ASSUME IInv, Ordered, NEW pos \in Positions, Seek(pos)
  PROVE  Ordered'
<1>0. Types
  BY DEF IInv
<1>1. pos \in Nat
  BY <1>0, MediaFacts DEF Types
<1>2. player'.served = NoPts /\ UNCHANGED <<media, ring, sup, proc, reader>>
  BY <1>0 DEF Seek, Types, Players
<1>3. Answers' = Answers
  <2> DEFINE m == [type |-> "Seek", pos |-> pos]
  <2>1. m \in Messages /\ m.type = "Seek" /\ msgs' = Append(msgs, m)
    BY <1>1 DEF Seek, Messages
  <2>2. DoneMsgs' = DoneMsgs /\ \A i \in DoneMsgs : msgs'[i] = msgs[i]
    BY <1>0, <2>1, QueueGrows DEF DoneMsgs
  <2> QED
    BY <1>2, <2>2, DoneMsgsKept DEF IInv
<1>4. /\ ring.frames \in Seq(Nat) /\ sup.base \in Nat /\ reader.index \in Nat
  BY <1>0 DEF Types, Rings, Supervisors, Readers
<1> QED
  BY <1>2, <1>3, <1>4 DEF Ordered, NoPts

\* The frame taken is the first of the ring.
LEMMA OrderOfPoll ==
  ASSUME IInv, Ordered, NEW i \in 1 .. Capacity, Poll(i)
  PROVE  Ordered' /\ player'.served > player.served
<1>0. Types
  BY DEF IInv
<1>1. ring.frames \in Seq(Nat) /\ i \in 1 .. Len(ring.frames) /\ i \in DOMAIN ring.frames
  <2>1. ring.frames \in Seq(Nat) /\ i \in Nat \ {0}
    BY <1>0, PlayerBoundsAssumption DEF Types, Rings
  <2>2. i <= Len(ring.frames) /\ Len(ring.frames) \in Nat
    BY <2>1 DEF Poll
  <2> QED
    BY <2>1, <2>2
<1>2. ring'.frames = SubSeq(ring.frames, i + 1, Len(ring.frames))
  BY <1>0 DEF Types, Rings, Poll
<1>3. ring'.frames \in Seq(Nat)
      /\ \A k \in DOMAIN ring'.frames : i + k \in DOMAIN ring.frames
                                       /\ ring'.frames[k] = ring.frames[i + k]
  <2> DEFINE rest == SubSeq(ring.frames, i + 1, Len(ring.frames))
  <2>1. rest \in Seq(Nat)
        /\ \A k \in DOMAIN rest : i + k \in DOMAIN ring.frames /\ rest[k] = ring.frames[i + k]
    BY <1>1, RestOf
  <2> QED
    BY <1>2, <2>1
<1>4. player'.served = ring.frames[i] /\ player'.served \in Nat
      /\ UNCHANGED <<media, shared, msgs, sup, proc, reader>> /\ shared.pendingSeeks = 0
  BY <1>0, <1>1 DEF Types, Players, Poll
<1>5. Answers' = Answers
  BY <1>4 DEF Answers, DoneMsgs
<1>6. \A k \in DOMAIN ring'.frames : k \in Nat \ {0}
  BY <1>3
<1>7. /\ \A j, k \in DOMAIN ring'.frames : j < k => ring'.frames[j] < ring'.frames[k]
      /\ \A k \in DOMAIN ring'.frames : player'.served < ring'.frames[k]
  <2>1. \A j, k \in DOMAIN ring'.frames : j < k => ring'.frames[j] < ring'.frames[k]
    <3> SUFFICES ASSUME NEW j \in DOMAIN ring'.frames, NEW k \in DOMAIN ring'.frames, j < k
                 PROVE  ring'.frames[j] < ring'.frames[k]
      OBVIOUS
    <3>1. i + j < i + k
      BY <1>1, <1>6
    <3> QED
      BY <1>3, <3>1 DEF Ordered
  <2>2. \A k \in DOMAIN ring'.frames : i < i + k
    BY <1>1, <1>6
  <2>3. \A k \in DOMAIN ring'.frames : player'.served < ring'.frames[k]
    BY <1>1, <1>3, <1>4, <2>2 DEF Ordered
  <2> QED
    BY <2>1, <2>3
<1>8. player'.served > player.served
  <2>1. player.served < ring.frames[i] /\ player.served \in Int
    BY <1>0, <1>1 DEF Ordered, Types, Players, Pts, NoPts
  <2> QED
    BY <1>4, <2>1
<1>9. proc.state = "none" => Answers = {}
  BY <1>1 DEF Ordered
<1> QED
  BY <1>1, <1>3, <1>4, <1>5, <1>7, <1>8, <1>9 DEF Ordered

\* A number above those of an increasing sequence goes at its end.
LEMMA StillIncreasing ==
  ASSUME NEW q \in Seq(Nat), NEW x \in Nat, NEW low \in Int, NEW r, r = Append(q, x), low < x,
         \A i, j \in DOMAIN q : i < j => q[i] < q[j],
         \A i \in DOMAIN q : low < q[i], \A i \in DOMAIN q : q[i] < x
  PROVE  /\ \A i, j \in DOMAIN r : i < j => r[i] < r[j]
         /\ \A i \in DOMAIN r : low < r[i] /\ r[i] < x + 1
<1> DEFINE n == Len(q)
<1>1. n \in Nat /\ DOMAIN q = 1..n /\ \A i \in 1..n : q[i] \in Nat
  OBVIOUS
<1>2. DOMAIN r = 1..(n + 1) /\ r[n + 1] = x /\ \A i \in 1..n : r[i] = q[i]
  BY <1>1
<1> HIDE DEF n
<1>3. ASSUME NEW i \in DOMAIN r, NEW j \in DOMAIN r, i < j PROVE r[i] < r[j]
  <2>1. i \in 1..n
    BY <1>1, <1>2, <1>3
  <2>2. CASE j \in 1..n
    BY <1>1, <1>2, <1>3, <2>1, <2>2
  <2>3. CASE j = n + 1
    BY <1>1, <1>2, <2>1, <2>3
  <2> QED BY <1>1, <1>2, <2>2, <2>3
<1>4. ASSUME NEW i \in DOMAIN r PROVE low < r[i] /\ r[i] < x + 1
  <2>1. CASE i \in 1..n
    <3>1. r[i] = q[i] /\ q[i] \in Nat /\ low < q[i] /\ q[i] < x
      BY <1>1, <1>2, <2>1
    <3> QED BY <3>1
  <2>2. CASE i = n + 1
    BY <1>2, <2>2
  <2> QED BY <1>1, <1>2, <2>1, <2>2
<1> QED BY <1>3, <1>4

\* The frame pushed comes after those of the ring.
LEMMA OrderOfReader ==
  ASSUME IInv, Ordered, ReaderStep
  PROVE  Ordered'
<1>0. Types /\ Joined
  BY DEF IInv
<1>1. CASE ReadFrame
  <2>1. /\ reader' = [reader EXCEPT !.pc = "push"] /\ HasFrame
        /\ UNCHANGED <<media, player, shared, ring, msgs, sup, proc>>
    BY <1>1 DEF ReadFrame
  <2>2. reader'.index = reader.index
    BY <1>0, <2>1 DEF Types, Readers
  <2>3. Answers' = Answers
    BY <2>1 DEF Answers, DoneMsgs
  <2> QED
    BY <2>1, <2>2, <2>3 DEF Ordered, HasFrame
<1>2. CASE ReadEnd
  BY <1>0, <1>2, OrderKept DEF ReadEnd, Types, Readers, Answers, DoneMsgs
<1>3. CASE Push
  <2>0. /\ reader.pc = "push" /\ proc.state # "none"
        /\ UNCHANGED <<media, player, shared, msgs, sup, proc>>
    BY <1>0, <1>3 DEF Push, Joined
  <2>a. CASE ring.closed
    BY <1>0, <1>3, <2>0, <2>a, OrderKept DEF Push, Types, Readers, Answers, DoneMsgs
  <2>b. CASE ~ring.closed
    <3> DEFINE pts == sup.base + reader.index
    <3>1. /\ ring' = [ring EXCEPT !.frames = Append(@, pts)]
          /\ reader' = [reader EXCEPT !.pc = "read", !.index = @ + 1, !.last = pts]
      BY <1>3, <2>b DEF Push
    <3>2. pts \in Nat /\ reader.index \in Nat /\ sup.base \in Nat /\ ring.frames \in Seq(Nat)
          /\ player.served \in Int /\ proc.start \in Nat /\ media.real \in Nat
      <4>1. sup.base \in Nat /\ reader.index \in Nat
        BY <1>0 DEF Types, Supervisors, Readers
      <4>2. ring.frames \in Seq(Nat) /\ proc.start \in Nat
        BY <1>0 DEF Types, Rings, Processes
      <4>3. player.served \in Int
        BY <1>0 DEF Types, Players, Pts, NoPts
      <4>4. media.real \in Nat
        BY <1>0, MediaFacts DEF Types
      <4> QED BY <4>1, <4>2, <4>3, <4>4
    <3>3. ring'.frames = Append(ring.frames, pts) /\ reader'.pc = "read"
          /\ reader'.index = reader.index + 1
      BY <1>0, <3>1 DEF Types, Rings, Readers
    <3>5. player.served < pts /\ \A k \in DOMAIN ring.frames : ring.frames[k] < pts
      BY <2>0 DEF Ordered
    <3>4. /\ \A j, k \in DOMAIN ring.frames : j < k => ring.frames[j] < ring.frames[k]
          /\ \A k \in DOMAIN ring.frames : player.served < ring.frames[k]
      BY DEF Ordered
    <3>7. sup.base + (reader.index + 1) = pts + 1
      BY <3>2
    <3>6. /\ \A j, k \in DOMAIN ring'.frames : j < k => ring'.frames[j] < ring'.frames[k]
          /\ \A k \in DOMAIN ring'.frames : player.served < ring'.frames[k] /\ ring'.frames[k] < pts + 1
      <4> HIDE DEF pts
      <4> QED BY <3>2, <3>3, <3>4, <3>5, StillIncreasing, Zenon
    <3>8. player.served < pts + 1
      BY <3>2, <3>5
    <3>9. ~proc.endless => proc.start + (reader.index + 1) <= media.real
      BY <2>0, <3>2 DEF Ordered
    <3> HIDE DEF pts
    <3> QED
      BY <2>0, <3>3, <3>6, <3>7, <3>8, <3>9 DEF Ordered
  <2> QED
    BY <2>a, <2>b
<1>4. CASE ReaderExit
  <2>1. proc.state # "none" /\ UNCHANGED <<media, player, shared, sup, proc>>
        /\ ring'.frames = ring.frames /\ reader'.index = reader.index /\ reader'.pc = "none"
    BY <1>0, <1>4 DEF ReaderExit, Joined, Types, Rings, Readers
  <2> QED
    BY <2>1, OrderKept
<1> QED
  BY <1>1, <1>2, <1>3, <1>4 DEF ReaderStep

\* The frames of the next process come after those of the one before it.
LEMMA OrderOfRelaunch ==
  ASSUME IInv, Ordered, Reaping, UNCHANGED <<media, player>>, hwBroken' \in BOOLEAN,
         NEW s \in Supervisors, s.generation = sup.generation,
         proc.state # "none" => s.base >= sup.base + reader.index,
         NEW start \in Nat,
         NEW lost \in Flags, lost.pendingSeeks = shared.pendingSeeks,
         Relaunch(s, start, lost)
  PROVE  Ordered'
<1>0. Types
  BY DEF IInv
<1>n. /\ sup.base \in Nat /\ s.base \in Nat /\ ring.frames \in Seq(Nat)
      /\ player.served \in Int /\ reader.index \in Nat /\ sup.generation \in Nat
  BY <1>0 DEF Types, Supervisors, Rings, Players, Pts, NoPts, Readers
<1>a. Answers # {}
  BY ReapingFacts
<1>1. player.served < s.base /\ \A i \in DOMAIN ring.frames : ring.frames[i] < s.base
  <2>1. CASE proc.state = "none"
    BY <1>a, <1>n, <2>1 DEF Ordered, NoPts
  <2>2. CASE proc.state # "none"
    BY <1>n, <2>2 DEF Ordered
  <2> QED
    BY <2>1, <2>2
<1>2. CASE Launched(s, start, ring.frames) /\ UNCHANGED <<shared, faults>>
  <2>1. /\ sup'.base = s.base /\ proc'.state = "running"
        /\ reader'.pc = "read" /\ reader'.index = 0
        /\ ring' = [frames |-> ring.frames, closed |-> FALSE]
    BY <1>0, <1>2, <1>n, LaunchedFacts DEF Types
  <2> QED
    BY <1>1, <1>2, <1>n, <2>1 DEF Ordered
<1>3. CASE NotLaunched(s, start, ring.frames) /\ shared' = lost
  <2>1. /\ sup'.generation \in {sup.generation, sup.generation + 1}
        /\ proc'.state = "none" /\ ring'.frames = ring.frames
    BY <1>0, <1>3, <1>n, NotLaunchedFacts DEF Types
  <2>2. Answers' = {}
    BY <1>n, <2>1, NoneLeft DEF Answers
  <2> QED
    BY <1>3, <2>1, <2>2 DEF Ordered
<1> QED
  BY <1>2, <1>3 DEF Relaunch

\* A message taken leaves at most the answers there were.
LEMMA AnswersServed ==
  ASSUME IInv, sup.pc = "idle", msgs # <<>>, msgs' = Tail(msgs),
         reader' = reader, sup'.generation = sup.generation
  PROVE  /\ Answers = {} => Answers' = {}
         /\ Reaping => Answers' = {}
<1>1. /\ \A i \in DoneMsgs' : i \in Nat \ {0} /\ i + 1 \in DoneMsgs /\ msgs'[i] = msgs[i + 1]
      /\ 1 \in DoneMsgs <=> Head(msgs).type = "ReaderDone"
      /\ Head(msgs) = msgs[1]
  BY QueueServed DEF IInv
<1> QED
  BY <1>1, DoneMsgsServed DEF IInv, Reaping, Receives

\* The last frame of the reader that is done, as its message tells it.
LEMMA LastOfReader ==
  ASSUME IInv, Reaping, proc.state # "none"
  PROVE  /\ LastPts + 1 >= sup.base + reader.index
         /\ Head(msgs).last = NoPts => reader.index = 0
<1>1. /\ reader.last = IF reader.index = 0 THEN NoPts ELSE sup.base + reader.index - 1
      /\ sup.base \in Nat /\ reader.index \in Nat
  BY DEF IInv, Types, Supervisors, Readers, Working, Exact
<1>2. /\ reader.last = Head(msgs).last
      /\ LastPts = IF reader.last = NoPts THEN sup.base ELSE reader.last
  BY ReapingFacts
<1>3. reader.last = NoPts <=> reader.index = 0
  BY <1>1 DEF NoPts
<1> QED
  BY <1>1, <1>2, <1>3

\* A process launched again starts after the frames there are.
LEMMA OrderOfSupervisor ==
  ASSUME AnnouncedIsEnough, IInv, Ordered, SupervisorStep
  PROVE  Ordered'
<1>0. Types /\ Working /\ Joined
  BY DEF IInv
<1>n. /\ sup \in Supervisors /\ shared \in Flags /\ hwBroken \in BOOLEAN /\ media \in Medias
      /\ sup.base \in Nat /\ reader.index \in Nat /\ sup.end \in {Infinity} \cup Nat
  BY <1>0 DEF Types, Supervisors, Readers
<1>1. CASE SeekBegin \/ ShutdownBegin
  <2>1. /\ sup.pc = "idle" /\ msgs # <<>> /\ msgs' = Tail(msgs)
        /\ UNCHANGED <<media, player, shared, reader>>
    BY <1>1 DEF SeekBegin, ShutdownBegin, Receives
  <2>2. sup'.generation = sup.generation /\ sup'.base = sup.base
    BY <1>1, <1>n DEF SeekBegin, ShutdownBegin, Supervisors
  <2>3. /\ ring'.frames = ring.frames /\ proc'.start = proc.start /\ proc'.endless = proc.endless
        /\ proc'.state = "none" <=> proc.state = "none"
    BY <1>0, <1>1 DEF SeekBegin, ShutdownBegin, Stopping, Running, Types, Rings, Processes
  <2> QED
    BY <2>1, <2>2, <2>3, AnswersServed, OrderKept
<1>2. CASE SeekEnd
  <2> DEFINE s == [sup EXCEPT !.retries = 0, !.base = sup.pos]
  <2>1. s \in Supervisors /\ sup.pos \in Nat
    <3>1. sup.pos \in Nat
      BY <1>n DEF Supervisors
    <3>2. s = Based(sup, sup.pos)
      BY DEF Based
    <3> HIDE DEF s
    <3> QED
      BY <1>n, <3>1, <3>2, SupervisorBased, Zenon
  <2>2. /\ UNCHANGED <<media, player, msgs, hwBroken>>
        /\ shared'.pendingSeeks = shared.pendingSeeks - 1
        /\ \/ Launched(s, sup.pos, <<>>)
           \/ NotLaunched(s, sup.pos, <<>>)
    BY <1>2 DEF SeekEnd
  <2>3. s.base = sup.pos
    BY <1>n DEF Supervisors
  <2> HIDE DEF s
  <2>4. player.served = NoPts
    <3>1. shared.pendingSeeks > 0
      BY <1>2, SeekMsgsFinite DEF IInv, Types, Counted, Serving, SeekEnd
    <3> QED
      BY <3>1 DEF Ordered
  <2>5. <<>> \in Seq(Nat) /\ DOMAIN <<>> = {}
    OBVIOUS
  <2>6. CASE Launched(s, sup.pos, <<>>)
    <3>1. /\ sup'.base = sup.pos /\ proc'.state = "running"
          /\ reader'.pc = "read" /\ reader'.index = 0
          /\ ring' = [frames |-> <<>>, closed |-> FALSE]
      BY <1>n, <2>1, <2>2, <2>3, <2>5, <2>6, LaunchedFacts
    <3> QED
      BY <2>1, <2>2, <2>4, <2>5, <3>1 DEF Ordered, NoPts
  <2>7. CASE NotLaunched(s, sup.pos, <<>>)
    <3>1. proc'.state = "none" /\ ring'.frames = <<>>
      BY <1>0, <1>n, <2>1, <2>2, <2>5, <2>7, NotLaunchedFacts DEF Types
    <3> QED
      BY <2>2, <2>4, <2>5, <3>1 DEF Ordered
  <2> QED
    BY <2>2, <2>6, <2>7
<1>3. CASE DoneIgnored
  <2>1. /\ sup.pc = "idle" /\ msgs # <<>> /\ msgs' = Tail(msgs)
        /\ UNCHANGED <<media, player, shared, ring, sup, proc, reader>>
    BY <1>3 DEF DoneIgnored, Receives
  <2> QED
    BY <2>1, AnswersServed, OrderKept
<1>4. CASE DoneLoop
  <2> DEFINE base == IF sup.end # Infinity THEN sup.end ELSE LastPts + 1
             s == [sup EXCEPT !.retries = 0, !.base = base]
             lost == [shared EXCEPT !.healthy = FALSE, !.ended = TRUE]
  <2>1. Reaping /\ UNCHANGED <<media, player, hwBroken>> /\ Relaunch(s, 0, lost)
        /\ LoopsByRespawn
    BY <1>4 DEF DoneLoop
  <2>2. LastPts \in Nat
    BY <2>1, ReapingFacts
  <2>3. base \in Nat
    BY <1>n, <2>2
  <2>4. ASSUME proc.state # "none" PROVE base >= sup.base + reader.index
    <3>1. CASE sup.end = Infinity
      BY <2>1, <2>4, <3>1, LastOfReader
    <3>2. CASE sup.end # Infinity
      <4>1. /\ proc.start \in Nat /\ sup.end = SpawnEnd(sup.base, proc.start)
            /\ proc.endless = StreamLoop(proc.start)
        BY <1>0, <2>4 DEF Types, Processes, Working
      <4>2. ~proc.endless /\ sup.end >= sup.base /\ sup.end >= sup.base + Segment - proc.start
        BY <1>n, <3>2, <4>1, SpawnEndFacts
      <4>3. media.real \in Nat /\ Segment \in Nat /\ media.real <= Segment
        BY <1>n, <2>1, MediaFacts DEF AnnouncedIsEnough, LoopsByRespawn, Segment
      <4>4. reader.index = 0 \/ proc.start + reader.index <= media.real
        BY <2>4, <4>2 DEF Ordered
      <4> QED
        BY <1>n, <3>2, <4>1, <4>2, <4>3, <4>4
    <3> HIDE DEF base
    <3> QED
      BY <3>1, <3>2
  <2> HIDE DEF base
  <2>5. s \in Supervisors /\ s.generation = sup.generation /\ s.base = base
    <3>1. [sup EXCEPT !.retries = 0] \in Supervisors
      BY <1>n DEF Supervisors
    <3> QED
      BY <1>n, <2>3, <3>1 DEF Supervisors
  <2>6. lost \in Flags /\ lost.pendingSeeks = shared.pendingSeeks
    BY <1>n, LostFacts
  <2>7. 0 \in Nat
    OBVIOUS
  <2> HIDE DEF s, lost
  <2> QED
    BY <1>n, <2>1, <2>4, <2>5, <2>6, <2>7, OrderOfRelaunch
<1>5. CASE DoneEnd \/ DoneIll
  <2>1. /\ Reaping /\ sup.pc = "idle" /\ msgs # <<>> /\ msgs' = Tail(msgs)
        /\ UNCHANGED <<media, player, ring, reader>> /\ proc' = NoProcess
    BY <1>5 DEF DoneEnd, DoneIll, Reaping, Receives
  <2>2. sup'.generation = sup.generation /\ sup'.base = sup.base
        /\ shared'.pendingSeeks = shared.pendingSeeks
    BY <1>5, <1>n DEF DoneEnd, DoneIll, Supervisors, Flags
  <2>3. Answers' = {} /\ proc'.state = "none"
    BY <2>1, <2>2, AnswersServed DEF NoProcess
  <2> QED
    BY <2>1, <2>2, <2>3, OrderKept
<1>6. CASE DoneHardware
  <2> DEFINE base == IF Head(msgs).last = NoPts THEN sup.base ELSE LastPts + 1
             s == [sup EXCEPT !.base = base]
             lost == [shared EXCEPT !.healthy = FALSE]
  <2>1. Reaping /\ UNCHANGED <<media, player>> /\ hwBroken' \in BOOLEAN
        /\ Relaunch(s, ResumePosition(base), lost)
    BY <1>6 DEF DoneHardware
  <2>2. LastPts \in Nat
    BY <2>1, ReapingFacts
  <2>3. base \in Nat
    BY <1>n, <2>2
  <2>4. proc.state # "none" => base >= sup.base + reader.index
    BY <1>n, <2>1, <2>2, LastOfReader
  <2> HIDE DEF base
  <2>5. s \in Supervisors /\ s.generation = sup.generation /\ s.base = base
    BY <1>n, <2>3 DEF Supervisors
  <2>6. lost \in Flags /\ lost.pendingSeeks = shared.pendingSeeks
    BY <1>n, LostFacts
  <2>7. ResumePosition(base) \in Nat
    BY <1>n, <2>3, ResumeFacts
  <2> HIDE DEF s, lost
  <2> QED
    BY <2>1, <2>4, <2>5, <2>6, <2>7, OrderOfRelaunch
<1>7. CASE DoneRetry
  <2> DEFINE base == LastPts + 1
             s == [sup EXCEPT !.retries = 1, !.base = base]
             lost == [shared EXCEPT !.healthy = FALSE]
  <2>1. Reaping /\ UNCHANGED <<media, player, hwBroken>>
        /\ Relaunch(s, ResumePosition(LastPts), lost)
    BY <1>7 DEF DoneRetry
  <2>2. LastPts \in Nat
    BY <2>1, ReapingFacts
  <2>3. base \in Nat
    BY <1>n, <2>2
  <2>4. proc.state # "none" => base >= sup.base + reader.index
    BY <1>n, <2>1, <2>2, LastOfReader
  <2> HIDE DEF base
  <2>5. s \in Supervisors /\ s.generation = sup.generation /\ s.base = base
    <3>1. [sup EXCEPT !.retries = 1] \in Supervisors
      BY <1>n DEF Supervisors
    <3> QED
      BY <1>n, <2>3, <3>1 DEF Supervisors
  <2>6. lost \in Flags /\ lost.pendingSeeks = shared.pendingSeeks
    BY <1>n, LostFacts
  <2>7. ResumePosition(LastPts) \in Nat
    BY <1>n, <2>2, ResumeFacts
  <2> HIDE DEF s, lost
  <2> QED
    BY <1>n, <2>1, <2>4, <2>5, <2>6, <2>7, OrderOfRelaunch
<1>8. CASE ShutdownEnd
  <2>1. /\ UNCHANGED <<media, player, shared, msgs, reader>> /\ ring'.frames = ring.frames
        /\ sup'.base = sup.base /\ sup'.pc = "ended" /\ proc'.state = "none"
    BY <1>0, <1>8 DEF ShutdownEnd, Types, Rings, Supervisors, NoProcess
  <2>2. Answers' = {}
    BY <2>1 DEF Answers
  <2> QED
    BY <2>1, <2>2, OrderKept
<1> QED
  BY <1>1, <1>2, <1>3, <1>4, <1>5, <1>6, <1>7, <1>8 DEF SupervisorStep

\* Only a poll serves a frame, and only a seek forgets the frame served last.
LEMMA ServedByPolls ==
  ASSUME IInv, Ordered, [Next]_vars
  PROVE  player'.served # player.served /\ player'.seeks = player.seeks
           => player'.served > player.served
<1>0. Types
  BY DEF IInv
<1>1. CASE player' = player
  BY <1>1
<1>2. CASE \E pos \in Positions : Seek(pos)
  <2>1. player'.seeks # player.seeks
    BY <1>0, <1>2 DEF Seek, Types, Players
  <2> QED
    BY <2>1
<1>3. CASE \E i \in 1 .. Capacity : Poll(i)
  BY <1>3, OrderOfPoll
<1>4. CASE PollEof \/ Drop
  BY <1>0, <1>4 DEF PollEof, Drop, DropClose, DropShutdown, DropJoin, Types, Players
<1>5. \/ player' = player \/ \E pos \in Positions : Seek(pos)
      \/ \E i \in 1 .. Capacity : Poll(i)
      \/ PollEof \/ Drop
  BY DEF Next, vars, Polls, ProcessExit, ProcessDies, ReaderStep, ReadFrame, ReadEnd, Push,
     ReaderExit, SupervisorStep, SeekBegin, SeekEnd, DoneIgnored, DoneLoop, DoneEnd,
     DoneHardware, DoneRetry, DoneIll, ShutdownBegin, ShutdownEnd
<1> QED
  BY <1>1, <1>2, <1>3, <1>4, <1>5

\* Every step keeps the order.
LEMMA NextOrdered ==
  ASSUME AnnouncedIsEnough, IInv, Ordered, [Next]_vars
  PROVE  Ordered'
<1>1. CASE UNCHANGED vars
  BY <1>1, OrderKept DEF vars, Answers, DoneMsgs
<1> QED
  BY <1>1, OrderOfSeek, OrderOfPoll, OrderOfRenderThread, OrderOfProcess, OrderOfReader,
     OrderOfSupervisor DEF Next, Polls

\* Where ffprobe announces a looping media to be no shorter than it is, what a
\* poll sees is what was asked: nothing from before a seek that is served, and
\* between two seeks no frame twice and none backwards, across the cycles of a
\* loop and the death of any number of processes.
THEOREM FramesComeAsAsked == AnnouncedIsEnough => (Spec => FramesAsAsked)
<1> SUFFICES ASSUME AnnouncedIsEnough PROVE Spec => FramesAsAsked
  OBVIOUS
<1>1. Init => IInv /\ Ordered
  <2> SUFFICES ASSUME Init PROVE IInv /\ Ordered
    OBVIOUS
  <2>1. DOMAIN ring.frames = {} /\ player.served = NoPts /\ sup.base = 0 /\ reader.index = 0
        /\ reader.pc = "read" /\ proc.state = "running"
    BY DEF Init
  <2> QED
    BY <2>1, InitHolds DEF Ordered, NoPts
<1>2. IInv /\ Ordered /\ [Next]_vars => IInv' /\ Ordered'
  BY NextKeeps, NextOrdered
<1>3. IInv /\ Ordered /\ [Next]_vars =>
        [player'.served # player.served /\ player'.seeks = player.seeks
           => player'.served > player.served]_vars
  BY ServedByPolls
<1>4. Spec => ServedInOrder
  BY <1>1, <1>2, <1>3, PTL DEF Spec, ServedInOrder
<1> QED
  BY <1>4, SeeksAreHonoured, PTL DEF FramesAsAsked

============================================================================
