---------------------------- MODULE FfmpegPlayer ----------------------------
(***************************************************************************)
(* One video player (crates/engine: ffmpeg.rs, ring.rs): the render thread *)
(* that polls, seeks and finally drops it, the supervisor thread that owns *)
(* the ffmpeg process, the reader thread that moves frames from its pipe   *)
(* into the bounded ring, and the process itself, which may die.           *)
(*                                                                         *)
(* Positions are counted in frames from the IN point.  A frame in the ring *)
(* is its stream pts, which keeps growing across the cycles of a loop.     *)
(* The pacer's choice among the frames that are in the ring depends on the *)
(* media clock, which is free: a poll takes any of them or none.           *)
(***************************************************************************)
EXTENDS Integers, Sequences, SequencesExt

CONSTANTS
  Medias,      \* the media that may be opened
  Capacity,    \* RING_CAPACITY
  Tolerance,   \* EOF_TOLERANCE_FRAMES
  MaxSeeks,    \* bound: seeks in a behaviour
  MaxFaults,   \* bound: deaths of ffmpeg and failed launches
  MaxPts       \* bound: a loop runs up to this pts

\* announced is the segment's length by ffprobe (0 when unknown), real the
\* frames ffmpeg has for it; whole: no IN or OUT point; loop: EndMode::Loop or
\* PingPong; hw: d3d11va is worth trying.
ASSUME MediasAssumption ==
  Medias \subseteq [announced : Nat, real : Nat, whole : BOOLEAN, loop : BOOLEAN, hw : BOOLEAN]
ASSUME PlayerBoundsAssumption ==
  /\ Capacity \in Nat \ {0} /\ Tolerance \in Nat \ {0}
  /\ MaxSeeks \in Nat /\ MaxFaults \in Nat /\ MaxPts \in Nat

VARIABLES
  media,    \* the media opened
  player,   \* the render thread's side: [phase, eof, target, served, seeks]
  shared,   \* [ended, healthy, pendingSeeks]
  ring,     \* [frames, closed]
  msgs,     \* messages to the supervisor
  sup,      \* the supervisor: [pc, pos, generation, retries, base, end, hw]
  proc,     \* the ffmpeg process: [state, start, endless]
  reader,   \* the reader thread: [pc, generation, index, last]
  hwBroken, \* HWACCEL_BROKEN, of the whole application
  faults    \* faults so far (bound by MaxFaults)

vars == <<media, player, shared, ring, msgs, sup, proc, reader, hwBroken, faults>>

NoPts == -1          \* Option<f64>::None
Infinity == -1       \* f64::INFINITY: the end of the stream is not known

NoProcess == [state |-> "none", start |-> 0, endless |-> FALSE]
NoReader == [pc |-> "none", generation |-> 0, index |-> 0, last |-> NoPts]

Running == proc.state = "running"
Fault == faults < MaxFaults /\ faults' = faults + 1

----------------------------------------------------------------------------
(* Pure helpers.                                                           *)

\* segment_len_s
Segment == media.announced
LoopsByRespawn == media.loop /\ Segment > 0

\* spawn_at: -stream_loop for a whole file from its beginning
StreamLoop(start) == media.loop /\ media.whole /\ start = 0

\* spawn_end_stream_s of a process started at media position start
SpawnEnd(base, start) ==
  IF StreamLoop(start) \/ Segment = 0 THEN Infinity
  ELSE base + (IF Segment > start THEN Segment - start ELSE 0)

\* Mutant: where the duration is unknown, a failed process is a natural end.
IsNaturalEnd_AnyExit(last, end, clean) == end = Infinity \/ last >= end - Tolerance

IsNaturalEnd(last, end, clean) ==
  \/ end # Infinity /\ last >= end - Tolerance
  \/ end = Infinity /\ clean

\* resume_position_s
ResumePosition(last) == IF Segment > 0 THEN last % Segment ELSE last

----------------------------------------------------------------------------
(* The supervisor's spawn_at: a new process, a new reader, the ring open    *)
(* again.                                                                  *)

Launched(s, start, frames) ==
  /\ sup' = [s EXCEPT !.pc = "idle", !.generation = @ + 1,
                      !.end = SpawnEnd(s.base, start), !.hw = media.hw /\ ~hwBroken']
  /\ proc' = [state |-> "running", start |-> start, endless |-> StreamLoop(start)]
  /\ reader' = [pc |-> "read", generation |-> s.generation + 1, index |-> 0, last |-> NoPts]
  /\ ring' = [frames |-> frames, closed |-> FALSE]

\* Without the process nothing has changed yet; without the reader thread the
\* generation has, and the ring is open with nobody to fill it.
NotLaunched(s, start, frames) ==
  /\ Fault
  /\ \E late \in BOOLEAN :
       /\ sup' = [s EXCEPT !.pc = "idle", !.end = SpawnEnd(s.base, start),
                           !.generation = IF late THEN @ + 1 ELSE @,
                           !.hw = media.hw /\ ~hwBroken']
       /\ ring' = [frames |-> frames, closed |-> ring.closed /\ ~late]
  /\ proc' = NoProcess
  /\ reader' = [reader EXCEPT !.pc = "none"]

----------------------------------------------------------------------------
(* The render thread.                                                      *)

Up == player.phase = "up"

\* FfmpegPlayer::open: the process is launched before the player exists.
Init ==
  /\ media \in Medias
  /\ player = [phase |-> "up", eof |-> FALSE, target |-> 0, served |-> NoPts, seeks |-> 0]
  /\ shared = [ended |-> FALSE, healthy |-> TRUE, pendingSeeks |-> 0]
  /\ ring = [frames |-> <<>>, closed |-> FALSE]
  /\ msgs = <<>>
  /\ hwBroken \in BOOLEAN
  /\ sup = [pc |-> "idle", pos |-> 0, generation |-> 1, retries |-> 0, base |-> 0,
            end |-> SpawnEnd(0, 0), hw |-> media.hw /\ ~hwBroken]
  /\ proc = [state |-> "running", start |-> 0, endless |-> StreamLoop(0)]
  /\ reader = [pc |-> "read", generation |-> 1, index |-> 0, last |-> NoPts]
  /\ faults = 0

Seek(pos) ==
  /\ Up /\ player.seeks < MaxSeeks
  /\ player' = [player EXCEPT !.eof = FALSE, !.target = pos, !.served = NoPts, !.seeks = @ + 1]
  /\ shared' = [shared EXCEPT !.pendingSeeks = @ + 1]
  /\ msgs' = Append(msgs, [type |-> "Seek", pos |-> pos])
  /\ UNCHANGED <<media, ring, sup, proc, reader, hwBroken, faults>>

\* poll_frame takes the i-th frame and throws away the ones before it.
Poll(i) ==
  /\ Up /\ ~player.eof /\ shared.pendingSeeks = 0
  /\ i <= Len(ring.frames)
  /\ player' = [player EXCEPT !.served = ring.frames[i]]
  /\ ring' = [ring EXCEPT !.frames = SubSeq(@, i + 1, Len(@))]
  /\ UNCHANGED <<media, shared, msgs, sup, proc, reader, hwBroken, faults>>

\* Mutant: the end of the stream is taken for the end of the media while
\* decoded frames wait in the ring.
PollEof_RingNotDrained ==
  /\ Up /\ ~player.eof /\ shared.pendingSeeks = 0
  /\ shared.ended
  /\ player' = [player EXCEPT !.eof = TRUE]
  /\ UNCHANGED <<media, shared, ring, msgs, sup, proc, reader, hwBroken, faults>>

\* poll_frame finds nothing more to come.
PollEof ==
  /\ Up /\ ~player.eof /\ shared.pendingSeeks = 0
  /\ shared.ended /\ ring.closed /\ ring.frames = <<>>
  /\ player' = [player EXCEPT !.eof = TRUE]
  /\ UNCHANGED <<media, shared, ring, msgs, sup, proc, reader, hwBroken, faults>>

\* Drop of the player: the ring is closed, then Shutdown is sent, then the
\* supervisor is joined.
DropClose ==
  /\ Up
  /\ player' = [player EXCEPT !.phase = "closing"]
  /\ ring' = [ring EXCEPT !.closed = TRUE]
  /\ UNCHANGED <<media, shared, msgs, sup, proc, reader, hwBroken, faults>>
DropShutdown ==
  /\ player.phase = "closing"
  /\ player' = [player EXCEPT !.phase = "joining"]
  /\ msgs' = Append(msgs, [type |-> "Shutdown"])
  /\ UNCHANGED <<media, shared, ring, sup, proc, reader, hwBroken, faults>>
DropJoin ==
  /\ player.phase = "joining" /\ sup.pc = "ended"
  /\ player' = [player EXCEPT !.phase = "gone"]
  /\ UNCHANGED <<media, shared, ring, msgs, sup, proc, reader, hwBroken, faults>>

Drop == DropClose \/ DropShutdown \/ DropJoin
Polls == PollEof \/ \E i \in 1 .. Capacity : Poll(i)

----------------------------------------------------------------------------
(* The process (external) and the reader thread.                           *)

\* ffmpeg has a frame for the reader, or has written its last one.
HasFrame == proc.endless \/ proc.start + reader.index < media.real
LastWritten(taken) == ~proc.endless /\ proc.start + reader.index + taken >= media.real

\* It exits after its last frame, or when it finds its pipe closed.
ProcessExit ==
  /\ Running
  /\ \/ reader.pc = "read" /\ LastWritten(0) /\ proc' = [proc EXCEPT !.state = "exited"]
     \/ reader.pc = "none" /\ LastWritten(1) /\ proc' = [proc EXCEPT !.state = "exited"]
     \/ reader.pc = "none" /\ proc' = [proc EXCEPT !.state = "failed"]
  /\ UNCHANGED <<media, player, shared, ring, msgs, sup, reader, hwBroken, faults>>

ProcessDies ==
  /\ Running /\ reader.pc # "none" /\ Fault
  /\ proc' = [proc EXCEPT !.state = "failed"]
  /\ UNCHANGED <<media, player, shared, ring, msgs, sup, reader, hwBroken>>

\* read_exact_or_eof; a frame is larger than a pipe, so that what a dead
\* process left in it is no whole frame.
ReadFrame ==
  /\ reader.pc = "read" /\ Running /\ HasFrame
  /\ sup.base + reader.index <= MaxPts
  /\ reader' = [reader EXCEPT !.pc = "push"]
  /\ UNCHANGED <<media, player, shared, ring, msgs, sup, proc, hwBroken, faults>>
ReadEnd ==
  /\ reader.pc = "read" /\ ~Running
  /\ reader' = [reader EXCEPT !.pc = "exit"]
  /\ UNCHANGED <<media, player, shared, ring, msgs, sup, proc, hwBroken, faults>>

\* Mutant: the reader never waits.
Push_NoWait ==
  LET pts == sup.base + reader.index
  IN  /\ reader.pc = "push"
      /\ \/ /\ ring.closed
            /\ reader' = [reader EXCEPT !.pc = "exit"] /\ UNCHANGED ring
         \/ /\ ~ring.closed
            /\ ring' = [ring EXCEPT !.frames = Append(@, pts)]
            /\ reader' = [reader EXCEPT !.pc = "read", !.index = @ + 1, !.last = pts]
  /\ UNCHANGED <<media, player, shared, msgs, sup, proc, hwBroken, faults>>

\* FrameRing::push blocks while the ring is full, and gives up when it closes.
Push ==
  LET pts == sup.base + reader.index
  IN  /\ reader.pc = "push"
      /\ \/ /\ ring.closed
            /\ reader' = [reader EXCEPT !.pc = "exit"] /\ UNCHANGED ring
         \/ /\ ~ring.closed /\ Len(ring.frames) < Capacity
            /\ ring' = [ring EXCEPT !.frames = Append(@, pts)]
            /\ reader' = [reader EXCEPT !.pc = "read", !.index = @ + 1, !.last = pts]
  /\ UNCHANGED <<media, player, shared, msgs, sup, proc, hwBroken, faults>>

\* The reader closes the ring, its pipe closes with it, and says it is done.
ReaderExit ==
  /\ reader.pc = "exit"
  /\ ring' = [ring EXCEPT !.closed = TRUE]
  /\ reader' = [reader EXCEPT !.pc = "none"]
  /\ msgs' = Append(msgs, [type |-> "ReaderDone", generation |-> reader.generation,
                           last |-> reader.last])
  /\ UNCHANGED <<media, player, shared, sup, proc, hwBroken, faults>>

ReaderStep == ReadFrame \/ ReadEnd \/ Push \/ ReaderExit

----------------------------------------------------------------------------
(* The supervisor thread.                                                  *)

Receives(type) == sup.pc = "idle" /\ msgs # <<>> /\ Head(msgs).type = type

\* Mutants: the ring stays open under a blocked reader; the process lives on.
Stopping_RingOpen ==
  /\ UNCHANGED ring
  /\ proc' = IF Running THEN [proc EXCEPT !.state = "failed"] ELSE proc
Stopping_NotKilled ==
  /\ ring' = [ring EXCEPT !.closed = @ \/ Running \/ reader.pc # "none"]
  /\ UNCHANGED proc

\* stop_child: the ring is closed to free a reader in push, the process killed
\* to free a reader in read.
Stopping ==
  /\ ring' = [ring EXCEPT !.closed = @ \/ Running \/ reader.pc # "none"]
  /\ proc' = IF Running THEN [proc EXCEPT !.state = "failed"] ELSE proc

SeekBegin ==
  /\ Receives("Seek")
  /\ Stopping
  /\ sup' = [sup EXCEPT !.pc = "seek", !.pos = Head(msgs).pos]
  /\ msgs' = Tail(msgs)
  /\ UNCHANGED <<media, player, shared, reader, hwBroken, faults>>

\* Mutant: the frames of the previous process stay in the ring.
SeekEnd_RingNotCleared ==
  LET s == [sup EXCEPT !.retries = 0, !.base = sup.pos]
      served(ok) == [ended |-> FALSE, healthy |-> ok, pendingSeeks |-> shared.pendingSeeks - 1]
  IN  /\ sup.pc = "seek" /\ reader.pc = "none"
      /\ UNCHANGED <<media, player, msgs, hwBroken>>
      /\ \/ Launched(s, sup.pos, ring.frames) /\ shared' = served(TRUE) /\ UNCHANGED faults
         \/ NotLaunched(s, sup.pos, ring.frames) /\ shared' = served(FALSE)

\* handle_seek, once the old process and its reader are reaped.
SeekEnd ==
  LET s == [sup EXCEPT !.retries = 0, !.base = sup.pos]
      served(ok) == [ended |-> FALSE, healthy |-> ok, pendingSeeks |-> shared.pendingSeeks - 1]
  IN  /\ sup.pc = "seek" /\ reader.pc = "none"
      /\ UNCHANGED <<media, player, msgs, hwBroken>>
      /\ \/ Launched(s, sup.pos, <<>>) /\ shared' = served(TRUE) /\ UNCHANGED faults
         \/ NotLaunched(s, sup.pos, <<>>) /\ shared' = served(FALSE)

\* The message of a reader that a seek has replaced.
DoneIgnored ==
  /\ Receives("ReaderDone") /\ Head(msgs).generation # sup.generation
  /\ msgs' = Tail(msgs)
  /\ UNCHANGED <<media, player, shared, ring, sup, proc, reader, hwBroken, faults>>

\* reap_child waits for the process: <<the message, clean exit>> afterwards.
Reaping ==
  /\ Receives("ReaderDone") /\ Head(msgs).generation = sup.generation
  /\ ~Running
  /\ msgs' = Tail(msgs)
CleanExit == proc.state = "exited"
LastPts == IF Head(msgs).last = NoPts THEN sup.base ELSE Head(msgs).last
Natural == IsNaturalEnd(LastPts, sup.end, CleanExit)

\* a process relaunched (or not) by handle_reader_done
Relaunch(s, start, lost) ==
  \/ Launched(s, start, ring.frames) /\ UNCHANGED <<shared, faults>>
  \/ NotLaunched(s, start, ring.frames) /\ shared' = lost

\* Natural end of a loop: the next cycle, its pts after those of this one.
\* Mutant: the pts start again.
DoneLoop_SameBase ==
  /\ Reaping /\ Natural /\ LoopsByRespawn
  /\ UNCHANGED <<media, player, hwBroken>>
  /\ Relaunch([sup EXCEPT !.retries = 0], 0, [shared EXCEPT !.healthy = FALSE, !.ended = TRUE])
DoneLoop ==
  LET base == IF sup.end # Infinity THEN sup.end ELSE LastPts + 1
  IN  /\ Reaping /\ Natural /\ LoopsByRespawn
      /\ UNCHANGED <<media, player, hwBroken>>
      /\ Relaunch([sup EXCEPT !.retries = 0, !.base = base], 0,
                  [shared EXCEPT !.healthy = FALSE, !.ended = TRUE])

\* Natural end of the stream.
DoneEnd ==
  /\ Reaping /\ Natural /\ ~LoopsByRespawn
  /\ shared' = [shared EXCEPT !.ended = TRUE]
  /\ sup' = [sup EXCEPT !.retries = 0]
  /\ proc' = NoProcess
  /\ UNCHANGED <<media, player, ring, reader, hwBroken, faults>>

\* Death of a process with hardware decoding: software from now on.
DoneHardware ==
  LET base == IF Head(msgs).last = NoPts THEN sup.base ELSE LastPts + 1
  IN  /\ Reaping /\ ~Natural /\ sup.hw
      /\ hwBroken' = TRUE
      /\ Relaunch([sup EXCEPT !.base = base], ResumePosition(base),
                  [shared EXCEPT !.healthy = FALSE])
      /\ UNCHANGED <<media, player>>

\* First death: one relaunch from the last frame.
DoneRetry ==
  /\ Reaping /\ ~Natural /\ ~sup.hw /\ sup.retries = 0
  /\ UNCHANGED <<media, player, hwBroken>>
  /\ Relaunch([sup EXCEPT !.retries = 1, !.base = LastPts + 1], ResumePosition(LastPts),
              [shared EXCEPT !.healthy = FALSE])

\* Second death in a row: the player is ill.
\* Mutant: nobody is told.
DoneIll_Silent ==
  /\ Reaping /\ ~Natural /\ ~sup.hw /\ sup.retries > 0
  /\ proc' = NoProcess
  /\ UNCHANGED <<media, player, shared, ring, sup, reader, hwBroken, faults>>
DoneIll ==
  /\ Reaping /\ ~Natural /\ ~sup.hw /\ sup.retries > 0
  /\ shared' = [shared EXCEPT !.healthy = FALSE]
  /\ proc' = NoProcess
  /\ UNCHANGED <<media, player, ring, sup, reader, hwBroken, faults>>

\* Shutdown: leave the loop, stop the process, reap it.
ShutdownBegin ==
  /\ Receives("Shutdown")
  /\ Stopping
  /\ sup' = [sup EXCEPT !.pc = "stop"]
  /\ msgs' = Tail(msgs)
  /\ UNCHANGED <<media, player, shared, reader, hwBroken, faults>>
\* Mutant: the supervisor does not wait for its reader.
ShutdownEnd_NotJoined ==
  /\ sup.pc = "stop" /\ ~Running
  /\ sup' = [sup EXCEPT !.pc = "ended"]
  /\ proc' = NoProcess
  /\ ring' = [ring EXCEPT !.closed = TRUE]
  /\ UNCHANGED <<media, player, shared, msgs, reader, hwBroken, faults>>
ShutdownEnd ==
  /\ sup.pc = "stop" /\ reader.pc = "none" /\ ~Running
  /\ sup' = [sup EXCEPT !.pc = "ended"]
  /\ proc' = NoProcess
  /\ ring' = [ring EXCEPT !.closed = TRUE]
  /\ UNCHANGED <<media, player, shared, msgs, reader, hwBroken, faults>>

SupervisorStep ==
  \/ SeekBegin \/ SeekEnd
  \/ DoneIgnored \/ DoneLoop \/ DoneEnd \/ DoneHardware \/ DoneRetry \/ DoneIll
  \/ ShutdownBegin \/ ShutdownEnd

\* The positions a seek is clamped to.
Positions == 0 .. (IF Segment > 0 THEN Segment ELSE media.real)

Next ==
  \/ \E pos \in Positions : Seek(pos)
  \/ Polls \/ Drop \/ ProcessExit \/ ProcessDies \/ ReaderStep \/ SupervisorStep

\* A started drop is finished, a process whose work is over or whose pipe is
\* closed exits, and the two threads are scheduled; ffmpeg may stall, and the
\* render loop may leave the player paused.
Spec ==
  /\ Init /\ [][Next]_vars
  /\ WF_vars(DropShutdown \/ DropJoin) /\ WF_vars(ProcessExit)
  /\ WF_vars(ReadEnd \/ Push \/ ReaderExit) /\ WF_vars(SupervisorStep)

----------------------------------------------------------------------------
(* Properties.                                                             *)

Pts == {NoPts} \cup Nat

\* Every variable has its type, and the ring never holds more than its capacity.
TypeOK ==
  /\ media \in Medias
  /\ player \in [phase : {"up", "closing", "joining", "gone"}, eof : BOOLEAN,
                 target : Nat, served : Pts, seeks : 0 .. MaxSeeks]
  /\ shared \in [ended : BOOLEAN, healthy : BOOLEAN, pendingSeeks : 0 .. MaxSeeks]
  /\ ring.frames \in Seq(Nat) /\ Len(ring.frames) <= Capacity /\ ring.closed \in BOOLEAN
  /\ sup \in [pc : {"idle", "seek", "stop", "ended"}, pos : Nat, generation : Nat,
              retries : 0 .. 1, base : Nat, end : {Infinity} \cup Nat, hw : BOOLEAN]
  /\ proc \in [state : {"none", "running", "exited", "failed"}, start : Nat, endless : BOOLEAN]
  /\ reader \in [pc : {"none", "read", "push", "exit"}, generation : Nat, index : Nat, last : Pts]
  /\ hwBroken \in BOOLEAN /\ faults \in 0 .. MaxFaults
  /\ \A i \in DOMAIN msgs : msgs[i].type \in {"Seek", "ReaderDone", "Shutdown"}

\* Once a seek is served, no frame from before its position can be polled
\* (handle_seek clears the ring after the old reader is gone).
SeekHonoured ==
  shared.healthy /\ shared.pendingSeeks = 0 =>
    \A i \in DOMAIN ring.frames : ring.frames[i] >= player.target

\* The stream a poll sees never goes back nor repeats itself, across the cycles
\* of a loop and the relaunch of a dead process, unless the show seeks.
ServedInOrder ==
  [][player'.served # player.served /\ player'.seeks = player.seeks
       => player'.served > player.served]_vars

\* eof of a healthy player, which starts the next cue, means that the media has
\* been decoded to its end, and shown: never that ffmpeg died on the way.
EofMeansEnd ==
  LET end == IF sup.end = Infinity THEN media.real ELSE sup.end
  IN  player.eof /\ shared.healthy =>
        /\ ring.frames = <<>> /\ proc = NoProcess
        /\ reader.last >= end - Tolerance \/ sup.base >= end - Tolerance

\* A player that is gone leaves no process and no thread behind.
NoOrphan == player.phase = "gone" => proc = NoProcess /\ reader.pc = "none"

\* A seek is served even when the reader is blocked on a full ring.
SeekServed == shared.pendingSeeks > 0 ~> shared.pendingSeeks = 0 \/ ~Up

\* Dropping a player ends, whatever the process and the two threads were at,
\* and even when ffmpeg has stalled.
DropEnds == player.phase = "closing" ~> player.phase = "gone"

\* Where ffmpeg decodes and the show polls, a media that does not loop comes to
\* eof or is declared ill: AfterMedia never waits for a player that is well.
MediaEnds ==
  WF_vars(ReadFrame) /\ WF_vars(Polls) =>
    (Up /\ ~media.loop ~> player.eof \/ ~shared.healthy \/ shared.pendingSeeks > 0 \/ ~Up)

\* In every state of the two threads, the process and the channel: the ring is
\* bounded, eof means the end, and a player that is gone leaves nothing behind.
PlayerInvariant == TypeOK /\ EofMeansEnd /\ NoOrphan

\* What a poll sees is what was asked: nothing from before a seek that is served,
\* nothing twice, nothing backwards.
FramesAsAsked == []SeekHonoured /\ ServedInOrder

\* No thread waits for ever on another: seeks are served, drops end, media end.
NothingHangs == SeekServed /\ DropEnds /\ MediaEnds
============================================================================
