------------------------------- MODULE Preview -------------------------------
(***************************************************************************)
(* The pictures of the show in the browser: the readback of the preview    *)
(* (gl.rs), the JPEG worker (app/preview.rs), the H.264 encoder and its    *)
(* threads (engine/preview_encoder.rs), their life in the session          *)
(* (manage_h264, render_previews), the connections of /preview.h264        *)
(* (control-http/server.rs) and the monitors of the web interface          *)
(* (attachH264, webui/app.js).                                             *)
(*                                                                         *)
(* One tick of the session, one step of a thread, one message of a         *)
(* connection are one action each.  A frame is its size and the stream it  *)
(* was drawn for; an access unit is its encoder (a number) and whether it  *)
(* is a key unit.                                                          *)
(***************************************************************************)
EXTENDS Integers, FiniteSets, SequencesExt

CONSTANTS
  Viewers,      \* monitors of pages open on the interface
  Settings,     \* the values of mjpeg_width, _height, _fps: [dims, fps]
  Start,        \* those of the show at first
  JobCap,       \* the queue of the JPEG worker: 2
  AuCap,        \* AU_CHANNEL_CAPACITY
  RingCap,      \* capacity of the broadcast h264_tx: 64
  Gop,          \* PREVIEW_GOP
  MaxSpawns,    \* bounds: encoders launched,
  MaxOpens,     \* connections opened by each viewer,
  MaxChanges    \* settings edited, deaths of the encoder

ASSUME PreviewAssumption ==
  /\ IsFiniteSet(Viewers) /\ Start \in Settings
  /\ JobCap \in Nat \ {0} /\ AuCap \in Nat \ {0} /\ RingCap \in Nat \ {0}
  /\ Gop \in Nat \ {0}
  /\ MaxSpawns \in Nat /\ MaxOpens \in Nat /\ MaxChanges \in Nat

NoFrame == [dims |-> 0, stream |-> "none"]
NoEnc == [cfg |-> [dims |-> 0, fps |-> 0], gen |-> 0, queue |-> <<>>, aus |-> <<>>, alive |-> FALSE, n |-> 0]
Streams == {"program", "standby"}

VARIABLES
  cfg,        \* show.settings.mjpeg_*
  enc,        \* h264_enc, with h264_cfg, the settings it was launched with
  seen,       \* h264_seen_clients
  waiting,    \* h264_retry_at is not yet there
  readback,   \* Compositor.readbacks: the channel of each stream
  pboBroken,  \* Compositor.pbo_broken, found out with the first channel
  jobs,       \* the queue of the JPEG worker
  viewer,     \* each connection of /preview.h264, with its monitor
  bounds      \* what happened so far, for the bounds

encoder == <<enc, seen, waiting>>
drawing == <<readback, pboBroken, jobs>>
vars == <<cfg, enc, seen, waiting, readback, pboBroken, jobs, viewer, bounds>>

\* A connection nobody has opened, and its monitor on MJPEG.
Closed == [at |-> "closed", inbox |-> <<>>, missed |-> FALSE, gen |-> 0, dec |-> "none",
           gotKey |-> FALSE, opens |-> 0]

NoChannel == [dims |-> 0, last |-> NoFrame]

Init ==
  /\ cfg = Start
  /\ enc = NoEnc /\ seen = 0 /\ waiting = FALSE
  /\ readback = [s \in Streams |-> NoChannel]
  /\ pboBroken \in BOOLEAN
  /\ jobs = <<>>
  /\ viewer = [v \in Viewers |-> Closed]
  /\ bounds = [spawns |-> 0, changes |-> 0]

----------------------------------------------------------------------------
(* The broadcast: every subscriber has its own backlog; one that is too    *)
(* far behind loses the oldest messages.                                   *)

\* H264ClientGuard: the connections that are counted.
Clients == Cardinality({v \in Viewers : viewer[v].at \in {"on", "leaving"}})
Subscribed(c) == c.at \in {"subscribed", "on"}

Received(c, msgs) ==
  LET all == c.inbox \o msgs
      kept == SubSeq(all, Len(all) - RingCap + 1, Len(all))
  IN  IF ~Subscribed(c) \/ msgs = <<>> THEN c
      ELSE IF Len(all) <= RingCap THEN [c EXCEPT !.inbox = all]
      ELSE [c EXCEPT !.inbox = kept, !.missed = TRUE]

Broadcast(msgs) == viewer' = [v \in Viewers |-> Received(viewer[v], msgs)]

Config(gen) == [is |-> "config", gen |-> gen, key |-> FALSE]
Au(unit) == [is |-> "au", gen |-> unit.gen, key |-> unit.key]

----------------------------------------------------------------------------
(* PreviewEncoder.                                                         *)

NewEncoder(gen) ==
  [cfg |-> cfg, gen |-> gen, queue |-> <<>>, aus |-> <<>>, alive |-> TRUE, n |-> 0]

\* A mutant: every frame waits.
Pushed_All(e, frame) == IF e.alive THEN [e EXCEPT !.queue = Append(@, frame)] ELSE e

\* push_frame: one frame waits at most, the others are skipped.
Pushed(e, frame) ==
  IF e.queue = <<>> /\ e.alive THEN [e EXCEPT !.queue = <<frame>>] ELSE e

\* read_access_units: what is not read in time is thrown away.
Given(aus, unit) == IF Len(aus) >= AuCap THEN aus ELSE Append(aus, unit)

\* write_frames, ffmpeg and the reader: one frame is encoded, cut out of the
\* stream (AnnexB) and kept for the session.
Encode ==
  /\ enc # NoEnc /\ enc.alive /\ enc.queue # <<>>
  /\ enc' = [enc EXCEPT !.queue = <<>>,
                        !.aus = Given(@, [gen |-> enc.gen, key |-> enc.n = 0]),
                        !.n = (@ + 1) % Gop]
  /\ UNCHANGED <<cfg, seen, waiting, drawing, viewer, bounds>>

\* ffmpeg ends; the reader says so.
Die ==
  /\ enc # NoEnc /\ enc.alive /\ bounds.changes < MaxChanges
  /\ enc' = [enc EXCEPT !.alive = FALSE]
  /\ bounds' = [bounds EXCEPT !.changes = @ + 1]
  /\ UNCHANGED <<cfg, seen, waiting, drawing, viewer>>

----------------------------------------------------------------------------
(* manage_h264: the encoder lives while someone watches.                   *)

\* A mutant: the clients already seen are not told of the new encoder.
Launched_Seen(spawned) ==
  [enc |-> IF spawned THEN NewEncoder(bounds.spawns + 1) ELSE NoEnc,
   seen |-> seen,
   waiting |-> ~spawned]

Launched(spawned) ==
  [enc |-> IF spawned THEN NewEncoder(bounds.spawns + 1) ELSE NoEnc,
   seen |-> IF spawned THEN 0 ELSE seen,
   waiting |-> ~spawned]

Kept == [enc |-> enc, seen |-> seen, waiting |-> waiting]

\* A dead encoder is replaced after a while, one whose settings changed at once.
Renewed(spawned) ==
  CASE enc # NoEnc /\ enc.alive /\ enc.cfg = cfg -> Kept
    [] enc # NoEnc /\ ~enc.alive -> [Kept EXCEPT !.enc = NoEnc, !.waiting = TRUE]
    [] enc = NoEnc /\ waiting -> Kept
    [] OTHER -> Launched(spawned)

\* The configuration goes to all when there are more clients than before,
\* then the units that are ready.
Announced(m) ==
  (IF Clients > m.seen THEN <<Config(m.enc.gen)>> ELSE <<>>)
    \o [i \in DOMAIN m.enc.aus |-> Au(m.enc.aus[i])]

Managed(spawned) ==
  IF Clients = 0 THEN [enc |-> NoEnc, seen |-> 0, waiting |-> FALSE, msgs |-> <<>>]
  ELSE LET m == Renewed(spawned)
       IN  IF m.enc = NoEnc THEN [enc |-> NoEnc, seen |-> m.seen, waiting |-> m.waiting, msgs |-> <<>>]
           ELSE [enc |-> [m.enc EXCEPT !.aus = <<>>], seen |-> Clients,
                 waiting |-> m.waiting, msgs |-> Announced(m)]

\* H264_RETRY has passed.
RetryElapsed ==
  /\ waiting
  /\ waiting' = FALSE
  /\ UNCHANGED <<cfg, enc, seen, drawing, viewer, bounds>>

----------------------------------------------------------------------------
(* read_preview_rgba_async: the picture drawn now is read at the next      *)
(* preview of its channel.                                                 *)

Drawn(stream) == [dims |-> cfg.dims, stream |-> stream]

\* A mutant: the channel keeps its picture when the size changes.
Channel_Kept(s) == [readback[s] EXCEPT !.dims = cfg.dims]

\* The channel a reading goes through; a change of size makes a new one.
Channel(s) == IF readback[s].dims = cfg.dims THEN readback[s]
              ELSE [dims |-> cfg.dims, last |-> NoFrame]

\* What this reading gives: the picture of the one before, unless the
\* buffers cannot be had (then the picture is read at once) or mapped.
Read(s, maps) ==
  IF pboBroken THEN Drawn(s) ELSE IF maps THEN Channel(s).last ELSE NoFrame

ReadThrough(s) ==
  IF pboBroken THEN readback[s] ELSE [Channel(s) EXCEPT !.last = Drawn(s)]

\* submit: two frames wait at most.
Submitted(queue, frame, standby) ==
  IF frame = NoFrame \/ Len(queue) >= JobCap THEN queue
  ELSE Append(queue, [frame |-> frame, standby |-> standby])

\* feed_h264: a frame of another size is not for this encoder.
Fed(e, frame) ==
  IF e = NoEnc \/ frame = NoFrame \/ cfg.dims # e.cfg.dims THEN e ELSE Pushed(e, frame)

\* render_previews: the encoder first, then the previews whose time has
\* come; without a plan for an output, nothing is read and a placeholder
\* goes to MJPEG.  spawned: ffmpeg could be launched; maps: the buffer
\* could be mapped.
RenderPreviews(due, spawned, maps) ==
  LET m == Managed(spawned)
      ReadBy(s) == IF s \in due THEN Read(s, maps) ELSE NoFrame
  IN  /\ enc' = Fed(m.enc, ReadBy("program"))
      /\ seen' = m.seen /\ waiting' = m.waiting
      /\ readback' = [s \in Streams |-> IF s \in due THEN ReadThrough(s) ELSE readback[s]]
      /\ jobs' = Submitted(Submitted(jobs, ReadBy("program"), FALSE), ReadBy("standby"), TRUE)
      /\ Broadcast(m.msgs)
      /\ bounds' = [bounds EXCEPT !.spawns = IF m.enc.gen > @ THEN m.enc.gen ELSE @]
      /\ UNCHANGED <<cfg, pboBroken>>

CanSpawn(spawned) == spawned => bounds.spawns < MaxSpawns

Tick ==
  \E due \in SUBSET Streams, spawned \in BOOLEAN, maps \in BOOLEAN :
    /\ CanSpawn(spawned)
    /\ ~maps => ~pboBroken /\ \E s \in due : Channel(s).last # NoFrame
    /\ RenderPreviews(due, spawned, maps)

\* headless_previews: without graphics there is no encoder.
Headless ==
  /\ enc # NoEnc
  /\ enc' = NoEnc
  /\ UNCHANGED <<cfg, seen, waiting, drawing, viewer, bounds>>

\* The worker: one JPEG, to the viewers of its stream.
EncodeJpeg ==
  /\ jobs # <<>>
  /\ jobs' = Tail(jobs)
  /\ UNCHANGED <<cfg, encoder, readback, pboBroken, viewer, bounds>>

\* The operator edits the settings of the preview.
SettingsUpdate ==
  /\ bounds.changes < MaxChanges
  /\ \E c \in Settings \ {cfg} : cfg' = c
  /\ bounds' = [bounds EXCEPT !.changes = @ + 1]
  /\ UNCHANGED <<encoder, drawing, viewer>>

----------------------------------------------------------------------------
(* handle_h264, and the monitor at the other end.                          *)

Becomes(v, c) ==
  /\ viewer' = [viewer EXCEPT ![v] = c]
  /\ UNCHANGED <<cfg, encoder, drawing, bounds>>

\* The connection subscribes before it is counted.
Subscribe(v) ==
  /\ viewer[v].at = "closed" /\ viewer[v].opens < MaxOpens
  /\ Becomes(v, [Closed EXCEPT !.at = "subscribed", !.opens = viewer[v].opens + 1])

Count(v) ==
  /\ viewer[v].at = "subscribed"
  /\ Becomes(v, [viewer[v] EXCEPT !.at = "on"])

\* The monitor goes back to MJPEG, and closes its socket; the guard of the
\* connection is dropped when the server notices.
Left(c) == [Closed EXCEPT !.at = "leaving", !.opens = c.opens]

\* What the monitor does of a message.  Every configuration makes a new
\* decoder; the decoder of a new configuration wants a key unit first.
Configured(c, msg) ==
  [c EXCEPT !.gen = msg.gen, !.dec = "fresh"]

Refuses(c, msg) == c.gotKey /\ c.dec = "fresh" /\ ~msg.key

Decoded(c, msg) ==
  CASE ~c.gotKey /\ ~msg.key -> c
    [] Refuses(c, msg) -> Left(c)
    [] OTHER -> [c EXCEPT !.gotKey = TRUE, !.dec = "running"]

\* A unit before any configuration is not relayed.
Relay(v) ==
  /\ viewer[v].at = "on" /\ viewer[v].inbox # <<>>
  /\ LET msg == Head(viewer[v].inbox) c == [viewer[v] EXCEPT !.inbox = Tail(@)]
     IN  Becomes(v, CASE msg.is = "config" -> Configured(c, msg)
                      [] msg.is = "au" /\ c.dec = "none" -> c
                      [] msg.is = "au" /\ c.dec # "none" -> Decoded(c, msg))

\* No frame was decoded in three seconds.
Watchdog(v) ==
  /\ viewer[v].at = "on" /\ ~viewer[v].gotKey
  /\ Becomes(v, Left(viewer[v]))

\* The page is left, or the link is lost.
Leave(v) ==
  /\ viewer[v].at \in {"subscribed", "on"}
  /\ Becomes(v, [Left(viewer[v]) EXCEPT !.at = IF viewer[v].at = "on" THEN "leaving" ELSE "closed"])

\* H264ClientGuard::drop.
Drop(v) ==
  /\ viewer[v].at = "leaving"
  /\ Becomes(v, [viewer[v] EXCEPT !.at = "closed"])

----------------------------------------------------------------------------
Next ==
  \/ Tick \/ Headless \/ Encode \/ Die \/ RetryElapsed \/ EncodeJpeg \/ SettingsUpdate
  \/ \E v \in Viewers : Subscribe(v) \/ Count(v) \/ Relay(v) \/ Watchdog(v) \/ Leave(v) \/ Drop(v)

Spec == Init /\ [][Next]_vars

----------------------------------------------------------------------------
PreviewTypeOK ==
  /\ cfg \in Settings
  /\ enc = NoEnc \/ (enc.cfg \in Settings /\ Len(enc.queue) <= 1 /\ Len(enc.aus) <= AuCap)
  /\ seen \in 0..Cardinality(Viewers)
  /\ waiting => enc = NoEnc
  /\ Len(jobs) <= JobCap
  /\ \A v \in Viewers : Len(viewer[v].inbox) <= RingCap

\* A frame goes where its stream goes, at the size of what receives it:
\* neither a change of the settings between a drawing and its reading, nor
\* the two previews that share one framebuffer, give the encoder a frame of
\* another size or a monitor the picture of the other deck.
FramesFit ==
  /\ enc # NoEnc => \A i \in DOMAIN enc.queue :
                      enc.queue[i] = [dims |-> enc.cfg.dims, stream |-> "program"]
  /\ \A i \in DOMAIN jobs : jobs[i].standby <=> jobs[i].frame.stream = "standby"

\* The configuration under which the i-th message of a backlog is decoded.
Before(c, i) ==
  LET configs == {j \in 1..(i - 1) : c.inbox[j].is = "config"}
  IN  IF configs = {} THEN c.gen ELSE c.inbox[CHOOSE j \in configs : \A k \in configs : k <= j].gen

\* A connection that lost nothing relays no unit under the configuration of
\* another encoder: a unit follows the announcement of its own encoder, at
\* every restart and for every client, or is not relayed at all.
UnderItsConfig ==
  \A v \in Viewers : LET c == viewer[v] IN
    ~c.missed => \A i \in DOMAIN c.inbox :
      c.inbox[i].is = "au" => Before(c, i) \in {0, c.inbox[i].gen}

\* Pages, encoder and readback are well formed, and the encoder is only ever fed
\* pictures of its own size.
PreviewInvariant == PreviewTypeOK /\ FramesFit
===============================================================================
