-------------------------------- MODULE Network --------------------------------
(***************************************************************************)
(* The network surfaces of a session (crates/app/src/protocols.rs with the *)
(* threads of control-osc and control-artnet): the OSC server, the Art-Net *)
(* node, the feedback and the resolution of its host, the bounded bus of   *)
(* commands, and the session that is the only one to empty the bus, edits  *)
(* the show and starts the surfaces again when their configuration moved.  *)
(*                                                                         *)
(* Starting again stops each thread and waits for its end, on the thread   *)
(* of the session: a respawn is a walk through phases.  The MIDI hub never *)
(* waits for the bus: it is in Surfaces.                                   *)
(***************************************************************************)
EXTENDS Osc, FiniteSets

CONSTANTS
  Channels, MaxSources, Window, GapWarn,    \* of ArtNet
  First,        \* settings of the show at the start
  Settings,     \* settings a show may have: [port, artnet, universes]
  Patches,      \* patches a show may have: [version, out, entries], out a set of hosts
  Address,      \* address of each host the resolver knows
  Literal,      \* hosts that are addresses
  Datagrams,    \* OSC packets that may arrive
  Packets,      \* Art-Net packets that may arrive
  BusCap,       \* capacity of the bus
  Budget,       \* CMD_BUDGET_PER_TICK
  ChanCap,      \* bound: events waiting for a feedback thread
  MaxInputs,    \* bound: packets
  MaxEdits      \* bound: edits

A == INSTANCE ArtNet

ASSUME NetworkAssumption ==
  /\ A!ArtNetAssumption /\ First \in Settings /\ Literal \subseteq DOMAIN Address
  /\ {BusCap, Budget, ChanCap} \subseteq Nat \ {0} /\ {MaxInputs, MaxEdits} \subseteq Nat

VARIABLES
  bus, phase, settings, patch, sig,
  osc,          \* the server: its life, its stop flag, what it has to send
  oscWire,      \* its socket
  node,         \* the same, with the mapper and the channel of patches
  dmxWire,
  threads,      \* the feedback threads, by number
  tx,           \* the channel the session writes its events to: a thread, or nothing
  handle,       \* the feedback thread the session holds
  pending,      \* the resolution the session waits for
  dns,          \* hosts already resolved
  status,       \* ProtocolStatus
  active, progress, drained,
  inputs, edits

session == <<phase, settings, patch, sig, status, dns>>
feedback == <<threads, tx, handle, pending>>
shown == <<active, progress, drained>>
vars == <<bus, session, osc, oscWire, node, dmxWire, feedback, shown, inputs, edits>>

Signature == [settings |-> settings, out |-> patch.out]

NoServer == [alive |-> FALSE, stop |-> FALSE, hand |-> <<>>]
NoOsc == NoServer @@ [last |-> FALSE]
NoNode == NoServer @@ [mapper |-> A!NoMapper, patches |-> <<>>, universes |-> <<>>,
                       version |-> 0, packet |-> {}, waits |-> FALSE]

\* A feedback thread, from the moment its channel exists.
Waiting(host) ==
  [host |-> host, target |-> {}, run |-> "resolving", stop |-> FALSE, open |-> TRUE,
   chan |-> <<>>, f |-> NoFeedback]
Running(host, target) == [Waiting(host) EXCEPT !.target = {target}, !.run = "running"]

----------------------------------------------------------------------------
(* The OSC server.                                                         *)

\* UDP: what arrives while nobody listens is lost, and anything may be.
Arrive(d) ==
  /\ inputs < MaxInputs /\ inputs' = inputs + 1
  /\ oscWire' = IF osc.alive THEN Append(oscWire, d) ELSE oscWire
  /\ UNCHANGED <<bus, session, osc, node, dmxWire, feedback, shown, edits>>

\* The flag is looked at between two datagrams: one may still be received, the
\* last, when the thread was waiting for it as the flag was set.
OscReceive ==
  /\ osc.alive /\ ~osc.last /\ osc.hand = <<>> /\ oscWire # <<>>
  /\ oscWire' = Tail(oscWire)
  /\ osc' = [osc EXCEPT !.hand = Understood(Head(oscWire)), !.last = osc.stop]
  /\ UNCHANGED <<bus, session, node, dmxWire, feedback, shown, inputs, edits>>

\* Mutant: the bus takes everything.
OscSend_Unbounded ==
  /\ osc.hand # <<>>
  /\ bus' = Append(bus, Head(osc.hand))
  /\ osc' = [osc EXCEPT !.hand = Tail(@), !.last = osc.stop]
  /\ UNCHANGED <<session, oscWire, node, dmxWire, feedback, shown, inputs, edits>>

\* The bus is bounded: the send waits.
OscSend ==
  /\ osc.hand # <<>> /\ Len(bus) < BusCap
  /\ bus' = Append(bus, Head(osc.hand))
  /\ osc' = [osc EXCEPT !.hand = Tail(@), !.last = osc.stop]
  /\ UNCHANGED <<session, oscWire, node, dmxWire, feedback, shown, inputs, edits>>

OscExit ==
  /\ osc.alive /\ osc.stop /\ osc.hand = <<>>
  /\ osc' = NoOsc /\ oscWire' = <<>>
  /\ UNCHANGED <<bus, session, node, dmxWire, feedback, shown, inputs, edits>>

----------------------------------------------------------------------------
(* The Art-Net node.                                                       *)

\* drain_patch: the last patch received counts.
Drained(n) ==
  IF n.patches = <<>> THEN n
  ELSE LET p == n.patches[Len(n.patches)]
       IN  [n EXCEPT !.mapper = A!Patched(p.entries), !.version = p.version, !.patches = <<>>]

\* A packet carries, for the properties, the version of the last patch pushed
\* to the node when it reached the socket.
Pushed(n) == IF n.patches = <<>> THEN n.version ELSE n.patches[Len(n.patches)].version
ArriveDmx(p) ==
  /\ inputs < MaxInputs /\ inputs' = inputs + 1
  /\ dmxWire' = IF node.alive THEN Append(dmxWire, [packet |-> p, since |-> Pushed(node)]) ELSE dmxWire
  /\ UNCHANGED <<bus, session, osc, oscWire, node, feedback, shown, edits>>

\* Mutant: the end of a wait goes back to the wait without a look at the flag.
NodeWait_Unstopped ==
  /\ node.alive /\ node.hand = <<>> /\ node.packet = {} /\ ~node.waits
  /\ node' = [Drained(node) EXCEPT !.waits = TRUE]
  /\ UNCHANGED <<bus, session, osc, oscWire, dmxWire, feedback, shown, inputs, edits>>

\* The loop: the patch, then the wait for a packet, ended by a timeout.
NodeWait ==
  /\ node.alive /\ ~node.stop /\ node.hand = <<>> /\ node.packet = {} /\ ~node.waits
  /\ node' = [Drained(node) EXCEPT !.waits = TRUE]
  /\ UNCHANGED <<bus, session, osc, oscWire, dmxWire, feedback, shown, inputs, edits>>

NodeTimeout ==
  /\ node.waits /\ dmxWire = <<>> /\ (node.stop \/ node.patches # <<>>)
  /\ node' = [node EXCEPT !.waits = FALSE]
  /\ UNCHANGED <<bus, session, osc, oscWire, dmxWire, feedback, shown, inputs, edits>>

NodeReceive ==
  /\ node.waits /\ dmxWire # <<>>
  /\ node' = [node EXCEPT !.waits = FALSE, !.packet = {Head(dmxWire)}] /\ dmxWire' = Tail(dmxWire)
  /\ UNCHANGED <<bus, session, osc, oscWire, feedback, shown, inputs, edits>>

\* What the mapper makes of a frame of one of the universes listened to.
Mapping(n, p) ==
  LET frames == {f \in A!ParsedDmx(p) : f.universe \in Range(n.universes)}
      f == CHOOSE f \in frames : TRUE
  IN  IF frames = {} THEN [mapper |-> n.mapper, out |-> <<>>]
      ELSE A!Applied(n.mapper, f.universe, f.data)

\* Mutant: the patch is only looked at before the wait for a frame.
NodeProcess_Early ==
  /\ node.packet # {}
  /\ LET p == CHOOSE q \in node.packet : TRUE
         m == Mapping(node, p.packet)
     IN  node' = [node EXCEPT !.packet = {}, !.mapper = m.mapper,
                              !.hand = [i \in DOMAIN m.out |-> m.out[i] @@ [op |-> "set"]]]
  /\ UNCHANGED <<bus, session, osc, oscWire, dmxWire, feedback, shown, inputs, edits>>

\* A patch sent before the frame applies to the frame.
NodeProcess ==
  /\ node.packet # {}
  /\ LET n == Drained(node)
         p == CHOOSE q \in node.packet : TRUE
         m == Mapping(n, p.packet)
     IN  node' = [n EXCEPT !.packet = {}, !.mapper = m.mapper,
                           !.hand = [i \in DOMAIN m.out |-> m.out[i] @@ [op |-> "set"]]]
  /\ UNCHANGED <<bus, session, osc, oscWire, dmxWire, feedback, shown, inputs, edits>>

NodeSend ==
  /\ node.hand # <<>> /\ Len(bus) < BusCap
  /\ bus' = Append(bus, Head(node.hand)) /\ node' = [node EXCEPT !.hand = Tail(@)]
  /\ UNCHANGED <<session, osc, oscWire, dmxWire, feedback, shown, inputs, edits>>

NodeExit ==
  /\ node.alive /\ node.stop /\ node.hand = <<>> /\ node.packet = {} /\ ~node.waits
  /\ node' = NoNode /\ dmxWire' = <<>>
  /\ UNCHANGED <<bus, session, osc, oscWire, feedback, shown, inputs, edits>>

----------------------------------------------------------------------------
(* The feedback threads.  The present is 0: the times of the last sends    *)
(* move back when the session counts one period of its state.              *)

Sends(i) ==
  /\ threads[i].run = "running" /\ ~threads[i].stop /\ threads[i].chan # <<>>
  /\ threads' = [threads EXCEPT ![i].chan = Tail(@),
                                ![i].f = Translated(@, Head(threads[i].chan), 0)]
  /\ UNCHANGED <<bus, session, osc, oscWire, node, dmxWire, tx, handle, pending, shown, inputs, edits>>

\* The end: asked for, or a closed channel read to its end.
Ends(i) ==
  /\ threads[i].run = "running"
  /\ threads[i].stop \/ (~threads[i].open /\ threads[i].chan = <<>>)
  /\ threads' = [threads EXCEPT ![i] = [@ EXCEPT !.run = "ended", !.chan = <<>>]]
  /\ UNCHANGED <<bus, session, osc, oscWire, node, dmxWire, tx, handle, pending, shown, inputs, edits>>

\* The thread that resolves the host: it starts the feedback, and stops it
\* at once if the session does not wait for this answer any more.
Resolves(i) ==
  /\ threads[i].run = "resolving"
  /\ LET host == threads[i].host
         known == {Address[h] : h \in {host} \cap DOMAIN Address}
     IN  threads' = [threads EXCEPT ![i] =
           IF known = {} THEN [@ EXCEPT !.run = "failed", !.chan = <<>>]
           ELSE [@ EXCEPT !.run = "running", !.target = known, !.stop = pending # {i}]]
  /\ UNCHANGED <<bus, session, osc, oscWire, node, dmxWire, tx, handle, pending, shown, inputs, edits>>

----------------------------------------------------------------------------
(* The session.                                                            *)

\* One command of the bus; a GO changes the cue.
Command ==
  /\ phase = "run" /\ bus # <<>> /\ drained < Budget
  /\ bus' = Tail(bus) /\ drained' = drained + 1
  /\ active' = IF Head(bus).op = "go" THEN 1 - active ELSE active
  /\ progress' = IF Head(bus).op = "go" THEN 0 ELSE progress
  /\ UNCHANGED <<session, osc, oscWire, node, dmxWire, feedback, inputs, edits>>

\* Mutant: one channel for the answers of every resolution.
Answered_Shared == {i \in DOMAIN threads : pending # {} /\ threads[i].run \in {"running", "failed"}}

\* poll_feedback_resolution: the answer of the resolution it waits for.
Answered == {i \in pending : threads[i].run # "resolving"}

Told(i, event, ths) == IF i \in DOMAIN ths THEN [ths EXCEPT ![i].chan = Append(@, event)] ELSE ths

\* The end of a tick: a status for the feedback, and the answer of a resolution.
Tick ==
  /\ phase = "run" /\ (bus = <<>> \/ drained = Budget) /\ drained' = 0
  /\ \A i \in tx : Len(threads[i].chan) < ChanCap
  /\ \E p \in progress..1 :
       LET event == [type |-> "status", active |-> active, standby |-> 1 - active,
                     progress |-> p, remaining |-> 1 - p]
           older(f) == [f EXCEPT !.at = [a \in DOMAIN @ |-> IF @[a] > -Throttle THEN @[a] - 1 ELSE @[a]]]
           aged == [i \in DOMAIN threads |-> [threads[i] EXCEPT !.f = older(@)]]
       IN  /\ threads' = FoldSet(LAMBDA i, acc : Told(i, event, acc), aged, tx)
           /\ progress' = p
  /\ pending' = pending \ Answered
  /\ LET ok == {i \in Answered : threads[i].run # "failed"}
     IN  /\ handle' = handle \cup ok
         /\ tx' = IF Answered \subseteq ok THEN tx ELSE {}
         /\ dns' = [h \in DOMAIN dns \cup UNION {sig.out : i \in ok} |->
                      IF ok # {} /\ h \in sig.out
                      THEN CHOOSE a \in threads[CHOOSE i \in ok : TRUE].target : TRUE ELSE dns[h]]
         /\ status' = IF Answered = {} THEN status
                      ELSE [status EXCEPT !.out = IF ok # {} THEN "ok" ELSE "error"]
  /\ UNCHANGED <<bus, phase, settings, patch, sig, osc, oscWire, node, dmxWire, active, inputs, edits>>

\* respawn_if_changed, or the patch alone (push_patch).
Starts(s, p) ==
  /\ settings' = s /\ patch' = p
  /\ IF sig = [settings |-> s, out |-> p.out]
     THEN /\ node' = IF node.alive THEN [node EXCEPT !.patches = Append(@, p)] ELSE node
          /\ UNCHANGED <<phase, osc, sig>>
     ELSE /\ phase' = "osc" /\ sig' = [settings |-> s, out |-> p.out]
          /\ osc' = [osc EXCEPT !.stop = TRUE] /\ UNCHANGED node

\* An edit of the settings, a load, an undo; a version only grows.
Install(s, p) ==
  /\ phase = "run" /\ edits < MaxEdits /\ edits' = edits + 1
  /\ p.version >= patch.version
  /\ Starts(s, p)
  /\ UNCHANGED <<bus, oscWire, dmxWire, feedback, dns, status, shown, inputs>>

\* An edit of the patch: pushed to the node, never a respawn.
EditPatch(p) ==
  /\ phase = "run" /\ edits < MaxEdits /\ edits' = edits + 1
  /\ p.version >= patch.version
  /\ patch' = p
  /\ node' = IF node.alive THEN [node EXCEPT !.patches = Append(@, p)] ELSE node
  /\ UNCHANGED <<bus, phase, settings, sig, status, dns, osc, oscWire, dmxWire, feedback, shown, inputs>>

\* The session drops its end of the channel and the handles.
Dropped(ths, gone, closed) ==
  [i \in DOMAIN ths |-> [ths[i] EXCEPT !.stop = @ \/ i \in gone, !.open = @ /\ i \notin closed]]

\* The server has ended: the feedback goes, with the answer of a resolution
\* that is there and was not read.
JoinOsc ==
  /\ phase = "osc" /\ ~osc.alive
  /\ phase' = "feedback"
  /\ threads' = Dropped(threads, handle \cup Answered, tx)
  /\ tx' = {} /\ handle' = handle \cup Answered /\ pending' = {}
  /\ UNCHANGED <<bus, settings, patch, sig, status, dns, osc, oscWire, node, dmxWire, shown, inputs, edits>>

JoinFeedback ==
  /\ phase = "feedback" /\ \A i \in handle : threads[i].run \in {"ended", "failed"}
  /\ phase' = "artnet" /\ handle' = {} /\ node' = [node EXCEPT !.stop = TRUE]
  /\ UNCHANGED <<bus, settings, patch, sig, status, dns, osc, oscWire, dmxWire, threads, tx, pending, shown,
                 inputs, edits>>

\* The node has ended: the new surfaces start.  A port may be taken.
JoinArtnet(bound) ==
  /\ phase = "artnet" /\ ~node.alive /\ phase' = "run"
  /\ osc' = [NoOsc EXCEPT !.alive = bound]
  /\ node' = IF settings.artnet /\ bound
             THEN [NoNode EXCEPT !.alive = TRUE, !.universes = settings.universes, !.patches = <<patch>>]
             ELSE NoNode
  /\ LET new == Len(threads) + 1
         hosts == patch.out
         known == [h \in Literal \cup DOMAIN dns |-> IF h \in Literal THEN Address[h] ELSE dns[h]]
         direct == hosts \cap DOMAIN known
     IN  /\ threads' = threads \o [i \in 1..Cardinality(hosts) |->
                         LET h == CHOOSE x \in hosts : TRUE IN
                         IF h \in direct THEN Running(h, known[h]) ELSE Waiting(h)]
         /\ tx' = {new : h \in hosts}
         /\ handle' = {new : h \in direct} /\ pending' = {new : h \in hosts \ direct}
         /\ dns' = [h \in DOMAIN dns \cup direct |-> known[h]]
         /\ status' = [in  |-> IF bound THEN "ok" ELSE "error",
                       artnet |-> IF ~settings.artnet THEN "off" ELSE IF bound THEN "ok" ELSE "error",
                       out |-> IF hosts = {} THEN "off" ELSE IF direct = {} THEN "resolving" ELSE "ok"]
  /\ UNCHANGED <<bus, settings, patch, sig, oscWire, dmxWire, shown, inputs, edits>>

Respawn == JoinOsc \/ JoinFeedback \/ \E bound \in BOOLEAN : JoinArtnet(bound)

----------------------------------------------------------------------------
Init ==
  /\ bus = <<>> /\ phase = "osc"
  /\ settings = First /\ patch \in {p \in Patches : p.version = 1} /\ sig = Signature
  /\ osc = NoOsc /\ oscWire = <<>> /\ node = NoNode /\ dmxWire = <<>>
  /\ threads = <<>> /\ tx = {} /\ handle = {} /\ pending = {} /\ dns = <<>>
  /\ status = [in |-> "off", out |-> "off", artnet |-> "off"]
  /\ active = 0 /\ progress = 0 /\ drained = 0 /\ inputs = 0 /\ edits = 0

Server == OscReceive \/ OscSend \/ OscExit
Node == NodeWait \/ NodeTimeout \/ NodeReceive \/ NodeProcess \/ NodeSend \/ NodeExit
Feedback(i) == i \in DOMAIN threads /\ (Sends(i) \/ Ends(i) \/ Resolves(i))
Ids == 1..(MaxEdits + 1)

Next ==
  \/ \E d \in Datagrams : Arrive(d)
  \/ \E p \in Packets : ArriveDmx(p)
  \/ Server \/ Node \/ (\E i \in Ids : Feedback(i))
  \/ Command \/ Tick \/ Respawn
  \/ \E s \in Settings, p \in Patches : Install(s, p)
  \/ \E p \in Patches : EditPatch(p)

\* Every thread runs, the resolver answers, and the session goes on.
Fairness ==
  /\ WF_vars(Server) /\ WF_vars(Node) /\ \A i \in Ids : WF_vars(Feedback(i))
  /\ WF_vars(Command \/ Tick) /\ WF_vars(Respawn)
Spec == Init /\ [][Next]_vars /\ Fairness

----------------------------------------------------------------------------
NetworkTypeOK ==
  /\ Len(bus) <= BusCap /\ drained \in 0..Budget
  /\ phase \in {"run", "osc", "feedback", "artnet"}
  /\ tx \cup handle \cup pending \subseteq DOMAIN threads
  /\ \A i \in DOMAIN threads : threads[i].run \in {"resolving", "running", "ended", "failed"}
  /\ {status.in, status.out, status.artnet} \subseteq {"ok", "error", "off", "resolving"}

\* A frame that arrives after a patch was pushed is mapped with this patch,
\* or a later one, wherever the node was in its loop (run, drain_patch).
FramesSeePatch ==
  [][node.packet # {} /\ node'.packet = {} =>
       \A p \in node.packet : node'.version >= p.since]_vars

\* One feedback thread at most has a channel the session still writes to,
\* and it sends to the address of the host configured when it was started; a
\* resolution that ends after the host has changed takes no effect.
FeedbackToTheHost ==
  /\ \A i, j \in DOMAIN threads : threads[i].open /\ threads[j].open /\ phase = "run" =>
       i = j \/ "failed" \in {threads[i].run, threads[j].run}
  /\ phase = "run" /\ status.out = "ok" =>
       \A h \in sig.out : \E i \in tx : threads[i].target = {Address[h]}
  /\ \A h \in DOMAIN dns : dns[h] = Address[h]

\* A thread waits for room on the bus while the session waits for the thread:
\* nobody empties the bus any more (receive_loop, respawn).
Stuck == phase # "run" /\ Len(bus) = BusCap /\ (osc.hand # <<>> \/ node.hand # <<>>)

\* Starting the surfaces again comes to its end, whatever the threads to be
\* stopped were doing, unless the bus fills up meanwhile.
RespawnEnds == phase # "run" ~> (phase = "run" \/ Stuck)

\* What is sent last to the desk that listens to the feedback is what is on
\* stage: the cue and the progress, throttled or not (FeedbackState::translate).
\* A datagram that is lost, or that send_to refuses, is not sent again.
FeedbackCatchesUp ==
  <>[](status.out = "ok" /\ ~Stuck =>
         \E i \in tx : /\ threads[i].f.sent # <<>>
                       /\ threads[i].f.sent["active"] = active
                       /\ threads[i].f.sent["progress"] = progress)

\* The bus, the threads and their sockets keep to their bounds, and feedback is
\* only ever sent to the host that was asked for last.
NetworkInvariant == NetworkTypeOK /\ FeedbackToTheHost
=============================================================================
