------------------------------ MODULE Interface ------------------------------
(***************************************************************************)
(* The pages of the web interface and the show they display.  The session  *)
(* broadcasts each edit it applies and publishes the whole state at most   *)
(* every STATE_PERIOD (session.rs); the server gives each connection the   *)
(* published state, the warnings of before it came, then the events as     *)
(* they are sent (handle_ws, control-http/server.rs); the page applies the *)
(* edits to its own copy of the show (applyOp, webui/app.js) and watches   *)
(* its link (webui/ws.js).  The lines of the journal come from every       *)
(* thread (UiLogLayer, app/logsetup.rs).                                   *)
(*                                                                         *)
(* One command of the session, one publication, one step of a log call,    *)
(* one branch of the loop of a connection are one action each.             *)
(***************************************************************************)
EXTENDS Integers, FiniteSets, SequencesExt

CONSTANTS
  Pages,
  Ops,          \* edits the operators may make
  Gestures,     \* those of a gesture: a corner dragged or nudged, the edge of a band
  Start, Other, \* the show loaded at first, and another one
  Nothing,      \* what stands for no show
  Tuned(_),     \* the show after a frequency was set by a parameter
  BusCap,       \* the command bus
  EventCap,     \* events_tx
  EarlyCap,     \* EARLY_LOG_CAP
  MaxEdits, MaxLoads, MaxLines, MaxCuts   \* bounds

ASSUME InterfaceAssumption ==
  /\ Gestures \subseteq Ops
  /\ BusCap \in Nat \ {0} /\ EventCap \in Nat \ {0} /\ EarlyCap \in Nat \ {0}
  /\ MaxEdits \in Nat /\ MaxLoads \in Nat /\ MaxLines \in Nat /\ MaxCuts \in Nat

NoBytes(s) == 0
E == INSTANCE Edit WITH UndoCap <- 1, ByteCap <- 0, Bytes <- NoBytes

NoOp == [op |-> "none", at |-> "none"]

VARIABLES
  show, mode,   \* of the session
  showDirty,    \* state_show_dirty
  published,    \* state_tx: the show and the mode
  bus,          \* commands the session has not taken
  early,        \* the ring of warnings kept for the pages to come
  sending,      \* warnings kept, and not broadcast yet
  page,         \* each page, its link and its connection on the server
  past,         \* every show there was
  count         \* for the bounds

session == <<show, mode, showDirty, bus, past>>
logs == <<early, sending>>
vars == <<show, mode, showDirty, published, bus, early, sending, page, past, count>>

Away == [link |-> "off", cut |-> FALSE, inbox |-> <<>>, lagged |-> FALSE, changed |-> FALSE,
         copy |-> Nothing, exact |-> FALSE, mode |-> "edit", journal |-> {}, since |-> 1,
         ping |-> FALSE]

Init ==
  /\ show = Start /\ mode = "edit" /\ showDirty = TRUE
  /\ published = [show |-> Start, mode |-> "edit"]
  /\ bus = <<>> /\ early = <<>> /\ sending = {}
  /\ page = [p \in Pages |-> Away]
  /\ past = <<Start>>
  /\ count = [edits |-> 0, loads |-> 0, lines |-> 0, cuts |-> 0]

Counted(what, max) == count[what] < max /\ count' = [count EXCEPT ![what] = @ + 1]

----------------------------------------------------------------------------
(* The broadcast of events.                                                *)

Connected(c) == c.link \in {"subscribed", "greeted", "open"}

\* A connection too far behind loses the oldest events.
Received(c, event) ==
  LET all == Append(c.inbox, event)
  IN  IF ~Connected(c) THEN c
      ELSE IF Len(all) <= EventCap THEN [c EXCEPT !.inbox = all]
      ELSE [c EXCEPT !.inbox = Tail(all), !.lagged = TRUE, !.exact = FALSE]

Broadcast(event) == page' = [p \in Pages |-> Received(page[p], event)]

EditApplied(op) == [type |-> "edit_applied", op |-> op, mode |-> "", line |-> 0]
ShowLoaded == [type |-> "show_loaded", op |-> NoOp, mode |-> "", line |-> 0]
ModeChanged(m) == [type |-> "mode_changed", op |-> NoOp, mode |-> m, line |-> 0]
LogLine(n) == [type |-> "log_line", op |-> NoOp, mode |-> "", line |-> n]

----------------------------------------------------------------------------
(* The session.                                                            *)

\* A mutant: the line is not kept.
Kept_Sent(n) == UNCHANGED early /\ sending' = sending \cup {n}

\* warn!: the line is kept for the pages to come, before it is broadcast.
Kept(n) ==
  /\ early' = Append(IF Len(early) >= EarlyCap THEN Tail(early) ELSE early, n)
  /\ sending' = sending \cup {n}

Becomes(s) == show' = s /\ past' = Append(past, s) /\ showDirty' = TRUE

\* apply_edit: in a performance an edit is refused, and the journal says so.
Apply ==
  /\ bus # <<>> /\ mode = "edit"
  /\ Becomes(E!Applied(Head(bus), show))
  /\ bus' = Tail(bus)
  /\ Broadcast(EditApplied(Head(bus)))
  /\ UNCHANGED <<mode, published, logs, count>>

Refuse ==
  /\ bus # <<>> /\ mode = "show"
  /\ bus' = Tail(bus)
  /\ Counted("lines", MaxLines) /\ Kept(count.lines + 1)
  /\ UNCHANGED <<show, mode, showDirty, published, page, past>>

\* install_show, do_undo, do_redo, apply_rescan: the pages are told to come
\* back for the show.
Load ==
  /\ mode = "edit" /\ Counted("loads", MaxLoads)
  /\ \E s \in {Start, Other} \ {show} : Becomes(s)
  /\ Broadcast(ShowLoaded)
  /\ UNCHANGED <<mode, bus, published, logs>>

\* A parameter that is part of the show: no event says that it changed.
ModFrequency ==
  /\ Tuned(show) # show /\ Counted("loads", MaxLoads)
  /\ Becomes(Tuned(show))
  /\ page' = [p \in Pages |-> [page[p] EXCEPT !.exact = FALSE]]
  /\ UNCHANGED <<mode, bus, published, logs>>

ModeSet ==
  /\ Counted("loads", MaxLoads)
  /\ mode' = IF mode = "edit" THEN "show" ELSE "edit"
  /\ Broadcast(ModeChanged(mode'))
  /\ UNCHANGED <<show, showDirty, bus, published, logs, past>>

\* Every STATE_PERIOD: the show only when it changed.
Publish ==
  /\ published' = [show |-> IF showDirty THEN show ELSE published.show, mode |-> mode]
  /\ showDirty' = FALSE
  /\ page' = [p \in Pages |-> [page[p] EXCEPT !.changed = Connected(page[p])]]
  /\ UNCHANGED <<show, mode, bus, logs, past, count>>

\* Any thread writes a warning, and it goes out.
Warn ==
  /\ Counted("lines", MaxLines) /\ Kept(count.lines + 1)
  /\ UNCHANGED <<session, published, page>>

SendLine ==
  /\ \E n \in sending : sending' = sending \ {n} /\ Broadcast(LogLine(n))
  /\ UNCHANGED <<session, published, early, count>>

----------------------------------------------------------------------------
(* applyOp: the page does to its copy what the engine did to the show.     *)

Found(list, at, n) == {i \in DOMAIN list : E!NumberOf(at, list[i]) = n}
FirstFound(list, at, n) == Min(Found(list, at, n))

Spliced(list, i) == IF i \in DOMAIN list THEN RemoveAt(list, i) ELSE list

CueInserted(cues, cue) ==
  LET later == {i \in DOMAIN cues : cues[i].number >= cue.number}
      i == Min(later)
  IN  IF later = {} THEN Append(cues, cue)
      ELSE IF cues[i].number = cue.number THEN [cues EXCEPT ![i] = cue]
      ELSE SubSeq(cues, 1, i - 1) \o <<cue>> \o SubSeq(cues, i, Len(cues))

StateSet(states, state) ==
  LET same == {i \in DOMAIN states : states[i].slice = state.slice}
  IN  IF same = {} THEN Append(states, state) ELSE [states EXCEPT ![Min(same)] = state]

ApplyOp(op, copy) ==
  LET list == copy[op.at]
      here == Found(list, op.at, op.number)
      i == FirstFound(list, op.at, op.number)
  IN  CASE op.op = "add" /\ op.at = "cues" -> [copy EXCEPT !.cues = CueInserted(@, op.item)]
        [] op.op = "add" /\ op.at # "cues" -> [copy EXCEPT ![op.at] = Append(@, op.item)]
        [] op.op = "remove" -> [copy EXCEPT ![op.at] = E!Without(op.at, @, op.number)]
        [] op.op = "update" /\ here # {} -> [copy EXCEPT ![op.at][i] = op.item]
        [] op.op = "corner" /\ here # {} /\ op.index \in DOMAIN list[i].corners ->
             [copy EXCEPT ![op.at][i].corners[op.index] = op.item]
        [] op.op = "state" /\ here # {} ->
             [copy EXCEPT ![op.at][i].states = StateSet(@, op.item)]
        [] op.op = "remove_at" -> [copy EXCEPT ![op.at] = Spliced(@, op.number)]
        [] op.op = "update_at" /\ op.number \in DOMAIN list ->
             [copy EXCEPT ![op.at][op.number] = op.item]
        [] op.op = "set" -> [copy EXCEPT ![op.at] = op.item]
        [] OTHER -> copy

----------------------------------------------------------------------------
(* A page, its link and its connection (handle_ws, ws.js).                 *)

Turns(p, c) ==
  /\ page' = [page EXCEPT ![p] = c]
  /\ UNCHANGED <<session, published, logs>>

\* The link is up: the connection first subscribes to the events.
Subscribe(p) ==
  /\ page[p].link \in {"off", "backoff"} /\ ~page[p].cut
  /\ Turns(p, [page[p] EXCEPT !.link = "subscribed", !.inbox = <<>>, !.lagged = FALSE])
  /\ UNCHANGED count

\* hello: the state as it was published last.  exact: it is the show, and
\* nothing that it already holds is still to come.
Hello(p) ==
  /\ page[p].link = "subscribed"
  /\ Turns(p, [page[p] EXCEPT !.link = "greeted", !.copy = published.show, !.mode = published.mode,
                              !.changed = FALSE,
                              !.exact = published.show = show /\ page[p].inbox = <<>>])
  /\ UNCHANGED count

\* The warnings of before; since: the oldest one that a full ring still has.
Replay(p) ==
  /\ page[p].link = "greeted"
  /\ Turns(p, [page[p] EXCEPT !.link = "open", !.journal = @ \cup ToSet(early),
                              !.since = Max({1, count.lines - EarlyCap + 1})])
  /\ UNCHANGED count

\* The socket closes: the banner shows, and the page tries again.
Closed(c) ==
  [c EXCEPT !.link = "backoff", !.inbox = <<>>, !.changed = FALSE, !.exact = FALSE, !.ping = FALSE]

\* A mutant: a page does not come back for a show that was loaded.
Heard_Stays(c, event) ==
  CASE event.type = "edit_applied" -> [c EXCEPT !.copy = ApplyOp(event.op, @)]
    [] event.type = "show_loaded" -> c
    [] event.type = "mode_changed" -> [c EXCEPT !.mode = event.mode]
    [] event.type = "log_line" -> [c EXCEPT !.journal = @ \cup {event.line}]

\* onEvent.
Heard(c, event) ==
  CASE event.type = "edit_applied" -> [c EXCEPT !.copy = ApplyOp(event.op, @)]
    [] event.type = "show_loaded" -> Closed(c)
    [] event.type = "mode_changed" -> [c EXCEPT !.mode = event.mode]
    [] event.type = "log_line" -> [c EXCEPT !.journal = @ \cup {event.line}]

\* exact: from here too, a page of which the copy is the show, with nothing
\* on its way to it, goes on following.
CaughtUp(c) ==
  [c EXCEPT !.exact = @ \/ (c.link = "open" /\ c.inbox = <<>> /\ c.copy = show)]

Relay(p) ==
  /\ page[p].link = "open" /\ ~page[p].cut /\ page[p].inbox # <<>>
  /\ Turns(p, CaughtUp(Heard([page[p] EXCEPT !.inbox = Tail(@)], Head(page[p].inbox))))
  /\ UNCHANGED count

\* dyn: at most every DYN_PERIOD, the runtime and not the show.
Dyn(p) ==
  /\ page[p].link = "open" /\ ~page[p].cut /\ page[p].changed
  /\ Turns(p, [page[p] EXCEPT !.changed = FALSE, !.mode = published.mode])
  /\ UNCHANGED count

\* An operator makes an edit: the page refuses it in a performance, and a
\* bus that is full loses it.
Sent ==
  /\ Counted("edits", MaxEdits)
  /\ \E op \in Ops : bus' = IF Len(bus) < BusCap THEN Append(bus, op) ELSE bus
  /\ UNCHANGED <<show, mode, showDirty, published, logs, page, past>>

\* sendEdit: what the page would send reaches the server.
Sends(c) == c.link = "open" /\ ~c.cut /\ c.mode = "edit"

\* Most edits are made on a copy: the page shows them when they come back.
SendEdit(p) == Sends(page[p]) /\ Sent

\* A gesture is shown before it is sent, and whether it is sent or not: a drag
\* sends what it shows at most every 80 ms, and an arrow moves a corner in a
\* performance, or on a dead link, where sendEdit refuses.
Gesture(p) ==
  /\ page[p].copy # Nothing /\ Counted("edits", MaxEdits)
  /\ \E op \in Gestures :
       /\ page' = [page EXCEPT ![p].copy = ApplyOp(op, @), ![p].exact = FALSE]
       /\ \/ bus' = bus
          \/ Sends(page[p]) /\ Len(bus) < BusCap /\ bus' = Append(bus, op)
  /\ UNCHANGED <<show, mode, showDirty, published, logs, past>>

\* On a page that is not one of Pages.
SendElsewhere == Sent

\* The link stops carrying anything, or carries again what it held back.
Cut(p) ==
  /\ Connected(page[p]) /\ ~page[p].cut /\ Counted("cuts", MaxCuts)
  /\ Turns(p, [page[p] EXCEPT !.cut = TRUE])

Restore(p) ==
  /\ page[p].cut
  /\ Turns(p, [page[p] EXCEPT !.cut = FALSE, !.ping = FALSE])
  /\ UNCHANGED count

\* A mutant: a ping counts as an answer.
Pinged_Rx(c) == [c EXCEPT !.ping = FALSE]

\* Every PING_PERIOD the page asks for an answer, and any message is one:
\* only what goes into a dead link stays without.
Pinged(c) == [c EXCEPT !.ping = c.cut]
Ping(p) ==
  /\ Connected(page[p])
  /\ Turns(p, Pinged(page[p])) /\ UNCHANGED count

\* Nothing came for PONG_TIMEOUT.  A link that carries answers in time.
PongTimeout(p) ==
  /\ Connected(page[p]) /\ page[p].ping
  /\ Turns(p, Closed(page[p])) /\ UNCHANGED count

----------------------------------------------------------------------------
Next ==
  \/ SendElsewhere \/ Apply \/ Refuse \/ Load \/ ModFrequency \/ ModeSet \/ Publish
  \/ Warn \/ SendLine
  \/ \E p \in Pages :
       \/ Subscribe(p) \/ Hello(p) \/ Replay(p) \/ Relay(p) \/ Dyn(p)
       \/ SendEdit(p) \/ Gesture(p)
       \/ Cut(p) \/ Restore(p) \/ Ping(p) \/ PongTimeout(p)

\* The timers of a page run.
Spec == Init /\ [][Next]_vars /\ \A p \in Pages : WF_vars(Ping(p)) /\ WF_vars(PongTimeout(p))

----------------------------------------------------------------------------
R == INSTANCE Replica WITH
       past <- past,
       shown <- [p \in Pages |-> IF page[p].exact THEN page[p].copy ELSE Nothing]

\* A page that joined with the show of the moment, or has caught up with it,
\* shows the show as it is or was and never goes back, as long as it loses
\* nothing and no gesture is made on it: what it applies to its copy is what
\* the engine applied, every change that is not an edit makes it come back for
\* the show, and nothing is applied twice.  A gesture takes the promise away:
\* the page shows what it has not sent, for ever if that is refused or lost,
\* and goes back to earlier positions as they return; it is promised again
\* once what came back has made its copy the show.
PagesFollow == R!Spec

\* No warning is lost between the ring and the broadcast: one of the last
\* EarlyCap when the page read the ring, or one that came later, is in its journal or on its
\* way, unless the page fell behind.
NoWarningMissed ==
  \A p \in Pages : page[p].link = "open" /\ ~page[p].lagged =>
    \A n \in page[p].since..count.lines :
      \/ n \in page[p].journal \/ n \in sending
      \/ \E i \in DOMAIN page[p].inbox : page[p].inbox[i] = LogLine(n)

\* A page does not go on showing a link that is dead: it finds out, unless
\* the link comes back.
DeadLinkSeen ==
  \A p \in Pages : (Connected(page[p]) /\ page[p].cut) ~> (~Connected(page[p]) \/ ~page[p].cut)

===============================================================================
