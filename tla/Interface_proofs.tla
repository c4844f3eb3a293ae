--------------------------- MODULE Interface_proofs ---------------------------
(***************************************************************************)
(* Theorems about the pages of the web interface, for every number of      *)
(* pages, every set of edits and every capacity of the queues.             *)
(***************************************************************************)
EXTENDS Interface, SequenceTheorems, WellFoundedInduction, TLAPS

Types == {"edit_applied", "show_loaded", "mode_changed", "log_line"}
Events == [type : Types, op : Ops \cup {NoOp}, mode : {"", "edit", "show"}, line : Nat]
Counts == [edits : Nat, loads : Nat, lines : Nat, cuts : Nat]
Fields == {"link", "cut", "inbox", "lagged", "changed", "copy", "exact", "mode", "journal", "since", "ping"}

\* What is known of the page c, whatever its copy of the show.
Page(c) == DOMAIN c = Fields /\ c.inbox \in Seq(Events) /\ c.since \in Nat

\* The lines from since to the last one are with the page or on their way.
Told(c, last, sent) ==
  c.link = "open" /\ ~c.lagged =>
    \A n \in c.since..last :
      n \in c.journal \/ n \in sent \/ \E i \in DOMAIN c.inbox : c.inbox[i] = LogLine(n)

----------------------------------------------------------------------------
(* The inductive invariant: the ring holds the last lines, none skipped,   *)
(* and no page misses one.                                                 *)

RingIsLast ==
  /\ early \in Seq(Nat) /\ Len(early) <= EarlyCap /\ Len(early) <= count.lines
  /\ Len(early) = EarlyCap \/ Len(early) = count.lines
  /\ \A i \in DOMAIN early : early[i] = count.lines - Len(early) + i

Journals ==
  /\ count \in Counts /\ mode \in {"edit", "show"} /\ bus \in Seq(Ops) /\ sending \in SUBSET Nat
  /\ RingIsLast
  /\ page = [p \in Pages |-> page[p]]
  /\ \A p \in Pages : Page(page[p]) /\ Told(page[p], count.lines, sending)

----------------------------------------------------------------------------
(* What a message does to a page.                                          *)

LEMMA EventsAreEvents ==
  /\ \A op \in Ops : EditApplied(op) \in Events
  /\ ShowLoaded \in Events
  /\ \A m \in {"edit", "show"} : ModeChanged(m) \in Events
  /\ \A n \in Nat : LogLine(n) \in Events
BY DEF EditApplied, ShowLoaded, ModeChanged, LogLine, Events, Types

LEMMA LineOfLog == \A n : LogLine(n).type = "log_line" /\ LogLine(n).line = n
BY DEF LogLine

\* A message that comes is heard after the others, or the page fell behind.
LEMMA ReceivedTold ==
  ASSUME NEW c, Page(c), NEW event \in Events, NEW last \in Nat, NEW sent, NEW left,
         Told(c, last, sent),
         \A n \in sent : n \in left \/ event = LogLine(n)
  PROVE  Page(Received(c, event)) /\ Told(Received(c, event), last, left)
<1> DEFINE all == Append(c.inbox, event)
           d == Received(c, event)
<1>1. /\ all \in Seq(Events) /\ Len(all) = Len(c.inbox) + 1
      /\ \A i \in DOMAIN c.inbox : i \in DOMAIN all /\ all[i] = c.inbox[i]
      /\ Len(all) \in DOMAIN all /\ all[Len(all)] = event
  BY DEF Page
<1>2. Tail(all) \in Seq(Events)
  BY <1>1
<1>3. CASE ~Connected(c)
  <2>1. d = c /\ c.link # "open"
    BY <1>3 DEF Received, Connected
  <2> QED BY <2>1 DEF Told
<1>4. CASE Connected(c) /\ Len(all) <= EventCap
  <2>1. d = [c EXCEPT !.inbox = all]
    BY <1>4 DEF Received
  <2> HIDE DEF all, d
  <2>2. /\ Page(d) /\ d.inbox = all /\ d.link = c.link /\ d.lagged = c.lagged
        /\ d.since = c.since /\ d.journal = c.journal
    BY <1>1, <2>1 DEF Page, Fields
  <2>3. Told(d, last, left)
    <3> SUFFICES ASSUME c.link = "open", ~c.lagged, NEW n \in c.since..last
                 PROVE  n \in c.journal \/ n \in left \/ \E i \in DOMAIN all : all[i] = LogLine(n)
      BY <2>2 DEF Told
    <3>1. n \in c.journal \/ n \in sent \/ \E i \in DOMAIN c.inbox : c.inbox[i] = LogLine(n)
      BY DEF Told
    <3> QED BY <1>1, <3>1
  <2> QED BY <2>2, <2>3 DEF d
<1>5. CASE Connected(c) /\ ~(Len(all) <= EventCap)
  <2> DEFINE rest == Tail(all)
  <2>1. d = [c EXCEPT !.inbox = rest, !.lagged = TRUE, !.exact = FALSE]
    BY <1>5 DEF Received
  <2>2. rest \in Seq(Events)
    BY <1>2
  <2> HIDE DEF all, d, rest
  <2>3. DOMAIN d = Fields /\ d.inbox = rest /\ d.since = c.since /\ d.lagged
    BY <2>1 DEF Page, Fields
  <2> QED BY <2>2, <2>3 DEF Page, Told, d
<1> QED BY <1>3, <1>4, <1>5

\* A message of the session reaches every page.
LEMMA BroadcastTold ==
  ASSUME Journals, NEW event \in Events, Broadcast(event), NEW left,
         \A n \in sending : n \in left \/ event = LogLine(n)
  PROVE  /\ page' = [p \in Pages |-> page'[p]]
         /\ \A p \in Pages : Page(page'[p]) /\ Told(page'[p], count.lines, left)
<1>1. page' = [p \in Pages |-> Received(page[p], event)]
  BY DEF Broadcast
<1>2. ASSUME NEW p \in Pages
      PROVE  Page(page'[p]) /\ Told(page'[p], count.lines, left)
  <2>1. page'[p] = Received(page[p], event)
    BY <1>1
  <2>2. Page(page[p]) /\ Told(page[p], count.lines, sending) /\ count.lines \in Nat
    BY DEF Journals, Counts
  <2>3. Page(Received(page[p], event)) /\ Told(Received(page[p], event), count.lines, left)
    BY <2>2, ReceivedTold, Zenon
  <2> QED BY <2>1, <2>3
<1> QED BY <1>1, <1>2

\* A page that goes away, or has only just come, promises nothing.
LEMMA NothingTold ==
  ASSUME NEW c, c.link # "open", NEW last, NEW sent
  PROVE  Told(c, last, sent)
BY DEF Told

\* A page takes the first message.
LEMMA HeardTold ==
  ASSUME NEW c, Page(c), c.inbox # <<>>, c.link = "open", NEW last \in Nat, NEW sent, Told(c, last, sent)
  PROVE  LET d == Heard([c EXCEPT !.inbox = Tail(@)], Head(c.inbox))
         IN  Page(d) /\ Told(d, last, sent)
<1> DEFINE rest == Tail(c.inbox)
           event == Head(c.inbox)
           e == [c EXCEPT !.inbox = rest]
           d == Heard(e, event)
<1>1. /\ rest \in Seq(Events) /\ event \in Events /\ event = c.inbox[1]
      /\ \A i \in DOMAIN c.inbox : i # 1 => i - 1 \in DOMAIN rest /\ rest[i - 1] = c.inbox[i]
  BY DEF Page
<1>2. /\ Page(e) /\ e.inbox = rest /\ e.link = c.link /\ e.lagged = c.lagged
      /\ e.since = c.since /\ e.journal = c.journal
  BY <1>1 DEF Page, Fields
<1> HIDE DEF rest, e
<1>3. ASSUME NEW f, Page(f), f.inbox = rest, f.link = c.link, f.lagged = c.lagged, f.since = c.since,
             c.journal \subseteq f.journal,
             \A n \in Nat : event = LogLine(n) => n \in f.journal
      PROVE  Told(f, last, sent)
  <2> SUFFICES ASSUME f.link = "open", ~f.lagged, NEW n \in f.since..last
               PROVE  n \in f.journal \/ n \in sent \/ \E i \in DOMAIN rest : rest[i] = LogLine(n)
    BY <1>3 DEF Told
  <2>1. n \in c.journal \/ n \in sent \/ \E i \in DOMAIN c.inbox : c.inbox[i] = LogLine(n)
    BY <1>3 DEF Told
  <2>2. n \in Nat
    BY <1>3 DEF Page
  <2> QED BY <1>1, <1>3, <2>1, <2>2
<1> HIDE DEF event
<1>4. CASE event.type = "edit_applied"
  <2> DEFINE new == ApplyOp(event.op, e.copy)
  <2>1. d = [e EXCEPT !.copy = new]
    BY <1>4 DEF Heard
  <2> HIDE DEF new, d
  <2>2. /\ Page(d) /\ d.inbox = rest /\ d.link = c.link /\ d.lagged = c.lagged
        /\ d.since = c.since /\ d.journal = c.journal
    BY <1>2, <2>1 DEF Page, Fields
  <2>3. \A n \in Nat : event # LogLine(n)
    BY <1>4, LineOfLog
  <2>4. Told(d, last, sent)
    BY <1>3, <2>2, <2>3
  <2> QED BY <2>2, <2>4 DEF d, e, rest, event
<1>5. CASE event.type = "show_loaded"
  <2>1. d = Closed(e)
    BY <1>5 DEF Heard
  <2> DEFINE none == <<>>
  <2>2. none \in Seq(Events)
    OBVIOUS
  <2>3. d = [e EXCEPT !.link = "backoff", !.inbox = none, !.changed = FALSE, !.exact = FALSE, !.ping = FALSE]
    BY <2>1 DEF Closed
  <2> HIDE DEF d, none
  <2>4. Page(d) /\ d.link # "open"
    BY <1>2, <2>2, <2>3 DEF Page, Fields
  <2> QED BY <2>4, NothingTold DEF d, e, rest, event
<1>6. CASE event.type = "mode_changed"
  <2>1. d = [e EXCEPT !.mode = event.mode]
    BY <1>6 DEF Heard
  <2> HIDE DEF d
  <2>2. /\ Page(d) /\ d.inbox = rest /\ d.link = c.link /\ d.lagged = c.lagged
        /\ d.since = c.since /\ d.journal = c.journal
    BY <1>2, <2>1 DEF Page, Fields
  <2>3. \A n \in Nat : event # LogLine(n)
    BY <1>6, LineOfLog
  <2>4. Told(d, last, sent)
    BY <1>3, <2>2, <2>3
  <2> QED BY <2>2, <2>4 DEF d, e, rest, event
<1>7. CASE event.type = "log_line"
  <2> DEFINE journal == e.journal \cup {event.line}
  <2>1. d = [e EXCEPT !.journal = journal]
    BY <1>7 DEF Heard
  <2>2. c.journal \subseteq journal /\ \A n \in Nat : event = LogLine(n) => n \in journal
    BY <1>2, LineOfLog
  <2> HIDE DEF d, journal
  <2>3. /\ Page(d) /\ d.inbox = rest /\ d.link = c.link /\ d.lagged = c.lagged
        /\ d.since = c.since /\ d.journal = journal
    BY <1>2, <2>1 DEF Page, Fields
  <2>4. Told(d, last, sent)
    BY <1>3, <2>2, <2>3
  <2> QED BY <2>3, <2>4 DEF d, e, rest, event
<1> QED BY <1>1, <1>4, <1>5, <1>6, <1>7 DEF Events, Types

\* What is known of a page does not depend on its copy, its mode or its link.
LEMMA SameTold ==
  ASSUME NEW c, Page(c), NEW d, DOMAIN d = Fields, d.inbox = c.inbox, d.since = c.since,
         d.journal = c.journal, d.lagged = c.lagged, d.link = c.link,
         NEW last, NEW sent, Told(c, last, sent)
  PROVE  Page(d) /\ Told(d, last, sent)
BY DEF Page, Told

----------------------------------------------------------------------------
(* The steps.                                                              *)

LEMMA CountedOne ==
  ASSUME count \in Counts, NEW what \in {"edits", "loads", "lines", "cuts"}, NEW max, Counted(what, max)
  PROVE  /\ count' \in Counts
         /\ what # "lines" => count'.lines = count.lines
         /\ what = "lines" => count'.lines = count.lines + 1
<1>1. count' = [count EXCEPT ![what] = count[what] + 1]
  BY DEF Counted
<1>2. CASE what = "edits"
  BY <1>1, <1>2 DEF Counts
<1>3. CASE what = "loads"
  BY <1>1, <1>3 DEF Counts
<1>4. CASE what = "lines"
  BY <1>1, <1>4 DEF Counts
<1>5. CASE what = "cuts"
  BY <1>1, <1>5 DEF Counts
<1> QED BY <1>2, <1>3, <1>4, <1>5

LEMMA RingSame ==
  ASSUME RingIsLast, early' = early, count'.lines = count.lines
  PROVE  RingIsLast'
BY DEF RingIsLast

\* A ring of the numbers up to m, with the next one.
Ring(s, n, cap, m) ==
  /\ s \in Seq(Nat) /\ Len(s) = n /\ n <= cap /\ n <= m /\ (n = cap \/ n = m)
  /\ \A i \in 1..n : s[i] = m - n + i

LEMMA RingGrows ==
  ASSUME NEW n \in Nat, NEW m \in Nat, NEW k \in Nat, NEW t \in Seq(Nat), Len(t) = n, k = m + 1,
         \A i \in 1..n : t[i] = m - n + i
  PROVE  /\ Append(t, k) \in Seq(Nat) /\ Len(Append(t, k)) = n + 1
         /\ \A i \in 1..(n + 1) : Append(t, k)[i] = k - (n + 1) + i
<1> DEFINE r == Append(t, k)
<1>1. r \in Seq(Nat) /\ Len(r) = n + 1 /\ r[n + 1] = k /\ \A i \in 1..n : r[i] = t[i]
  BY AppendProperties
<1> HIDE DEF r
<1>2. ASSUME NEW i \in 1..(n + 1) PROVE r[i] = k - (n + 1) + i
  <2>1. CASE i = n + 1
    BY <1>1, <2>1
  <2>2. CASE i # n + 1
    <3>1. i \in 1..n
      BY <2>2
    <3>2. r[i] = m - n + i
      BY <1>1, <3>1
    <3> QED BY <3>1, <3>2
  <2> QED BY <2>1, <2>2
<1> QED BY <1>1, <1>2 DEF r

LEMMA RingNext ==
  ASSUME NEW cap \in Nat \ {0}, NEW m \in Nat, NEW n \in Nat, NEW s, Ring(s, n, cap, m)
  PROVE  \E l \in Nat : Ring(Append(IF n >= cap THEN Tail(s) ELSE s, m + 1), l, cap, m + 1)
<1> DEFINE k == m + 1
<1>0. k \in Nat /\ k = m + 1
  OBVIOUS
<1>1. CASE n = cap
  <2> DEFINE t == Tail(s)
             l == n - 1
  <2>1. l \in Nat /\ n = l + 1 /\ l <= m
    BY <1>1 DEF Ring
  <2>2. t \in Seq(Nat) /\ Len(t) = l /\ \A i \in 1..l : t[i] = s[i + 1]
    BY <1>1 DEF Ring
  <2> HIDE DEF t, l
  <2>3. \A i \in 1..l : t[i] = m - l + i
    <3> SUFFICES ASSUME NEW i \in 1..l PROVE t[i] = m - l + i
      OBVIOUS
    <3>1. i + 1 \in 1..n
      BY <2>1
    <3>2. s[i + 1] = m - n + (i + 1)
      BY <3>1 DEF Ring
    <3> QED BY <2>1, <2>2, <3>2
  <2> HIDE DEF k
  <2> DEFINE r == Append(t, k)
  <2>4. /\ r \in Seq(Nat) /\ Len(r) = n
        /\ \A i \in 1..n : r[i] = k - n + i
    BY <1>0, <2>1, <2>2, <2>3, RingGrows
  <2> HIDE DEF r
  <2>5. Ring(r, n, cap, k)
    BY <1>0, <1>1, <2>1, <2>4 DEF Ring
  <2> QED BY <1>1, <2>5 DEF r, t, k
<1>2. CASE n # cap
  <2>1. s \in Seq(Nat) /\ Len(s) = n /\ n = m /\ n < cap /\ \A i \in 1..n : s[i] = m - n + i
    BY <1>2 DEF Ring
  <2> DEFINE l == n + 1
  <2> HIDE DEF k
  <2> DEFINE r == Append(s, k)
  <2>2. /\ r \in Seq(Nat) /\ Len(r) = l
        /\ \A i \in 1..l : r[i] = k - l + i
    BY <1>0, <2>1, RingGrows
  <2>3. l \in Nat /\ l = k /\ l <= cap
    BY <1>0, <2>1
  <2> HIDE DEF r, l
  <2>4. Ring(r, l, cap, k)
    BY <1>0, <2>2, <2>3 DEF Ring
  <2>5. ~(n >= cap)
    BY <2>1
  <2> QED BY <2>3, <2>4, <2>5 DEF r, k
<1> QED BY <1>1, <1>2

\* A line is kept before it is sent.
LEMMA KeptStep ==
  ASSUME Journals, Counted("lines", MaxLines), Kept(count.lines + 1), page' = page,
         mode' = mode, bus' \in Seq(Ops)
  PROVE  Journals'
<1> DEFINE n == count.lines + 1
           room == IF Len(early) >= EarlyCap THEN Tail(early) ELSE early
<1>1. count.lines \in Nat /\ count' \in Counts /\ count'.lines = n
  BY CountedOne DEF Journals, Counts
<1>2. early' = Append(room, n) /\ sending' = sending \cup {n}
  BY DEF Kept
<1>3. RingIsLast'
  <2> DEFINE l == Len(early)
             m == count.lines
             r == early'
  <2>1. l \in Nat /\ Ring(early, l, EarlyCap, m)
    BY DEF Journals, RingIsLast, Ring
  <2>2. r = Append(IF l >= EarlyCap THEN Tail(early) ELSE early, m + 1) /\ m \in Nat
    BY <1>1, <1>2
  <2>3. count'.lines = m + 1
    BY <1>1
  <2> HIDE DEF l, m, r
  <2>4. PICK k \in Nat : Ring(r, k, EarlyCap, m + 1)
    BY <2>1, <2>2, InterfaceAssumption, RingNext
  <2>5. Len(r) = k /\ DOMAIN r = 1..k
    BY <2>4 DEF Ring
  <2> QED BY <2>3, <2>4, <2>5 DEF RingIsLast, Ring, r
<1>4. ASSUME NEW p \in Pages PROVE Told(page[p], n, sending \cup {n})
  <2> SUFFICES ASSUME page[p].link = "open", ~page[p].lagged, NEW k \in page[p].since..n
               PROVE  \/ k \in page[p].journal \/ k \in sending \cup {n}
                      \/ \E i \in DOMAIN page[p].inbox : page[p].inbox[i] = LogLine(k)
    BY DEF Told
  <2>1. page[p].since \in Nat /\ Told(page[p], count.lines, sending)
    BY DEF Journals, Page
  <2>2. k = n \/ k \in page[p].since..count.lines
    BY <1>1, <2>1
  <2> QED BY <2>1, <2>2 DEF Told
<1>5. sending' \in SUBSET Nat
  BY <1>1, <1>2 DEF Journals
<1> HIDE DEF n
<1> QED BY <1>1, <1>2, <1>3, <1>4, <1>5 DEF Journals

\* A step that counts no line and leaves the pages what they know.
LEMMA QuietStep ==
  ASSUME Journals, count' \in Counts, count'.lines = count.lines, UNCHANGED early,
         mode' \in {"edit", "show"}, bus' \in Seq(Ops), sending' \in SUBSET Nat,
         page' = [p \in Pages |-> page'[p]],
         \A p \in Pages : Page(page'[p]) /\ Told(page'[p], count.lines, sending')
  PROVE  Journals'
BY RingSame DEF Journals

LEMMA SessionStep ==
  ASSUME Journals, Apply \/ Refuse \/ Load \/ ModFrequency \/ ModeSet \/ Publish \/ Warn \/ SendLine
  PROVE  Journals'
<1> DEFINE Known(left) == /\ page' = [p \in Pages |-> page'[p]]
                          /\ \A p \in Pages : Page(page'[p]) /\ Told(page'[p], count.lines, left)
<1>0. /\ count \in Counts /\ count.lines \in Nat /\ mode \in {"edit", "show"}
      /\ bus \in Seq(Ops) /\ sending \in SUBSET Nat
  BY DEF Journals, Counts
<1>1. CASE Apply
  <2>1. bus # <<>> /\ bus' = Tail(bus) /\ Broadcast(EditApplied(Head(bus)))
        /\ mode' = mode /\ early' = early /\ sending' = sending /\ count' = count
    BY <1>1 DEF Apply, logs
  <2>2. bus' \in Seq(Ops) /\ Head(bus) \in Ops
    BY <1>0, <2>1
  <2>3. EditApplied(Head(bus)) \in Events
    BY <2>2, EventsAreEvents
  <2>4. Known(sending)
    BY <2>1, <2>3, BroadcastTold
  <2> QED BY <1>0, <2>1, <2>2, <2>4, QuietStep
<1>2. CASE Refuse
  <2>1. bus' \in Seq(Ops)
    BY <1>0, <1>2 DEF Refuse
  <2> QED BY <1>2, <2>1, KeptStep DEF Refuse
<1>3. CASE Load
  <2>1. Counted("loads", MaxLoads) /\ Broadcast(ShowLoaded)
        /\ mode' = mode /\ bus' = bus /\ early' = early /\ sending' = sending
    BY <1>3 DEF Load, logs
  <2>2. Known(sending)
    BY <2>1, EventsAreEvents, BroadcastTold
  <2>3. count' \in Counts /\ count'.lines = count.lines
    BY <1>0, <2>1, CountedOne
  <2> QED BY <1>0, <2>1, <2>2, <2>3, QuietStep
<1>4. CASE ModFrequency
  <2>1. Counted("loads", MaxLoads) /\ mode' = mode /\ bus' = bus /\ early' = early /\ sending' = sending
        /\ page' = [p \in Pages |-> [page[p] EXCEPT !.exact = FALSE]]
    BY <1>4 DEF ModFrequency, logs
  <2>2. ASSUME NEW p \in Pages PROVE Page(page'[p]) /\ Told(page'[p], count.lines, sending)
    <3> DEFINE c == page[p]
               d == [c EXCEPT !.exact = FALSE]
    <3>1. Page(c) /\ Told(c, count.lines, sending) /\ page'[p] = d
      BY <2>1 DEF Journals
    <3> HIDE DEF c
    <3>2. /\ DOMAIN d = Fields /\ d.inbox = c.inbox /\ d.since = c.since
          /\ d.journal = c.journal /\ d.lagged = c.lagged /\ d.link = c.link
      BY <3>1 DEF Page, Fields
    <3> HIDE DEF d
    <3> QED BY <3>1, <3>2, SameTold
  <2>3. count' \in Counts /\ count'.lines = count.lines
    BY <1>0, <2>1, CountedOne
  <2>4. page' = [p \in Pages |-> page'[p]]
    BY <2>1
  <2> QED BY <1>0, <2>1, <2>2, <2>3, <2>4, QuietStep
<1>5. CASE ModeSet
  <2>1. Counted("loads", MaxLoads) /\ Broadcast(ModeChanged(mode')) /\ mode' \in {"edit", "show"}
        /\ bus' = bus /\ early' = early /\ sending' = sending
    BY <1>5 DEF ModeSet, logs
  <2>2. Known(sending)
    BY <2>1, EventsAreEvents, BroadcastTold
  <2>3. count' \in Counts /\ count'.lines = count.lines
    BY <1>0, <2>1, CountedOne
  <2> QED BY <1>0, <2>1, <2>2, <2>3, QuietStep
<1>6. CASE Publish
  <2>1. mode' = mode /\ bus' = bus /\ early' = early /\ sending' = sending /\ count' = count
        /\ page' = [p \in Pages |-> [page[p] EXCEPT !.changed = Connected(page[p])]]
    BY <1>6 DEF Publish, logs
  <2>2. ASSUME NEW p \in Pages PROVE Page(page'[p]) /\ Told(page'[p], count.lines, sending)
    <3> DEFINE c == page[p]
               new == Connected(c)
               d == [c EXCEPT !.changed = new]
    <3>1. Page(c) /\ Told(c, count.lines, sending) /\ page'[p] = d
      BY <2>1 DEF Journals
    <3> HIDE DEF c, new
    <3>2. /\ DOMAIN d = Fields /\ d.inbox = c.inbox /\ d.since = c.since
          /\ d.journal = c.journal /\ d.lagged = c.lagged /\ d.link = c.link
      BY <3>1 DEF Page, Fields
    <3> HIDE DEF d
    <3> QED BY <3>1, <3>2, SameTold
  <2>3. page' = [p \in Pages |-> page'[p]]
    BY <2>1
  <2> QED BY <1>0, <2>1, <2>2, <2>3, QuietStep
<1>7. CASE Warn
  BY <1>0, <1>7, KeptStep DEF Warn, session
<1>8. CASE SendLine
  <2>1. PICK n \in sending : sending' = sending \ {n} /\ Broadcast(LogLine(n))
    BY <1>8 DEF SendLine
  <2>2. mode' = mode /\ bus' = bus /\ early' = early /\ count' = count
    BY <1>8 DEF SendLine, session
  <2>3. LogLine(n) \in Events /\ sending' \in SUBSET Nat
        /\ \A k \in sending : k \in sending' \/ LogLine(n) = LogLine(k)
    BY <1>0, <2>1, EventsAreEvents
  <2>4. Known(sending')
    BY <2>1, <2>3, BroadcastTold
  <2> QED BY <1>0, <2>2, <2>3, <2>4, QuietStep
<1> QED BY <1>1, <1>2, <1>3, <1>4, <1>5, <1>6, <1>7, <1>8
\* One page moves.
LEMMA TurnStep ==
  ASSUME Journals, NEW p \in Pages, NEW d, Page(d), Told(d, count.lines, sending), Turns(p, d),
         count' \in Counts, count'.lines = count.lines
  PROVE  Journals'
<1>1. /\ page' = [page EXCEPT ![p] = d] /\ early' = early /\ sending' = sending
      /\ bus' = bus /\ mode' = mode
  BY DEF Turns, session, logs
<1>2. /\ page = [q \in Pages |-> page[q]] /\ bus \in Seq(Ops) /\ mode \in {"edit", "show"}
      /\ sending \in SUBSET Nat /\ \A q \in Pages : Page(page[q]) /\ Told(page[q], count.lines, sending)
  BY DEF Journals
<1>3. page' = [q \in Pages |-> page'[q]] /\ \A q \in Pages : page'[q] = IF q = p THEN d ELSE page[q]
  BY <1>1, <1>2
<1>4. \A q \in Pages : Page(page'[q]) /\ Told(page'[q], count.lines, sending')
  BY <1>1, <1>2, <1>3
<1> QED BY <1>1, <1>2, <1>3, <1>4, QuietStep

\* A page that subscribes, or is greeted: it is not open yet.
LEMMA JoinStep ==
  ASSUME Journals, NEW p \in Pages, Subscribe(p) \/ Hello(p)
  PROVE  Journals'
<1> DEFINE c == page[p]
<1>1. Page(c) /\ count \in Counts
  BY DEF Journals
<1>2. CASE Subscribe(p)
  <2> DEFINE none == <<>>
             d == [c EXCEPT !.link = "subscribed", !.inbox = none, !.lagged = FALSE]
  <2>1. none \in Seq(Events) /\ Turns(p, d) /\ count' = count
    BY <1>2 DEF Subscribe
  <2> HIDE DEF c, none
  <2>2. Page(d) /\ d.link # "open"
    BY <1>1, <2>1 DEF Page, Fields
  <2> HIDE DEF d
  <2>3. Told(d, count.lines, sending)
    BY <2>2, NothingTold
  <2> QED BY <1>1, <2>1, <2>2, <2>3, TurnStep
<1>3. CASE Hello(p)
  <2> DEFINE same == published.show = show /\ c.inbox = <<>>
             d == [c EXCEPT !.link = "greeted", !.copy = published.show, !.mode = published.mode,
                            !.changed = FALSE, !.exact = same]
  <2>1. Turns(p, d) /\ count' = count
    BY <1>3 DEF Hello
  <2> HIDE DEF c, same
  <2>2. Page(d) /\ d.link # "open"
    BY <1>1 DEF Page, Fields
  <2> HIDE DEF d
  <2>3. Told(d, count.lines, sending)
    BY <2>2, NothingTold
  <2> QED BY <1>1, <2>1, <2>2, <2>3, TurnStep
<1> QED BY <1>2, <1>3

\* The ring has all the lines a page that opens must have.
LEMMA ReplayStep ==
  ASSUME Journals, NEW p \in Pages, Replay(p)
  PROVE  Journals'
<1> DEFINE c == page[p]
           first == Max({1, count.lines - EarlyCap + 1})
           journal == c.journal \cup ToSet(early)
           d == [c EXCEPT !.link = "open", !.journal = journal, !.since = first]
<1>1. Page(c) /\ count \in Counts /\ count.lines \in Nat /\ RingIsLast /\ EarlyCap \in Nat
  BY InterfaceAssumption DEF Journals, Counts
<1>2. Turns(p, d) /\ count' = count
  BY DEF Replay
<1>3. first \in Nat /\ first >= 1 /\ first >= count.lines - EarlyCap + 1
  <2> DEFINE n == count.lines - EarlyCap + 1
             S == {1, n}
  <2>1. n \in Int
    BY <1>1
  <2> HIDE DEF n
  <2>2. \E x \in S : \A y \in S : x >= y
    <3>1. CASE n >= 1
      BY <2>1, <3>1
    <3>2. CASE ~(n >= 1)
      BY <2>1, <3>2
    <3> QED BY <3>1, <3>2
  <2>3. Max(S) \in S /\ \A y \in S : Max(S) >= y
    BY <2>2 DEF Max
  <2>4. Max(S) \in Int /\ Max(S) >= 1 /\ Max(S) >= n
    BY <2>1, <2>3
  <2> QED BY <2>4 DEF n
<1>4. \A n \in first..count.lines : n \in journal
  <2> SUFFICES ASSUME NEW n \in first..count.lines PROVE n \in ToSet(early)
    OBVIOUS
  <2> DEFINE i == n - count.lines + Len(early)
  <2>0. Len(early) \in Nat /\ n \in Nat /\ 1 <= n /\ n <= count.lines /\ count.lines - EarlyCap + 1 <= n
    BY <1>1, <1>3 DEF RingIsLast
  <2>1. Len(early) = EarlyCap \/ Len(early) = count.lines
    BY <1>1 DEF RingIsLast
  <2>2. i \in 1..Len(early) /\ count.lines - Len(early) + i = n
    BY <1>1, <2>0, <2>1
  <2> HIDE DEF i
  <2>3. i \in DOMAIN early /\ early[i] = n
    BY <1>1, <2>2 DEF RingIsLast
  <2> QED BY <2>3 DEF ToSet
<1> HIDE DEF c, first, journal
<1>5. Page(d) /\ d.journal = journal /\ d.since = first
  BY <1>1, <1>3 DEF Page, Fields
<1> HIDE DEF d
<1>6. Told(d, count.lines, sending)
  BY <1>4, <1>5 DEF Told
<1> QED BY <1>1, <1>2, <1>5, <1>6, TurnStep

\* The socket of a page closes.
LEMMA ClosedFacts ==
  ASSUME NEW c, Page(c)
  PROVE  Page(Closed(c)) /\ Closed(c).link # "open"
<1> DEFINE none == <<>>
           d == [c EXCEPT !.link = "backoff", !.inbox = none, !.changed = FALSE, !.exact = FALSE, !.ping = FALSE]
<1>1. none \in Seq(Events) /\ Closed(c) = d
  BY DEF Closed
<1> HIDE DEF none
<1>2. Page(d) /\ d.link # "open"
  BY <1>1 DEF Page, Fields
<1> QED BY <1>1, <1>2

LEMMA PageStep ==
  ASSUME Journals, NEW p \in Pages, Relay(p) \/ Dyn(p) \/ Cut(p) \/ Restore(p) \/ Ping(p) \/ PongTimeout(p)
  PROVE  Journals'
<1> DEFINE c == page[p]
<1>1. Page(c) /\ Told(c, count.lines, sending) /\ count \in Counts /\ count.lines \in Nat
  BY DEF Journals, Counts
<1>2. CASE Relay(p)
  <2> DEFINE h == Heard([c EXCEPT !.inbox = Tail(@)], Head(c.inbox))
             d == CaughtUp(h)
  <2>1. c.link = "open" /\ c.inbox # <<>> /\ Turns(p, d) /\ count' = count
    BY <1>2 DEF Relay
  <2> HIDE DEF c
  <2>2. Page(h) /\ Told(h, count.lines, sending)
    BY <1>1, <2>1, HeardTold
  <2> HIDE DEF h
  <2>3. /\ DOMAIN d = Fields /\ d.inbox = h.inbox /\ d.since = h.since
        /\ d.journal = h.journal /\ d.lagged = h.lagged /\ d.link = h.link
    BY <2>2 DEF CaughtUp, Page, Fields
  <2> HIDE DEF d
  <2>4. Page(d) /\ Told(d, count.lines, sending)
    BY <2>2, <2>3, SameTold
  <2> QED BY <1>1, <2>1, <2>4, TurnStep
<1>3. CASE Dyn(p)
  <2> DEFINE d == [c EXCEPT !.changed = FALSE, !.mode = published.mode]
  <2>1. Turns(p, d) /\ count' = count
    BY <1>3 DEF Dyn
  <2> HIDE DEF c
  <2>2. /\ DOMAIN d = Fields /\ d.inbox = c.inbox /\ d.since = c.since
        /\ d.journal = c.journal /\ d.lagged = c.lagged /\ d.link = c.link
    BY <1>1 DEF Page, Fields
  <2> HIDE DEF d
  <2>3. Page(d) /\ Told(d, count.lines, sending)
    BY <1>1, <2>2, SameTold
  <2> QED BY <1>1, <2>1, <2>3, TurnStep
<1>4. CASE Cut(p)
  <2> DEFINE d == [c EXCEPT !.cut = TRUE]
  <2>1. Turns(p, d) /\ count' \in Counts /\ count'.lines = count.lines
    BY <1>1, <1>4, CountedOne DEF Cut
  <2> HIDE DEF c
  <2>2. /\ DOMAIN d = Fields /\ d.inbox = c.inbox /\ d.since = c.since
        /\ d.journal = c.journal /\ d.lagged = c.lagged /\ d.link = c.link
    BY <1>1 DEF Page, Fields
  <2> HIDE DEF d
  <2>3. Page(d) /\ Told(d, count.lines, sending)
    BY <1>1, <2>2, SameTold
  <2> QED BY <1>1, <2>1, <2>3, TurnStep
<1>5. CASE Restore(p)
  <2> DEFINE d == [c EXCEPT !.cut = FALSE, !.ping = FALSE]
  <2>1. Turns(p, d) /\ count' = count
    BY <1>5 DEF Restore
  <2> HIDE DEF c
  <2>2. /\ DOMAIN d = Fields /\ d.inbox = c.inbox /\ d.since = c.since
        /\ d.journal = c.journal /\ d.lagged = c.lagged /\ d.link = c.link
    BY <1>1 DEF Page, Fields
  <2> HIDE DEF d
  <2>3. Page(d) /\ Told(d, count.lines, sending)
    BY <1>1, <2>2, SameTold
  <2> QED BY <1>1, <2>1, <2>3, TurnStep
<1>6. CASE Ping(p)
  <2> DEFINE d == [c EXCEPT !.ping = c.cut]
  <2>1. Turns(p, d) /\ count' = count
    BY <1>6 DEF Ping, Pinged
  <2> HIDE DEF c
  <2>2. /\ DOMAIN d = Fields /\ d.inbox = c.inbox /\ d.since = c.since
        /\ d.journal = c.journal /\ d.lagged = c.lagged /\ d.link = c.link
    BY <1>1 DEF Page, Fields
  <2> HIDE DEF d
  <2>3. Page(d) /\ Told(d, count.lines, sending)
    BY <1>1, <2>2, SameTold
  <2> QED BY <1>1, <2>1, <2>3, TurnStep
<1>7. CASE PongTimeout(p)
  <2> DEFINE d == Closed(c)
  <2>1. Turns(p, d) /\ count' = count
    BY <1>7 DEF PongTimeout
  <2> HIDE DEF c
  <2>2. Page(d) /\ d.link # "open"
    BY <1>1, ClosedFacts
  <2> HIDE DEF d
  <2>3. Told(d, count.lines, sending)
    BY <2>2, NothingTold
  <2> QED BY <1>1, <2>1, <2>2, <2>3, TurnStep
<1> QED BY <1>2, <1>3, <1>4, <1>5, <1>6, <1>7

LEMMA SentStep ==
  ASSUME Journals, Sent
  PROVE  Journals'
<1>1. /\ count \in Counts /\ bus \in Seq(Ops) /\ Counted("edits", MaxEdits)
      /\ mode' = mode /\ early' = early /\ sending' = sending /\ page' = page
  BY DEF Sent, Journals, logs
<1>2. PICK op \in Ops : bus' = IF Len(bus) < BusCap THEN Append(bus, op) ELSE bus
  BY DEF Sent
<1>3. bus' \in Seq(Ops)
  BY <1>1, <1>2
<1>4. count' \in Counts /\ count'.lines = count.lines
  BY <1>1, CountedOne
<1> QED BY <1>1, <1>3, <1>4, QuietStep DEF Journals

LEMMA GestureStep ==
  ASSUME Journals, NEW p \in Pages, Gesture(p)
  PROVE  Journals'
<1>1. PICK op \in Gestures :
        /\ page' = [page EXCEPT ![p].copy = ApplyOp(op, @), ![p].exact = FALSE]
        /\ bus' = bus \/ bus' = Append(bus, op)
  BY DEF Gesture
<1>2. /\ bus \in Seq(Ops) /\ mode' = mode /\ mode \in {"edit", "show"} /\ early' = early
      /\ sending' = sending /\ sending \in SUBSET Nat /\ count \in Counts /\ op \in Ops
      /\ Counted("edits", MaxEdits)
      /\ page = [q \in Pages |-> page[q]]
      /\ \A q \in Pages : Page(page[q]) /\ Told(page[q], count.lines, sending)
  BY InterfaceAssumption DEF Gesture, Journals, logs
<1> DEFINE c == page[p]
           new == ApplyOp(op, c.copy)
           d == [c EXCEPT !.copy = new, !.exact = FALSE]
<1>3. bus' \in Seq(Ops)
  BY <1>1, <1>2
<1>4. count' \in Counts /\ count'.lines = count.lines
  BY <1>2, CountedOne
<1>5. page' = [q \in Pages |-> IF q = p THEN d ELSE page[q]]
  BY <1>1, <1>2
<1> HIDE DEF new
<1>6. Page(d) /\ Told(d, count.lines, sending)
  <2>1. Page(c) /\ Told(c, count.lines, sending)
    BY <1>2
  <2> HIDE DEF c
  <2>2. /\ DOMAIN d = Fields /\ d.inbox = c.inbox /\ d.since = c.since
        /\ d.journal = c.journal /\ d.lagged = c.lagged /\ d.link = c.link
    BY <2>1 DEF Page, Fields
  <2> HIDE DEF d
  <2> QED BY <2>1, <2>2, SameTold
<1> HIDE DEF d
<1>7. /\ page' = [q \in Pages |-> page'[q]]
      /\ \A q \in Pages : Page(page'[q]) /\ Told(page'[q], count.lines, sending')
  BY <1>2, <1>5, <1>6
<1> QED BY <1>2, <1>3, <1>4, <1>7, QuietStep

LEMMA JournalsInit == Init => Journals
<1> SUFFICES ASSUME Init PROVE Journals
  OBVIOUS
<1> DEFINE none == <<>>
<1>1. none \in Seq(Nat) /\ none \in Seq(Ops) /\ none \in Seq(Events) /\ Len(none) = 0 /\ DOMAIN none = {}
  OBVIOUS
<1>2. count = [edits |-> 0, loads |-> 0, lines |-> 0, cuts |-> 0] /\ mode = "edit"
      /\ bus = none /\ early = none /\ sending = {} /\ page = [p \in Pages |-> Away]
  BY DEF Init
<1>3. DOMAIN Away = Fields /\ Away.inbox = none /\ Away.since = 1 /\ Away.link = "off"
  BY DEF Away, Fields
<1> HIDE DEF none
<1>4. Page(Away) /\ Told(Away, count.lines, sending)
  BY <1>1, <1>3 DEF Page, Told
<1>5. count \in Counts /\ count.lines = 0
  BY <1>2 DEF Counts
<1>6. RingIsLast
  BY <1>1, <1>2, <1>5, InterfaceAssumption DEF RingIsLast
<1> QED BY <1>1, <1>2, <1>4, <1>5, <1>6 DEF Journals

LEMMA JournalsStep == Journals /\ [Next]_vars => Journals'
<1> SUFFICES ASSUME Journals, [Next]_vars PROVE Journals'
  OBVIOUS
<1>1. CASE SendElsewhere
  BY <1>1, SentStep DEF SendElsewhere
<1>2. CASE Apply \/ Refuse \/ Load \/ ModFrequency \/ ModeSet \/ Publish \/ Warn \/ SendLine
  BY <1>2, SessionStep
<1>3. ASSUME NEW p \in Pages, Subscribe(p) \/ Hello(p) PROVE Journals'
  BY <1>3, JoinStep
<1>4. ASSUME NEW p \in Pages, Replay(p) PROVE Journals'
  BY <1>4, ReplayStep
<1>5. ASSUME NEW p \in Pages, Relay(p) \/ Dyn(p) \/ Cut(p) \/ Restore(p) \/ Ping(p) \/ PongTimeout(p)
      PROVE  Journals'
  BY <1>5, PageStep
<1>6. ASSUME NEW p \in Pages, SendEdit(p) PROVE Journals'
  BY <1>6, SentStep DEF SendEdit
<1>7. CASE UNCHANGED vars
  BY <1>7 DEF vars, Journals, RingIsLast
<1>8. ASSUME NEW p \in Pages, Gesture(p) PROVE Journals'
  BY <1>8, GestureStep
<1> QED BY <1>1, <1>2, <1>3, <1>4, <1>5, <1>6, <1>7, <1>8 DEF Next

\* No warning falls between the ring and the broadcast, whatever the threads
\* that write, the connections that come and the size of the ring: a line is
\* kept before it is sent, and a connection subscribes before it reads the
\* ring (UiLogLayer, handle_ws).
THEOREM WarningsReachPages == Spec => []NoWarningMissed
<1>1. Journals => NoWarningMissed
  BY DEF Journals, Told, NoWarningMissed
<1> QED BY <1>1, JournalsInit, JournalsStep, PTL DEF Spec

----------------------------------------------------------------------------
(* The page applies an edit as the engine does.                            *)

IsList(l) == \E S : l \in Seq(S)

\* The cues of a show are in the order of their numbers.
Sorted(cues) ==
  \A i \in DOMAIN cues :
    cues[i].number \in Int /\ \A j \in DOMAIN cues : i < j => cues[i].number < cues[j].number

\* An edit that EditOp can hold, of a show of which the lists are lists.
Fits(op, s) ==
  /\ s = [f \in DOMAIN s |-> s[f]] /\ op.at \in DOMAIN s
  /\ op.op # "set" => IsList(s[op.at])
  /\ op.op = "state" => \A i \in DOMAIN s[op.at] : IsList(s[op.at][i].states)
  /\ op.op = "add" /\ op.at = "cues" => op.item.number \in Int /\ Sorted(s.cues)

LEMMA Least ==
  ASSUME NEW S \in SUBSET Nat, S # {}
  PROVE  \E x \in S : \A y \in S : x <= y
<1> DEFINE Below == OpToRel(<, Nat)
<1>1. \A x, y \in Nat : y < x => <<y, x>> \in Below
  BY DEF OpToRel
<1>2. IsWellFoundedOn(Below, Nat)
  BY NatLessThanWellFounded
<1> HIDE DEF Below
<1>3. PICK x \in S : \A y \in S : ~(<<y, x>> \in Below)
  BY <1>2, WFMin
<1>4. ASSUME NEW y \in S PROVE x <= y
  <2>1. x \in Nat /\ y \in Nat
    OBVIOUS
  <2>2. ~(y < x)
    BY <1>1, <1>3, <2>1
  <2> QED BY <2>1, <2>2
<1> QED BY <1>4

\* The least place of a set, as the page and as the engine find it.
LEMMA MinIsLeast ==
  ASSUME NEW S \in SUBSET Nat, S # {}
  PROVE  /\ Min(S) \in S /\ \A y \in S : Min(S) <= y
         /\ E!Min(S) = Min(S)
<1>1. Min(S) \in S /\ \A y \in S : Min(S) <= y
  BY Least, Zenon DEF Min
<1>2. E!Min(S) \in S /\ \A y \in S : E!Min(S) <= y
  BY Least, Zenon DEF E!Min
<1> DEFINE a == Min(S)
           b == E!Min(S)
<1> HIDE DEF a, b
<1>3. a \in Nat /\ b \in Nat /\ a <= b /\ b <= a
  BY <1>1, <1>2 DEF a, b
<1>4. a = b
  BY <1>3
<1> QED BY <1>1, <1>4 DEF a, b

\* find() of the page and of the engine find the same item of a list.
LEMMA FindsTheSame ==
  ASSUME NEW list, IsList(list), NEW at, NEW n
  PROVE  /\ Found(list, at, n) = {} => E!Place(at, list, n) = 0
         /\ Found(list, at, n) # {} =>
              /\ E!Place(at, list, n) = FirstFound(list, at, n)
              /\ FirstFound(list, at, n) \in DOMAIN list
              /\ E!Place(at, list, n) # 0
<1> DEFINE I == {i \in 1..Len(list) : E!NumberOf(at, list[i]) = n}
<1>1. DOMAIN list = 1..Len(list) /\ Len(list) \in Nat
  BY DEF IsList
<1>2. Found(list, at, n) = I
  BY <1>1 DEF Found
<1>3. E!Place(at, list, n) = IF I # {} THEN E!Min(I) ELSE 0
  BY DEF E!Place, E!SelectInSeq
<1>4. I \in SUBSET Nat
  BY <1>1
<1>5. \A i \in I : i \in 1..Len(list)
  OBVIOUS
<1> HIDE DEF I
<1>6. CASE I = {}
  BY <1>2, <1>3, <1>6
<1>7. CASE I # {}
  <2>1. Min(I) \in I /\ E!Min(I) = Min(I)
    BY <1>4, <1>7, MinIsLeast
  <2>2. FirstFound(list, at, n) = Min(I)
    BY <1>2 DEF FirstFound
  <2>3. Min(I) \in 1..Len(list) /\ Min(I) # 0
    BY <1>1, <1>5, <2>1
  <2> QED BY <1>1, <1>2, <1>3, <1>7, <2>1, <2>2, <2>3
<1> QED BY <1>6, <1>7

\* findIndex() and find(): the same state of a cue is replaced.
LEMMA SameState ==
  ASSUME NEW cue, NEW state, IsList(cue.states)
  PROVE  E!StatePut(cue, state) = [cue EXCEPT !.states = StateSet(@, state)]
<1> DEFINE states == cue.states
           I == {i \in 1..Len(states) : states[i].slice = state.slice}
           at == E!SelectInSeq(states, LAMBDA s : s.slice = state.slice)
<1>1. DOMAIN states = 1..Len(states) /\ Len(states) \in Nat
  BY DEF IsList
<1>2. E!SelectInSeq(states, LAMBDA s : s.slice = state.slice) = IF I # {} THEN E!Min(I) ELSE 0
  BY DEF E!SelectInSeq
<1>3. StateSet(states, state) = IF I = {} THEN Append(states, state) ELSE [states EXCEPT ![Min(I)] = state]
  BY <1>1 DEF StateSet
<1>4. I \in SUBSET Nat /\ \A i \in I : i \in DOMAIN states /\ i # 0
  BY <1>1
<1>5. E!StatePut(cue, state) =
        [cue EXCEPT !.states = IF (IF I # {} THEN E!Min(I) ELSE 0) = 0 THEN Append(@, state)
                               ELSE E!Put(@, IF I # {} THEN E!Min(I) ELSE 0, state)]
  BY <1>2 DEF E!StatePut
<1> HIDE DEF I
<1>6. CASE I = {}
  BY <1>3, <1>5, <1>6 DEF states
<1>7. CASE I # {}
  <2>1. Min(I) \in I /\ E!Min(I) = Min(I)
    BY <1>4, <1>7, MinIsLeast
  <2>2. Min(I) \in DOMAIN states /\ Min(I) # 0
    BY <1>4, <2>1
  <2>3. E!Put(states, Min(I), state) = [states EXCEPT ![Min(I)] = state]
    BY <2>2 DEF E!Put
  <2> QED BY <1>3, <1>5, <1>7, <2>1, <2>2, <2>3
<1> QED BY <1>6, <1>7

\* findIndex() of the page and binary_search_by of the engine put a cue at the
\* same place of a list that is sorted.
LEMMA SamePlace ==
  ASSUME NEW cues, IsList(cues), Sorted(cues), NEW cue, cue.number \in Int
  PROVE  CueInserted(cues, cue) = E!CueAdded(cues, cue)
<1> DEFINE n == cue.number
           num(i) == cues[i].number
           later == {i \in DOMAIN cues : num(i) >= n}
           same == {i \in DOMAIN cues : num(i) = n}
           Cuts(i) == \A j \in DOMAIN cues : j < i <=> num(j) < n
           place == CHOOSE i \in 1..(Len(cues) + 1) : Cuts(i)
           k == Min(later)
<1>1. DOMAIN cues = 1..Len(cues) /\ Len(cues) \in Nat
  BY DEF IsList
<1>2. CueInserted(cues, cue) =
        IF later = {} THEN Append(cues, cue)
        ELSE IF num(k) = n THEN [cues EXCEPT ![k] = cue]
        ELSE SubSeq(cues, 1, k - 1) \o <<cue>> \o SubSeq(cues, k, Len(cues))
  BY DEF CueInserted
<1>3. E!CueAdded(cues, cue) =
        IF same # {} THEN E!Put(cues, CHOOSE i \in same : TRUE, cue)
        ELSE E!InsertAt(cues, place, cue)
  BY DEF E!CueAdded
<1>4. \A i \in DOMAIN cues : num(i) \in Int /\ \A j \in DOMAIN cues : i < j => num(i) < num(j)
  BY DEF Sorted
<1>5. later \in SUBSET Nat /\ n \in Int
  BY <1>1
<1>6. \A i : (i \in later <=> i \in DOMAIN cues /\ num(i) >= n)
             /\ (i \in same <=> i \in DOMAIN cues /\ num(i) = n)
  OBVIOUS
<1>7. \A i \in 1..(Len(cues) + 1) : Cuts(i) => place = i
  <2>1. SUFFICES ASSUME NEW i \in 1..(Len(cues) + 1), Cuts(i) PROVE place = i
    OBVIOUS
  <2>2. place \in 1..(Len(cues) + 1) /\ Cuts(place)
    BY <2>1
  <2> HIDE DEF place, num, n
  <2>3. place \in Int /\ i \in Int
    BY <1>1, <2>2
  <2>4. ASSUME i < place PROVE FALSE
    <3>1. i \in DOMAIN cues
      BY <1>1, <2>2, <2>4
    <3> QED BY <2>1, <2>2, <2>3, <2>4, <3>1
  <2>5. ASSUME place < i PROVE FALSE
    <3>1. place \in DOMAIN cues
      BY <1>1, <2>1, <2>2, <2>5
    <3> QED BY <2>1, <2>2, <2>3, <2>5, <3>1
  <2> QED BY <2>3, <2>4, <2>5
<1> HIDE DEF num, n, later, same, place
<1>8. CASE later = {}
  <2>1. same = {}
    BY <1>4, <1>5, <1>6, <1>8
  <2> DEFINE l == Len(cues)
  <2>2. Cuts(l + 1)
    BY <1>1, <1>4, <1>5, <1>6, <1>8
  <2>3. place = l + 1 /\ l + 1 - 1 = l
    BY <1>1, <1>7, <2>2
  <2>4. SubSeq(cues, 1, l) \o <<cue>> \o SubSeq(cues, l + 1, l) = Append(cues, cue)
    <3>1. PICK S : cues \in Seq(S)
      BY DEF IsList
    <3>2. cues \in Seq(S \cup {cue}) /\ cue \in S \cup {cue}
      BY <3>1
    <3>3. SubSeq(cues, 1, l) = cues /\ SubSeq(cues, l + 1, l) = <<>>
      BY <1>1, <3>1
    <3>4. cues \o <<cue>> = Append(cues, cue)
      BY <3>2
    <3>5. cues \o <<cue>> \in Seq(S \cup {cue})
      BY <3>2
    <3>6. cues \o <<cue>> \o <<>> = cues \o <<cue>>
      BY <3>5
    <3> QED BY <3>3, <3>4, <3>6
  <2>5. E!InsertAt(cues, l + 1, cue) = SubSeq(cues, 1, l + 1 - 1) \o <<cue>> \o SubSeq(cues, l + 1, l)
    BY DEF E!InsertAt
  <2>6. E!CueAdded(cues, cue) = E!InsertAt(cues, l + 1, cue)
    BY <1>3, <2>1, <2>3
  <2>7. CueInserted(cues, cue) = Append(cues, cue)
    BY <1>2, <1>8
  <2> DEFINE most == SubSeq(cues, l + 1, l)
  <2> HIDE DEF l, most
  <2>8. E!InsertAt(cues, l + 1, cue) = Append(cues, cue)
    BY <2>3, <2>4, <2>5
  <2> QED BY <2>6, <2>7, <2>8
<1>9. CASE later # {}
  <2>1. k \in later /\ \A j \in later : k <= j
    BY <1>5, <1>9, MinIsLeast
  <2> HIDE DEF k
  <2>2. k \in 1..Len(cues) /\ num(k) >= n
    BY <1>1, <1>6, <2>1
  <2>3. \A j \in DOMAIN cues : j < k => num(j) < n
    BY <1>1, <1>4, <1>5, <1>6, <2>1, <2>2
  <2>4. CASE num(k) = n
    <3>1. same = {k}
      BY <1>1, <1>4, <1>5, <1>6, <2>2, <2>3, <2>4
    <3>2. (CHOOSE i \in same : TRUE) = k
      BY <3>1
    <3>3. E!Put(cues, k, cue) = [cues EXCEPT ![k] = cue]
      BY <1>1, <2>2 DEF E!Put
    <3> QED BY <1>2, <1>3, <1>9, <2>4, <3>1, <3>2, <3>3
  <2>5. CASE num(k) # n
    <3>1. same = {}
      BY <1>1, <1>4, <1>5, <1>6, <2>2, <2>3, <2>5
    <3>2. Cuts(k)
      BY <1>1, <1>4, <1>5, <1>6, <2>2, <2>3
    <3>3. place = k
      BY <1>1, <1>7, <2>2, <3>2
    <3>4. E!InsertAt(cues, place, cue) = SubSeq(cues, 1, place - 1) \o <<cue>> \o SubSeq(cues, place, Len(cues))
      BY DEF E!InsertAt
    <3> QED BY <1>2, <1>3, <1>9, <2>5, <3>1, <3>3, <3>4
  <2> QED BY <2>4, <2>5
<1> QED BY <1>8, <1>9

\* applyOp (app.js) does to a copy of the show what EditOp::apply (command.rs) does to
\* the show, although one looks for the first cue that is not before a new one and the
\* other searches by halves: an edit gives both the same show, while the cues are in order.
THEOREM PageAppliesAsEngine ==
  ASSUME NEW op, NEW s, Fits(op, s)
  PROVE  ApplyOp(op, s) = E!Applied(op, s)
<1> DEFINE at == op.at
           list == s[at]
           here == Found(list, at, op.number)
           i == FirstFound(list, at, op.number)
           place == E!Place(at, list, op.number)
<1>1. s = [f \in DOMAIN s |-> s[f]] /\ at \in DOMAIN s
  BY DEF Fits
<1>2. op.op # "set" => /\ here = {} => place = 0
                       /\ here # {} => place = i /\ i \in DOMAIN list /\ place # 0
  BY FindsTheSame DEF Fits
<1>3. op.op # "set" => DOMAIN list = 1..Len(list) /\ list = [j \in DOMAIN list |-> list[j]]
  BY DEF Fits, IsList
<1>4. CASE op.op = "add" /\ at = "cues"
  <2>1. CueInserted(list, op.item) = E!CueAdded(list, op.item)
    BY <1>4, SamePlace DEF Fits
  <2>2. ApplyOp(op, s) = [s EXCEPT !.cues = CueInserted(@, op.item)]
    BY <1>4 DEF ApplyOp
  <2>3. E!Applied(op, s) = [s EXCEPT ![at] = E!CueAdded(@, op.item)]
    BY <1>4 DEF E!Applied
  <2> QED BY <1>4, <2>1, <2>2, <2>3
<1>5. CASE op.op = "add" /\ at # "cues"
  BY <1>5 DEF ApplyOp, E!Applied
<1>6. CASE op.op = "remove"
  BY <1>6 DEF ApplyOp, E!Applied
<1>7. CASE op.op = "update"
  <2>1. ApplyOp(op, s) = IF here # {} THEN [s EXCEPT ![at] = [s[at] EXCEPT ![i] = op.item]] ELSE s
    BY <1>7 DEF ApplyOp
  <2>2. E!Applied(op, s) = IF place # 0 THEN [s EXCEPT ![at] = [s[at] EXCEPT ![place] = op.item]] ELSE s
    BY <1>7 DEF E!Applied
  <2> HIDE DEF here, i, place
  <2>3. CASE here = {}
    BY <1>2, <1>7, <2>1, <2>2, <2>3
  <2>4. CASE here # {}
    BY <1>2, <1>7, <2>1, <2>2, <2>4
  <2> QED BY <2>3, <2>4
<1>8. CASE op.op = "corner"
  <2> DEFINE Moved(j) == [s EXCEPT ![at] = [s[at] EXCEPT ![j] = [s[at][j] EXCEPT !.corners = [s[at][j].corners EXCEPT ![op.index] = op.item]]]]
             Has(j) == op.index \in DOMAIN list[j].corners
  <2>1. ApplyOp(op, s) = IF here # {} /\ Has(i) THEN Moved(i) ELSE s
    BY <1>8 DEF ApplyOp
  <2>2. E!Applied(op, s) = IF place # 0 /\ Has(place) THEN Moved(place) ELSE s
    BY <1>8 DEF E!Applied
  <2> HIDE DEF here, i, place, Moved, Has
  <2>3. CASE here = {}
    BY <1>2, <1>8, <2>1, <2>2, <2>3
  <2>4. CASE here # {}
    <3>1. place = i /\ place # 0
      BY <1>2, <1>8, <2>4
    <3>2. ApplyOp(op, s) = IF Has(i) THEN Moved(i) ELSE s
      BY <2>1, <2>4
    <3>3. E!Applied(op, s) = IF Has(i) THEN Moved(i) ELSE s
      BY <2>2, <3>1
    <3> QED BY <3>2, <3>3
  <2> QED BY <2>3, <2>4
<1>9. CASE op.op = "state"
  <2>1. ApplyOp(op, s) =
          IF here # {} THEN [s EXCEPT ![at] = [list EXCEPT ![i] = [list[i] EXCEPT !.states = StateSet(@, op.item)]]] ELSE s
    BY <1>9 DEF ApplyOp
  <2>2. E!Applied(op, s) =
          IF place # 0 THEN [s EXCEPT ![at] = [list EXCEPT ![place] = E!StatePut(list[place], op.item)]] ELSE s
    BY <1>9 DEF E!Applied
  <2>3. \A j \in DOMAIN list : E!StatePut(list[j], op.item) = [list[j] EXCEPT !.states = StateSet(@, op.item)]
    BY <1>9, SameState DEF Fits
  <2> HIDE DEF here, i, place
  <2>4. CASE here = {}
    BY <1>2, <1>9, <2>1, <2>2, <2>4
  <2>5. CASE here # {}
    BY <1>2, <1>9, <2>1, <2>2, <2>3, <2>5
  <2> QED BY <2>4, <2>5
<1>10. CASE op.op = "remove_at"
  <2>1. ApplyOp(op, s) = [s EXCEPT ![at] = Spliced(@, op.number)]
    BY <1>10 DEF ApplyOp
  <2>2. E!Applied(op, s) = IF op.number \in DOMAIN list THEN [s EXCEPT ![at] = E!RemoveAt(@, op.number)] ELSE s
    BY <1>10 DEF E!Applied
  <2>3. Spliced(list, op.number) = IF op.number \in DOMAIN list THEN E!RemoveAt(list, op.number) ELSE list
    BY DEF Spliced, RemoveAt, E!RemoveAt
  <2> QED BY <1>1, <2>1, <2>2, <2>3
<1>11. CASE op.op = "update_at"
  <2>1. ApplyOp(op, s) = IF op.number \in DOMAIN list THEN [s EXCEPT ![at][op.number] = op.item] ELSE s
    BY <1>11 DEF ApplyOp
  <2>2. E!Applied(op, s) = [s EXCEPT ![at] = E!Put(@, op.number, op.item)]
    BY <1>11 DEF E!Applied
  <2>3. E!Put(list, op.number, op.item) =
          IF op.number \in DOMAIN list THEN [list EXCEPT ![op.number] = op.item] ELSE list
    BY DEF E!Put
  <2> QED BY <1>1, <2>1, <2>2, <2>3
<1>12. CASE op.op = "set"
  BY <1>12 DEF ApplyOp, E!Applied
<1>13. CASE op.op \notin {"add", "remove", "update", "corner", "state", "remove_at", "update_at", "set"}
  BY <1>13 DEF ApplyOp, E!Applied
<1> QED BY <1>4, <1>5, <1>6, <1>7, <1>8, <1>9, <1>10, <1>11, <1>12, <1>13

----------------------------------------------------------------------------
(* The shows of given types, and the edits that EditOp can hold.           *)

\* Item: what each list of a show is a list of.  Value: what its other fields
\* may be.  The cues are in order.
ShowsOf(Item, Value) ==
  LET Kind == [f \in DOMAIN Item \cup DOMAIN Value |->
                 IF f \in DOMAIN Item THEN Seq(Item[f]) ELSE Value[f]]
  IN  {s \in [DOMAIN Kind -> UNION {Kind[f] : f \in DOMAIN Kind}] :
         /\ \A f \in DOMAIN Kind : s[f] \in Kind[f]
         /\ "cues" \in DOMAIN Item => Sorted(s.cues)}

\* A field is a list or a value, and a cue has a number.
Typed(Item, Value) ==
  /\ DOMAIN Item \cap DOMAIN Value = {}
  /\ "cues" \in DOMAIN Item =>
       \A c \in Item["cues"] : "number" \in DOMAIN c /\ c.number \in Int

\* What an edit holds is of the type of what it replaces; an update is found by the
\* number of the item it puts, and cues are edited by number only.
EditOf(op, Item, Value) ==
  /\ op.op = "set" => op.at \in DOMAIN Value /\ op.item \in Value[op.at]
  /\ op.op # "set" => op.at \in DOMAIN Item
  /\ op.op \in {"add", "update", "update_at"} => op.item \in Item[op.at]
  /\ op.op = "update" => E!NumberOf(op.at, op.item) = op.number
  /\ op.op = "corner" =>
       \A x \in Item[op.at] : op.index \in DOMAIN x.corners =>
         [x EXCEPT !.corners[op.index] = op.item] \in Item[op.at]
  /\ op.op = "state" =>
       \E S : /\ op.item \in S
              /\ \A x \in Item[op.at] : /\ x.states \in Seq(S)
                                        /\ \A l \in Seq(S) : [x EXCEPT !.states = l] \in Item[op.at]
  /\ op.op \in {"remove_at", "update_at", "corner"} => op.at # "cues"

LEMMA AppendedInOrder ==
  ASSUME NEW D, NEW cues \in Seq(D), Sorted(cues),
         NEW cue, cue.number \in Int, \A x \in D : x.number < cue.number
  PROVE  Sorted(Append(cues, cue))
<1> DEFINE d == Append(cues, cue)
           l == Len(cues)
<1>1. /\ l \in Nat /\ DOMAIN cues = 1..l /\ DOMAIN d = 1..(l + 1)
      /\ d[l + 1] = cue /\ \A j \in 1..l : d[j] = cues[j] /\ cues[j] \in D
  OBVIOUS
<1>2. \A j \in 1..l : cues[j].number < cue.number
  BY <1>1
<1>3. \A i \in 1..l : cues[i].number \in Int /\ \A j \in 1..l : i < j => cues[i].number < cues[j].number
  BY <1>1 DEF Sorted
<1> HIDE DEF d, l
<1>4. ASSUME NEW i \in DOMAIN d
      PROVE  d[i].number \in Int /\ \A j \in DOMAIN d : i < j => d[i].number < d[j].number
  <2>1. CASE i = l + 1
    BY <1>1, <2>1
  <2>2. CASE i \in 1..l
    <3>1. d[i] = cues[i] /\ cues[i].number \in Int
      BY <1>1, <1>3, <2>2
    <3>2. ASSUME NEW j \in 1..l, i < j PROVE d[i].number < d[j].number
      BY <1>1, <1>3, <2>2, <3>2
    <3>3. ASSUME NEW j \in DOMAIN d, i < j PROVE d[i].number < d[j].number
      <4>1. CASE j \in 1..l
        BY <3>2, <3>3, <4>1
      <4>2. CASE j = l + 1
        BY <1>1, <1>2, <2>2, <4>2
      <4> QED BY <1>1, <4>1, <4>2
    <3> QED BY <3>1, <3>3
  <2> QED BY <1>1, <2>1, <2>2
<1>5. Sorted(d)
  BY <1>4 DEF Sorted
<1> QED BY <1>5 DEF d

\* What retain leaves of a list is a list of its items, and in order if it was.
LEMMA WithoutIs ==
  ASSUME NEW S, NEW list \in Seq(S), NEW at, NEW number
  PROVE  /\ E!Without(at, list, number) \in Seq(S)
         /\ Sorted(list) => Sorted(E!Without(at, list, number))
<1> DEFINE n == Len(list)
           C == [i \in 0..n |-> {c \in Seq({list[j] : j \in 1..i}) : Sorted(list) => Sorted(c)}]
           Next1(f, i) == IF E!NumberOf(at, list[i]) = number THEN f[i - 1] ELSE Append(f[i - 1], list[i])
           Body(f, m) == [i \in 0..m |-> IF i = 0 THEN <<>> ELSE Next1(f, i)]
           Ok(m) == \E f : f = Body(f, m) /\ \A i \in 0..m : f[i] \in C[i]
           Bad == {m \in 0..n : ~Ok(m)}
<1>1. n \in Nat /\ \A i \in 1..n : list[i] \in S
  OBVIOUS
<1>2. ASSUME NEW i \in 1..n, NEW c \in C[i - 1] PROVE Append(c, list[i]) \in C[i] /\ c \in C[i]
  <2> DEFINE D == {list[j] : j \in 1..(i - 1)}
             F == {list[j] : j \in 1..i}
             d == Append(c, list[i])
  <2>1. i - 1 \in 0..n /\ i \in 0..n
    BY <1>1
  <2>2. c \in Seq(D) /\ (Sorted(list) => Sorted(c))
    BY <1>2, <2>1
  <2>3. D \subseteq F /\ list[i] \in F
    BY <1>1
  <2> HIDE DEF F
  <2>4. c \in Seq(F)
    BY <2>2, <2>3, SeqMonotonic
  <2>5. d \in Seq(F)
    BY <2>3, <2>4
  <2>6. ASSUME Sorted(list) PROVE Sorted(d)
    <3>1. DOMAIN list = 1..n /\ \A j \in 1..(i - 1) : j \in 1..n /\ j < i
      BY <1>1
    <3>2. \A j \in 1..(i - 1) : list[j].number < list[i].number
      BY <2>6, <3>1 DEF Sorted
    <3>3. list[i].number \in Int /\ Sorted(c)
      BY <2>2, <2>6, <3>1 DEF Sorted
    <3>4. \A x \in D : x.number < list[i].number
      BY <3>2
    <3> HIDE DEF D, n
    <3> QED BY <2>2, <3>3, <3>4, AppendedInOrder
  <2> QED BY <2>1, <2>2, <2>4, <2>5, <2>6 DEF F
<1>3. <<>> \in C[0]
  BY <1>1 DEF Sorted
<1> HIDE DEF C
<1>4. Ok(0)
  <2> DEFINE f == [i \in 0..0 |-> <<>>]
  <2>1. f = Body(f, 0) /\ \A i \in 0..0 : f[i] \in C[i]
    BY <1>3
  <2> QED BY <2>1
<1>5. ASSUME NEW m \in Nat, m < n, Ok(m) PROVE Ok(m + 1)
  <2>1. PICK f : f = Body(f, m) /\ \A i \in 0..m : f[i] \in C[i]
    BY <1>5
  <2> DEFINE last == Next1(f, m + 1)
             g == [i \in 0..(m + 1) |-> IF i \in 0..m THEN f[i] ELSE last]
  <2>2. m + 1 \in 1..n /\ m \in 0..m /\ (m + 1) - 1 = m /\ f[m] \in C[m]
    BY <1>1, <1>5, <2>1
  <2>3. last \in C[m + 1]
    BY <1>2, <2>2
  <2>4. \A i \in 0..(m + 1) : g[i] \in C[i]
    <3> HIDE DEF last
    <3>1. \A i \in 0..(m + 1) : i \in 0..m \/ i = m + 1
      BY <1>5
    <3>2. m + 1 \notin 0..m
      BY <1>5
    <3> QED BY <2>1, <2>3, <3>1, <3>2
  <2>5. ASSUME NEW i \in 0..(m + 1) PROVE g[i] = IF i = 0 THEN <<>> ELSE Next1(g, i)
    <3>1. CASE i \in 0..m
      <4>1. f[i] = IF i = 0 THEN <<>> ELSE Next1(f, i)
        BY <2>1, <3>1
      <4>2. i # 0 => i - 1 \in 0..m /\ i - 1 \in 0..(m + 1)
        BY <3>1
      <4>3. g[i] = f[i] /\ (i # 0 => g[i - 1] = f[i - 1])
        BY <3>1, <4>2
      <4> HIDE DEF g
      <4> QED BY <4>1, <4>3
    <3>2. CASE i \notin 0..m
      <4>1. i = m + 1 /\ i # 0 /\ i - 1 = m
        BY <3>2
      <4>2. g[i] = last /\ g[m] = f[m]
        BY <2>2, <4>1
      <4>3. Next1(g, i) = last
        BY <2>2, <4>1, <4>2
      <4> HIDE DEF g, last
      <4> QED BY <4>1, <4>2, <4>3
    <3> QED BY <3>1, <3>2
  <2>6. g = Body(g, m + 1)
    <3>1. DOMAIN g = 0..(m + 1) /\ g = [i \in DOMAIN g |-> g[i]]
      OBVIOUS
    <3> HIDE DEF g
    <3> QED BY <2>5, <3>1
  <2> HIDE DEF g
  <2> QED BY <2>4, <2>6
<1>6. Ok(n)
  <2> HIDE DEF Ok
  <2> SUFFICES ASSUME Bad # {} PROVE FALSE
    BY <1>1
  <2>1. Bad \in SUBSET Nat
    BY <1>1
  <2>2. PICK m \in Bad : \A k \in Bad : m <= k
    BY <2>1, Least
  <2>3. m \in 0..n /\ m # 0 /\ ~Ok(m)
    BY <1>4, <2>2
  <2>4. m - 1 \in Nat /\ m - 1 \in 0..n /\ m - 1 < n /\ ~(m <= m - 1) /\ (m - 1) + 1 = m
    BY <1>1, <2>3
  <2>5. Ok(m - 1)
    BY <2>2, <2>4
  <2>6. Ok((m - 1) + 1)
    BY <1>5, <2>4, <2>5
  <2> QED BY <2>3, <2>4, <2>6
<1> DEFINE left == CHOOSE f : f = Body(f, n)
<1>7. left = Body(left, n) /\ E!Without(at, list, number) = left[n]
  <2>1. left = Body(left, n)
    BY <1>6
  <2>2. E!Without(at, list, number) = left[n]
    BY DEF E!Without
  <2> QED BY <2>1, <2>2
<1> HIDE DEF left
<1> DEFINE Wrong == {m \in 0..n : left[m] \notin C[m]}
<1>8. left[n] \in C[n]
  <2> SUFFICES ASSUME Wrong # {} PROVE FALSE
    BY <1>1
  <2>1. Wrong \in SUBSET Nat
    BY <1>1
  <2>2. PICK m \in Wrong : \A k \in Wrong : m <= k
    BY <2>1, Least
  <2>3. m \in 0..n /\ left[m] \notin C[m] /\ left[m] = IF m = 0 THEN <<>> ELSE Next1(left, m)
    BY <1>7, <2>2
  <2>4. m # 0
    BY <1>3, <2>3
  <2>5. m - 1 \in 0..n /\ ~(m <= m - 1) /\ m \in 1..n
    BY <1>1, <2>3, <2>4
  <2>6. left[m - 1] \in C[m - 1]
    BY <2>2, <2>5
  <2>7. Next1(left, m) \in C[m]
    BY <1>2, <2>5, <2>6
  <2> QED BY <2>3, <2>4, <2>7
<1>9. {list[j] : j \in 1..n} \subseteq S /\ n \in 0..n
  BY <1>1
<1>10. left[n] \in Seq({list[j] : j \in 1..n}) /\ (Sorted(list) => Sorted(left[n]))
  BY <1>8, <1>9 DEF C
<1> QED BY <1>7, <1>9, <1>10, SeqMonotonic

LEMMA ShowIs ==
  ASSUME NEW Item, NEW Value, NEW s \in ShowsOf(Item, Value)
  PROVE  /\ DOMAIN s = DOMAIN Item \cup DOMAIN Value /\ s = [f \in DOMAIN s |-> s[f]]
         /\ \A f \in DOMAIN Item : s[f] \in Seq(Item[f])
         /\ "cues" \in DOMAIN Item => Sorted(s.cues)
BY DEF ShowsOf

\* Another list of the same items, or another value, in a field of a show.
LEMMA ListPut ==
  ASSUME NEW Item, NEW Value, NEW s \in ShowsOf(Item, Value),
         NEW at \in DOMAIN Item, NEW l \in Seq(Item[at]), at = "cues" => Sorted(l)
  PROVE  [s EXCEPT ![at] = l] \in ShowsOf(Item, Value)
<1> DEFINE Kind == [f \in DOMAIN Item \cup DOMAIN Value |-> IF f \in DOMAIN Item THEN Seq(Item[f]) ELSE Value[f]]
           t == [s EXCEPT ![at] = l]
<1>1. /\ DOMAIN Kind = DOMAIN Item \cup DOMAIN Value /\ Kind[at] = Seq(Item[at])
      /\ s \in [DOMAIN Kind -> UNION {Kind[f] : f \in DOMAIN Kind}]
      /\ \A f \in DOMAIN Kind : s[f] \in Kind[f]
      /\ "cues" \in DOMAIN Item => Sorted(s.cues)
  BY DEF ShowsOf
<1>2. at \in DOMAIN Kind /\ l \in UNION {Kind[f] : f \in DOMAIN Kind}
  BY <1>1
<1> HIDE DEF Kind
<1>3. t \in [DOMAIN Kind -> UNION {Kind[f] : f \in DOMAIN Kind}]
  BY <1>1, <1>2
<1>4. \A f \in DOMAIN Kind : t[f] = IF f = at THEN l ELSE s[f]
  BY <1>1
<1>5. "cues" \in DOMAIN Item => Sorted(t.cues)
  <2>1. "cues" \in DOMAIN Item => t.cues = IF "cues" = at THEN l ELSE s.cues
    BY <1>1, <1>4
  <2> HIDE DEF t
  <2> QED BY <1>1, <2>1
<1> HIDE DEF t
<1>6. \A f \in DOMAIN Kind : t[f] \in Kind[f]
  BY <1>1, <1>2, <1>4
<1>7. t \in ShowsOf(Item, Value)
  BY <1>3, <1>5, <1>6 DEF ShowsOf, Kind
<1> QED BY <1>7 DEF t

LEMMA ValuePut ==
  ASSUME NEW Item, NEW Value, Typed(Item, Value), NEW s \in ShowsOf(Item, Value),
         NEW at \in DOMAIN Value, NEW v \in Value[at]
  PROVE  [s EXCEPT ![at] = v] \in ShowsOf(Item, Value)
<1> DEFINE Kind == [f \in DOMAIN Item \cup DOMAIN Value |-> IF f \in DOMAIN Item THEN Seq(Item[f]) ELSE Value[f]]
           t == [s EXCEPT ![at] = v]
<1>1. /\ DOMAIN Kind = DOMAIN Item \cup DOMAIN Value
      /\ s \in [DOMAIN Kind -> UNION {Kind[f] : f \in DOMAIN Kind}]
      /\ \A f \in DOMAIN Kind : s[f] \in Kind[f]
      /\ "cues" \in DOMAIN Item => Sorted(s.cues)
  BY DEF ShowsOf
<1>2. at \in DOMAIN Kind /\ at \notin DOMAIN Item /\ Kind[at] = Value[at]
  BY DEF Typed
<1> HIDE DEF Kind
<1>3. t \in [DOMAIN Kind -> UNION {Kind[f] : f \in DOMAIN Kind}]
  BY <1>1, <1>2
<1>4. \A f \in DOMAIN Kind : t[f] = IF f = at THEN v ELSE s[f]
  BY <1>1
<1>5. "cues" \in DOMAIN Item => t.cues = s.cues
  BY <1>1, <1>2, <1>4
<1> HIDE DEF t
<1>6. \A f \in DOMAIN Kind : t[f] \in Kind[f]
  BY <1>1, <1>2, <1>4
<1>7. t \in ShowsOf(Item, Value)
  BY <1>1, <1>3, <1>5, <1>6 DEF ShowsOf, Kind
<1> QED BY <1>7 DEF t

LEMMA FirstIsFound ==
  ASSUME NEW list, IsList(list), NEW at, NEW n, Found(list, at, n) # {}
  PROVE  FirstFound(list, at, n) \in DOMAIN list /\ E!NumberOf(at, list[FirstFound(list, at, n)]) = n
<1> DEFINE I == Found(list, at, n)
<1>1. I \in SUBSET Nat /\ \A i \in I : i \in DOMAIN list /\ E!NumberOf(at, list[i]) = n
  BY DEF Found, IsList
<1> HIDE DEF I
<1>2. I # {}
  BY DEF I
<1>3. Min(I) \in I
  BY <1>1, <1>2, MinIsLeast
<1>4. FirstFound(list, at, n) = Min(I)
  BY DEF FirstFound, I
<1> QED BY <1>1, <1>3, <1>4

\* A cue replaced by one of the same number leaves the list in order.
LEMMA PutInOrder ==
  ASSUME NEW S, NEW cues \in Seq(S), Sorted(cues), NEW i \in DOMAIN cues, NEW cue \in S,
         cue.number = cues[i].number
  PROVE  [cues EXCEPT ![i] = cue] \in Seq(S) /\ Sorted([cues EXCEPT ![i] = cue])
<1> DEFINE d == [cues EXCEPT ![i] = cue]
<1>1. d \in Seq(S) /\ DOMAIN d = DOMAIN cues
  OBVIOUS
<1>2. \A j \in DOMAIN cues : d[j].number = cues[j].number
  OBVIOUS
<1> HIDE DEF d
<1>3. Sorted(d)
  BY <1>1, <1>2 DEF Sorted
<1> QED BY <1>1, <1>3 DEF d

\* A cue put before the first that is not lower leaves the list in order.
LEMMA InsertedInOrder ==
  ASSUME NEW S, NEW cues \in Seq(S), Sorted(cues), NEW cue \in S, cue.number \in Int
  PROVE  CueInserted(cues, cue) \in Seq(S) /\ Sorted(CueInserted(cues, cue))
<1> DEFINE later == {i \in DOMAIN cues : cues[i].number >= cue.number}
           l == Len(cues)
           k == Min(later)
<1>1. l \in Nat /\ DOMAIN cues = 1..l /\ \A i \in 1..l : cues[i] \in S
  OBVIOUS
<1>2. CueInserted(cues, cue) =
        IF later = {} THEN Append(cues, cue)
        ELSE IF cues[k].number = cue.number THEN [cues EXCEPT ![k] = cue]
        ELSE SubSeq(cues, 1, k - 1) \o <<cue>> \o SubSeq(cues, k, Len(cues))
  BY DEF CueInserted
<1>3. \A i \in 1..l : cues[i].number \in Int /\ \A j \in 1..l : i < j => cues[i].number < cues[j].number
  BY <1>1 DEF Sorted
<1>4. later \in SUBSET Nat
  BY <1>1
<1>5. CASE later = {}
  <2>1. \A i \in 1..l : cues[i].number < cue.number
    BY <1>1, <1>3, <1>5
  <2>2. cues \in Seq({cues[i] : i \in 1..l})
    BY <1>1
  <2>3. Sorted(Append(cues, cue))
    BY <2>1, <2>2, AppendedInOrder
  <2> QED BY <1>2, <1>5, <2>3
<1>6. CASE later # {}
  <2>1. k \in later /\ \A j \in later : k <= j
    BY <1>4, <1>6, MinIsLeast
  <2> HIDE DEF k
  <2>2. k \in 1..l /\ cues[k].number >= cue.number
    BY <1>1, <2>1
  <2>3. \A j \in 1..l : j < k => cues[j].number < cue.number
    BY <1>1, <1>3, <2>1, <2>2
  <2>4. CASE cues[k].number = cue.number
    <3>1. [cues EXCEPT ![k] = cue] \in Seq(S) /\ Sorted([cues EXCEPT ![k] = cue])
      BY <1>1, <2>2, <2>4, PutInOrder
    <3> QED BY <1>2, <1>6, <2>4, <3>1
  <2>5. CASE cues[k].number # cue.number
    <3> DEFINE d == SubSeq(cues, 1, k - 1) \o <<cue>> \o SubSeq(cues, k, l)
               of(j) == IF j < k THEN cues[j] ELSE IF j = k THEN cue ELSE cues[j - 1]
    <3>1. SubSeq(cues, 1, k - 1) \in Seq(S) /\ SubSeq(cues, k, l) \in Seq(S) /\ <<cue>> \in Seq(S)
      BY <1>1, <2>2
    <3>2. Len(SubSeq(cues, 1, k - 1)) = k - 1 /\ Len(SubSeq(cues, k, l)) = l - k + 1
      BY <1>1, <2>2
    <3>3. d \in Seq(S) /\ Len(d) = l + 1
      BY <1>1, <2>2, <3>1, <3>2
    <3>4. \A j \in 1..(l + 1) : d[j] = of(j)
      BY <1>1, <2>2, <3>1, <3>2
    <3>5. DOMAIN d = 1..(l + 1)
      BY <3>3
    <3> HIDE DEF d, later, l
    <3>6. cues[k].number > cue.number /\ \A j \in 1..l : j >= k => cues[j].number > cue.number
      BY <1>1, <1>3, <2>2, <2>5
    <3>7. ASSUME NEW i \in 1..(l + 1) PROVE of(i).number \in Int
      BY <1>1, <1>3, <2>2, <3>7
    <3>8. ASSUME NEW i \in 1..(l + 1), NEW j \in 1..(l + 1), i < j PROVE of(i).number < of(j).number
      <4>1. CASE j < k
        BY <1>1, <1>3, <2>2, <3>8, <4>1
      <4>2. CASE j = k
        BY <1>1, <2>2, <2>3, <3>8, <4>2
      <4>3. CASE j > k /\ i < k
        <5>1. i \in 1..l /\ j - 1 \in 1..l /\ j - 1 >= k /\ i < j - 1
          BY <1>1, <2>2, <3>8, <4>3
        <5> QED BY <1>3, <2>2, <4>3, <5>1
      <4>4. CASE j > k /\ i = k
        <5>1. j - 1 \in 1..l /\ j - 1 >= k
          BY <1>1, <2>2, <3>8, <4>4
        <5> QED BY <2>2, <3>6, <4>4, <5>1
      <4>5. CASE j > k /\ i > k
        <5>1. i - 1 \in 1..l /\ j - 1 \in 1..l /\ i - 1 < j - 1
          BY <1>1, <2>2, <3>8, <4>5
        <5> QED BY <1>3, <2>2, <4>5, <5>1
      <4> QED BY <1>1, <2>2, <4>1, <4>2, <4>3, <4>4, <4>5
    <3> HIDE DEF of
    <3>9. Sorted(d)
      BY <3>4, <3>5, <3>7, <3>8 DEF Sorted
    <3>10. CueInserted(cues, cue) = d
      BY <1>2, <1>6, <2>5 DEF d, l
    <3> QED BY <3>3, <3>9, <3>10
  <2> QED BY <2>4, <2>5
<1> QED BY <1>5, <1>6

LEMMA SplicedIs ==
  ASSUME NEW S, NEW list \in Seq(S), NEW j
  PROVE  Spliced(list, j) \in Seq(S)
<1>1. CASE j \in DOMAIN list
  <2>1. j \in 1..Len(list) /\ Len(list) \in Nat
    BY <1>1
  <2>2. SubSeq(list, 1, j - 1) \in Seq(S) /\ SubSeq(list, j + 1, Len(list)) \in Seq(S)
    BY <2>1
  <2>3. RemoveAt(list, j) = SubSeq(list, 1, j - 1) \o SubSeq(list, j + 1, Len(list))
    BY DEF RemoveAt
  <2>4. SubSeq(list, 1, j - 1) \o SubSeq(list, j + 1, Len(list)) \in Seq(S)
    BY <2>2, ConcatProperties
  <2> QED BY <1>1, <2>3, <2>4 DEF Spliced
<1>2. CASE j \notin DOMAIN list
  BY <1>2 DEF Spliced
<1> QED BY <1>1, <1>2

LEMMA StateSetIs ==
  ASSUME NEW S, NEW states \in Seq(S), NEW state \in S
  PROVE  StateSet(states, state) \in Seq(S)
<1> DEFINE same == {i \in DOMAIN states : states[i].slice = state.slice}
<1>1. same \in SUBSET Nat /\ \A i \in same : i \in DOMAIN states
  OBVIOUS
<1>2. StateSet(states, state) = IF same = {} THEN Append(states, state) ELSE [states EXCEPT ![Min(same)] = state]
  BY DEF StateSet
<1> HIDE DEF same
<1>3. CASE same = {}
  BY <1>2, <1>3
<1>4. CASE same # {}
  <2>1. Min(same) \in DOMAIN states
    BY <1>1, <1>4, MinIsLeast
  <2> QED BY <1>2, <1>4, <2>1
<1> QED BY <1>3, <1>4

LEMMA EditFits ==
  ASSUME NEW Item, NEW Value, Typed(Item, Value), NEW s \in ShowsOf(Item, Value),
         NEW op, EditOf(op, Item, Value)
  PROVE  Fits(op, s)
<1>1. /\ DOMAIN s = DOMAIN Item \cup DOMAIN Value /\ s = [f \in DOMAIN s |-> s[f]]
      /\ \A f \in DOMAIN Item : s[f] \in Seq(Item[f])
      /\ "cues" \in DOMAIN Item => Sorted(s.cues)
  BY ShowIs
<1>2. op.at \in DOMAIN s /\ (op.op # "set" => op.at \in DOMAIN Item /\ IsList(s[op.at]))
  BY <1>1 DEF EditOf, IsList
<1>3. ASSUME op.op = "state" PROVE \A i \in DOMAIN s[op.at] : IsList(s[op.at][i].states)
  <2>1. s[op.at] \in Seq(Item[op.at])
    BY <1>1, <1>2, <1>3
  <2>2. \A i \in DOMAIN s[op.at] : s[op.at][i] \in Item[op.at]
    BY <2>1
  <2> QED BY <1>3, <2>2 DEF EditOf, IsList
<1>4. ASSUME op.op = "add", op.at = "cues" PROVE op.item.number \in Int /\ Sorted(s.cues)
  BY <1>1, <1>2, <1>4 DEF EditOf, Typed
<1> QED BY <1>1, <1>2, <1>3, <1>4 DEF Fits

\* An edit leaves a show of the same types, its cues in order.
LEMMA EditStays ==
  ASSUME NEW Item, NEW Value, Typed(Item, Value), NEW s \in ShowsOf(Item, Value),
         NEW op, EditOf(op, Item, Value)
  PROVE  E!Applied(op, s) \in ShowsOf(Item, Value)
<1> DEFINE at == op.at
           list == s[at]
           here == Found(list, at, op.number)
           i == FirstFound(list, at, op.number)
<1>1. /\ DOMAIN s = DOMAIN Item \cup DOMAIN Value /\ s = [f \in DOMAIN s |-> s[f]]
      /\ \A f \in DOMAIN Item : s[f] \in Seq(Item[f])
      /\ "cues" \in DOMAIN Item => Sorted(s.cues)
  BY ShowIs
<1>2. E!Applied(op, s) = ApplyOp(op, s)
  BY EditFits, PageAppliesAsEngine
<1>3. ASSUME op.op # "set"
      PROVE  /\ at \in DOMAIN Item /\ list \in Seq(Item[at]) /\ (at = "cues" => Sorted(list))
             /\ IsList(list) /\ DOMAIN list = 1..Len(list) /\ \A j \in DOMAIN list : list[j] \in Item[at]
  <2>1. at \in DOMAIN Item /\ list \in Seq(Item[at]) /\ (at = "cues" => Sorted(list))
    BY <1>1, <1>3 DEF EditOf
  <2> QED BY <2>1 DEF IsList
<1>4. ASSUME op.op # "set", NEW l \in Seq(Item[at]), at = "cues" => Sorted(l)
      PROVE  [s EXCEPT ![at] = l] \in ShowsOf(Item, Value)
  BY <1>3, <1>4, ListPut
<1>5. ASSUME op.op # "set", here # {}
      PROVE  i \in DOMAIN list /\ E!NumberOf(at, list[i]) = op.number
  BY <1>3, <1>5, FirstIsFound
<1>6. ASSUME op.op # "set", NEW j \in DOMAIN list, NEW x \in Item[at],
             at = "cues" => x.number = list[j].number
      PROVE  [s EXCEPT ![at] = [list EXCEPT ![j] = x]] \in ShowsOf(Item, Value)
  <2>1. [list EXCEPT ![j] = x] \in Seq(Item[at])
    BY <1>3, <1>6
  <2>2. at = "cues" => Sorted([list EXCEPT ![j] = x])
    BY <1>3, <1>6, PutInOrder
  <2> QED BY <1>4, <1>6, <2>1, <2>2
<1> HIDE DEF i, here
<1>7. CASE op.op = "add" /\ at = "cues"
  <2>1. op.item \in Item[at] /\ op.item.number \in Int
    BY <1>3, <1>7 DEF EditOf, Typed
  <2>2. CueInserted(list, op.item) \in Seq(Item[at]) /\ Sorted(CueInserted(list, op.item))
    BY <1>3, <1>7, <2>1, InsertedInOrder
  <2>3. ApplyOp(op, s) = [s EXCEPT ![at] = CueInserted(list, op.item)]
    BY <1>7 DEF ApplyOp
  <2> QED BY <1>2, <1>4, <1>7, <2>2, <2>3
<1>8. CASE op.op = "add" /\ at # "cues"
  <2>0. op.item \in Item[at] /\ list \in Seq(Item[at])
    BY <1>3, <1>8 DEF EditOf
  <2>1. Append(list, op.item) \in Seq(Item[at])
    BY <2>0, AppendProperties
  <2>2. ApplyOp(op, s) = [s EXCEPT ![at] = Append(list, op.item)]
    BY <1>8 DEF ApplyOp
  <2> QED BY <1>2, <1>4, <1>8, <2>1, <2>2
<1>9. CASE op.op = "remove"
  <2> DEFINE l == E!Without(at, list, op.number)
  <2>1. l \in Seq(Item[at]) /\ (at = "cues" => Sorted(l))
    BY <1>3, <1>9, WithoutIs
  <2>2. ApplyOp(op, s) = [s EXCEPT ![at] = l]
    BY <1>9 DEF ApplyOp
  <2> HIDE DEF l
  <2> QED BY <1>2, <1>4, <1>9, <2>1, <2>2
<1>10. CASE op.op = "update"
  <2>1. ApplyOp(op, s) = IF here # {} THEN [s EXCEPT ![at] = [list EXCEPT ![i] = op.item]] ELSE s
    BY <1>10 DEF ApplyOp, here, i
  <2>2. op.item \in Item[at] /\ E!NumberOf(at, op.item) = op.number
    BY <1>10 DEF EditOf
  <2>3. CASE here = {}
    BY <1>2, <2>1, <2>3
  <2>4. CASE here # {}
    <3>1. at = "cues" => op.item.number = list[i].number
      BY <1>5, <1>10, <2>2, <2>4 DEF E!NumberOf
    <3> QED BY <1>2, <1>5, <1>6, <1>10, <2>1, <2>2, <2>4, <3>1
  <2> QED BY <2>3, <2>4
<1>11. CASE op.op = "corner"
  <2> DEFINE Moved(x) == [x EXCEPT !.corners[op.index] = op.item]
  <2>1. ApplyOp(op, s) =
          IF here # {} /\ op.index \in DOMAIN list[i].corners
          THEN [s EXCEPT ![at] = [list EXCEPT ![i] = Moved(list[i])]] ELSE s
    BY <1>11 DEF ApplyOp, here, i
  <2>2. at # "cues" /\ \A x \in Item[at] : op.index \in DOMAIN x.corners => Moved(x) \in Item[at]
    BY <1>11 DEF EditOf
  <2> HIDE DEF Moved
  <2>3. CASE ~(here # {} /\ op.index \in DOMAIN list[i].corners)
    BY <1>2, <2>1, <2>3
  <2>4. CASE here # {} /\ op.index \in DOMAIN list[i].corners
    <3> DEFINE x == Moved(list[i])
    <3>1. i \in DOMAIN list /\ x \in Item[at]
      BY <1>3, <1>5, <1>11, <2>2, <2>4
    <3>2. ApplyOp(op, s) = [s EXCEPT ![at] = [list EXCEPT ![i] = x]]
      BY <2>1, <2>4
    <3> HIDE DEF x
    <3>3. [s EXCEPT ![at] = [list EXCEPT ![i] = x]] \in ShowsOf(Item, Value)
      BY <1>6, <1>11, <2>2, <3>1
    <3> QED BY <1>2, <3>2, <3>3
  <2> QED BY <2>3, <2>4
<1>12. CASE op.op = "state"
  <2> DEFINE With(x) == [x EXCEPT !.states = StateSet(@, op.item)]
  <2>1. ApplyOp(op, s) = IF here # {} THEN [s EXCEPT ![at] = [list EXCEPT ![i] = With(list[i])]] ELSE s
    BY <1>12 DEF ApplyOp, here, i
  <2>2. PICK S : /\ op.item \in S
                 /\ \A x \in Item[at] : /\ x.states \in Seq(S)
                                        /\ \A l \in Seq(S) : [x EXCEPT !.states = l] \in Item[at]
    BY <1>12 DEF EditOf
  <2>3. \A x \in Item[at] : With(x) \in Item[at]
    <3> SUFFICES ASSUME NEW x \in Item[at] PROVE With(x) \in Item[at]
      OBVIOUS
    <3>1. StateSet(x.states, op.item) \in Seq(S)
      BY <2>2, StateSetIs
    <3> QED BY <2>2, <3>1
  <2>4. ASSUME at = "cues", NEW x \in Item[at] PROVE With(x).number = x.number
    <3>1. "number" \in DOMAIN x
      BY <1>3, <1>12, <2>4 DEF Typed
    <3> QED BY <3>1
  <2> HIDE DEF With
  <2>5. CASE here = {}
    BY <1>2, <2>1, <2>5
  <2>6. CASE here # {}
    <3> DEFINE x == With(list[i])
    <3>1. i \in DOMAIN list /\ x \in Item[at] /\ (at = "cues" => x.number = list[i].number)
      BY <1>3, <1>5, <1>12, <2>3, <2>4, <2>6
    <3>2. ApplyOp(op, s) = [s EXCEPT ![at] = [list EXCEPT ![i] = x]]
      BY <2>1, <2>6
    <3> HIDE DEF x
    <3>3. [s EXCEPT ![at] = [list EXCEPT ![i] = x]] \in ShowsOf(Item, Value)
      BY <1>6, <1>12, <3>1
    <3> QED BY <1>2, <3>2, <3>3
  <2> QED BY <2>5, <2>6
<1>13. CASE op.op = "remove_at"
  <2>1. ApplyOp(op, s) = [s EXCEPT ![at] = Spliced(list, op.number)]
    BY <1>13 DEF ApplyOp
  <2>2. Spliced(list, op.number) \in Seq(Item[at])
    BY <1>3, <1>13, SplicedIs
  <2>3. at # "cues"
    BY <1>13 DEF EditOf
  <2> QED BY <1>2, <1>4, <1>13, <2>1, <2>2, <2>3
<1>14. CASE op.op = "update_at"
  <2>1. ApplyOp(op, s) = IF op.number \in DOMAIN list THEN [s EXCEPT ![at] = [list EXCEPT ![op.number] = op.item]] ELSE s
    BY <1>14 DEF ApplyOp
  <2>2. at # "cues" /\ op.item \in Item[at]
    BY <1>14 DEF EditOf
  <2> QED BY <1>2, <1>6, <1>14, <2>1, <2>2
<1>15. CASE op.op = "set"
  <2>1. ApplyOp(op, s) = [s EXCEPT ![at] = op.item]
    BY <1>15 DEF ApplyOp
  <2>2. at \in DOMAIN Value /\ op.item \in Value[at]
    BY <1>15 DEF EditOf
  <2>3. [s EXCEPT ![at] = op.item] \in ShowsOf(Item, Value)
    BY <2>2, ValuePut
  <2> QED BY <1>2, <2>1, <2>3
<1>16. CASE op.op \notin {"add", "remove", "update", "corner", "state", "remove_at", "update_at", "set"}
  BY <1>2, <1>16 DEF ApplyOp
<1> QED BY <1>7, <1>8, <1>9, <1>10, <1>11, <1>12, <1>13, <1>14, <1>15, <1>16

----------------------------------------------------------------------------
(* The pages follow the show.  What waits for a page are the steps from    *)
(* the show it displays to the show of now.                                *)

\* Shows that edits and frequencies do not leave, and that the edits fit.
Editable(Shows) ==
  /\ Start \in Shows /\ Other \in Shows
  /\ \A s \in Shows : Tuned(s) \in Shows
  /\ \A op \in Ops, s \in Shows : Fits(op, s) /\ E!Applied(op, s) \in Shows

\* A message that goes from the i-th show to the j-th.
Leads(event, i, j, shows) ==
  /\ i <= j
  /\ event.type = "edit_applied" => event.op \in Ops /\ shows[j] = E!Applied(event.op, shows[i])
  /\ event.type \in {"mode_changed", "log_line"} => i = j

\* The places w of the shows a page goes through as it takes its messages.
Track(c, w, shows) ==
  /\ w \in Seq(1..Len(shows)) /\ Len(w) = Len(c.inbox) + 1
  /\ c.copy = shows[w[1]] /\ w[Len(w)] = Len(shows)
  /\ \A i \in 1..Len(c.inbox) : Leads(c.inbox[i], w[i], w[i + 1], shows)

Follows(c, shows) == c.exact => c.link \in {"greeted", "open"} /\ \E w : Track(c, w, shows)

History(Shows) == past \in Seq(Shows) /\ Len(past) >= 1 /\ show = past[Len(past)]

Following(Shows) == Journals /\ History(Shows) /\ \A p \in Pages : Follows(page[p], past)

\* The shows go on, as an event says.
Grows(shows, more, event) ==
  /\ Len(more) \in {Len(shows), Len(shows) + 1}
  /\ \A i \in 1..Len(shows) : more[i] = shows[i]
  /\ Leads(event, Len(shows), Len(more), more)

LEMMA TrackGrows ==
  ASSUME NEW S, NEW shows \in Seq(S), NEW more \in Seq(S), NEW event \in Events, Grows(shows, more, event),
         NEW c, Page(c), NEW d, d.copy = c.copy, d.inbox = Append(c.inbox, event),
         NEW w, Track(c, w, shows)
  PROVE  Track(d, Append(w, Len(more)), more)
<1> DEFINE n == Len(shows)
           m == Len(more)
           k == Len(c.inbox)
           x == Append(w, m)
           box == Append(c.inbox, event)
<1>1. n \in Nat /\ m \in Nat /\ (m = n \/ m = n + 1) /\ k \in Nat /\ c.inbox \in Seq(Events)
  BY DEF Grows, Page
<1>2. w \in Seq(1..n) /\ Len(w) = k + 1 /\ c.copy = shows[w[1]] /\ w[k + 1] = n
      /\ \A i \in 1..k : Leads(c.inbox[i], w[i], w[i + 1], shows)
  BY DEF Track
<1>3. box \in Seq(Events) /\ Len(box) = k + 1 /\ box[k + 1] = event /\ \A i \in 1..k : box[i] = c.inbox[i]
  BY <1>1
<1>4. \A i \in 1..(k + 1) : w[i] \in 1..n
  <2> HIDE DEF n, m, k, x, box
  <2>1. w \in Seq(1..n) /\ Len(w) = k + 1
    BY <1>2
  <2> QED BY <2>1, ElementOfSeq
<1>5. n >= 1
  BY <1>1, <1>4
<1> HIDE DEF n, m, k
<1>6. w \in Seq(1..m) /\ m \in 1..m
  <2>1. 1..n \subseteq 1..m /\ m \in 1..m
    BY <1>1, <1>5
  <2> QED BY <1>2, <2>1, SeqMonotonic
<1>7. x \in Seq(1..m) /\ Len(x) = k + 2 /\ x[k + 2] = m /\ \A i \in 1..(k + 1) : x[i] = w[i]
  BY <1>1, <1>2, <1>6
<1>8. \A i \in 1..n : more[i] = shows[i]
  BY DEF Grows, n
<1> HIDE DEF x, box
<1>9. d.copy = more[x[1]]
  <2>1. 1 \in 1..(k + 1)
    BY <1>1
  <2>2. x[1] = w[1] /\ w[1] \in 1..n
    BY <1>4, <1>7, <2>1
  <2> QED BY <1>2, <1>8, <2>2
<1>10. ASSUME NEW i \in 1..(k + 1)
       PROVE  Leads(box[i], x[i], x[i + 1], more)
  <2>1. CASE i = k + 1
    <3>1. i \in 1..(k + 1) /\ i + 1 = k + 2
      BY <1>1, <2>1
    <3>2. box[i] = event /\ x[i] = n /\ x[i + 1] = m
      BY <1>2, <1>3, <1>7, <2>1, <3>1
    <3> QED BY <3>2 DEF Grows, n, m
  <2>2. CASE i # k + 1
    <3>1. i \in 1..k /\ i + 1 \in 1..(k + 1)
      BY <1>1, <2>2
    <3>2. box[i] = c.inbox[i] /\ x[i] = w[i] /\ x[i + 1] = w[i + 1]
          /\ w[i] \in 1..n /\ w[i + 1] \in 1..n /\ Leads(c.inbox[i], w[i], w[i + 1], shows)
      BY <1>2, <1>3, <1>4, <1>7, <3>1
    <3>3. more[w[i]] = shows[w[i]] /\ more[w[i + 1]] = shows[w[i + 1]]
      BY <1>8, <3>2
    <3> QED BY <3>2, <3>3 DEF Leads
  <2> QED BY <2>1, <2>2
<1>11. d.inbox = box /\ Len(box) = k + 1 /\ Len(x) = Len(box) + 1
  BY <1>1, <1>3, <1>7 DEF box
<1>12. x[Len(x)] = m
  BY <1>7
<1>13. Track(d, x, more)
  BY <1>7, <1>9, <1>10, <1>11, <1>12 DEF Track, m
<1> QED BY <1>13 DEF x, m

\* What a page shows goes on being shown, or is no longer followed.
Fades(c, d) == d.exact => c.exact /\ d.copy = c.copy

\* A page that hears of the change that was made goes on following.
LEMMA ReceivedFollows ==
  ASSUME NEW S, NEW shows \in Seq(S), NEW more \in Seq(S), NEW event \in Events, Grows(shows, more, event),
         NEW c, Page(c), Follows(c, shows)
  PROVE  Follows(Received(c, event), more) /\ Fades(c, Received(c, event))
<1> DEFINE all == Append(c.inbox, event)
           d == Received(c, event)
<1>1. CASE ~Connected(c)
  <2>1. d = c /\ ~c.exact
    BY <1>1 DEF Received, Connected, Follows
  <2> HIDE DEF d
  <2> QED BY <2>1 DEF Follows, Fades, d
<1>2. CASE Connected(c) /\ Len(all) <= EventCap
  <2>1. d = [c EXCEPT !.inbox = all]
    BY <1>2 DEF Received
  <2> HIDE DEF d
  <2>2. d.inbox = all /\ d.copy = c.copy /\ d.link = c.link /\ d.exact = c.exact
    BY <2>1 DEF Page, Fields
  <2>3. ASSUME c.exact PROVE \E w : Track(d, w, more)
    <3>1. PICK w : Track(c, w, shows)
      BY <2>3 DEF Follows
    <3>2. Track(d, Append(w, Len(more)), more)
      BY <2>2, <3>1, TrackGrows
    <3> QED BY <3>2
  <2> QED BY <2>2, <2>3 DEF Follows, Fades, d
<1>3. CASE Connected(c) /\ ~(Len(all) <= EventCap)
  <2> DEFINE rest == Tail(all)
  <2>1. d = [c EXCEPT !.inbox = rest, !.lagged = TRUE, !.exact = FALSE]
    BY <1>3 DEF Received
  <2> HIDE DEF d, rest
  <2>2. ~d.exact
    BY <2>1 DEF Page, Fields
  <2> QED BY <2>2 DEF Follows, Fades, d
<1> QED BY <1>1, <1>2, <1>3

LEMMA TrackTail ==
  ASSUME NEW S, NEW shows \in Seq(S), NEW c, Page(c), c.inbox # <<>>, NEW w, Track(c, w, shows),
         NEW d, d.inbox = Tail(c.inbox), d.copy = shows[w[2]]
  PROVE  /\ Track(d, Tail(w), shows)
         /\ w[1] \in 1..Len(shows) /\ w[2] \in 1..Len(shows) /\ c.copy = shows[w[1]]
         /\ Leads(Head(c.inbox), w[1], w[2], shows)
<1> DEFINE n == Len(shows)
           k == Len(c.inbox) - 1
           x == Tail(w)
           rest == Tail(c.inbox)
<1>1. n \in Nat /\ c.inbox \in Seq(Events) /\ k \in Nat /\ Len(c.inbox) = k + 1
  BY DEF Page
<1>2. w \in Seq(1..n) /\ Len(w) = k + 2 /\ c.copy = shows[w[1]] /\ w[k + 2] = n
      /\ \A i \in 1..(k + 1) : Leads(c.inbox[i], w[i], w[i + 1], shows)
  BY <1>1 DEF Track
<1>3. rest \in Seq(Events) /\ Len(rest) = k /\ \A i \in 1..k : rest[i] = c.inbox[i + 1]
  BY <1>1
<1> HIDE DEF k, n, rest
<1>4. x \in Seq(1..n) /\ Len(x) = k + 1 /\ \A i \in 1..(k + 1) : x[i] = w[i + 1]
  BY <1>1, <1>2
<1> HIDE DEF x
<1>5. 1 \in 1..(k + 1) /\ 1 \in 1..(k + 2) /\ 2 \in 1..(k + 2) /\ k + 1 \in 1..(k + 1)
  BY <1>1
<1>6. w[1] \in 1..n /\ w[2] \in 1..n
  BY <1>1, <1>2, <1>5
<1>7. Leads(Head(c.inbox), w[1], w[2], shows)
  <2>1. Head(c.inbox) = c.inbox[1] /\ 1 + 1 = 2
    BY <1>1
  <2>2. Leads(c.inbox[1], w[1], w[1 + 1], shows)
    BY <1>2, <1>5
  <2> QED BY <2>1, <2>2
<1>8. x[1] = w[2] /\ x[k + 1] = n
  <2>1. x[1] = w[1 + 1] /\ x[k + 1] = w[(k + 1) + 1] /\ (k + 1) + 1 = k + 2 /\ 1 + 1 = 2
    BY <1>1, <1>4, <1>5
  <2> QED BY <1>2, <2>1
<1>9. ASSUME NEW i \in 1..k PROVE Leads(rest[i], x[i], x[i + 1], shows)
  <2>1. i + 1 \in 1..(k + 1) /\ i \in 1..(k + 1)
    BY <1>1
  <2>2. x[i] = w[i + 1] /\ x[i + 1] = w[(i + 1) + 1] /\ rest[i] = c.inbox[i + 1]
    BY <1>3, <1>4, <2>1
  <2>3. Leads(c.inbox[i + 1], w[i + 1], w[(i + 1) + 1], shows)
    BY <1>2, <2>1
  <2> QED BY <2>2, <2>3
<1>10. d.inbox = rest /\ d.copy = shows[x[1]] /\ Len(x) = Len(rest) + 1 /\ x[Len(x)] = n
  BY <1>3, <1>4, <1>8 DEF rest
<1>11. Track(d, x, shows)
  BY <1>3, <1>4, <1>9, <1>10 DEF Track, n
<1> QED BY <1>2, <1>6, <1>7, <1>11 DEF x, n

\* The page shows the same show or a later one, or is no longer followed.
Goes(c, d, shows) ==
  d.exact => /\ c.exact
             /\ \E i \in 1..Len(shows), j \in 1..Len(shows) :
                  i <= j /\ c.copy = shows[i] /\ d.copy = shows[j]

LEMMA HeardFields ==
  ASSUME NEW c, Page(c), c.inbox # <<>>
  PROVE  DOMAIN Heard([c EXCEPT !.inbox = Tail(@)], Head(c.inbox)) = Fields
<1>1. Head(c.inbox) \in Events
  BY DEF Page
<1> QED BY <1>1 DEF Heard, Closed, Page, Events, Types

LEMMA HeardFollows ==
  ASSUME NEW Shows, Editable(Shows), NEW shows \in Seq(Shows),
         NEW c, Page(c), c.inbox # <<>>, c.link = "open", Follows(c, shows)
  PROVE  LET d == Heard([c EXCEPT !.inbox = Tail(@)], Head(c.inbox))
         IN  Follows(d, shows) /\ Goes(c, d, shows)
<1> DEFINE rest == Tail(c.inbox)
           event == Head(c.inbox)
           e == [c EXCEPT !.inbox = rest]
           d == Heard(e, event)
<1>1. event \in Events
  BY DEF Page
<1>2. /\ DOMAIN e = Fields /\ e.inbox = rest /\ e.link = c.link /\ e.copy = c.copy /\ e.exact = c.exact
  BY DEF Page, Fields
<1>3. ASSUME NEW f, f.inbox = rest, f.link = c.link, f.exact = c.exact,
             \A w : Track(c, w, shows) => f.copy = shows[w[2]]
      PROVE  Follows(f, shows) /\ Goes(c, f, shows)
  <2>1. ASSUME c.exact
        PROVE  /\ \E w : Track(f, w, shows)
               /\ \E i \in 1..Len(shows), j \in 1..Len(shows) :
                    i <= j /\ c.copy = shows[i] /\ f.copy = shows[j]
    <3>1. PICK w : Track(c, w, shows)
      BY <2>1 DEF Follows
    <3>2. f.copy = shows[w[2]]
      BY <1>3, <3>1
    <3>3. /\ Track(f, Tail(w), shows) /\ w[1] \in 1..Len(shows) /\ w[2] \in 1..Len(shows)
          /\ c.copy = shows[w[1]] /\ Leads(event, w[1], w[2], shows)
      BY <1>3, <3>1, <3>2, TrackTail
    <3>4. w[1] <= w[2]
      BY <3>3 DEF Leads
    <3> QED BY <3>2, <3>3, <3>4
  <2> QED BY <1>3, <2>1 DEF Follows, Goes
<1>4. ASSUME NEW w, Track(c, w, shows)
      PROVE  /\ w[1] \in 1..Len(shows) /\ c.copy = shows[w[1]] /\ Leads(event, w[1], w[2], shows)
  <2> DEFINE f == [inbox |-> rest, copy |-> shows[w[2]]]
  <2>1. f.inbox = rest /\ f.copy = shows[w[2]]
    OBVIOUS
  <2> HIDE DEF f
  <2> QED BY <1>4, <2>1, TrackTail
<1> HIDE DEF rest, e, event
<1>5. CASE event.type = "edit_applied"
  <2> DEFINE new == ApplyOp(event.op, e.copy)
  <2>1. d = [e EXCEPT !.copy = new]
    BY <1>5 DEF Heard
  <2>2. \A w : Track(c, w, shows) => new = shows[w[2]]
    <3> SUFFICES ASSUME NEW w, Track(c, w, shows) PROVE new = shows[w[2]]
      OBVIOUS
    <3>1. w[1] \in 1..Len(shows) /\ c.copy = shows[w[1]] /\ Leads(event, w[1], w[2], shows)
      BY <1>4
    <3>2. c.copy \in Shows /\ event.op \in Ops /\ shows[w[2]] = E!Applied(event.op, c.copy)
      BY <1>5, <3>1 DEF Leads
    <3> QED BY <1>2, <3>2, PageAppliesAsEngine DEF Editable
  <2> HIDE DEF new, d
  <2>3. d.inbox = rest /\ d.link = c.link /\ d.exact = c.exact /\ d.copy = new
    BY <1>2, <2>1 DEF Fields
  <2>4. Follows(d, shows) /\ Goes(c, d, shows)
    BY <1>3, <2>2, <2>3
  <2> QED BY <2>4 DEF d, e, rest, event
<1>6. ASSUME event.type \in {"mode_changed", "log_line"}, NEW w, Track(c, w, shows)
      PROVE  c.copy = shows[w[2]]
  <2>1. c.copy = shows[w[1]] /\ Leads(event, w[1], w[2], shows)
    BY <1>4, <1>6
  <2> QED BY <1>6, <2>1 DEF Leads
<1>7. CASE event.type = "mode_changed"
  <2>1. d = [e EXCEPT !.mode = event.mode]
    BY <1>7 DEF Heard
  <2> HIDE DEF d
  <2>2. d.inbox = rest /\ d.link = c.link /\ d.exact = c.exact /\ d.copy = c.copy
    BY <1>2, <2>1 DEF Fields
  <2>3. Follows(d, shows) /\ Goes(c, d, shows)
    BY <1>3, <1>6, <1>7, <2>2
  <2> QED BY <2>3 DEF d, e, rest, event
<1>8. CASE event.type = "log_line"
  <2> DEFINE journal == e.journal \cup {event.line}
  <2>1. d = [e EXCEPT !.journal = journal]
    BY <1>8 DEF Heard
  <2> HIDE DEF d, journal
  <2>2. d.inbox = rest /\ d.link = c.link /\ d.exact = c.exact /\ d.copy = c.copy
    BY <1>2, <2>1 DEF Fields
  <2>3. Follows(d, shows) /\ Goes(c, d, shows)
    BY <1>3, <1>6, <1>8, <2>2
  <2> QED BY <2>3 DEF d, e, rest, event
<1>9. CASE event.type = "show_loaded"
  <2> DEFINE none == <<>>
  <2>1. d = [e EXCEPT !.link = "backoff", !.inbox = none, !.changed = FALSE, !.exact = FALSE, !.ping = FALSE]
    BY <1>9 DEF Heard, Closed
  <2> HIDE DEF d, none
  <2>2. ~d.exact
    BY <1>2, <2>1 DEF Fields
  <2> QED BY <2>2 DEF Follows, Goes, d, e, rest, event
<1> QED BY <1>1, <1>5, <1>7, <1>8, <1>9 DEF Events, Types

----------------------------------------------------------------------------
(* Each step keeps the pages on the way to the show, and is a step of      *)
(* Replica, or changes nothing of what Replica is about.                   *)

Shown == [p \in Pages |-> IF page[p].exact THEN page[p].copy ELSE Nothing]

LEMMA Became ==
  ASSUME NEW Shows, History(Shows), NEW s \in Shows, Becomes(s)
  PROVE  /\ History(Shows)' /\ past \in Seq(Shows) /\ past' \in Seq(Shows)
         /\ Len(past') = Len(past) + 1 /\ past'[Len(past) + 1] = s
         /\ \A i \in 1..Len(past) : past'[i] = past[i]
<1>1. past \in Seq(Shows) /\ Len(past) \in Nat /\ past' = Append(past, s) /\ show' = s
  BY DEF History, Becomes
<1>2. /\ past' \in Seq(Shows) /\ Len(past') = Len(past) + 1 /\ past'[Len(past) + 1] = s
      /\ \A i \in 1..Len(past) : past'[i] = past[i]
  BY <1>1
<1> QED BY <1>1, <1>2 DEF History

\* The abstract history of a show that changed, or not.
Grown == past' = past \/ (Len(past') = Len(past) + 1 /\ SubSeq(past', 1, Len(past)) = past)

LEMMA BecameGrown ==
  ASSUME NEW Shows, History(Shows), NEW s \in Shows, Becomes(s)
  PROVE  Grown
<1> DEFINE n == Len(past)
           t == SubSeq(past', 1, n)
<1>1. /\ past \in Seq(Shows) /\ past' \in Seq(Shows) /\ Len(past') = n + 1 /\ n \in Nat
      /\ \A i \in 1..n : past'[i] = past[i]
  BY Became
<1>2. t = [i \in 1..n |-> past'[i]]
  BY <1>1
<1>3. past = [i \in 1..n |-> past[i]]
  BY <1>1
<1>4. t = past
  BY <1>1, <1>2, <1>3
<1> QED BY <1>1, <1>4 DEF Grown

LEMMA FadesIsPart ==
  ASSUME Grown, \A p \in Pages : Fades(page[p], page'[p])
  PROVE  R!Next
<1> DEFINE gone == {p \in Pages : ~page'[p].exact}
<1>1. \A p \in Pages : (IF page'[p].exact THEN page'[p].copy ELSE Nothing)
                         = IF p \in gone THEN Nothing ELSE Shown[p]
  BY DEF Fades, Shown
<1>2. [p \in Pages |-> IF page'[p].exact THEN page'[p].copy ELSE Nothing]
        = [p \in Pages |-> IF p \in gone THEN Nothing ELSE Shown[p]]
  BY <1>1
<1>3. gone \in SUBSET Pages
  OBVIOUS
<1> HIDE DEF gone
<1>4. R!Part
  BY <1>2, <1>3 DEF R!Part, Grown, Shown
<1> QED BY <1>4 DEF R!Next

LEMMA BroadcastFollows ==
  ASSUME NEW Shows, Following(Shows), NEW event \in Events, Broadcast(event),
         past' \in Seq(Shows), Grows(past, past', event)
  PROVE  \A p \in Pages : Follows(page'[p], past') /\ Fades(page[p], page'[p])
<1> SUFFICES ASSUME NEW p \in Pages PROVE Follows(page'[p], past') /\ Fades(page[p], page'[p])
  OBVIOUS
<1>1. page'[p] = Received(page[p], event)
  BY DEF Broadcast
<1>2. Page(page[p]) /\ Follows(page[p], past) /\ past \in Seq(Shows)
  BY DEF Following, Journals, History
<1>3. Follows(Received(page[p], event), past') /\ Fades(page[p], Received(page[p], event))
  BY <1>2, ReceivedFollows
<1> QED BY <1>1, <1>3

\* A page whose copy and messages stay is where it was.
LEMMA SameFollows ==
  ASSUME NEW c, NEW d, NEW shows, Follows(c, shows),
         d.exact => c.exact /\ d.copy = c.copy /\ d.inbox = c.inbox /\ d.link = c.link
  PROVE  Follows(d, shows) /\ Fades(c, d)
BY DEF Follows, Fades, Track

LEMMA SessionFollows ==
  ASSUME NEW Shows, Editable(Shows), Following(Shows),
         Apply \/ Refuse \/ Load \/ ModFrequency \/ ModeSet \/ Publish \/ Warn \/ SendLine
  PROVE  History(Shows)' /\ Grown /\ \A p \in Pages : Follows(page'[p], past') /\ Fades(page[p], page'[p])
<1>0. /\ History(Shows) /\ past \in Seq(Shows) /\ show = past[Len(past)] /\ Len(past) \in Nat /\ Len(past) >= 1
      /\ \A p \in Pages : Page(page[p]) /\ Follows(page[p], past)
      /\ bus \in Seq(Ops) /\ mode \in {"edit", "show"} /\ sending \in SUBSET Nat
      /\ show \in Shows
  BY DEF Following, History, Journals
<1>1. ASSUME UNCHANGED <<past, show>>, NEW event \in Events, Broadcast(event),
             event.type \notin {"edit_applied"}
      PROVE  History(Shows)' /\ Grown /\ \A p \in Pages : Follows(page'[p], past') /\ Fades(page[p], page'[p])
  <2>1. Grows(past, past', event)
    BY <1>0, <1>1 DEF Grows, Leads
  <2> QED BY <1>0, <1>1, <2>1, BroadcastFollows DEF History, Grown
<1>2. ASSUME NEW s \in Shows, Becomes(s), NEW event \in Events, Broadcast(event),
             event.type = "show_loaded" \/ (event.type = "edit_applied" /\ event.op \in Ops /\ s = E!Applied(event.op, show))
      PROVE  History(Shows)' /\ Grown /\ \A p \in Pages : Follows(page'[p], past') /\ Fades(page[p], page'[p])
  <2> DEFINE n == Len(past)
  <2>1. /\ History(Shows)' /\ past' \in Seq(Shows) /\ Len(past') = n + 1 /\ past'[n + 1] = s
        /\ \A i \in 1..n : past'[i] = past[i]
    BY <1>0, <1>2, Became
  <2>2. n \in 1..n /\ past[n] = show /\ n <= n + 1
    BY <1>0
  <2> HIDE DEF n
  <2>3. past'[n] = show
    BY <2>1, <2>2
  <2>4. Leads(event, n, n + 1, past')
    BY <1>2, <2>1, <2>2, <2>3 DEF Leads
  <2>5. Grows(past, past', event)
    BY <2>1, <2>4 DEF Grows, n
  <2> QED BY <1>0, <1>2, <2>1, <2>5, BecameGrown, BroadcastFollows
<1>3. CASE Apply
  <2> DEFINE op == Head(bus)
             event == EditApplied(op)
             s == E!Applied(op, show)
  <2>1. bus # <<>> /\ Becomes(s) /\ Broadcast(event)
    BY <1>3 DEF Apply
  <2>2. op \in Ops
    BY <1>0, <2>1
  <2> HIDE DEF op
  <2>3. event \in Events /\ event.type = "edit_applied" /\ event.op = op
    BY <2>2, EventsAreEvents DEF EditApplied
  <2>4. s \in Shows
    BY <1>0, <2>2 DEF Editable
  <2> HIDE DEF event, s
  <2>5. s = E!Applied(event.op, show)
    BY <2>3 DEF s
  <2> QED BY <1>2, <2>1, <2>2, <2>3, <2>4, <2>5
<1>4. CASE Load
  <2>1. PICK s \in {Start, Other} \ {show} : Becomes(s)
    BY <1>4 DEF Load
  <2>2. s \in Shows /\ Broadcast(ShowLoaded) /\ ShowLoaded \in Events /\ ShowLoaded.type = "show_loaded"
    BY <1>4, EventsAreEvents DEF Load, Editable, ShowLoaded
  <2> QED BY <1>2, <2>1, <2>2
<1>5. CASE ModFrequency
  <2>1. Becomes(Tuned(show)) /\ Tuned(show) \in Shows
        /\ page' = [p \in Pages |-> [page[p] EXCEPT !.exact = FALSE]]
    BY <1>0, <1>5 DEF ModFrequency, Editable
  <2>2. ASSUME NEW p \in Pages PROVE ~page'[p].exact
    <3> DEFINE c == page[p]
    <3>1. page'[p] = [c EXCEPT !.exact = FALSE] /\ Page(c)
      BY <1>0, <2>1
    <3> HIDE DEF c
    <3> QED BY <3>1 DEF Page, Fields
  <2>3. \A p \in Pages : Follows(page'[p], past') /\ Fades(page[p], page'[p])
    BY <2>2 DEF Follows, Fades
  <2> QED BY <1>0, <2>1, <2>3, Became, BecameGrown
<1>6. CASE ModeSet
  <2>1. Broadcast(ModeChanged(mode')) /\ mode' \in {"edit", "show"} /\ UNCHANGED <<past, show>>
    BY <1>6 DEF ModeSet
  <2>2. ModeChanged(mode') \in Events /\ ModeChanged(mode').type = "mode_changed"
    BY <2>1, EventsAreEvents DEF ModeChanged
  <2> QED BY <1>1, <2>1, <2>2
<1>7. CASE Publish
  <2>1. UNCHANGED <<past, show>>
        /\ page' = [p \in Pages |-> [page[p] EXCEPT !.changed = Connected(page[p])]]
    BY <1>7 DEF Publish
  <2>2. ASSUME NEW p \in Pages PROVE Follows(page'[p], past) /\ Fades(page[p], page'[p])
    <3> DEFINE c == page[p]
               new == Connected(c)
               d == [c EXCEPT !.changed = new]
    <3>1. Page(c) /\ Follows(c, past) /\ page'[p] = d
      BY <1>0, <2>1
    <3> HIDE DEF c, new
    <3>2. d.exact = c.exact /\ d.copy = c.copy /\ d.inbox = c.inbox /\ d.link = c.link
      BY <3>1 DEF Page, Fields
    <3> HIDE DEF d
    <3> QED BY <3>1, <3>2, SameFollows DEF c
  <2> QED BY <1>0, <2>1, <2>2 DEF History, Grown
<1>8. CASE Refuse \/ Warn
  <2>1. UNCHANGED <<past, show, page>>
    BY <1>8 DEF Refuse, Warn, session
  <2> QED BY <1>0, <2>1 DEF History, Grown, Fades
<1>9. CASE SendLine
  <2>1. PICK n \in sending : Broadcast(LogLine(n))
    BY <1>9 DEF SendLine
  <2>2. UNCHANGED <<past, show>> /\ LogLine(n) \in Events /\ LogLine(n).type = "log_line"
    BY <1>0, <1>9, EventsAreEvents, LineOfLog DEF SendLine, session
  <2> QED BY <1>1, <2>1, <2>2
<1> QED BY <1>3, <1>4, <1>5, <1>6, <1>7, <1>8, <1>9

\* One page moves, and goes on following.
LEMMA TurnFollows ==
  ASSUME NEW Shows, Following(Shows), NEW p \in Pages, NEW d, Turns(p, d), Follows(d, past)
  PROVE  /\ History(Shows)' /\ past' = past
         /\ page'[p] = d /\ \A q \in Pages : (q # p => page'[q] = page[q]) /\ Follows(page'[q], past')
<1>1. page' = [page EXCEPT ![p] = d] /\ past' = past /\ show' = show
  BY DEF Turns, session
<1>2. page = [q \in Pages |-> page[q]] /\ History(Shows) /\ \A q \in Pages : Follows(page[q], past)
  BY DEF Following, Journals
<1>3. \A q \in Pages : page'[q] = IF q = p THEN d ELSE page[q]
  BY <1>1, <1>2
<1>4. History(Shows)'
  BY <1>1, <1>2 DEF History
<1> QED BY <1>1, <1>2, <1>3, <1>4

\* A page whose copy stays, or that stops following.
LEMMA FadeStep ==
  ASSUME NEW Shows, Following(Shows), NEW p \in Pages, NEW d, Turns(p, d),
         d.exact => page[p].exact /\ d.copy = page[p].copy /\ d.inbox = page[p].inbox /\ d.link = page[p].link
  PROVE  History(Shows)' /\ (\A q \in Pages : Follows(page'[q], past')) /\ R!Next
<1>1. Follows(page[p], past)
  BY DEF Following
<1>2. Follows(d, past) /\ Fades(page[p], d)
  BY <1>1, SameFollows
<1>3. /\ History(Shows)' /\ past' = past
      /\ page'[p] = d /\ \A q \in Pages : (q # p => page'[q] = page[q]) /\ Follows(page'[q], past')
  BY <1>2, TurnFollows
<1>4. \A q \in Pages : Fades(page[q], page'[q])
  BY <1>2, <1>3 DEF Fades
<1>5. R!Next
  BY <1>3, <1>4, FadesIsPart DEF Grown
<1> QED BY <1>3, <1>5

\* What is shown when one page goes on to the show s.
LEMMA ShownAt ==
  ASSUME NEW p \in Pages, NEW s, page'[p].exact, page'[p].copy = s,
         \A q \in Pages : q # p => page'[q] = page[q]
  PROVE  [q \in Pages |-> IF page'[q].exact THEN page'[q].copy ELSE Nothing] = [Shown EXCEPT ![p] = s]
<1>1. \A q \in Pages : (IF page'[q].exact THEN page'[q].copy ELSE Nothing) = IF q = p THEN s ELSE Shown[q]
  BY DEF Shown
<1>2. [Shown EXCEPT ![p] = s] = [q \in Pages |-> IF q = p THEN s ELSE Shown[q]]
  BY DEF Shown
<1> QED BY <1>1, <1>2

\* A page of which the copy is the show, with nothing to come, joins.
LEMMA JoinFollows ==
  ASSUME NEW Shows, Following(Shows), NEW p \in Pages, NEW d, Turns(p, d),
         d.exact, d.link \in {"greeted", "open"}, d.copy = show, d.inbox = <<>>
  PROVE  History(Shows)' /\ (\A q \in Pages : Follows(page'[q], past')) /\ R!Next
<1> DEFINE n == Len(past)
           w == <<n>>
<1>1. n \in 1..n /\ d.copy = past[n] /\ Len(d.inbox) = 0
  BY DEF Following, History
<1>2. w \in Seq(1..n) /\ Len(w) = 1 /\ w[1] = n
  BY <1>1
<1> HIDE DEF w
<1>3. Track(d, w, past)
  BY <1>1, <1>2 DEF Track
<1>4. Follows(d, past)
  BY <1>3 DEF Follows
<1>5. /\ History(Shows)' /\ past' = past
      /\ page'[p] = d /\ \A q \in Pages : (q # p => page'[q] = page[q]) /\ Follows(page'[q], past')
  BY <1>4, TurnFollows
<1>6. [q \in Pages |-> IF page'[q].exact THEN page'[q].copy ELSE Nothing] = [Shown EXCEPT ![p] = past[n]]
  BY <1>1, <1>5, ShownAt
<1>7. R!Join(p)
  BY <1>5, <1>6 DEF R!Join, Shown
<1> QED BY <1>5, <1>7 DEF R!Next

\* The page that is greeted joins with the show of now, if nothing that the
\* published state already holds is still to come.
LEMMA HelloFollows ==
  ASSUME NEW Shows, Following(Shows), NEW p \in Pages, Hello(p)
  PROVE  History(Shows)' /\ (\A q \in Pages : Follows(page'[q], past')) /\ R!Next
<1> DEFINE c == page[p]
           same == published.show = show /\ c.inbox = <<>>
           d == [c EXCEPT !.link = "greeted", !.copy = published.show, !.mode = published.mode,
                          !.changed = FALSE, !.exact = same]
<1>1. Turns(p, d) /\ Page(c)
  BY DEF Hello, Following, Journals
<1> HIDE DEF c
<1>2. d.exact = same /\ d.copy = published.show /\ d.inbox = c.inbox /\ d.link = "greeted"
  BY <1>1 DEF Page, Fields
<1> HIDE DEF d
<1>3. CASE same
  BY <1>1, <1>2, <1>3, JoinFollows
<1>4. CASE ~same
  BY <1>1, <1>2, <1>4, FadeStep
<1> QED BY <1>3, <1>4

\* A page goes on to the same show or to a later one.
LEMMA RelayFollows ==
  ASSUME NEW Shows, Editable(Shows), Following(Shows), NEW p \in Pages, Relay(p)
  PROVE  History(Shows)' /\ (\A q \in Pages : Follows(page'[q], past')) /\ R!Next
<1> DEFINE c == page[p]
           h == Heard([c EXCEPT !.inbox = Tail(@)], Head(c.inbox))
           d == CaughtUp(h)
           back == h.link = "open" /\ h.inbox = <<>> /\ h.copy = show
<1>1. /\ Turns(p, d) /\ Page(c) /\ Follows(c, past) /\ c.link = "open" /\ c.inbox # <<>> /\ past \in Seq(Shows)
  BY DEF Relay, Following, Journals, History
<1> HIDE DEF c
<1>2. Follows(h, past) /\ Goes(c, h, past) /\ DOMAIN h = Fields
  BY <1>1, HeardFollows, HeardFields
<1> HIDE DEF h
<1>6. d.exact = (h.exact \/ back) /\ d.copy = h.copy /\ d.inbox = h.inbox /\ d.link = h.link
  BY <1>2 DEF CaughtUp, Fields
<1> HIDE DEF d
<1>7. CASE back
  BY <1>1, <1>6, <1>7, JoinFollows
<1>8. ASSUME ~back
      PROVE  History(Shows)' /\ (\A q \in Pages : Follows(page'[q], past')) /\ R!Next
  <2>1. Follows(d, past) /\ Goes(c, d, past)
    BY <1>2, <1>6, <1>8 DEF Follows, Goes, Track
  <2>2. /\ History(Shows)' /\ past' = past
        /\ page'[p] = d /\ \A q \in Pages : (q # p => page'[q] = page[q]) /\ Follows(page'[q], past')
    BY <1>1, <2>1, TurnFollows
  <2>3. CASE d.exact
    <3>1. c.exact
      BY <2>1, <2>3 DEF Goes
    <3>2. PICK i \in 1..Len(past), j \in 1..Len(past) : i <= j /\ c.copy = past[i] /\ d.copy = past[j]
      BY <2>1, <2>3 DEF Goes
    <3> DEFINE shown2 == [q \in Pages |-> IF page'[q].exact THEN page'[q].copy ELSE Nothing]
    <3>3. shown2 = [Shown EXCEPT ![p] = past[j]]
      BY <2>2, <2>3, <3>2, ShownAt
    <3>4. shown2[p] = past[j] /\ Shown[p] = past[i]
      BY <2>2, <2>3, <3>1, <3>2 DEF Shown, c
    <3>5. shown2 = [Shown EXCEPT ![p] = shown2[p]]
      BY <3>3, <3>4
    <3>6. R!Follow(p)
      BY <2>2, <3>2, <3>4, <3>5 DEF R!Follow, R!Versions, Shown
    <3> QED BY <2>2, <3>6 DEF R!Next
  <2>4. CASE ~d.exact
    <3>1. \A q \in Pages : Fades(page[q], page'[q])
      BY <2>2, <2>4 DEF Fades
    <3> QED BY <2>2, <3>1, FadesIsPart DEF Grown
  <2> QED BY <2>3, <2>4
<1> QED BY <1>7, <1>8

LEMMA PageFollows ==
  ASSUME NEW Shows, Following(Shows), NEW p \in Pages,
         Subscribe(p) \/ Replay(p) \/ Dyn(p) \/ Cut(p) \/ Restore(p) \/ Ping(p) \/ PongTimeout(p)
  PROVE  History(Shows)' /\ (\A q \in Pages : Follows(page'[q], past')) /\ R!Next
<1> DEFINE c == page[p]
<1>1. Page(c) /\ Follows(c, past)
  BY DEF Following, Journals
<1>2. CASE Subscribe(p)
  <2> DEFINE none == <<>>
             d == [c EXCEPT !.link = "subscribed", !.inbox = none, !.lagged = FALSE]
  <2>1. Turns(p, d) /\ ~c.exact
    BY <1>1, <1>2 DEF Subscribe, Follows
  <2> HIDE DEF none
  <2>2. d.exact = c.exact
    BY <1>1 DEF Page, Fields
  <2> HIDE DEF d
  <2> QED BY <2>1, <2>2, FadeStep
<1>3. CASE Replay(p)
  <2> DEFINE first == Max({1, count.lines - EarlyCap + 1})
             journal == c.journal \cup ToSet(early)
             d == [c EXCEPT !.link = "open", !.journal = journal, !.since = first]
  <2>1. Turns(p, d)
    BY <1>3 DEF Replay
  <2> HIDE DEF first, journal
  <2>2. d.exact = c.exact /\ d.copy = c.copy /\ d.inbox = c.inbox /\ d.link = "open"
    BY <1>1 DEF Page, Fields
  <2> HIDE DEF d
  <2>3. Follows(d, past) /\ Fades(c, d)
    BY <1>1, <2>2 DEF Follows, Fades, Track
  <2>4. /\ History(Shows)' /\ past' = past
        /\ page'[p] = d /\ \A q \in Pages : (q # p => page'[q] = page[q]) /\ Follows(page'[q], past')
    BY <2>1, <2>3, TurnFollows
  <2>5. \A q \in Pages : Fades(page[q], page'[q])
    BY <2>3, <2>4 DEF Fades
  <2> QED BY <2>4, <2>5, FadesIsPart DEF Grown
<1>4. CASE Dyn(p)
  <2> DEFINE d == [c EXCEPT !.changed = FALSE, !.mode = published.mode]
  <2>1. Turns(p, d)
    BY <1>4 DEF Dyn
  <2>2. d.exact = c.exact /\ d.copy = c.copy /\ d.inbox = c.inbox /\ d.link = c.link
    BY <1>1 DEF Page, Fields
  <2> HIDE DEF d
  <2> QED BY <2>1, <2>2, FadeStep
<1>5. CASE Cut(p)
  <2> DEFINE d == [c EXCEPT !.cut = TRUE]
  <2>1. Turns(p, d)
    BY <1>5 DEF Cut
  <2>2. d.exact = c.exact /\ d.copy = c.copy /\ d.inbox = c.inbox /\ d.link = c.link
    BY <1>1 DEF Page, Fields
  <2> HIDE DEF d
  <2> QED BY <2>1, <2>2, FadeStep
<1>6. CASE Restore(p)
  <2> DEFINE d == [c EXCEPT !.cut = FALSE, !.ping = FALSE]
  <2>1. Turns(p, d)
    BY <1>6 DEF Restore
  <2>2. d.exact = c.exact /\ d.copy = c.copy /\ d.inbox = c.inbox /\ d.link = c.link
    BY <1>1 DEF Page, Fields
  <2> HIDE DEF d
  <2> QED BY <2>1, <2>2, FadeStep
<1>7. CASE Ping(p)
  <2> DEFINE d == [c EXCEPT !.ping = c.cut]
  <2>1. Turns(p, d)
    BY <1>7 DEF Ping, Pinged
  <2>2. d.exact = c.exact /\ d.copy = c.copy /\ d.inbox = c.inbox /\ d.link = c.link
    BY <1>1 DEF Page, Fields
  <2> HIDE DEF d
  <2> QED BY <2>1, <2>2, FadeStep
<1>8. CASE PongTimeout(p)
  <2> DEFINE none == <<>>
             d == [c EXCEPT !.link = "backoff", !.inbox = none, !.changed = FALSE, !.exact = FALSE, !.ping = FALSE]
  <2>1. Turns(p, d)
    BY <1>8 DEF PongTimeout, Closed
  <2> HIDE DEF none
  <2>2. ~d.exact
    BY <1>1 DEF Page, Fields
  <2> HIDE DEF d
  <2> QED BY <2>1, <2>2, FadeStep
<1> QED BY <1>2, <1>3, <1>4, <1>5, <1>6, <1>7, <1>8

\* A gesture: the page stops following.
LEMMA GestureFollows ==
  ASSUME NEW Shows, Following(Shows), NEW p \in Pages, Gesture(p)
  PROVE  History(Shows)' /\ (\A q \in Pages : Follows(page'[q], past')) /\ R!Next
<1>1. PICK op \in Gestures : page' = [page EXCEPT ![p].copy = ApplyOp(op, @), ![p].exact = FALSE]
  BY DEF Gesture
<1>2. /\ past' = past /\ show' = show /\ History(Shows) /\ page = [q \in Pages |-> page[q]]
      /\ \A q \in Pages : Page(page[q]) /\ Follows(page[q], past)
  BY DEF Gesture, Following, Journals
<1> DEFINE new == ApplyOp(op, page[p].copy)
<1>3. page' = [q \in Pages |-> IF q = p THEN [page[p] EXCEPT !.copy = new, !.exact = FALSE] ELSE page[q]]
  BY <1>1, <1>2
<1> HIDE DEF new
<1>4. ~page'[p].exact /\ \A q \in Pages : q # p => page'[q] = page[q]
  BY <1>2, <1>3 DEF Page, Fields
<1>5. \A q \in Pages : Follows(page'[q], past') /\ Fades(page[q], page'[q])
  BY <1>2, <1>4 DEF Follows, Fades
<1>6. History(Shows)' /\ Grown
  BY <1>2 DEF History, Grown
<1> QED BY <1>5, <1>6, FadesIsPart

LEMMA FollowingInit ==
  ASSUME NEW Shows, Editable(Shows), Init
  PROVE  Following(Shows) /\ R!Init
<1>1. Journals
  BY JournalsInit
<1>2. show = Start /\ past = <<Start>> /\ page = [p \in Pages |-> Away]
  BY DEF Init
<1>3. Start \in Shows
  BY DEF Editable
<1>4. History(Shows)
  BY <1>2, <1>3 DEF History
<1>5. \A p \in Pages : ~page[p].exact
  BY <1>2 DEF Away
<1>6. R!Init
  BY <1>2, <1>5 DEF R!Init
<1> QED BY <1>1, <1>4, <1>5, <1>6 DEF Following, Follows

LEMMA FollowingStep ==
  ASSUME NEW Shows, Editable(Shows), Following(Shows), [Next]_vars
  PROVE  Following(Shows)' /\ (R!Next \/ UNCHANGED <<past, Shown>>)
<1>0. Journals'
  BY JournalsStep DEF Following
<1>1. CASE Apply \/ Refuse \/ Load \/ ModFrequency \/ ModeSet \/ Publish \/ Warn \/ SendLine
  <2>1. History(Shows)' /\ Grown /\ \A p \in Pages : Follows(page'[p], past') /\ Fades(page[p], page'[p])
    BY <1>1, SessionFollows
  <2> QED BY <1>0, <2>1, FadesIsPart DEF Following
<1>2. ASSUME UNCHANGED <<past, show, page>>
      PROVE  Following(Shows)' /\ UNCHANGED <<past, Shown>>
  BY <1>0, <1>2 DEF Following, History, Shown
<1>3. CASE SendElsewhere \/ UNCHANGED vars
  BY <1>2, <1>3 DEF SendElsewhere, Sent, vars
<1>4. ASSUME NEW p \in Pages, SendEdit(p)
      PROVE  Following(Shows)' /\ UNCHANGED <<past, Shown>>
  BY <1>2, <1>4 DEF SendEdit, Sent
<1>5. ASSUME NEW p \in Pages, Hello(p)
      PROVE  Following(Shows)' /\ R!Next
  BY <1>0, <1>5, HelloFollows DEF Following
<1>6. ASSUME NEW p \in Pages, Relay(p)
      PROVE  Following(Shows)' /\ R!Next
  BY <1>0, <1>6, RelayFollows DEF Following
<1>8. ASSUME NEW p \in Pages, Gesture(p)
      PROVE  Following(Shows)' /\ R!Next
  BY <1>0, <1>8, GestureFollows DEF Following
<1>7. ASSUME NEW p \in Pages,
             Subscribe(p) \/ Replay(p) \/ Dyn(p) \/ Cut(p) \/ Restore(p) \/ Ping(p) \/ PongTimeout(p)
      PROVE  Following(Shows)' /\ R!Next
  BY <1>0, <1>7, PageFollows DEF Following
<1> QED BY <1>1, <1>3, <1>4, <1>5, <1>6, <1>7, <1>8 DEF Next

LEMMA ShowsAreEditable ==
  ASSUME NEW Item, NEW Value, Typed(Item, Value),
         \A op \in Ops : EditOf(op, Item, Value),
         Start \in ShowsOf(Item, Value), Other \in ShowsOf(Item, Value),
         \A s \in ShowsOf(Item, Value) : Tuned(s) \in ShowsOf(Item, Value)
  PROVE  Editable(ShowsOf(Item, Value))
BY EditFits, EditStays DEF Editable

\* A page that joined with the show of the moment, or has caught up with it,
\* and since then lost nothing and saw no gesture of its own, shows the show as
\* it is or was and never goes back: the protocol of the
\* interface (handle_ws, apply_edit, onEvent) implements Replica, whatever the
\* lists of a show and what is in them, and for all edits EditOp can hold.
THEOREM PagesFollowTheShow ==
  ASSUME NEW CONSTANT Item, NEW CONSTANT Value, Typed(Item, Value),
         \A op \in Ops : EditOf(op, Item, Value),
         Start \in ShowsOf(Item, Value), Other \in ShowsOf(Item, Value),
         \A s \in ShowsOf(Item, Value) : Tuned(s) \in ShowsOf(Item, Value)
  PROVE  Spec => PagesFollow
<1> DEFINE Shows == ShowsOf(Item, Value)
<1>0. Editable(Shows)
  BY ShowsAreEditable
<1> HIDE DEF Shows
<1>1. Init => Following(Shows) /\ R!Init
  BY <1>0, FollowingInit
<1>2. Following(Shows) /\ [Next]_vars => Following(Shows)'
  BY <1>0, FollowingStep
<1>3. Following(Shows) /\ [Next]_vars => [R!Next]_<<past, [p \in Pages |-> IF page[p].exact THEN page[p].copy ELSE Nothing]>>
  BY <1>0, FollowingStep DEF Shown
<1> QED BY <1>1, <1>2, <1>3, PTL DEF Spec, PagesFollow, R!Spec

================================================================================
