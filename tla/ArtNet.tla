-------------------------------- MODULE ArtNet --------------------------------
(***************************************************************************)
(* The pure part of the Art-Net node (crates/control-artnet): the packets  *)
(* it reads and answers, the mapper from DMX channels to parameters, the   *)
(* limit on its answers and the watch on sequence numbers.                 *)
(*                                                                         *)
(* A packet is a record of the fields the parser looks at; a byte that is  *)
(* missing from it is one the datagram is too short for.  Times are        *)
(* seconds, the window of the limits is one.                               *)
(***************************************************************************)
EXTENDS Integers, Sequences, SequencesExt, FiniteSets, Functions

CONSTANTS
  Channels,     \* channels of a universe (512)
  MaxSources,   \* MAX_POLL_SOURCES
  Window,       \* POLL_REPLY_WINDOW
  GapWarn       \* SEQUENCE_GAP_WARN

ArtNetAssumption == {Channels, MaxSources, Window, GapWarn} \subseteq Nat \ {0}

ProtVer == 14
Header == 18            \* bytes before the channels

----------------------------------------------------------------------------
(* Packets (packet.rs).                                                    *)

\* parse_artdmx: {} when the packet is not a frame of DMX.
ParsedDmx(p) ==
  IF /\ p.id /\ p.opcode = "dmx" /\ p.version >= ProtVer
     /\ p.length \in 1..Channels /\ p.size >= Header + p.length
  THEN {[universe |-> p.universe, sequence |-> p.sequence, data |-> SubSeq(p.data, 1, p.length)]}
  ELSE {}

\* parse_artpoll: the flags may be missing.
ParsedPoll(p) ==
  IF p.id /\ p.opcode = "poll" /\ p.version >= ProtVer /\ p.size >= 12
  THEN {[flags |-> IF p.size > 12 THEN p.flags ELSE 0]} ELSE {}

\* build_artpoll_reply: at most four universes, of the page of the first.
Page(universe) == universe \div 16
PollReply(universes) ==
  LET first == IF universes = <<>> THEN 0 ELSE universes[1]
      ports == SelectSeq(universes, LAMBDA u : Page(u) = Page(first))
  IN  [page |-> Page(first),
       ports |-> [i \in 1..(IF Len(ports) < 4 THEN Len(ports) ELSE 4) |-> ports[i] % 16]]

----------------------------------------------------------------------------
(* The mapper (mapper.rs): entries of the patch and the last raw value of  *)
(* each, {} before the first.                                              *)

NoMapper == [entries |-> <<>>, last |-> <<>>]

\* set_entries: the next frame sends every value again.
Patched(entries) == [entries |-> entries, last |-> [i \in DOMAIN entries |-> {}]]

\* raw_value: {} when the frame does not reach the channel, or its second byte.
Raw(entry, data) ==
  LET ch == entry.channel
      last == IF entry.wide THEN ch + 1 ELSE ch
  IN  IF ch \notin 1..Channels \/ last > Len(data) THEN {}
      ELSE {IF entry.wide THEN 256 * data[ch] + data[ch + 1] ELSE data[ch]}

Top(entry) == IF entry.wide THEN 65535 ELSE 255
Scaled(entry, raw) == entry.min + (raw * (entry.max - entry.min)) \div Top(entry)

\* apply: the entries of this universe whose channel has changed, in order.
Changed(mapper, universe, data) ==
  {i \in DOMAIN mapper.entries :
     /\ mapper.entries[i].universe = universe
     /\ Raw(mapper.entries[i], data) \notin {{}, mapper.last[i]}}

Applied(mapper, universe, data) ==
  LET changed == Changed(mapper, universe, data)
      command(i) == [addr |-> mapper.entries[i].addr,
                     value |-> Scaled(mapper.entries[i],
                                      CHOOSE r \in Raw(mapper.entries[i], data) : TRUE)]
  IN  [mapper |-> [mapper EXCEPT !.last = [i \in DOMAIN @ |->
                     IF i \in changed THEN Raw(mapper.entries[i], data) ELSE @[i]]],
       out    |-> LET order == SetToSortSeq(changed, <)
                  IN  [k \in DOMAIN order |-> command(order[k])]]

\* smoothing_overrides.
Overrides(entries) == [i \in DOMAIN entries |-> [addr |-> entries[i].addr, ms |-> entries[i].smoothing]]

----------------------------------------------------------------------------
(* Limits (node.rs).                                                       *)

\* PollReplyLimiter::allow, on the times of the last answers.
Hot(replies, now) == {s \in DOMAIN replies : now - replies[s] < Window}
Allowed(replies, from, now) ==
  IF from \in DOMAIN replies
  THEN IF from \in Hot(replies, now) THEN [yes |-> FALSE, replies |-> replies]
       ELSE [yes |-> TRUE, replies |-> [replies EXCEPT ![from] = now]]
  ELSE LET kept == IF Cardinality(DOMAIN replies) >= MaxSources
                   THEN Restrict(replies, Hot(replies, now)) ELSE replies
       IN  IF Cardinality(DOMAIN kept) >= MaxSources THEN [yes |-> FALSE, replies |-> kept]
           ELSE [yes |-> TRUE,
                 replies |-> [s \in DOMAIN kept \cup {from} |-> IF s = from THEN now ELSE kept[s]]]

\* WarnThrottle::allow, on [last, muted]: the messages kept back are counted.
Warned(throttle, now) ==
  IF \E t \in throttle.last : now - t < Window
  THEN [yes |-> FALSE, count |-> 0, throttle |-> [throttle EXCEPT !.muted = @ + 1]]
  ELSE [yes |-> TRUE, count |-> throttle.muted, throttle |-> [last |-> {now}, muted |-> 0]]

\* SequenceTracker::observe, on the last sequence of each universe, 0 before
\* the first: the frames lost, when they are many.  Nothing is refused.
Skipped(last, sequence) ==
  LET expected == IF last = 255 THEN 1 ELSE last + 1
  IN  IF sequence >= expected THEN sequence - expected ELSE 255 - expected + sequence

Observed(last, sequence) ==
  [last |-> IF sequence = 0 THEN last ELSE sequence,
   gap  |-> IF sequence = 0 \/ last = 0 \/ Skipped(last, sequence) < GapWarn THEN {}
            ELSE {Skipped(last, sequence)}]
=============================================================================
