------------------------------ MODULE MCNetwork ------------------------------
(* Two settings, a patch that changes its entries and its feedback host, and *)
(* the algorithms of the packets checked on small inputs.                    *)
EXTENDS Network

MCMessage(addr, args) == [type |-> "message", addr |-> addr, param |-> "", args |-> args]
MCGo == MCMessage("cue/go", <<>>)
MCBundle(content) == [type |-> "bundle", content |-> content]
MCDatagrams == {MCGo, MCBundle(<<MCGo, MCMessage("bpm", <<[type |-> "string", value |-> "nan"]>>)>>)}

MCFrame == [id |-> TRUE, opcode |-> "dmx", version |-> 14, universe |-> 0, sequence |-> 0,
            length |-> 2, size |-> 20, data |-> <<10, 20>>]
MCEntry(ch) == [universe |-> 0, channel |-> ch, wide |-> FALSE, min |-> 0, max |-> 255,
                addr |-> "a", smoothing |-> 0]
MCPackets == {MCFrame}
MCFirst == [port |-> 1, artnet |-> TRUE, universes |-> <<0>>]
MCSettings == {MCFirst, [port |-> 2, artnet |-> FALSE, universes |-> <<0>>]}
MCPatches == {[version |-> 1, out |-> {"name"}, entries |-> <<MCEntry(1)>>],
              [version |-> 2, out |-> {"name"}, entries |-> <<MCEntry(1), MCEntry(2)>>],
              [version |-> 3, out |-> {"ip"}, entries |-> <<MCEntry(2)>>]}
MCAddress == [name |-> 1, ip |-> 2]

\* A bundle that nests too deep is never decoded; what is decoded loses no message.
MCNest == <<MCGo, MCBundle(<<MCGo>>), MCBundle(<<MCBundle(<<MCGo, MCGo>>), MCGo>>)>>
ASSUME \A i \in 1..3 : Understood(MCNest[i]) =
         IF i = 3 /\ MaxBundles < 2 THEN <<>> ELSE [k \in 1..(<<1, 1, 3>>[i]) |-> [op |-> "go"]]

\* The frames a sequence number skips: the distance modulo 255, 0 left out.
ASSUME \A l, s \in 1..255 : A!Skipped(l, s) = (s - l - 1) % 255

\* A frame maps the channels it holds, once per change.
ASSUME LET m == A!Patched(<<MCEntry(2), [MCEntry(2) EXCEPT !.wide = TRUE]>>)
           r == A!Applied(m, 0, <<10, 20>>)
           w == A!Applied(r.mapper, 0, <<10, 20, 30>>)
       IN  /\ r.out = <<[addr |-> "a", value |-> 20]>>
           /\ Len(w.out) = 1 /\ A!Applied(w.mapper, 0, <<10, 20, 30>>).out = <<>>

\* At most one answer per source in a window, and a table that stays bounded.
MCPolls == [1..4 -> {"a", "b", "c"} \X (0..2)]
MCAnswers(s) ==
  LET step(acc, p) == LET r == A!Allowed(acc.replies, p[1], p[2])
                      IN  [replies |-> r.replies,
                           sent |-> IF r.yes THEN Append(acc.sent, p) ELSE acc.sent]
  IN  FoldLeft(step, [replies |-> <<>>, sent |-> <<>>], s)
MCOrdered == {s \in MCPolls : \A i \in 1..3 : s[i][2] <= s[i + 1][2]}
ASSUME \A s \in MCOrdered : LET a == MCAnswers(s) IN
         /\ Cardinality(DOMAIN a.replies) <= MaxSources
         /\ \A i, j \in DOMAIN a.sent : i < j /\ a.sent[i][1] = a.sent[j][1] =>
              a.sent[j][2] - a.sent[i][2] >= Window

\* Only ports of one page are announced, four at most.
ASSUME \A u \in [1..5 -> {0, 1, 15, 16}] : LET r == A!PollReply(u) IN
         /\ Len(r.ports) <= 4 /\ Len(r.ports) >= 1
         /\ \A i \in DOMAIN r.ports : \E k \in 1..5 : u[k] = 16 * r.page + r.ports[i]
=============================================================================
