----------------------------- MODULE MCInterface -----------------------------
(* A page, two shows, edits of slices; applyOp against EditOp::apply over *)
(* every edit of a larger show.                                              *)
EXTENDS Interface, TLC

Slice(i, v) == [id |-> i, v |-> v]
MCStart == [slices |-> <<Slice(1, 1)>>, freq |-> 0]
MCOther == [slices |-> <<Slice(1, 2), Slice(2, 1)>>, freq |-> 0]
MCNothing == [slices |-> <<>>, freq |-> -1]
MCTuned(s) == [s EXCEPT !.freq = 1]
MCOps == {[op |-> "add", at |-> "slices", number |-> 3, item |-> Slice(3, 1)],
          [op |-> "update", at |-> "slices", number |-> 1, item |-> Slice(1, 3)]}
MCGestures == {op \in MCOps : op.op = "update"}

\* A show with something of every kind, and an edit of every kind about it.
Cue(n, states) == [number |-> n, states |-> states]
State(s, v) == [slice |-> s, v |-> v]
Full == [slices |-> <<[id |-> 1, corners |-> <<0, 1>>], [id |-> 2, corners |-> <<2, 3>>]>>,
         cues |-> <<Cue(1, <<State(1, 0)>>), Cue(3, <<>>)>>,
         keys |-> <<"a", "b">>, settings |-> "s"]
ItemOf == [slices |-> [id |-> 2, corners |-> <<9, 9>>], cues |-> Cue(3, <<State(2, 5)>>)]
FullOps ==
  {[op |-> o, at |-> a, number |-> n, item |-> IF a = "cues" THEN Cue(n, <<State(2, 5)>>)
                                                ELSE [id |-> n, corners |-> <<9, 9>>]] :
     o \in {"add", "remove", "update"}, a \in {"slices", "cues"}, n \in 0..4}
  \cup {[op |-> "corner", at |-> "slices", number |-> n, index |-> i, item |-> 7] : n \in 0..3, i \in 0..3}
  \cup {[op |-> "state", at |-> "cues", number |-> n, item |-> State(s, 8)] : n \in 0..4, s \in 1..2}
  \cup {[op |-> o, at |-> "keys", number |-> n, item |-> "k"] : o \in {"remove_at", "update_at"}, n \in 0..3}
  \cup {[op |-> "set", at |-> "settings", number |-> 0, item |-> "t"]}

Increasing(cues) == \A i, j \in DOMAIN cues : i < j => cues[i].number < cues[j].number

ASSUME \A a \in FullOps, b \in FullOps :
  LET s == E!Applied(a, Full)
  IN  s = ApplyOp(a, Full) /\ E!Applied(b, s) = ApplyOp(b, s) /\ Increasing(E!Applied(b, s).cues)
===============================================================================
