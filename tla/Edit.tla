--------------------------------- MODULE Edit ---------------------------------
(***************************************************************************)
(* What an edit does to a show (EditOp::apply, crates/core/src/command.rs) *)
(* and what the session keeps to take it back: the bounded stack of        *)
(* snapshots (crates/app/src/undo.rs) and the key by which the edits of    *)
(* one gesture are taken for one edit (coalesce_key, session.rs).          *)
(*                                                                         *)
(* A show is a record of lists and settings.  An edit names the list it is *)
(* about: [op |-> "update", at |-> "slices", item |-> s].                  *)
(***************************************************************************)
EXTENDS Integers, SequencesExt

CONSTANTS
  UndoCap,    \* UNDO_CAP
  ByteCap,    \* UNDO_BYTE_CAP
  Bytes(_)    \* estimate_bytes: the size of a show

ASSUME UndoAssumption == UndoCap \in Nat \ {0} /\ ByteCap \in Nat

None == "none"
----------------------------------------------------------------------------
(* EditOp::apply.                                                          *)

NumberOf(at, item) == IF at = "cues" THEN item.number ELSE item.id

\* The first item of a list with this number, or 0.
Place(at, list, n) == SelectInSeq(list, LAMBDA item : NumberOf(at, item) = n)
Put(list, i, item) == IF i \in DOMAIN list THEN [list EXCEPT ![i] = item] ELSE list

\* retain: the items of another number, in the order they were in.
Without(at, list, n) ==
  LET left[i \in 0..Len(list)] == IF i = 0 THEN <<>>
                                  ELSE IF NumberOf(at, list[i]) = n THEN left[i - 1]
                                       ELSE Append(left[i - 1], list[i])
  IN  left[Len(list)]

\* A cue that exists is replaced; a new one goes where binary_search_by finds its
\* place, in a list that is sorted by number.
CueAdded(cues, cue) ==
  LET same == {i \in DOMAIN cues : cues[i].number = cue.number}
      place == CHOOSE i \in 1..(Len(cues) + 1) :
                 \A j \in DOMAIN cues : j < i <=> cues[j].number < cue.number
  IN  IF same # {} THEN Put(cues, CHOOSE i \in same : TRUE, cue) ELSE InsertAt(cues, place, cue)

StatePut(cue, state) ==
  LET i == SelectInSeq(cue.states, LAMBDA s : s.slice = state.slice)
  IN  [cue EXCEPT !.states = IF i = 0 THEN Append(@, state) ELSE Put(@, i, state)]

\* An edit about something that is not there changes nothing.
Applied(op, show) ==
  LET at == op.at
      list == show[at]
      i == Place(at, list, op.number)
  IN  CASE op.op = "add" ->
             [show EXCEPT ![at] = IF at = "cues" THEN CueAdded(@, op.item) ELSE Append(@, op.item)]
        [] op.op = "remove" -> [show EXCEPT ![at] = Without(at, @, op.number)]
        [] op.op = "update" /\ i # 0 -> [show EXCEPT ![at] = [@ EXCEPT ![i] = op.item]]
        [] op.op = "corner" /\ i # 0 /\ op.index \in DOMAIN list[i].corners ->
             [show EXCEPT ![at][i].corners[op.index] = op.item]
        [] op.op = "state" /\ i # 0 -> [show EXCEPT ![at][i] = StatePut(@, op.item)]
        [] op.op = "remove_at" /\ op.number \in DOMAIN list ->
             [show EXCEPT ![at] = RemoveAt(@, op.number)]
        [] op.op = "update_at" -> [show EXCEPT ![at] = Put(@, op.number, op.item)]
        [] op.op = "set" -> [show EXCEPT ![at] = op.item]
        [] OTHER -> show

\* The edits of one gesture have the same key; what adds or removes has none.
CoalesceKey(op) ==
  CASE op.op \in {"update", "update_at", "set"} -> <<op.at, op.number>>
    [] op.op = "corner" -> <<"corner", op.number, op.index>>
    [] op.op = "state" -> <<"cuestate", op.number, op.item.slice>>
    [] OTHER -> <<>>

\* The templates of the show, for the fields of a new cue left as they come.
\* Color is a field of the interface: the transition and the follow are the
\* ones a cue plays.
WithDefaults(cue, defaults, plain) ==
  [f \in DOMAIN cue |->
     IF f \in DOMAIN defaults /\ defaults[f] # None /\ cue[f] = plain[f]
     THEN defaults[f] ELSE cue[f]]
----------------------------------------------------------------------------
(* UndoStack.                                                              *)

NoHistory == [undo |-> <<>>, redo |-> <<>>]

Weight(shows) == FoldSeq(LAMBDA s, w : w + Bytes(s), 0, shows)

\* The oldest snapshots go until the others fit; the last one always stays.
FitsFrom(shows, k) == k = Len(shows) \/ Weight(SubSeq(shows, k, Len(shows))) <= ByteCap
Fitting(shows) ==
  LET from == CHOOSE k \in 1..Len(shows) :
                FitsFrom(shows, k) /\ \A j \in 1..(k - 1) : ~FitsFrom(shows, j)
  IN  SubSeq(shows, from, Len(shows))

\* push(): the show before an edit.  What was undone can no longer be redone.
Pushed(stack, before) ==
  LET room == IF Len(stack.undo) >= UndoCap THEN Tail(stack.undo) ELSE stack.undo
  IN  [undo |-> Fitting(Append(room, before)), redo |-> <<>>]

\* undo() and redo(): the last snapshot of one stack becomes the show, and
\* the show goes to the other.
Undone(stack, current) ==
  [undo |-> Front(stack.undo), redo |-> Append(stack.redo, current)]
Redone(stack, current) ==
  [undo |-> Append(stack.undo, current), redo |-> Front(stack.redo)]
===============================================================================
