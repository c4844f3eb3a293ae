------------------------------ MODULE UndoHistory ------------------------------
(***************************************************************************)
(* What undo promises: the shows an operator went through are one line     *)
(* with a place on it.  An edit continues the line from that place; undo   *)
(* and redo walk on it and change no show of it; the oldest shows may be   *)
(* forgotten; another show starts another line.                            *)
(***************************************************************************)
EXTENDS Integers, Sequences

CONSTANT
  Touched(_, _)    \* the second show differs by what changes outside of any edit

VARIABLES line, place

vars == <<line, place>>

Here == line[place]

\* A new edit: the shows after this place are given up, some of the oldest
\* are forgotten.
Do ==
  /\ place' = Len(line')
  /\ \E from \in 1..place : SubSeq(line', 1, place' - 1) = SubSeq(line, from, place)

\* The gesture that made the last show goes on.
Continue ==
  /\ place = Len(line) /\ place' = place /\ Len(line') = Len(line)
  /\ \A i \in 1..(place - 1) : line'[i] = line[i]

\* What changes outside of any edit changes the show of this place alone.
Touch ==
  /\ place' = place /\ Len(line') = Len(line)
  /\ \A i \in DOMAIN line \ {place} : line'[i] = line[i]
  /\ Touched(Here, line'[place])

Undo == place > 1 /\ place' = place - 1 /\ UNCHANGED line
Redo == place < Len(line) /\ place' = place + 1 /\ UNCHANGED line

Open == Len(line') = 1 /\ place' = 1

Init == Len(line) = 1 /\ place = 1
Next == Do \/ Continue \/ Touch \/ Undo \/ Redo \/ Open
Spec == Init /\ [][Next]_vars
===============================================================================
