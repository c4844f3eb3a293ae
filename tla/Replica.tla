------------------------------- MODULE Replica -------------------------------
(***************************************************************************)
(* What the interface promises to a page that follows a show: the page     *)
(* shows the show as it is or as it was, never a mixture that no show ever *)
(* was, and it never goes back.  A page that stops following shows         *)
(* nothing the promise is about, until it joins again.                     *)
(***************************************************************************)
EXTENDS Integers, Sequences

CONSTANTS Pages, Nothing

VARIABLES
  past,    \* the shows so far, the one of now last
  shown    \* what each page shows: a show, or Nothing

Versions == 1..Len(past)

Init == Len(past) = 1 /\ shown = [p \in Pages |-> Nothing]

\* The show changes.
Change ==
  /\ Len(past') = Len(past) + 1 /\ SubSeq(past', 1, Len(past)) = past
  /\ UNCHANGED shown

\* A page that follows goes on to the same show or to a later one.
Follow(p) ==
  /\ \E i \in Versions, j \in Versions : i <= j /\ shown[p] = past[i] /\ shown'[p] = past[j]
  /\ shown' = [shown EXCEPT ![p] = shown'[p]]
  /\ UNCHANGED past

\* A page joins with the show of now, or is back at it.
Join(p) == shown' = [shown EXCEPT ![p] = past[Len(past)]] /\ UNCHANGED past

\* Pages stop following: they were closed, fell behind or changed their own
\* copy, all at once when the show changes in a way that is not told to them.
Part ==
  /\ \E gone \in SUBSET Pages : shown' = [p \in Pages |-> IF p \in gone THEN Nothing ELSE shown[p]]
  /\ past' = past \/ (Len(past') = Len(past) + 1 /\ SubSeq(past', 1, Len(past)) = past)

Next == Change \/ Part \/ \E p \in Pages : Follow(p) \/ Join(p)
Spec == Init /\ [][Next]_<<past, shown>>
===============================================================================
