------------------------------- MODULE MCSession -------------------------------
(* Small instances of Session, and the pure operators of Edit and Library    *)
(* against what they promise.                                                *)
EXTENDS Session

P == <<"p.fs">>
Q == <<"q.fs">>
X == <<"x", "m.mp4">>
Y == <<"y", "m.mp4">>
N == <<"n.png">>

MCKind == [n \in {"p.fs", "q.fs"} |-> "shader"] @@ ("n.png" :> "image")
            @@ [n \in {"m.mp4", ".h"} |-> "video"] @@ [n \in {"t.txt"} |-> "other"]
Rank(p) == IF p = N THEN 1 ELSE IF p = P THEN 2 ELSE IF p = Q THEN 3 ELSE IF p = X THEN 4 ELSE 5
MCBefore(p, q) == Rank(p) < Rank(q)
MCInfo == [p \in {X, Y} |-> "film"]
MCBytes(s) == 1 + Len(s.materials)

Plays(slice, kind, id) == [slice |-> slice, content |-> [kind |-> kind, id |-> id]]
Cue(n, states) == [number |-> n, states |-> states]
Medium(id, path) == [id |-> id, path |-> path, missing |-> FALSE, info |-> L!Unknown]

MCBlank == [name |-> "blank", slices |-> <<>>, cues |-> <<>>, media |-> <<>>, materials |-> <<>>,
            modulators |-> <<>>]
ShowA == [MCBlank EXCEPT !.name = "a", !.slices = <<[id |-> 1]>>,
            !.cues = <<Cue(1, <<Plays(1, "material", 1)>>), Cue(2, <<Plays(1, "media", 1)>>)>>,
            !.media = <<Medium(1, X)>>,
            !.materials = <<[id |-> 1, path |-> P], [id |-> 2, path |-> Q]>>,
            !.modulators = <<[id |-> 1, freq |-> 1]>>]
ShowB == [ShowA EXCEPT !.name = "b", !.media = <<Medium(1, Y)>>,
            !.cues = <<Cue(1, <<Plays(1, "material", 1)>>)>>,
            !.materials = <<[id |-> 1, path |-> Q]>>]
MCCatalogue == ("a" :> ShowA) @@ ("b" :> ShowB)

MCVersions == (Q :> {"v2", "bad"})
MCOps ==
  {[op |-> "update", at |-> "materials", number |-> 1, item |-> [id |-> 1, path |-> Q]],
   [op |-> "remove", at |-> "materials", number |-> 1],
   [op |-> "update", at |-> "media", number |-> 1, item |-> Medium(1, Y)]}
BothFolders == (X :> 0) @@ (Y :> 0)
MCMediaDirs == {BothFolders, Y :> 0}
MCStarted == {[name |-> "a", media |-> BothFolders]}
----------------------------------------------------------------------------
(* Edit.                                                                   *)

ASSUME \A a, b \in {1, 3, 5}, n \in 1..6 : a < b =>
  LET cues == <<Cue(a, <<>>), Cue(b, <<>>)>>
      after == CueAdded(cues, Cue(n, <<Plays(1, "media", 1)>>))
  IN  /\ {after[i].number : i \in DOMAIN after} = {a, b, n}
      /\ \A i \in 1..(Len(after) - 1) : after[i].number < after[i + 1].number

\* Four edits, then as many undos as there are snapshots: the line comes back,
\* and the redos walk it forward again.
Line == <<ShowA, ShowB, MCBlank, ShowA, ShowB>>
RECURSIVE Down(_, _)
Down(stack_, current) ==
  IF stack_.undo = <<>> THEN <<current>>
  ELSE <<current>> \o Down(Undone(stack_, current), Last(stack_.undo))
ASSUME
  LET end == FoldLeft(LAMBDA st, i : Pushed(st, Line[i]), NoHistory, <<1, 2, 3, 4>>)
      walked == Down(end, Line[5])
  IN  /\ Len(end.undo) <= UndoCap
      /\ \A i \in DOMAIN walked : walked[i] = Line[6 - i]

\* Edits of a number that is not in the list change nothing.
ASSUME \A op \in {"update", "remove", "corner", "state", "remove_at", "update_at"} :
  Applied([op |-> op, at |-> "slices", number |-> 7, index |-> 1, item |-> [id |-> 7]], ShowA) = ShowA

----------------------------------------------------------------------------
(* Library.                                                                *)

Folder == (X :> 2) @@ (N :> 1) @@ (<<".h", "m.mp4">> :> 1) @@ (<<"a", "b", "c", "m.mp4">> :> 1)
            @@ (<<"t.txt">> :> 1)
ASSUME L!Scanned(Folder) = <<L!NewMedia(1, N), L!NewMedia(2, X)>>

Keeps(pool, new) ==
  \A i \in DOMAIN pool : \E j \in DOMAIN new : new[j].id = pool[i].id /\ new[j].path = pool[i].path
Distinct(pool) == \A i, j \in DOMAIN pool : pool[i].id = pool[j].id => i = j

\* Two scans of any two folders: ids are unique, those given once keep their
\* file, what is gone is missing, and a second look changes nothing.
Folders == {[p \in s |-> 1] : s \in SUBSET {X, Y, N}}
ASSUME \A f, g \in Folders :
  LET one == L!Reconciled(<<>>, L!Scanned(f))
      two == L!Reconciled(one, L!Scanned(g))
  IN  /\ Distinct(two) /\ Keeps(one, two)
      /\ \A i \in DOMAIN two : two[i].missing = (two[i].path \notin DOMAIN g)
      /\ L!Reconciled(two, L!Scanned(g)) = two

\* A medium found in another folder takes the others of its folder with it.
ASSUME
  LET gone(id, path) == [Medium(id, path) EXCEPT !.missing = TRUE]
      pool == <<gone(1, <<"x", "m.mp4">>), gone(2, <<"x", "s", "m.mp4">>),
                gone(3, <<"z", "m.mp4">>), Medium(4, <<"x", "n.png">>), gone(5, <<"xy", "m.mp4">>)>>
      folder == [p \in {<<"y", "m.mp4">>, <<"y", "s", "m.mp4">>, <<"y", "n.png">>} |-> 1]
      after == L!Cascade(pool, folder, <<"x", "old.mp4">>, <<"y", "old.mp4">>)
  IN  /\ after[1] = Medium(1, <<"y", "m.mp4">>) /\ after[2] = Medium(2, <<"y", "s", "m.mp4">>)
      /\ \A i \in 3..5 : after[i] = pool[i]

\* A picture younger than its file is kept, even when the medium of its id
\* became another file.
ASSUME
  LET first == L!Pictured(<<>>, <<Medium(1, X)>>, Folder, 3)
  IN  /\ first = (1 :> [of |-> X, date |-> 3])
      /\ L!Pictured(first, <<Medium(1, Y)>>, (Y :> 1), 4) = first
      /\ L!Pictured(first, <<Medium(1, X)>>, (X :> 4), 5) = (1 :> [of |-> X, date |-> 5])

ASSUME
  LET c == L!Collected(ShowA, Folder, (P :> 1))
  IN  c.media = {X} /\ c.shaders = {P} /\ c.missing = {Q} /\ ~c.show.media[1].missing
===============================================================================
