----------------------------- MODULE Session_proofs -----------------------------
(***************************************************************************)
(* Proofs about Session, for every catalogue of shows, every set of edits, *)
(* every cap of the undo stack and every content of the folders: the type  *)
(* invariant and the slots (SInv), the undo stack as a line of shows, and  *)
(* the programs on the card (PInv).                                        *)
(***************************************************************************)
EXTENDS Session, SequenceTheorems, WellFoundedInduction, NaturalsInduction, TLAPS

----------------------------------------------------------------------------
(* Sequences, and lines of shows.                                        *)

\* A sequence is one of its own values.
LEMMA OverRange ==
  ASSUME NEW T, NEW q \in Seq(T)
  PROVE  q \in Seq(Range(q))
BY DEF Range

\* The items of a concatenation are those of its two parts, in order.
LEMMA Joined2 ==
  ASSUME NEW T, NEW p \in Seq(T), NEW q \in Seq(T)
  PROVE  /\ p \o q \in Seq(T)
         /\ Len(p \o q) = Len(p) + Len(q)
         /\ \A i \in 1..(Len(p) + Len(q)) : i <= Len(p) => (p \o q)[i] = p[i]
         /\ \A i \in 1..(Len(p) + Len(q)) : i > Len(p) => (p \o q)[i] = q[i - Len(p)]
BY ConcatProperties

\* The line of shows: the past, the show, and what was undone.
LineOf(u, s, r) == u \o <<s>> \o Reverse(r)

\* Reversing keeps the length and the values.
LEMMA ReverseType ==
  ASSUME NEW T, NEW r \in Seq(T)
  PROVE  Reverse(r) \in Seq(T) /\ Len(Reverse(r)) = Len(r)
BY DEF Reverse

\* The reverse of a sequence with one more item starts with that item.
LEMMA ReverseAppend ==
  ASSUME NEW T, NEW s \in T, NEW r \in Seq(T)
  PROVE  Reverse(Append(r, s)) = <<s>> \o Reverse(r)
<1> DEFINE a == Append(r, s)
           w == Reverse(r)
           one == <<s>>
<1>1. a \in Seq(T) /\ Len(a) = Len(r) + 1 /\ a[Len(r) + 1] = s /\ \A i \in 1..Len(r) : a[i] = r[i]
  BY AppendProperties
<1>2. one \in Seq(T) /\ Len(one) = 1 /\ one[1] = s
  OBVIOUS
<1>3. w \in Seq(T) /\ Len(w) = Len(r) /\ \A i \in 1..Len(r) : w[i] = r[Len(r) - i + 1]
  BY DEF Reverse
<1> HIDE DEF a, w, one
<1>0. Len(r) \in Nat
  OBVIOUS
<1>9. one \in Seq(T) /\ w \in Seq(T)
  BY <1>2, <1>3
<1>4. /\ one \o w \in Seq(T) /\ Len(one \o w) = Len(one) + Len(w)
      /\ \A i \in 1..(Len(one) + Len(w)) : i <= Len(one) => (one \o w)[i] = one[i]
      /\ \A i \in 1..(Len(one) + Len(w)) : i > Len(one) => (one \o w)[i] = w[i - Len(one)]
  BY <1>9, Joined2, Zenon
<1>5. /\ Reverse(a) \in Seq(T) /\ Len(Reverse(a)) = Len(r) + 1
      /\ \A i \in 1..(Len(r) + 1) : Reverse(a)[i] = a[Len(r) + 1 - i + 1]
  BY <1>1 DEF Reverse
<1>6. ASSUME NEW i \in 1..(Len(r) + 1)
      PROVE  Reverse(a)[i] = (one \o w)[i]
  <2>1. CASE i = 1
    <3>1. Reverse(a)[1] = a[Len(r) + 1]
      BY <1>0, <1>5
    <3>2. (one \o w)[1] = s
      BY <1>0, <1>2, <1>3, <1>4
    <3>3. QED BY <2>1, <3>1, <3>2, <1>1
  <2>2. CASE i > 1
    <3>1. i - 1 \in 1..Len(r) /\ Len(r) - (i - 1) + 1 \in 1..Len(r)
      BY <2>2
    <3>2. (one \o w)[i] = w[i - 1]
      <4>1. i \in 1..(Len(one) + Len(w)) /\ i > Len(one) /\ i - Len(one) = i - 1
        BY <1>0, <1>2, <1>3, <2>2
      <4>2. QED BY <4>1, <1>4
    <3>5. w[i - 1] = r[Len(r) - (i - 1) + 1]
      BY <3>1, <1>3
    <3>3. Reverse(a)[i] = a[Len(r) - (i - 1) + 1]
      BY <1>5
    <3>4. QED BY <3>1, <3>2, <3>3, <3>5, <1>1
  <2>3. i = 1 \/ i > 1
    BY <1>0
  <2>4. QED BY <2>1, <2>2, <2>3, Zenon
<1>7. Len(one \o w) = Len(r) + 1
  BY <1>0, <1>2, <1>3, <1>4
<1>8. Reverse(a) = one \o w
  BY <1>4, <1>5, <1>6, <1>7, SeqEqual
<1>10. QED BY <1>8 DEF a, w, one

\* Front and Last take an Append apart.
LEMMA LastAppended ==
  ASSUME NEW T, NEW s \in T, NEW u \in Seq(T)
  PROVE  Front(Append(u, s)) = u /\ Last(Append(u, s)) = s
<1> DEFINE a == Append(u, s)
<1>1. a \in Seq(T) /\ Len(a) = Len(u) + 1 /\ a[Len(u) + 1] = s /\ \A i \in 1..Len(u) : a[i] = u[i]
  BY AppendProperties
<1> HIDE DEF a
<1>2. SubSeq(a, 1, Len(u)) \in Seq(T)
  BY <1>1
<1>3. Len(SubSeq(a, 1, Len(u))) = Len(u) /\ \A i \in 1..Len(u) : SubSeq(a, 1, Len(u))[i] = u[i]
  BY <1>1
<1>4. SubSeq(a, 1, Len(u)) = u
  BY <1>2, <1>3, SeqEqual
<1>5. QED BY <1>1, <1>4 DEF Front, Last, a

\* A sequence that is not empty is its front and its last item.
LEMMA Splits ==
  ASSUME NEW T, NEW u \in Seq(T), u # <<>>
  PROVE  /\ Front(u) \in Seq(T) /\ Last(u) \in T
         /\ Len(Front(u)) = Len(u) - 1
         /\ u = Append(Front(u), Last(u))
<1>1. PICK v \in Seq(T), x \in T : u = Append(v, x)
  BY SequenceEmptyOrAppend
<1>2. Front(u) = v /\ Last(u) = x
  BY <1>1, LastAppended
<1>3. QED BY <1>1, <1>2, AppendProperties

\* The line is a sequence of shows: the past, one, and the future.
LEMMA LineType ==
  ASSUME NEW T, NEW u \in Seq(T), NEW s \in T, NEW r \in Seq(T)
  PROVE  LineOf(u, s, r) \in Seq(T) /\ Len(LineOf(u, s, r)) = Len(u) + 1 + Len(r)
<1>1. <<s>> \in Seq(T) /\ Len(<<s>>) = 1
  OBVIOUS
<1>2. u \o <<s>> \in Seq(T) /\ Len(u \o <<s>>) = Len(u) + 1
  BY <1>1, Joined2
<1>3. Reverse(r) \in Seq(T) /\ Len(Reverse(r)) = Len(r)
  BY ReverseType
<1> DEFINE v == u \o <<s>>
<1> HIDE DEF v
<1>4. v \in Seq(T) /\ Len(v) = Len(u) + 1
  BY <1>2 DEF v
<1>5. v \o Reverse(r) \in Seq(T) /\ Len(v \o Reverse(r)) = Len(v) + Len(Reverse(r))
  BY <1>3, <1>4, Joined2, Zenon
<1>6. QED BY <1>3, <1>4, <1>5 DEF LineOf, v

\* the show undone is the last of the past, and the first of what follows
LEMMA LineMoves ==
  ASSUME NEW T, NEW v \in Seq(T), NEW x \in T, NEW s \in T, NEW r \in Seq(T)
  PROVE  LineOf(v, x, Append(r, s)) = LineOf(Append(v, x), s, r)
<1>1. Append(v, x) = v \o <<x>> /\ Append(v, x) \in Seq(T)
  BY AppendIsConcat, AppendProperties
<1>2. <<s>> \in Seq(T) /\ Reverse(r) \in Seq(T)
  BY ReverseType
<1>3. Append(v, x) \o (<<s>> \o Reverse(r)) = (Append(v, x) \o <<s>>) \o Reverse(r)
  BY <1>1, <1>2, ConcatAssociative
<1>4. QED BY <1>1, <1>3, ReverseAppend DEF LineOf

\* The line up to the show is the past and the show.
LEMMA LineFront ==
  ASSUME NEW T, NEW u \in Seq(T), NEW s \in T, NEW r \in Seq(T)
  PROVE  /\ LineOf(u, s, r) = Append(u, s) \o Reverse(r)
         /\ \A i, j \in 1..(Len(u) + 1) : SubSeq(LineOf(u, s, r), i, j) = SubSeq(Append(u, s), i, j)
         /\ \A i \in 1..Len(u) : LineOf(u, s, r)[i] = u[i]
         /\ LineOf(u, s, r)[Len(u) + 1] = s
<1> DEFINE a == Append(u, s)
           w == Reverse(r)
<1>1. /\ a \in Seq(T) /\ Len(a) = Len(u) + 1 /\ a[Len(u) + 1] = s
      /\ \A i \in 1..Len(u) : a[i] = u[i]
  BY AppendProperties
<1>2. w \in Seq(T)
  BY ReverseType
<1>3. LineOf(u, s, r) = a \o w
  BY AppendIsConcat DEF LineOf
<1>4. Len(u) \in Nat
  OBVIOUS
<1> HIDE DEF a, w
<1>5. \A m, n \in 1..Len(a) : SubSeq(a \o w, m, n) = SubSeq(a, m, n)
  BY <1>1, <1>2, SubSeqOfConcat1
<1>6. /\ \A i \in 1..(Len(a) + Len(w)) : i <= Len(a) => (a \o w)[i] = a[i]
      /\ Len(w) \in Nat
  BY <1>1, <1>2, Joined2
<1>7. \A i \in 1..Len(a) : (a \o w)[i] = a[i]
  BY <1>1, <1>4, <1>6
<1>8. QED BY <1>1, <1>3, <1>4, <1>5, <1>7 DEF a, w

\* Fitting (the byte cap of undo.rs) keeps a suffix of the snapshots that is not
\* empty: the loop of push() ends with one snapshot at least.
LEMMA FittingKeepsTheLast ==
  ASSUME NEW T, NEW q \in Seq(T), q # <<>>
  PROVE  \E k \in 1..Len(q) : /\ Fitting(q) = SubSeq(q, k, Len(q))
                             /\ FitsFrom(q, k)
<1> DEFINE Ks == {k \in 1..Len(q) : FitsFrom(q, k)}
<1>1. Len(q) \in Ks
  BY DEF FitsFrom
<1>2. PICK k \in Ks : \A j \in Ks : <<j, k>> \notin OpToRel(<, Nat)
  <2>1. Ks \in SUBSET Nat /\ Ks # {}
    BY <1>1
  <2> HIDE DEF Ks
  <2>2. QED BY <2>1, WFMin, NatLessThanWellFounded, Zenon
<1>3. \A j \in 1..(k - 1) : ~FitsFrom(q, j)
  <2> TAKE j \in 1..(k - 1)
  <2>1. Ks \subseteq 1..Len(q)
    BY Zenon
  <2>2. k \in 1..Len(q)
    BY <2>1
  <2>3. Len(q) \in Nat
    OBVIOUS
  <2>4. j \in 1..Len(q) /\ j < k /\ j \in Nat /\ k \in Nat
    BY <2>2, <2>3
  <2>5. <<j, k>> \in OpToRel(<, Nat)
    BY <2>4 DEF OpToRel
  <2>6. QED BY <1>2, <2>4, <2>5
<1> DEFINE First(n) == FitsFrom(q, n) /\ \A j \in 1..(n - 1) : ~FitsFrom(q, j)
           from == CHOOSE n \in 1..Len(q) : First(n)
<1>4. k \in 1..Len(q) /\ First(k)
  BY <1>2, <1>3
<1>5. from \in 1..Len(q) /\ First(from)
  <2> HIDE DEF First
  <2>1. QED BY <1>4, Zenon
<1>6. Fitting(q) = SubSeq(q, from, Len(q))
  BY DEF Fitting
<1>7. QED BY <1>5, <1>6

\* x is a suffix of a that is not empty.
EndsWith(a, x) == \E from \in 1..Len(a) : x = SubSeq(a, from, Len(a))

\* push() keeps the end of the past and the show before the edit, within
\* UNDO_CAP, and forgets what could be redone.
LEMMA PushedKeepsALine ==
  ASSUME NEW T, NEW u \in Seq(T), NEW r, NEW s \in T, Len(u) <= UndoCap
  PROVE  /\ Pushed([undo |-> u, redo |-> r], s).redo = <<>>
         /\ Pushed([undo |-> u, redo |-> r], s).undo \in Seq(T)
         /\ Len(Pushed([undo |-> u, redo |-> r], s).undo) <= UndoCap
         /\ EndsWith(Append(u, s), Pushed([undo |-> u, redo |-> r], s).undo)
<1> DEFINE a == Append(u, s)
           room == IF Len(u) >= UndoCap THEN Tail(u) ELSE u
           b == Append(room, s)
<1>1. UndoCap \in Nat \ {0} /\ Len(u) \in Nat
  BY UndoAssumption
<1>2. /\ a \in Seq(T) /\ Len(a) = Len(u) + 1 /\ a[Len(u) + 1] = s
      /\ \A i \in 1..Len(u) : a[i] = u[i]
  BY AppendProperties
<1>3. \E d \in 0..1 : /\ d <= Len(u) /\ Len(u) - d < UndoCap
                      /\ b \in Seq(T) /\ Len(b) = Len(u) + 1 - d
                      /\ \A i \in 1..Len(b) : b[i] = a[i + d]
  <2>1. CASE Len(u) >= UndoCap
    <3>1. room \in Seq(T) /\ Len(room) = Len(u) - 1 /\ \A i \in 1..Len(room) : room[i] = u[i + 1]
      BY <1>1, <2>1, HeadTailProperties
    <3> HIDE DEF room
    <3>2. /\ b \in Seq(T) /\ Len(b) = Len(u) /\ b[Len(u)] = s
          /\ \A i \in 1..(Len(u) - 1) : b[i] = room[i]
      BY <1>1, <2>1, <3>1, AppendProperties
    <3> HIDE DEF a, b
    <3>3. \A i \in 1..Len(b) : b[i] = a[i + 1]
      <4> TAKE i \in 1..Len(b)
      <4>1. CASE i = Len(u)
        BY <4>1, <3>2, <1>2
      <4>2. CASE i < Len(u)
        <5>1. i \in 1..(Len(u) - 1) /\ i + 1 \in 1..Len(u)
          BY <4>2, <3>2, <1>1
        <5>2. b[i] = u[i + 1]
          BY <5>1, <3>1, <3>2
        <5>3. QED BY <5>1, <5>2, <1>2
      <4>3. i = Len(u) \/ i < Len(u)
        BY <3>2, <1>1
      <4>4. QED BY <4>1, <4>2, <4>3
    <3>4. QED BY <1>1, <2>1, <3>2, <3>3
  <2>2. CASE ~(Len(u) >= UndoCap)
    <3>1. b = a
      BY <2>2
    <3>2. QED BY <1>1, <1>2, <2>2, <3>1
  <2>3. QED BY <2>1, <2>2
<1>4. PICK d \in 0..1 : /\ d <= Len(u) /\ Len(u) - d < UndoCap
                       /\ b \in Seq(T) /\ Len(b) = Len(u) + 1 - d
                       /\ \A i \in 1..Len(b) : b[i] = a[i + d]
  BY <1>3
<1> HIDE DEF a, b
<1>5. PICK k \in 1..Len(b) : Fitting(b) = SubSeq(b, k, Len(b))
  <2>1. b # <<>>
    BY <1>1, <1>4
  <2>2. QED BY <1>4, <2>1, FittingKeepsTheLast
<1> DEFINE x == SubSeq(b, k, Len(b))
           y == SubSeq(a, k + d, Len(a))
<1>6. x \in Seq(T) /\ Len(x) = Len(b) - k + 1 /\ \A i \in 1..Len(x) : x[i] = b[k + i - 1]
  BY <1>1, <1>4, <1>5
<1>7. y \in Seq(T) /\ Len(y) = Len(b) - k + 1 /\ \A i \in 1..Len(y) : y[i] = a[k + d + i - 1]
  BY <1>1, <1>2, <1>4, <1>5
<1> HIDE DEF x, y
<1>8. \A i \in 1..Len(x) : x[i] = y[i]
  <2> TAKE i \in 1..Len(x)
  <2>1. k + i - 1 \in 1..Len(b) /\ (k + i - 1) + d = k + d + i - 1
    BY <1>1, <1>4, <1>5, <1>6
  <2>2. QED BY <2>1, <1>4, <1>6, <1>7
<1>9. x = y
  BY <1>6, <1>7, <1>8, SeqEqual
<1>10. Pushed([undo |-> u, redo |-> r], s) = [undo |-> x, redo |-> <<>>]
  BY <1>5 DEF Pushed, b, x
<1>11. k + d \in 1..(Len(u) + 1) /\ Len(x) <= UndoCap
  BY <1>1, <1>4, <1>5, <1>6
<1>12. EndsWith(Append(u, s), x)
  BY <1>2, <1>9, <1>11 DEF EndsWith, a, y
<1> DEFINE p == Pushed([undo |-> u, redo |-> r], s)
<1>13. p.undo = x /\ p.redo = <<>>
  BY <1>10
<1> HIDE DEF p
<1>14. /\ p.redo = <<>> /\ p.undo \in Seq(T) /\ Len(p.undo) <= UndoCap
       /\ EndsWith(Append(u, s), p.undo)
  BY <1>6, <1>11, <1>12, <1>13
<1>15. QED BY <1>14 DEF p

----------------------------------------------------------------------------
(* The undo stack.                                                       *)

\* A show has its lists.
HasLists(s) == Fields \subseteq DOMAIN s
\* The shows an undo stack and the current show make a line of.
ShowsOf(st, s) == Range(st.undo) \cup {s} \cup Range(st.redo)
\* The stack is two sequences of shows within UNDO_CAP.
WellKept(st, s) ==
  /\ st = [undo |-> st.undo, redo |-> st.redo]
  /\ st.undo \in Seq(Range(st.undo)) /\ st.redo \in Seq(Range(st.redo))
  /\ Len(st.undo) + Len(st.redo) <= UndoCap
  /\ \A t \in ShowsOf(st, s) : HasLists(t)

\* How a stack is shown to be well kept.
LEMMA Kept ==
  ASSUME NEW T, NEW u \in Seq(T), NEW s \in T, NEW r \in Seq(T),
         Len(u) + Len(r) <= UndoCap, \A t \in T : HasLists(t)
  PROVE  WellKept([undo |-> u, redo |-> r], s)
<1>1. u \in Seq(Range(u)) /\ r \in Seq(Range(r))
  BY OverRange
<1>2. Range(u) \subseteq T /\ Range(r) \subseteq T
  BY RangeOfSeq
<1>3. QED BY <1>1, <1>2 DEF WellKept, ShowsOf

\* What a well kept stack gives: sequences over the shows of its line.
LEMMA KeptIn ==
  ASSUME NEW st, NEW s, WellKept(st, s)
  PROVE  /\ st.undo \in Seq(ShowsOf(st, s)) /\ st.redo \in Seq(ShowsOf(st, s))
         /\ s \in ShowsOf(st, s) /\ HasLists(s)
         /\ Len(st.undo) \in Nat /\ Len(st.redo) \in Nat
         /\ \A t \in ShowsOf(st, s) : HasLists(t)
         /\ Len(st.undo) + Len(st.redo) <= UndoCap /\ Len(st.undo) <= UndoCap
<1>1. Range(st.undo) \subseteq ShowsOf(st, s) /\ Range(st.redo) \subseteq ShowsOf(st, s)
  BY DEF ShowsOf
<1>2. st.undo \in Seq(Range(st.undo)) /\ st.redo \in Seq(Range(st.redo))
  BY DEF WellKept
<1>3. st.undo \in Seq(ShowsOf(st, s)) /\ st.redo \in Seq(ShowsOf(st, s))
  BY <1>1, <1>2, SeqMonotonic
<1>4. Len(st.undo) \in Nat /\ Len(st.redo) \in Nat /\ UndoCap \in Nat
  BY <1>2, UndoAssumption
<1>5. s \in ShowsOf(st, s)
  BY DEF ShowsOf
<1>6. (\A t \in ShowsOf(st, s) : HasLists(t)) /\ Len(st.undo) + Len(st.redo) <= UndoCap
  BY DEF WellKept
<1>7. Len(st.undo) <= UndoCap
  <2> DEFINE n == Len(st.undo)
             m == Len(st.redo)
  <2>1. n \in Nat /\ m \in Nat /\ n + m <= UndoCap /\ UndoCap \in Nat
    BY <1>4, <1>6
  <2> HIDE DEF n, m
  <2>2. n <= UndoCap
    BY <2>1
  <2>3. QED BY <2>2 DEF n
<1>8. HasLists(s)
  BY <1>5, <1>6
<1>9. QED BY <1>3, <1>4, <1>5, <1>6, <1>7, <1>8, Zenon

\* A stack is empty when a show is opened (install_show).
LEMMA Opening ==
  ASSUME NEW s, HasLists(s)
  PROVE  WellKept(NoHistory, s)
<1> DEFINE T == {s}
           e == <<>>
<1>1. e \in Seq(T) /\ Len(e) + Len(e) <= UndoCap
  BY UndoAssumption
<1>2. s \in T /\ \A t \in T : HasLists(t)
  OBVIOUS
<1> HIDE DEF T, e
<1>3. WellKept([undo |-> e, redo |-> e], s)
  BY <1>1, <1>2, Kept
<1>4. QED BY <1>3 DEF NoHistory, e

\* A show retouched in place leaves the stack well kept.
LEMMA Touching ==
  ASSUME NEW st, NEW s, NEW t, WellKept(st, s), HasLists(t)
  PROVE  WellKept(st, t)
<1> DEFINE T == ShowsOf(st, s) \cup {t}
<1>0. st.undo \in Seq(ShowsOf(st, s)) /\ st.redo \in Seq(ShowsOf(st, s))
  BY KeptIn
<1>1. st.undo \in Seq(T) /\ st.redo \in Seq(T)
  BY <1>0, SeqMonotonic
<1>2. \A x \in T : HasLists(x)
  BY KeptIn
<1>3. Len(st.undo) + Len(st.redo) <= UndoCap
  BY KeptIn
<1>4. st = [undo |-> st.undo, redo |-> st.redo]
  BY DEF WellKept
<1>5. t \in T
  OBVIOUS
<1> HIDE DEF T
<1>6. WellKept([undo |-> st.undo, redo |-> st.redo], t)
  BY <1>1, <1>2, <1>3, <1>5, Kept
<1>7. QED BY <1>4, <1>6

\* push() leaves the stack well kept, and the line ends with the show edited.
LEMMA Pushing ==
  ASSUME NEW st, NEW s, NEW t, WellKept(st, s), HasLists(t)
  PROVE  /\ WellKept(Pushed(st, s), t)
         /\ Pushed(st, s).redo = <<>>
         /\ EndsWith(Append(st.undo, s), Pushed(st, s).undo)
<1> DEFINE T == ShowsOf(st, s) \cup {t}
           p == Pushed(st, s)
<1>0. st.undo \in Seq(ShowsOf(st, s)) /\ Len(st.undo) <= UndoCap /\ s \in ShowsOf(st, s)
  BY KeptIn
<1>1. st.undo \in Seq(T) /\ Len(st.undo) <= UndoCap /\ s \in T /\ t \in T
  BY <1>0, SeqMonotonic
<1>2. \A x \in T : HasLists(x)
  BY KeptIn
<1>3. st = [undo |-> st.undo, redo |-> st.redo]
  BY DEF WellKept
<1> HIDE DEF T
<1> DEFINE q == Pushed([undo |-> st.undo, redo |-> st.redo], s)
<1>10. /\ q.redo = <<>> /\ q.undo \in Seq(T) /\ Len(q.undo) <= UndoCap
       /\ EndsWith(Append(st.undo, s), q.undo)
  BY <1>1, PushedKeepsALine, Zenon
<1>4. /\ p.redo = <<>> /\ p.undo \in Seq(T) /\ Len(p.undo) <= UndoCap
      /\ EndsWith(Append(st.undo, s), p.undo)
  BY <1>3, <1>10, Zenon
<1>5. p = [undo |-> p.undo, redo |-> p.redo]
  BY DEF Pushed
<1> HIDE DEF p
<1>6. <<>> \in Seq(T) /\ Len(p.undo) + Len(<<>>) <= UndoCap
  BY <1>4
<1>7. WellKept([undo |-> p.undo, redo |-> <<>>], t)
  BY <1>1, <1>2, <1>4, <1>6, Kept
<1>8. WellKept(p, t)
  BY <1>4, <1>5, <1>7
<1>9. QED BY <1>4, <1>8 DEF p

\* undo() leaves the stack well kept, on the same line of shows.
LEMMA Undoing ==
  ASSUME NEW st, NEW s, WellKept(st, s), st.undo # <<>>
  PROVE  /\ WellKept(Undone(st, s), Last(st.undo))
         /\ LineOf(Undone(st, s).undo, Last(st.undo), Undone(st, s).redo) = LineOf(st.undo, s, st.redo)
         /\ Len(Undone(st, s).undo) = Len(st.undo) - 1
         /\ HasLists(Last(st.undo))
<1> DEFINE T == ShowsOf(st, s)
           f == Front(st.undo)
           x == Last(st.undo)
           a == Append(st.redo, s)
<1>1. /\ st.undo \in Seq(T) /\ st.redo \in Seq(T) /\ s \in T
      /\ Len(st.undo) \in Nat /\ Len(st.redo) \in Nat
      /\ (\A t \in T : HasLists(t)) /\ Len(st.undo) + Len(st.redo) <= UndoCap
  BY KeptIn
<1> HIDE DEF T
<1>2. f \in Seq(T) /\ x \in T /\ Len(f) = Len(st.undo) - 1 /\ st.undo = Append(f, x)
  BY <1>1, Splits
<1>3. a \in Seq(T) /\ Len(a) = Len(st.redo) + 1
  BY <1>1, AppendProperties
<1> HIDE DEF f, x, a
<1>4. Len(f) + Len(a) <= UndoCap
  <2> DEFINE n == Len(st.undo)
             m == Len(st.redo)
  <2>1. n \in Nat /\ m \in Nat /\ n + m <= UndoCap /\ Len(f) = n - 1 /\ Len(a) = m + 1
    BY <1>1, <1>2, <1>3
  <2> HIDE DEF n, m
  <2>2. QED BY <2>1, UndoAssumption
<1>5. Undone(st, s) = [undo |-> f, redo |-> a]
  BY DEF Undone, f, a
<1>6. WellKept([undo |-> f, redo |-> a], x)
  BY <1>1, <1>2, <1>3, <1>4, Kept
<1>7. LineOf(f, x, a) = LineOf(st.undo, s, st.redo)
  BY <1>1, <1>2, LineMoves DEF a
<1>8. QED BY <1>1, <1>2, <1>5, <1>6, <1>7 DEF x

\* redo() leaves the stack well kept, on the same line of shows.
LEMMA Redoing ==
  ASSUME NEW st, NEW s, WellKept(st, s), st.redo # <<>>
  PROVE  /\ WellKept(Redone(st, s), Last(st.redo))
         /\ LineOf(Redone(st, s).undo, Last(st.redo), Redone(st, s).redo) = LineOf(st.undo, s, st.redo)
         /\ Len(Redone(st, s).undo) = Len(st.undo) + 1
         /\ HasLists(Last(st.redo))
<1> DEFINE T == ShowsOf(st, s)
           f == Front(st.redo)
           x == Last(st.redo)
           a == Append(st.undo, s)
<1>1. /\ st.undo \in Seq(T) /\ st.redo \in Seq(T) /\ s \in T
      /\ Len(st.undo) \in Nat /\ Len(st.redo) \in Nat
      /\ (\A t \in T : HasLists(t)) /\ Len(st.undo) + Len(st.redo) <= UndoCap
  BY KeptIn
<1> HIDE DEF T
<1>2. f \in Seq(T) /\ x \in T /\ Len(f) = Len(st.redo) - 1 /\ st.redo = Append(f, x)
  BY <1>1, Splits
<1>3. a \in Seq(T) /\ Len(a) = Len(st.undo) + 1
  BY <1>1, AppendProperties
<1> HIDE DEF f, x, a
<1>4. Len(a) + Len(f) <= UndoCap
  <2> DEFINE n == Len(st.redo)
             m == Len(st.undo)
  <2>1. n \in Nat /\ m \in Nat /\ m + n <= UndoCap /\ Len(f) = n - 1 /\ Len(a) = m + 1
    BY <1>1, <1>2, <1>3
  <2> HIDE DEF n, m
  <2>2. QED BY <2>1, UndoAssumption
<1>5. Redone(st, s) = [undo |-> a, redo |-> f]
  BY DEF Redone, f, a
<1>6. WellKept([undo |-> a, redo |-> f], x)
  BY <1>1, <1>2, <1>3, <1>4, Kept
<1>7. LineOf(a, x, f) = LineOf(st.undo, s, st.redo)
  BY <1>1, <1>2, LineMoves DEF a
<1>8. QED BY <1>1, <1>2, <1>3, <1>5, <1>6, <1>7 DEF x

----------------------------------------------------------------------------
(* What the operators do to the fields of a show.                        *)

\* An edit (EditOp::apply) changes one field of the show.
LEMMA AppliedFields ==
  ASSUME NEW op, NEW s
  PROVE  /\ DOMAIN Applied(op, s) = DOMAIN s
         /\ \A f \in DOMAIN s : f # op.at => Applied(op, s)[f] = s[f]
BY DEF Applied

\* apply_relocate changes the media of the show and nothing else.
LEMMA RelocatedFields ==
  ASSUME NEW op, NEW s
  PROVE  /\ DOMAIN Relocated(op, s) = DOMAIN s
         /\ \A f \in DOMAIN s : f # "media" => Relocated(op, s)[f] = s[f]
BY DEF Relocated

\* An edit keeps the lists of the show, and the pools it is not about.
LEMMA EditedFields ==
  ASSUME NEW op, NEW s, HasLists(s)
  PROVE  /\ HasLists(Relocated(op, Applied(op, s)))
         /\ op.at # "materials" => Relocated(op, Applied(op, s)).materials = s.materials
         /\ op.at # "cues" => Relocated(op, Applied(op, s)).cues = s.cues
<1> DEFINE a == Applied(op, s)
           r == Relocated(op, a)
<1>1. DOMAIN a = DOMAIN s /\ \A f \in DOMAIN s : f # op.at => a[f] = s[f]
  BY AppliedFields
<1>2. DOMAIN r = DOMAIN a /\ \A f \in DOMAIN a : f # "media" => r[f] = a[f]
  BY RelocatedFields
<1> HIDE DEF a, r
<1>3. "materials" \in DOMAIN s /\ "cues" \in DOMAIN s
  BY DEF HasLists, Fields
<1>4. HasLists(r)
  BY <1>1, <1>2 DEF HasLists
<1>5. (op.at # "materials" => r.materials = s.materials) /\ (op.at # "cues" => r.cues = s.cues)
  BY <1>1, <1>2, <1>3
<1>6. QED BY <1>4, <1>5 DEF r, a

----------------------------------------------------------------------------
(* The session, its history and its slots.                               *)

\* The flags have their values.
Basics ==
  /\ mode \in {"edit", "show"} /\ phase \in {"idle", "frame"}
  /\ name \in DOMAIN Catalogue \cup {"nouveau"} /\ sync \in BOOLEAN
  /\ scan.state \in {"none", "reading", "done"}
\* A gesture under way has nothing to redo.
Gesture == lastKey # <<>> => stack.redo = <<>>
\* The sources loaded are those of materials of the show.
Sources == DOMAIN materials \subseteq MaterialIds(show) /\ failed \subseteq DOMAIN materials
\* What the slots carry is what the session knows of.
Carried ==
  /\ DOMAIN bound \subseteq Slots /\ slots \in [Slots -> Range(slots)]
  /\ NoGhostMaterial
\* The decks play cues of the show.
OnStage ==
  scene.a \in NumbersOf(show) \cup {NoCue} /\ scene.b \in NumbersOf(show) \cup {NoCue}
\* The inductive invariant of the model of the session.  The gesture is what a
\* bare type invariant lacks: an edit of a gesture under way pushes nothing, and
\* only because nothing can be redone then does the line still end with the show.
SInv == Basics /\ WellKept(stack, show) /\ Gesture /\ Sources /\ Carried /\ OnStage

\* load_materials loads sources of materials of the show, and forgets refusals.
LEMMA LoadFacts ==
  ASSUME NEW s, LoadMaterials(s)
  PROVE  DOMAIN materials' \subseteq MaterialIds(s) /\ failed' \subseteq DOMAIN materials'
BY DEF LoadMaterials, Loaded

\* rebuild_all() leaves the slots to the next frame.
LEMMA RebuildFacts ==
  ASSUME NEW s, RebuildAll(s), show' = s, slots \in [Slots -> Range(slots)], slots' = slots
  PROVE  Sources' /\ Carried' /\ OnStage' /\ sync' = TRUE
<1>1. Sources'
  BY LoadFacts DEF RebuildAll, Sources, MaterialIds
<1>2. sync' = TRUE /\ bound' = <<>> /\ scene' = [a |-> NoCue, b |-> NoCue]
  BY DEF RebuildAll
<1>3. Carried'
  BY <1>2 DEF Carried, NoGhostMaterial, Slots, Decks
<1>4. OnStage'
  BY <1>2 DEF OnStage, NumbersOf, NoCue
<1>5. QED BY <1>1, <1>2, <1>3, <1>4

\* Every edit keeps the invariant.
LEMMA EditsKeeps ==
  ASSUME SInv, NEW op \in Ops, Edits(op)
  PROVE  SInv'
<1> DEFINE after == Relocated(op, Applied(op, show))
<1>1. /\ show' = after /\ lastKey' = CoalesceKey(op) /\ AfterChange(op, after)
      /\ UNCHANGED <<mode, name, disk, bound, card, scan, phase, parted>>
      /\ \E recent \in BOOLEAN : stack' = Remembered(op, recent, after)
  BY DEF Edits
<1>2. HasLists(show)
  BY KeptIn DEF SInv
<1>3. /\ HasLists(after)
      /\ op.at # "materials" => after.materials = show.materials
      /\ op.at # "cues" => after.cues = show.cues
  BY <1>2, EditedFields
<1> HIDE DEF after
<1>4. Basics'
  <2>1. sync' \in BOOLEAN
    BY <1>1 DEF AfterChange, SInv, Basics
  <2>2. QED BY <1>1, <2>1 DEF SInv, Basics
<1>5. \/ stack' = Pushed(stack, show)
      \/ stack' = stack /\ CoalesceKey(op) # <<>> /\ CoalesceKey(op) = lastKey
  BY <1>1 DEF Remembered
<1>6. WellKept(stack', show')
  <2>1. CASE stack' = Pushed(stack, show)
    BY <1>1, <1>3, <2>1, Pushing DEF SInv
  <2>2. CASE stack' = stack
    BY <1>1, <1>3, <2>2, Touching DEF SInv
  <2>3. QED BY <1>5, <2>1, <2>2
<1>7. Gesture'
  <2>1. CASE stack' = Pushed(stack, show)
    BY <1>3, <2>1, Pushing DEF SInv, Gesture
  <2>2. CASE stack' = stack /\ CoalesceKey(op) # <<>> /\ CoalesceKey(op) = lastKey
    BY <1>1, <2>2 DEF SInv, Gesture
  <2>3. QED BY <1>5, <2>1, <2>2
<1>8. Sources'
  <2>1. CASE op.at = "materials"
    BY <1>1, <2>1, LoadFacts DEF AfterChange, Sources, MaterialIds
  <2>2. CASE op.at # "materials"
    BY <1>1, <1>3, <2>2 DEF AfterChange, Sources, SInv, MaterialIds, L!IdsOf, sources
  <2>3. QED BY <2>1, <2>2
<1>9. Carried'
  <2>1. bound' = bound /\ slots' = slots /\ (~sync' => ~sync)
    BY <1>1 DEF AfterChange, card, SInv, Basics
  <2>2. QED BY <2>1 DEF Carried, NoGhostMaterial, SInv, Slots, Decks
<1>10. OnStage'
  <2>1. CASE op.at = "cues"
    BY <1>1, <2>1 DEF AfterChange, OnStage, HotScene, NumbersOf, NoCue
  <2>2. CASE op.at # "cues"
    BY <1>1, <1>3, <2>2 DEF AfterChange, OnStage, SInv, NumbersOf, NoCue
  <2>3. QED BY <2>1, <2>2
<1>11. QED BY <1>4, <1>6, <1>7, <1>8, <1>9, <1>10 DEF SInv

\* Undo and redo keep the invariant, when the stack they leave is well kept.
LEMMA WalkKeeps ==
  ASSUME SInv, NEW next, NEW walked, Walk(next, walked), WellKept(walked, next)
  PROVE  SInv'
<1>1. /\ stack' = walked /\ lastKey' = <<>> /\ show' = next /\ RebuildAll(next)
      /\ mode' = mode /\ name' = name /\ slots' = slots /\ scan' = scan /\ phase' = phase
  BY DEF Walk, card
<1>2. Sources' /\ Carried' /\ OnStage' /\ sync' = TRUE
  BY <1>1, RebuildFacts DEF SInv, Carried
<1>3. Basics'
  BY <1>1, <1>2 DEF SInv, Basics
<1>4. WellKept(stack', show') /\ Gesture'
  BY <1>1 DEF Gesture
<1>5. QED BY <1>2, <1>3, <1>4 DEF SInv

\* Undo keeps the invariant.
LEMMA UndoKeeps ==
  ASSUME SInv, Undo
  PROVE  SInv'
<1>1. stack.undo # <<>> /\ Walk(Last(stack.undo), Undone(stack, show))
  BY DEF Undo
<1>2. WellKept(Undone(stack, show), Last(stack.undo))
  BY <1>1, Undoing DEF SInv
<1>3. QED BY <1>1, <1>2, WalkKeeps

\* Redo keeps the invariant.
LEMMA RedoKeeps ==
  ASSUME SInv, Redo
  PROVE  SInv'
<1>1. stack.redo # <<>> /\ Walk(Last(stack.redo), Redone(stack, show))
  BY DEF Redo
<1>2. WellKept(Redone(stack, show), Last(stack.redo))
  BY <1>1, Redoing DEF SInv
<1>3. QED BY <1>1, <1>2, WalkKeeps

\* A show put in the place of another keeps the invariant.
LEMMA InstallKeeps ==
  ASSUME SInv, NEW s, NEW n \in DOMAIN Catalogue \cup {"nouveau"}, HasLists(s),
         Replacing, Install(s, n)
  PROVE  SInv'
<1>1. /\ show' = s /\ name' = n /\ stack' = NoHistory /\ lastKey' = <<>> /\ RebuildAll(s)
      /\ mode' = mode /\ slots' = slots /\ scan' = scan /\ phase' = phase
  BY DEF Install, Replacing, card
<1>2. Sources' /\ Carried' /\ OnStage' /\ sync' = TRUE
  BY <1>1, RebuildFacts DEF SInv, Carried
<1>3. Basics'
  BY <1>1, <1>2 DEF SInv, Basics
<1>4. WellKept(stack', show')
  BY <1>1, Opening
<1>5. Gesture'
  BY <1>1 DEF Gesture
<1>6. QED BY <1>2, <1>3, <1>4, <1>5 DEF SInv

\* The search for the media of a show keeps its lists.
LEMMA OpenedLists ==
  ASSUME NEW s, HasLists(s)
  PROVE  HasLists(Opened(s))
BY DEF HasLists, Opened

\* A load keeps the invariant.
LEMMA LoadKeeps ==
  ASSUME SInv, NEW n \in DOMAIN Catalogue, Load(n)
  PROVE  SInv'
<1>1. HasLists(Opened(Catalogue[n]))
  BY ShowsAssumption, OpenedLists DEF HasLists
<1>2. QED BY <1>1, InstallKeeps DEF Load

\* A new show keeps the invariant.
LEMMA NewKeeps ==
  ASSUME SInv, New
  PROVE  SInv'
<1>1. HasLists(Blank)
  BY ShowsAssumption DEF HasLists
<1>2. QED BY <1>1, InstallKeeps DEF New

\* A change of mode keeps the invariant.
LEMMA ModeSetKeeps ==
  ASSUME SInv, NEW m \in {"edit", "show"}, ModeSet(m)
  PROVE  SInv'
<1>1. /\ mode' = m /\ sync' = (sync \/ m = "show")
      /\ UNCHANGED <<model, disk, sources, bound, reload, card, scene, scan, phase, moves, parted>>
  BY DEF ModeSet
<1>2. Basics'
  BY <1>1 DEF SInv, Basics, model
<1>3. WellKept(stack', show') /\ Gesture' /\ Sources'
  BY <1>1 DEF SInv, Gesture, Sources, model, sources, MaterialIds
<1>4. Carried'
  <2>1. bound' = bound /\ slots' = slots /\ (~sync' => ~sync)
    BY <1>1 DEF card, SInv, Basics
  <2>2. QED BY <2>1 DEF Carried, NoGhostMaterial, SInv, Slots, Decks
<1>5. OnStage'
  BY <1>1 DEF SInv, OnStage, model, NumbersOf
<1>6. QED BY <1>2, <1>3, <1>4, <1>5 DEF SInv

\* A frequency knob keeps the lists of the show, its cues and its materials.
LEMMA FrequencyFields ==
  ASSUME NEW s, HasLists(s), NEW i, NEW hz
  PROVE  LET t == [s EXCEPT !.modulators[i].freq = hz]
         IN  HasLists(t) /\ t.cues = s.cues /\ t.materials = s.materials
BY DEF HasLists, Fields

\* A frequency knob keeps the invariant.
LEMMA ModFrequencyKeeps ==
  ASSUME SInv, NEW id, NEW hz, ModFrequency(id, hz)
  PROVE  SInv'
<1>1. /\ UNCHANGED <<mode, name, stack, lastKey, disk, sources, deferred, card, scene,
                     scan, phase, parted>>
      /\ \E i : show' = [show EXCEPT !.modulators[i].freq = hz]
  BY DEF ModFrequency
<1>2. HasLists(show)
  BY KeptIn DEF SInv
<1>3. HasLists(show') /\ show'.cues = show.cues /\ show'.materials = show.materials
  BY <1>1, <1>2, FrequencyFields
<1>4. Basics'
  BY <1>1 DEF SInv, Basics, deferred
<1>5. WellKept(stack', show') /\ Gesture'
  BY <1>1, <1>3, Touching DEF SInv, Gesture
<1>6. Sources' /\ OnStage'
  BY <1>1, <1>3 DEF SInv, Sources, sources, MaterialIds, L!IdsOf, OnStage, NumbersOf
<1>7. Carried'
  BY <1>1 DEF SInv, Carried, NoGhostMaterial, deferred, card, Slots, Decks
<1>8. QED BY <1>4, <1>5, <1>6, <1>7 DEF SInv

\* Steps that change nothing the invariant is about.
Same == UNCHANGED <<name, show, stack, lastKey, materials, failed, bound, sync, slots, scene>>

\* Those steps keep the invariant.
LEMMA SameKeeps ==
  ASSUME SInv, Same, mode' = mode, phase' = phase, scan'.state \in {"none", "reading", "done"}
  PROVE  SInv'
<1>1. Basics'
  BY DEF Same, SInv, Basics
<1>2. WellKept(stack', show') /\ Gesture' /\ Sources' /\ OnStage'
  BY DEF Same, SInv, Gesture, Sources, OnStage, MaterialIds, NumbersOf
<1>3. Carried'
  BY DEF Same, SInv, Carried, NoGhostMaterial, Slots, Decks
<1>4. QED BY <1>1, <1>2, <1>3 DEF SInv

\* The scan, the disk and a stutter keep the invariant.
LEMMA OthersKeep ==
  ASSUME SInv,
         \/ Rescan \/ Scan \/ UNCHANGED vars
         \/ \E p, v : Write(p, v)
         \/ \E f : Copy(f)
  PROVE  SInv'
<1>1. Same /\ mode' = mode /\ phase' = phase /\ scan'.state \in {"none", "reading", "done"}
  <2>1. CASE Rescan
    BY <2>1 DEF Rescan, Same, model, sources, deferred, card
  <2>2. CASE Scan
    BY <2>2 DEF Scan, Same, model, sources, deferred, card
  <2>3. CASE UNCHANGED vars
    BY <2>3 DEF vars, SInv, Basics, Same, model, sources, deferred, card
  <2>4. CASE \E p, v : Write(p, v)
    BY <2>4 DEF Write, SInv, Basics, Same, model, sources, deferred, card
  <2>5. CASE \E f : Copy(f)
    BY <2>5 DEF Copy, SInv, Basics, Same, model, sources, deferred, card
  <2>6. QED BY <2>1, <2>2, <2>3, <2>4, <2>5
<1>2. QED BY <1>1, SameKeeps

\* The results taken at a tick keep the invariant.
LEMMA BackgroundKeeps ==
  ASSUME SInv, Background
  PROVE  SInv'
<1> DEFINE rescanned == /\ mode = "edit" /\ scan.state = "done"
                        /\ scan.media # show.media \/ scan.materials # show.materials
           others == rescanned /\ scan.materials # show.materials
           s == IF rescanned THEN [show EXCEPT !.media = scan.media, !.materials = scan.materials]
                ELSE show
<1>1. PICK batch \in {{}, changed} :
        /\ show' = s /\ sync' = (sync \/ others)
        /\ IF others \/ (mode = "edit" /\ Reported(s, batch) # {})
           THEN LoadMaterials(s) ELSE UNCHANGED sources
  BY DEF Background
<1>2. /\ phase' = "frame" /\ scan' = IF scan.state = "done" THEN NoScan ELSE scan
      /\ UNCHANGED <<mode, name, stack, lastKey, bound, card, scene>>
  BY DEF Background
<1>3. HasLists(show)
  BY KeptIn DEF SInv
<1>4. HasLists(s) /\ s.cues = show.cues /\ (~others => s.materials = show.materials)
  BY <1>3 DEF HasLists, Fields
<1>5. others \in BOOLEAN
  OBVIOUS
<1> HIDE DEF s, others, rescanned
<1>6. Basics'
  BY <1>1, <1>2, <1>5 DEF SInv, Basics, NoScan
<1>7. WellKept(stack', show') /\ Gesture'
  BY <1>1, <1>2, <1>4, Touching DEF SInv, Gesture
<1>8. Sources'
  <2>1. CASE others \/ (mode = "edit" /\ Reported(s, batch) # {})
    BY <1>1, <2>1, LoadFacts DEF Sources, MaterialIds
  <2>2. CASE ~(others \/ (mode = "edit" /\ Reported(s, batch) # {}))
    BY <1>1, <1>4, <2>2 DEF SInv, Sources, sources, MaterialIds, L!IdsOf
  <2>3. QED BY <2>1, <2>2
<1>9. Carried'
  <2>1. bound' = bound /\ slots' = slots /\ (~sync' => ~sync)
    BY <1>1, <1>2 DEF card, SInv, Basics
  <2>2. QED BY <2>1 DEF SInv, Carried, NoGhostMaterial, Slots, Decks
<1>10. OnStage'
  BY <1>1, <1>2, <1>4 DEF SInv, OnStage, NumbersOf
<1>11. QED BY <1>6, <1>7, <1>8, <1>9, <1>10 DEF SInv

\* What maintenance leaves to apply_materials.
Tended(m) ==
  /\ m.failed \subseteq DOMAIN materials
  /\ DOMAIN m.bound \subseteq Slots
  /\ \A x \in Slots : m.slots[x] # NoMaterial => x \in DOMAIN m.bound /\ m.bound[x] = m.slots[x]

\* Maintenance leaves every slot that carries a material bound.
LEMMA MaintainedFacts ==
  ASSUME SInv
  PROVE  Tended(Maintained)
<1> DEFINE m == Maintained
<1>1. m.failed \subseteq DOMAIN materials
  <2>1. Refused(Retained(programs, MaterialIds(show)), materials) \subseteq DOMAIN materials
    BY DEF Refused
  <2>2. failed \subseteq DOMAIN materials
    BY DEF SInv, Sources
  <2>3. QED BY <2>1, <2>2 DEF Maintained
<1>2. m.bound = (IF sync THEN <<>> ELSE bound) /\ m.slots = (IF sync THEN Bare ELSE slots)
  BY DEF Maintained
<1> HIDE DEF m
<1>3. CASE sync
  <2>1. m.bound = <<>> /\ m.slots = Bare
    BY <1>2, <1>3
  <2>2. \A x \in Slots : m.slots[x] = NoMaterial
    BY <2>1 DEF Bare
  <2>3. DOMAIN m.bound \subseteq Slots
    BY <2>1
  <2>4. QED BY <1>1, <2>2, <2>3 DEF Tended, m
<1>4. CASE ~sync
  <2>1. m.bound = bound /\ m.slots = slots
    BY <1>2, <1>4
  <2>2. QED BY <1>1, <1>4, <2>1 DEF Tended, SInv, Carried, NoGhostMaterial, m
<1>5. QED BY <1>3, <1>4

\* apply_materials keeps every slot that carries a material bound.
LEMMA PosedFacts ==
  ASSUME NEW m, Tended(m), Posed(m)
  PROVE  /\ failed' \subseteq DOMAIN materials
         /\ DOMAIN bound' \subseteq Slots /\ slots' \in [Slots -> Range(slots')]
         /\ \A x \in Slots : slots'[x] # NoMaterial => x \in DOMAIN bound' /\ bound'[x] = slots'[x]
<1> DEFINE usable == {id \in DOMAIN materials \ m.failed : \E s \in Slots : WantsMaterial(s, id)}
           used == Restrict(materials, usable)
           good == usable \ Refused(m.programs, used)
           on(s) == {id \in good : WantsMaterial(s, id)}
           off(s) == WantsOther(s) /\ s \in DOMAIN m.bound
           carries(s) == CHOOSE id \in on(s) : TRUE
           at == {x \in DOMAIN m.bound : ~off(x)} \cup {x \in Slots : on(x) # {}}
<1>1. /\ failed' = m.failed \cup Refused(m.programs, used)
      /\ slots' = [s \in Slots |-> IF on(s) # {} THEN carries(s)
                                     ELSE IF off(s) THEN NoMaterial ELSE m.slots[s]]
      /\ bound' = [s \in at |-> IF on(s) # {} THEN carries(s) ELSE m.bound[s]]
  BY DEF Posed
<1>2. failed' \subseteq DOMAIN materials
  <2>1. DOMAIN used = usable /\ usable \subseteq DOMAIN materials
    BY DEF Restrict
  <2>2. Refused(m.programs, used) \subseteq DOMAIN used
    BY DEF Refused
  <2>3. QED BY <1>1, <2>1, <2>2 DEF Tended
<1> HIDE DEF on, off, carries
<1>3. DOMAIN bound' = at /\ at \subseteq Slots
  BY <1>1 DEF Tended
<1>4. slots' \in [Slots -> Range(slots')]
  BY <1>1 DEF Range
<1>5. ASSUME NEW x \in Slots, slots'[x] # NoMaterial
      PROVE  x \in DOMAIN bound' /\ bound'[x] = slots'[x]
  <2>1. CASE on(x) # {}
    BY <1>1, <1>3, <2>1
  <2>2. CASE on(x) = {} /\ off(x)
    BY <1>1, <1>5, <2>2
  <2>3. CASE on(x) = {} /\ ~off(x)
    <3>1. slots'[x] = m.slots[x]
      BY <1>1, <2>3
    <3>2. x \in DOMAIN m.bound /\ m.bound[x] = m.slots[x]
      BY <1>5, <3>1 DEF Tended
    <3>3. x \in at /\ bound'[x] = m.bound[x]
      BY <1>1, <2>3, <3>2
    <3>4. QED BY <1>3, <3>1, <3>2, <3>3
  <2>4. QED BY <2>1, <2>2, <2>3
<1>6. QED BY <1>2, <1>3, <1>4, <1>5

\* A frame keeps the invariant.
LEMMA FrameKeeps ==
  ASSUME SInv, Frame
  PROVE  SInv'
<1>1. /\ phase' = "idle" /\ sync' = FALSE /\ CueTick /\ Posed(Maintained)
      /\ UNCHANGED <<mode, model, disk, materials, scan, moves>>
  BY DEF Frame
<1>2. /\ failed' \subseteq DOMAIN materials
      /\ DOMAIN bound' \subseteq Slots /\ slots' \in [Slots -> Range(slots')]
      /\ \A x \in Slots : slots'[x] # NoMaterial => x \in DOMAIN bound' /\ bound'[x] = slots'[x]
  BY <1>1, MaintainedFacts, PosedFacts
<1>3. Basics'
  BY <1>1 DEF SInv, Basics, model
<1>4. WellKept(stack', show') /\ Gesture'
  BY <1>1 DEF SInv, Gesture, model
<1>5. Sources'
  BY <1>1, <1>2 DEF SInv, Sources, MaterialIds, model
<1>6. Carried'
  BY <1>2 DEF Carried, NoGhostMaterial, Slots, Decks
<1>7. OnStage'
  <2>1. show' = show
    BY <1>1 DEF model
  <2>2. CASE UNCHANGED scene
    BY <2>1, <2>2 DEF SInv, OnStage, NumbersOf
  <2>3. CASE \E n \in NumbersOf(show) :
               scene' = [a |-> IF scene.b # NoCue THEN scene.b ELSE scene.a, b |-> n]
    BY <2>1, <2>3 DEF SInv, OnStage, NumbersOf
  <2>4. CASE scene.b # NoCue /\ scene' = [a |-> scene.b, b |-> NoCue]
    BY <2>1, <2>4 DEF SInv, OnStage, NumbersOf
  <2>5. QED BY <1>1, <2>2, <2>3, <2>4 DEF CueTick
<1>8. QED BY <1>3, <1>4, <1>5, <1>6, <1>7 DEF SInv

\* A session starts with the invariant.
LEMMA InitHolds ==
  ASSUME Init
  PROVE  SInv
<1>1. PICK s \in Started : name = s.name
  BY DEF Init
<1>2. name \in DOMAIN Catalogue
  BY <1>1, ShowsAssumption
<1>3. HasLists(show)
  BY <1>2, ShowsAssumption, OpenedLists DEF Init, HasLists
<1>4. Basics
  BY <1>2 DEF Init, Basics, NoScan
<1>5. WellKept(stack, show) /\ Gesture
  BY <1>3, Opening DEF Init, Gesture
<1>6. Sources
  BY DEF Init, Sources, Loaded
<1>7. Carried
  BY DEF Init, Carried, NoGhostMaterial, Bare, Range
<1>8. OnStage
  BY DEF Init, OnStage
<1>9. QED BY <1>4, <1>5, <1>6, <1>7, <1>8 DEF SInv

\* Every step keeps the invariant.
LEMMA NextKeeps ==
  ASSUME SInv, [Next]_vars
  PROVE  SInv'
<1>1. CASE Command
  BY <1>1, EditsKeeps, UndoKeeps, RedoKeeps, NewKeeps, LoadKeeps, ModeSetKeeps,
     ModFrequencyKeeps, OthersKeep DEF Command
<1>2. CASE Background
  BY <1>2, BackgroundKeeps
<1>3. CASE Frame
  BY <1>3, FrameKeeps
<1>4. CASE \/ Scan \/ UNCHANGED vars
           \/ \E p \in DOMAIN Versions : \E v \in Versions[p] : Write(p, v)
           \/ \E f \in MediaDirs : Copy(f)
  BY <1>4, OthersKeep
<1>5. QED BY <1>1, <1>2, <1>3, <1>4 DEF Next

\* The invariant holds in every state of every behaviour.
LEMMA Invariance == Spec => []SInv
<1>1. Init => SInv
  BY InitHolds
<1>2. SInv /\ [Next]_vars => SInv'
  BY NextKeeps
<1>3. QED BY <1>1, <1>2, PTL DEF Spec

\* The show, its history and its caches are well formed whatever is edited, undone,
\* loaded, scanned or written on disk, and no slot carries a material the session
\* has lost track of (session.rs, undo.rs, gl.rs).
THEOREM SessionIsSafe == Spec => []SessionInvariant
<1>1. SInv => SessionInvariant
  BY DEF SInv, SessionInvariant, SessionTypeOK, Basics, WellKept, Sources, Carried, OnStage
<1>2. QED BY <1>1, Invariance, PTL

----------------------------------------------------------------------------
(* Undo and redo on a line of shows.                                     *)

\* The line and the place on it, as the terms of UndoHistory.
LEMMA LineAt ==
  ASSUME NEW T, NEW u \in Seq(T), NEW s \in T, NEW r \in Seq(T)
  PROVE  /\ DOMAIN LineOf(u, s, r) = 1..(Len(u) + 1 + Len(r))
         /\ \A i \in 1..Len(u) : LineOf(u, s, r)[i] = u[i]
         /\ LineOf(u, s, r)[Len(u) + 1] = s
         /\ \A i \in (Len(u) + 2)..(Len(u) + 1 + Len(r)) :
              LineOf(u, s, r)[i] = Reverse(r)[i - (Len(u) + 1)]
<1> DEFINE a == Append(u, s)
           w == Reverse(r)
<1>1. a \in Seq(T) /\ Len(a) = Len(u) + 1 /\ Len(u) \in Nat
  BY AppendProperties
<1>2. w \in Seq(T) /\ Len(w) = Len(r) /\ Len(r) \in Nat
  BY ReverseType
<1>3. LineOf(u, s, r) = a \o w
  BY LineFront
<1> HIDE DEF a, w
<1>4. \A i \in 1..(Len(a) + Len(w)) : i > Len(a) => (a \o w)[i] = w[i - Len(a)]
  BY <1>1, <1>2, Joined2
<1>5. \A i \in (Len(u) + 2)..(Len(u) + 1 + Len(r)) : (a \o w)[i] = w[i - (Len(u) + 1)]
  BY <1>1, <1>2, <1>4
<1>6. LineOf(u, s, r) \in Seq(T) /\ Len(LineOf(u, s, r)) = Len(u) + 1 + Len(r)
  BY LineType
<1>7. DOMAIN LineOf(u, s, r) = 1..(Len(u) + 1 + Len(r))
  BY <1>6
<1>8. (\A i \in 1..Len(u) : LineOf(u, s, r)[i] = u[i]) /\ LineOf(u, s, r)[Len(u) + 1] = s
  BY LineFront
<1>9. QED BY <1>3, <1>5, <1>7, <1>8 DEF w

\* The line of the shows of the session.
Line == LineOf(stack.undo, show, stack.redo)

\* The line of a show just opened is that show.
LEMMA LineStarts ==
  ASSUME NEW T, NEW u \in Seq(T), NEW s \in T, NEW r \in Seq(T),
         NEW i \in 1..(Len(u) + 1), NEW j \in 1..(Len(u) + 1)
  PROVE  SubSeq(LineOf(u, s, r), i, j) = SubSeq(Append(u, s), i, j)
BY LineFront

\* An edit that is pushed is a step Do of UndoHistory.
LEMMA DoStep ==
  ASSUME WellKept(stack, show), HasLists(show'), stack' = Pushed(stack, show)
  PROVE  History!Do
<1> DEFINE T == ShowsOf(stack, show)
           U == ShowsOf(stack', show')
           u == stack.undo
           p == stack'.undo
           q == stack'.redo
           past == Len(u)
           kept == Len(p)
<1>1. u \in Seq(T) /\ stack.redo \in Seq(T) /\ show \in T
  BY KeptIn
<1>2. WellKept(stack', show') /\ stack'.redo = <<>> /\ EndsWith(Append(u, show), p)
  BY Pushing
<1>3. p \in Seq(U) /\ show' \in U /\ q \in Seq(U) /\ Len(q) = 0
  BY <1>2, KeptIn
<1> HIDE DEF T, U, u, p, q
<1>4. Append(u, show) \in Seq(T) /\ Len(Append(u, show)) = past + 1 /\ past \in Nat
  BY <1>1, AppendProperties
<1>5. PICK first \in 1..(past + 1) : p = SubSeq(Append(u, show), first, past + 1)
  BY <1>2, <1>4 DEF EndsWith
<1>6. kept = past + 1 - first + 1 /\ kept >= 1 /\ kept \in Nat
  BY <1>4, <1>5
<1>7. Line = LineOf(u, show, stack.redo) /\ Line' = LineOf(p, show', q)
  BY DEF Line, u, p, q
<1>8. SubSeq(Line, first, past + 1) = p
  BY <1>1, <1>4, <1>5, <1>7, LineFront
<1>9. Len(Line') = kept + 1
  <2>1. Len(Line') = kept + 1 + Len(q)
    BY <1>3, <1>7, LineType
  <2>2. QED BY <2>1, <1>3, <1>6
<1>10. SubSeq(Line', 1, kept) = p
  <2>1. SubSeq(Line', 1, kept) = SubSeq(Append(p, show'), 1, kept)
    <3>1. 1 \in 1..(Len(p) + 1) /\ kept \in 1..(Len(p) + 1)
      BY <1>6
    <3>2. p \in Seq(U) /\ show' \in U /\ q \in Seq(U)
      BY <1>3
    <3> HIDE DEF kept
    <3>3. SubSeq(LineOf(p, show', q), 1, kept) = SubSeq(Append(p, show'), 1, kept)
      BY <3>1, <3>2, LineStarts, Zenon
    <3>4. QED BY <3>3, <1>7
  <2>2. Front(Append(p, show')) = p
    BY <1>3, LastAppended
  <2>3. Len(Append(p, show')) - 1 = kept
    BY <1>3, <1>6, AppendProperties
  <2>4. QED BY <2>1, <2>2, <2>3 DEF Front
<1>11. SubSeq(Line', 1, (kept + 1) - 1) = SubSeq(Line, first, past + 1)
  BY <1>6, <1>8, <1>10
<1>12. /\ Len(p) + 1 = Len(Line')
       /\ \E f \in 1..(Len(u) + 1) :
            SubSeq(Line', 1, (Len(p) + 1) - 1) = SubSeq(Line, f, Len(u) + 1)
  BY <1>9, <1>11
<1>13. QED BY <1>12, Zenon DEF History!Do, Line, LineOf, u, p

\* An edit of the gesture under way is a step Continue of UndoHistory.
LEMMA ContinueStep ==
  ASSUME WellKept(stack, show), HasLists(show'), stack' = stack, stack.redo = <<>>
  PROVE  History!Continue
<1> DEFINE T == ShowsOf(stack, show) \cup {show'}
           u == stack.undo
           r == stack.redo
<1>1. u \in Seq(T) /\ r \in Seq(T) /\ show \in T /\ show' \in T
  <2>1. u \in Seq(ShowsOf(stack, show)) /\ r \in Seq(ShowsOf(stack, show)) /\ show \in ShowsOf(stack, show)
    BY KeptIn
  <2>2. QED BY <2>1, SeqMonotonic
<1>2. Line = LineOf(u, show, r) /\ Line' = LineOf(u, show', r)
  BY DEF Line
<1>3. r = <<>>
  OBVIOUS
<1> HIDE DEF T, u, r
<1>4. Len(u) \in Nat /\ Len(r) = 0
  BY <1>1, <1>3
<1>5. Len(Line) = Len(u) + 1 /\ Len(Line') = Len(u) + 1
  <2>1. Len(Line) = Len(u) + 1 + Len(r) /\ Len(Line') = Len(u) + 1 + Len(r)
    BY <1>1, <1>2, LineType
  <2>2. QED BY <2>1, <1>4
<1>6. \A i \in 1..Len(u) : Line[i] = u[i] /\ Line'[i] = u[i]
  BY <1>1, <1>2, LineAt
<1>7. /\ Len(u) + 1 = Len(Line) /\ Len(Line') = Len(Line)
      /\ \A i \in 1..(Len(u) + 1 - 1) : Line'[i] = Line[i]
  BY <1>4, <1>5, <1>6
<1>8. QED BY <1>7 DEF History!Continue, Line, LineOf, u

\* A show retouched in place is a step Touch of UndoHistory.
LEMMA TouchStep ==
  ASSUME WellKept(stack, show), HasLists(show'), stack' = stack, Retouched(show, show')
  PROVE  History!Touch
<1> DEFINE T == ShowsOf(stack, show) \cup {show'}
           u == stack.undo
           r == stack.redo
<1>1. u \in Seq(T) /\ r \in Seq(T) /\ show \in T /\ show' \in T
  <2>1. u \in Seq(ShowsOf(stack, show)) /\ r \in Seq(ShowsOf(stack, show)) /\ show \in ShowsOf(stack, show)
    BY KeptIn
  <2>2. QED BY <2>1, SeqMonotonic
<1>2. Line = LineOf(u, show, r) /\ Line' = LineOf(u, show', r)
  BY DEF Line
<1> HIDE DEF T, u, r
<1>3. Len(u) \in Nat /\ Len(r) \in Nat
  BY <1>1
<1>4. Len(Line') = Len(Line)
  BY <1>1, <1>2, LineType
<1>5. /\ DOMAIN Line = 1..(Len(u) + 1 + Len(r))
      /\ Line[Len(u) + 1] = show /\ Line'[Len(u) + 1] = show'
      /\ \A i \in 1..Len(u) : Line[i] = u[i] /\ Line'[i] = u[i]
      /\ \A i \in (Len(u) + 2)..(Len(u) + 1 + Len(r)) :
           /\ Line[i] = Reverse(r)[i - (Len(u) + 1)]
           /\ Line'[i] = Reverse(r)[i - (Len(u) + 1)]
  BY <1>1, <1>2, LineAt
<1>6. ASSUME NEW i \in DOMAIN Line \ {Len(u) + 1}
      PROVE  Line'[i] = Line[i]
  <2>1. i \in 1..Len(u) \/ i \in (Len(u) + 2)..(Len(u) + 1 + Len(r))
    BY <1>3, <1>5
  <2>2. QED BY <2>1, <1>5
<1>7. Retouched(Line[Len(u) + 1], Line'[Len(u) + 1])
  BY <1>5
<1>8. QED BY <1>4, <1>6, <1>7 DEF History!Touch, History!Here, Line, LineOf, u

\* An undo is a step back on the line.
LEMMA UndoStep ==
  ASSUME WellKept(stack, show), Undo
  PROVE  History!Undo
<1>1. stack.undo # <<>> /\ show' = Last(stack.undo) /\ stack' = Undone(stack, show)
  BY DEF Undo, Walk
<1>2. /\ LineOf(Undone(stack, show).undo, Last(stack.undo), Undone(stack, show).redo) = Line
      /\ Len(Undone(stack, show).undo) = Len(stack.undo) - 1
  BY <1>1, Undoing DEF Line
<1>3. Line' = Line /\ Len(stack'.undo) = Len(stack.undo) - 1
  BY <1>1, <1>2 DEF Line
<1>4. Len(stack.undo) \in Nat /\ Len(stack.undo) > 0
  <2>1. stack.undo \in Seq(ShowsOf(stack, show))
    BY KeptIn
  <2>2. QED BY <1>1, <2>1, EmptySeq
<1>5. /\ Len(stack.undo) + 1 > 1
      /\ Len(stack'.undo) + 1 = (Len(stack.undo) + 1) - 1
  BY <1>3, <1>4
<1>6. QED BY <1>3, <1>5 DEF History!Undo, Line, LineOf

\* A redo is a step forward on the line.
LEMMA RedoStep ==
  ASSUME WellKept(stack, show), Redo
  PROVE  History!Redo
<1>1. stack.redo # <<>> /\ show' = Last(stack.redo) /\ stack' = Redone(stack, show)
  BY DEF Redo, Walk
<1>2. /\ LineOf(Redone(stack, show).undo, Last(stack.redo), Redone(stack, show).redo) = Line
      /\ Len(Redone(stack, show).undo) = Len(stack.undo) + 1
  BY <1>1, Redoing DEF Line
<1>3. Line' = Line /\ Len(stack'.undo) = Len(stack.undo) + 1
  BY <1>1, <1>2 DEF Line
<1>4. /\ stack.undo \in Seq(ShowsOf(stack, show)) /\ stack.redo \in Seq(ShowsOf(stack, show))
      /\ show \in ShowsOf(stack, show)
  BY KeptIn
<1>5. Len(stack.undo) \in Nat /\ Len(stack.redo) \in Nat /\ Len(stack.redo) > 0
  BY <1>1, <1>4, EmptySeq
<1>6. Len(Line) = Len(stack.undo) + 1 + Len(stack.redo)
  BY <1>4, LineType DEF Line
<1>7. /\ Len(stack.undo) + 1 < Len(Line)
      /\ Len(stack'.undo) + 1 = (Len(stack.undo) + 1) + 1
  <2> DEFINE n == Len(stack.undo)
             m == Len(stack.redo)
  <2>1. n \in Nat /\ m \in Nat /\ m > 0 /\ Len(Line) = n + 1 + m /\ Len(stack'.undo) = n + 1
    BY <1>3, <1>5, <1>6
  <2> HIDE DEF n, m
  <2>2. n + 1 < Len(Line) /\ Len(stack'.undo) + 1 = (n + 1) + 1
    BY <2>1
  <2>3. QED BY <2>2 DEF n
<1>8. QED BY <1>3, <1>7 DEF History!Redo, Line, LineOf

\* A show put in the place of another starts a line.
LEMMA OpenStep ==
  ASSUME stack' = NoHistory, HasLists(show')
  PROVE  History!Open
<1> DEFINE T == {show'}
           e == <<>>
<1>1. e \in Seq(T) /\ show' \in T /\ Len(e) = 0
  OBVIOUS
<1>2. Line' = LineOf(e, show', e) /\ stack'.undo = e
  BY DEF Line, NoHistory
<1> HIDE DEF T, e
<1>3. Len(LineOf(e, show', e)) = Len(e) + 1 + Len(e)
  BY <1>1, LineType
<1>4. Len(Line') = 1 /\ Len(stack'.undo) + 1 = 1
  BY <1>1, <1>2, <1>3
<1>5. QED BY <1>4 DEF History!Open, Line, LineOf

\* A step that leaves the show and the stack leaves the line.
LEMMA LineStays ==
  ASSUME stack' = stack, show' = show
  PROVE  UNCHANGED History!vars
BY DEF History!vars

\* Every step of the session is one of UndoHistory, or leaves the line.
LEMMA NextIsLinear ==
  ASSUME SInv, [Next]_vars
  PROVE  History!Next \/ UNCHANGED History!vars
<1>1. WellKept(stack, show) /\ Gesture /\ HasLists(show)
  BY KeptIn DEF SInv
<1>2. HasLists(show')
  <2>1. WellKept(stack', show')
    BY NextKeeps DEF SInv
  <2>2. QED BY <2>1 DEF WellKept, ShowsOf
<1>3. ASSUME NEW op \in Ops, Edits(op)
      PROVE  History!Do \/ History!Continue
  <2>1. \/ stack' = Pushed(stack, show)
        \/ stack' = stack /\ CoalesceKey(op) # <<>> /\ CoalesceKey(op) = lastKey
    BY <1>3 DEF Edits, Remembered
  <2>2. CASE stack' = Pushed(stack, show)
    BY <1>1, <1>2, <2>2, DoStep
  <2>3. CASE stack' = stack /\ CoalesceKey(op) # <<>> /\ CoalesceKey(op) = lastKey
    BY <1>1, <1>2, <2>3, ContinueStep DEF Gesture
  <2>4. QED BY <2>1, <2>2, <2>3
<1>4. ASSUME NEW n \in DOMAIN Catalogue, Load(n)
      PROVE  History!Open
  BY <1>2, <1>4, OpenStep DEF Load, Install
<1>5. ASSUME New
      PROVE  History!Open
  BY <1>2, <1>5, OpenStep DEF New, Install
<1>6. ASSUME NEW id, NEW hz, ModFrequency(id, hz)
      PROVE  History!Touch
  <2>1. stack' = stack /\ \E i : show' = [show EXCEPT !.modulators[i].freq = hz]
    BY <1>6 DEF ModFrequency
  <2>2. PICK i : show' = [show EXCEPT !.modulators[i].freq = hz]
    BY <2>1
  <2>3. Retouched(show, show')
    BY <1>1, <2>2 DEF Retouched, HasLists, Fields
  <2>4. QED BY <1>1, <1>2, <2>1, <2>3, TouchStep
<1>7. ASSUME Background
      PROVE  History!Touch \/ UNCHANGED History!vars
  <2>1. /\ stack' = stack
        /\ \/ show' = show
           \/ show' = [show EXCEPT !.media = scan.media, !.materials = scan.materials]
    BY <1>7 DEF Background
  <2>2. CASE show' = show
    BY <2>1, <2>2, LineStays
  <2>3. CASE show' = [show EXCEPT !.media = scan.media, !.materials = scan.materials]
    <3>1. Retouched(show, show')
      BY <1>1, <2>3 DEF Retouched, HasLists, Fields
    <3>2. QED BY <1>1, <1>2, <2>1, <3>1, TouchStep
  <2>4. QED BY <2>1, <2>2, <2>3
<1>8. ASSUME \/ Rescan \/ Frame \/ Scan \/ UNCHANGED vars
             \/ \E m \in {"edit", "show"} : ModeSet(m)
             \/ \E p \in DOMAIN Versions : \E v \in Versions[p] : Write(p, v)
             \/ \E f \in MediaDirs : Copy(f)
      PROVE  UNCHANGED History!vars
  <2>1. stack' = stack /\ show' = show
    BY <1>8 DEF Rescan, Frame, Scan, vars, ModeSet, Write, Copy, model
  <2>2. QED BY <2>1, LineStays
<1>9. CASE Command
  BY <1>1, <1>3, <1>4, <1>5, <1>6, <1>8, <1>9, UndoStep, RedoStep DEF Command, History!Next
<1>10. CASE Background
  BY <1>7, <1>10 DEF History!Next
<1>11. CASE Frame \/ Scan \/ UNCHANGED vars
  BY <1>8, <1>11
<1>12. CASE \/ \E p \in DOMAIN Versions : \E v \in Versions[p] : Write(p, v)
            \/ \E f \in MediaDirs : Copy(f)
  BY <1>8, <1>12
<1>13. QED BY <1>9, <1>10, <1>11, <1>12 DEF Next

\* A session starts on the line of one show.
LEMMA InitIsALine ==
  ASSUME Init
  PROVE  History!Init
<1> DEFINE T == {show}
           e == <<>>
<1>1. e \in Seq(T) /\ show \in T /\ Len(e) = 0
  OBVIOUS
<1>2. Line = LineOf(e, show, e) /\ stack.undo = e
  BY DEF Init, Line, NoHistory
<1> HIDE DEF T, e
<1>3. Len(Line) = Len(e) + 1 + Len(e)
  BY <1>1, <1>2, LineType
<1>4. Len(Line) = 1 /\ Len(stack.undo) + 1 = 1
  BY <1>1, <1>2, <1>3
<1>5. QED BY <1>4 DEF History!Init, Line, LineOf

\* Undo and redo implement a line of shows (UndoHistory): whatever edits, gestures,
\* scans and loads come between, do_undo() gives back the show before the last
\* gesture and do_redo() the one undone, for every cap of the stack.
THEOREM UndoWalksALine == Spec => UndoIsLinear
<1>1. Init => History!Init
  BY InitIsALine
<1>2. SInv /\ [Next]_vars => [History!Next]_(History!vars)
  BY NextIsLinear
<1>3. QED BY <1>1, <1>2, Invariance, PTL DEF Spec, UndoIsLinear, History!Spec

----------------------------------------------------------------------------
(* The programs on the card.                                             *)

\* Two shows with the same materials name the same files.
LEMMA SamePool ==
  ASSUME NEW s, NEW t, t.materials = s.materials
  PROVE  /\ MaterialIds(t) = MaterialIds(s)
         /\ \A id : PathOf(t, id) = PathOf(s, id)
         /\ \A id : OnDisk(t, id) = OnDisk(s, id)
BY DEF MaterialIds, L!IdsOf, PathOf, OnDisk

\* The place of a material in its list holds that material.
LEMMA PlaceFacts ==
  ASSUME NEW list, NEW n, Place("materials", list, n) # 0
  PROVE  list[Place("materials", list, n)].id = n
<1> DEFINE I == {i \in 1..Len(list) : list[i].id = n}
<1>1. Place("materials", list, n) = IF I # {} THEN Min(I) ELSE 0
  BY DEF Place, SelectInSeq, NumberOf
<1>2. I # {} /\ Place("materials", list, n) = Min(I)
  BY <1>1
<1>3. Min(I) \in I
  <2>1. I \in SUBSET Nat
    OBVIOUS
  <2> HIDE DEF I
  <2>2. PICK k \in I : \A j \in I : <<j, k>> \notin OpToRel(<, Nat)
    BY <1>2, <2>1, WFMin, NatLessThanWellFounded, Zenon
  <2>3. \A j \in I : k <= j
    <3> TAKE j \in I
    <3>1. j \in Nat /\ k \in Nat
      BY <2>1
    <3>2. j < k => <<j, k>> \in OpToRel(<, Nat)
      BY <3>1 DEF OpToRel
    <3>3. ~(j < k)
      BY <2>2, <3>2
    <3>4. QED BY <3>1, <3>3
  <2>4. \E k1 \in I : \A j \in I : k1 =< j
    BY <2>3
  <2>5. QED BY <2>4, Zenon DEF Min
<1>4. QED BY <1>2, <1>3

\* The path of a material is the one of an item of the list with its id.
LEMMA PathFacts ==
  ASSUME NEW s, NEW id \in MaterialIds(s)
  PROVE  \E k \in DOMAIN s.materials :
           /\ k = CHOOSE i \in DOMAIN s.materials : s.materials[i].id = id
           /\ s.materials[k].id = id
BY DEF MaterialIds, L!IdsOf

\* The edit of a material changes the path of no other material.
LEMMA UpdatedPool ==
  ASSUME NEW s, HasLists(s), NEW op \in Ops, op.at = "materials", op.op = "update"
  PROVE  /\ MaterialIds(Applied(op, s)) = MaterialIds(s)
         /\ \A id \in MaterialIds(s) : id # op.number => PathOf(Applied(op, s), id) = PathOf(s, id)
<1> DEFINE l == s.materials
           i == Place("materials", l, op.number)
           t == Applied(op, s)
           k == t.materials
<1>1. "materials" \in DOMAIN s
  BY DEF HasLists, Fields
<1>2. op.item.id = op.number
  BY OpsAssumption
<1>3. CASE i = 0
  <2>1. t = s
    BY <1>3 DEF Applied
  <2>2. QED BY <2>1
<1>4. CASE i # 0
  <2>1. t = [s EXCEPT !.materials = [@ EXCEPT ![i] = op.item]]
    BY <1>4 DEF Applied
  <2>2. k = [l EXCEPT ![i] = op.item]
    BY <1>1, <2>1
  <2>3. l[i].id = op.number
    BY <1>4, PlaceFacts
  <2> HIDE DEF i, k, l, t
  <2>4. /\ DOMAIN k = DOMAIN l
        /\ \A j \in DOMAIN l : k[j].id = l[j].id
        /\ \A j \in DOMAIN l : l[j].id # op.number => k[j] = l[j]
    BY <1>2, <2>2, <2>3
  <2>5. MaterialIds(t) = MaterialIds(s)
    BY <2>4 DEF MaterialIds, L!IdsOf, k, l
  <2>6. ASSUME NEW id \in MaterialIds(s), id # op.number
        PROVE  PathOf(t, id) = PathOf(s, id)
    <3> DEFINE c == CHOOSE j \in DOMAIN l : l[j].id = id
    <3>1. c = CHOOSE j \in DOMAIN k : k[j].id = id
      BY <2>4
    <3>2. c \in DOMAIN l /\ l[c].id = id
      BY PathFacts DEF l
    <3> HIDE DEF c
    <3>3. k[c] = l[c]
      BY <2>4, <2>6, <3>2
    <3>4. QED BY <3>1, <3>3 DEF PathOf, c, k, l
  <2>7. QED BY <2>5, <2>6 DEF t
<1>5. QED BY <1>3, <1>4

\* load_materials gives each material its file, unless there is none to read.
LEMMA LoadedFacts ==
  ASSUME NEW s, LoadMaterials(s)
  PROVE  /\ DOMAIN materials' \subseteq MaterialIds(s)
         /\ \A id \in DOMAIN materials' :
              materials'[id] = OnDisk(s, id) /\ FileAt(PathOf(s, id)) \notin {"absent", "invalid"}
         /\ \A id \in MaterialIds(s) \ DOMAIN materials' : FileAt(PathOf(s, id)) \in {"absent", "invalid"}
BY DEF LoadMaterials, Loaded

\* What a file may hold that gives no program.
Unfit == {"absent", "invalid", "bad"}
\* The watcher still has the path to report, or the material is set apart.
Excused(id, p) == p \in changed \/ id \in parted
\* The programs are a function to sources.
Shaped ==
  /\ programs = [id \in DOMAIN programs |-> programs[id]]
  /\ \A id \in DOMAIN programs :
       programs[id] = [path |-> programs[id].path, version |-> programs[id].version]
\* Without a synchronization to come, the programs are those of the show.
Pruned == ~sync => DOMAIN programs \subseteq MaterialIds(show)
\* A source is the one of the path its material names.
Sourced ==
  \A id \in DOMAIN materials :
    /\ id \in MaterialIds(show)
    /\ materials[id] = [path |-> PathOf(show, id), version |-> materials[id].version]
\* What is set apart has a program, but between a report and the frame.
Marked == (mode = "show" /\ phase = "frame") \/ parted \subseteq DOMAIN programs
\* A material the driver has nothing to compile for, or refuses.
Refuses(id) == id \notin DOMAIN materials \/ ~Compiles(materials[id])
\* The source held is the one on disk, or there is a reason for it.
ReadIs(id) ==
  \/ Excused(id, PathOf(show, id))
  \/ FileAt(PathOf(show, id)) \in Unfit
  \/ id \in DOMAIN materials /\ materials[id].version = FileAt(PathOf(show, id))
  \/ Refuses(id) /\ (id \notin DOMAIN programs \/ programs[id] = OnDisk(show, id))
\* Every source held is the one on disk.
Read == \A id \in MaterialIds(show) : ReadIs(id)
\* The program is the one of the path the material names, or will be.
PlacedIs(id) ==
  \/ programs[id].path = PathOf(show, id)
  \/ id \in parted
  \/ phase = "idle" /\ (sync \/ id \in reload)
\* Every program is the one of the path its material names.
Placed == \A id \in DOMAIN programs \cap MaterialIds(show) : PlacedIs(id)
\* The program is compiled from the file as it is, or will be.
FreshIs(id) ==
  \/ Excused(id, programs[id].path) \/ id \in reload
  \/ FileAt(programs[id].path) \in Unfit \cup {programs[id].version}
  \/ phase = "frame" /\ id \notin MaterialIds(show)
\* Every program is compiled from the file as it is.
Fresh == \A id \in DOMAIN programs : FreshIs(id)
\* The program is compiled from the source held, or will be.
HeldIs(id) ==
  \/ ~Compiles(materials[id]) \/ programs[id] = materials[id] \/ id \in reload
  \/ Excused(id, PathOf(show, id)) \/ programs[id].path # PathOf(show, id)
\* Every program is compiled from the source held.
Held == \A id \in DOMAIN programs \cap DOMAIN materials : HeldIs(id)
\* A performance has compiled all it can show.
Frozen ==
  mode = "show" /\ ~sync =>
    reload = {} /\ \A id \in DOMAIN materials : Compiles(materials[id]) => id \in DOMAIN programs
\* The inductive invariant about the programs.  That the program is the one of
\* the source held (Held) does not survive a reload by itself: a file may have
\* changed twice, and a source may have been refused in between.  So the file,
\* the source and the program are compared two by two (Read, Fresh, Held), with
\* the path the material names (Placed), for a program may be of another file.
PInv == Shaped /\ Pruned /\ Sourced /\ Marked /\ Read /\ Placed /\ Fresh /\ Held /\ Frozen

\* Steps that leave the materials, the files and the programs keep it.
LEMMA Quiet ==
  ASSUME PInv, show'.materials = show.materials,
         UNCHANGED <<shaders, changed, materials, programs, parted, reload, phase>>,
         sync => sync', mode' = mode \/ (phase = "idle" /\ (mode' = "edit" \/ sync'))
  PROVE  PInv'
<1>1. /\ MaterialIds(show') = MaterialIds(show)
      /\ \A id : PathOf(show', id) = PathOf(show, id)
  BY SamePool
<1>2. (\A p : FileAt(p)' = FileAt(p)) /\ \A id : OnDisk(show, id)' = OnDisk(show, id)
  BY <1>1 DEF OnDisk, FileAt
<1>3. (\A x : MaterialIds(show)' = MaterialIds(show)) /\ \A id : PathOf(show, id)' = PathOf(show, id)
  BY <1>1 DEF MaterialIds, PathOf
<1>4. Shaped' /\ Pruned' /\ Sourced'
  BY <1>3 DEF PInv, Shaped, Pruned, Sourced
<1>5. Marked'
  BY DEF PInv, Marked
<1>6. Read'
  BY <1>2, <1>3 DEF PInv, Read, ReadIs, Excused, Refuses, Compiles
<1>7. Placed' /\ Fresh'
  BY <1>2, <1>3 DEF PInv, Placed, PlacedIs, Fresh, FreshIs, Excused
<1>8. Held'
  BY <1>3 DEF PInv, Held, HeldIs, Excused, Compiles
<1>9. Frozen'
  BY DEF PInv, Frozen, Compiles
<1>10. QED BY <1>4, <1>5, <1>6, <1>7, <1>8, <1>9 DEF PInv

\* After load_materials the sources are those on disk, and a program that is
\* fresh is compiled from the source held.
LEMMA Loading ==
  ASSUME Shaped', Fresh', LoadMaterials(show'), shaders' = shaders
  PROVE  Sourced' /\ Read' /\ Held'
<1>1. /\ \A p : FileAt(p)' = FileAt(p)
      /\ \A id : OnDisk(show', id) = [path |-> PathOf(show', id), version |-> FileAt(PathOf(show', id))]
  BY DEF FileAt, OnDisk
<1>2. /\ DOMAIN materials' \subseteq MaterialIds(show)'
      /\ \A id \in DOMAIN materials' :
           /\ materials'[id] = [path |-> PathOf(show', id), version |-> FileAt(PathOf(show', id))]
           /\ FileAt(PathOf(show', id)) \notin {"absent", "invalid"}
      /\ \A id \in MaterialIds(show)' \ DOMAIN materials' :
           FileAt(PathOf(show', id)) \in {"absent", "invalid"}
  BY <1>1, LoadedFacts DEF MaterialIds
<1>3. \A id : PathOf(show, id)' = PathOf(show', id)
  BY DEF PathOf
<1>4. Sourced'
  BY <1>2, <1>3 DEF Sourced
<1>5. Read'
  <2> SUFFICES ASSUME NEW id \in MaterialIds(show)' PROVE ReadIs(id)'
    BY DEF Read
  <2>1. CASE id \in DOMAIN materials'
    <3>1. materials'[id].version = FileAt(PathOf(show', id))
      BY <1>2, <2>1
    <3>2. QED BY <1>1, <1>3, <2>1, <3>1 DEF ReadIs
  <2>2. CASE id \notin DOMAIN materials'
    BY <1>1, <1>2, <1>3, <2>2 DEF ReadIs, Unfit
  <2>3. QED BY <2>1, <2>2
<1>6. Held'
  <2> SUFFICES ASSUME NEW id \in DOMAIN programs' \cap DOMAIN materials',
                      Compiles(materials'[id]), id \notin reload',
                      ~Excused(id, PathOf(show, id))', programs'[id].path = PathOf(show, id)'
               PROVE  programs'[id] = materials'[id]
    BY DEF Held, HeldIs, Compiles
  <2>1. /\ materials'[id] = [path |-> PathOf(show', id), version |-> FileAt(PathOf(show', id))]
        /\ FileAt(PathOf(show', id)) \notin Unfit
    BY <1>2 DEF Unfit, Compiles
  <2>2. FreshIs(id)'
    BY DEF Fresh
  <2>3. programs'[id].version = FileAt(PathOf(show', id))
    <3>1. id \in MaterialIds(show)'
      BY <1>2
    <3>2. ~Excused(id, programs[id].path)'
      BY DEF Excused
    <3>3. FileAt(programs[id].path)' \in (Unfit \cup {programs[id].version})'
      BY <2>2, <3>1, <3>2 DEF FreshIs
    <3>4. FileAt(programs[id].path)' = FileAt(PathOf(show', id))
      BY <1>1, <1>3
    <3>5. QED BY <2>1, <3>3, <3>4 DEF Unfit
  <2>4. programs'[id] = [path |-> programs'[id].path, version |-> programs'[id].version]
    BY DEF Shaped
  <2>5. QED BY <1>3, <2>1, <2>3, <2>4
<1>7. QED BY <1>4, <1>5, <1>6

\* Every edit keeps it.
LEMMA EditsHold ==
  ASSUME SInv, PInv, NEW op \in Ops, Edits(op)
  PROVE  PInv'
<1> DEFINE after == Relocated(op, Applied(op, show))
<1>1. /\ show' = after /\ AfterChange(op, after) /\ mode = "edit" /\ phase = "idle"
      /\ UNCHANGED <<mode, disk, card, phase, parted>>
  BY DEF Edits
<1>2. HasLists(show)
  BY KeptIn DEF SInv
<1>3. CASE op.at # "materials"
  <2>1. after.materials = show.materials
    BY <1>2, <1>3, EditedFields
  <2> HIDE DEF after
  <2>2. show'.materials = show.materials
    BY <1>1, <2>1
  <2>3. materials' = materials /\ reload' = reload /\ (sync => sync')
    BY <1>1, <1>3 DEF AfterChange, sources
  <2>4. QED BY <1>1, <2>2, <2>3, Quiet DEF disk, card
<1>4. CASE op.at = "materials"
  <2>1. after.materials = Applied(op, show).materials
    <3>1. "materials" \in DOMAIN Applied(op, show)
      BY <1>2, AppliedFields DEF HasLists, Fields
    <3>2. QED BY <3>1, RelocatedFields
  <2>2. show'.materials = Applied(op, show).materials
    BY <1>1, <2>1
  <2>3. /\ LoadMaterials(show')
        /\ op.op = "update" => reload' = reload \cup {op.number} /\ sync' = sync
        /\ op.op # "update" => reload' = reload /\ sync' = TRUE
    BY <1>1, <1>4 DEF AfterChange, SInv, Basics
  <2> HIDE DEF after
  <2>4. /\ mode' = "edit" /\ phase' = "idle" /\ programs' = programs /\ parted' = parted
        /\ shaders' = shaders /\ changed' = changed /\ phase = "idle" /\ mode = "edit"
    BY <1>1 DEF disk, card
  <2>5. ASSUME op.op = "update"
        PROVE  /\ MaterialIds(show)' = MaterialIds(show)
               /\ \A id \in MaterialIds(show) : id # op.number => PathOf(show, id)' = PathOf(show, id)
    <3>1. /\ MaterialIds(show') = MaterialIds(Applied(op, show))
          /\ \A id : PathOf(show', id) = PathOf(Applied(op, show), id)
      BY <2>2, SamePool
    <3>2. /\ MaterialIds(Applied(op, show)) = MaterialIds(show)
          /\ \A id \in MaterialIds(show) : id # op.number =>
               PathOf(Applied(op, show), id) = PathOf(show, id)
      BY <1>2, <1>4, <2>5, UpdatedPool
    <3>3. MaterialIds(show)' = MaterialIds(show') /\ \A id : PathOf(show, id)' = PathOf(show', id)
      BY DEF MaterialIds, PathOf
    <3>4. QED BY <3>1, <3>2, <3>3
  <2>6. Shaped'
    BY <2>4 DEF PInv, Shaped
  <2>7. Pruned'
    BY <2>3, <2>4, <2>5 DEF PInv, Pruned
  <2>8. Marked'
    BY <2>4 DEF PInv, Marked
  <2>9. Placed'
    <3> SUFFICES ASSUME NEW id \in DOMAIN programs \cap MaterialIds(show)'
                 PROVE  PlacedIs(id)'
      BY <2>4 DEF Placed
    <3>1. CASE op.op # "update"
      BY <2>3, <2>4, <3>1 DEF PlacedIs
    <3>2. CASE op.op = "update" /\ id = op.number
      BY <2>3, <2>4, <3>2 DEF PlacedIs
    <3>3. CASE op.op = "update" /\ id # op.number
      <4>1. PlacedIs(id) /\ PathOf(show, id)' = PathOf(show, id)
        BY <2>5, <3>3 DEF PInv, Placed
      <4>2. QED BY <2>3, <2>4, <3>3, <4>1 DEF PlacedIs
    <3>4. QED BY <3>1, <3>2, <3>3
  <2>10. Fresh'
    <3>1. \A p : FileAt(p)' = FileAt(p)
      BY <2>4 DEF FileAt
    <3>2. reload \subseteq reload'
      BY <2>3
    <3>3. QED BY <2>4, <3>1, <3>2 DEF PInv, Fresh, FreshIs, Excused
  <2>11. Frozen'
    BY <2>4 DEF Frozen
  <2>12. Sourced' /\ Read' /\ Held'
    BY <2>3, <2>4, <2>6, <2>10, Loading
  <2>13. QED BY <2>6, <2>7, <2>8, <2>9, <2>10, <2>11, <2>12 DEF PInv
<1>5. QED BY <1>3, <1>4

\* A show put in the place of another keeps it: rebuild_all() asks for a
\* synchronization.
LEMMA RebuildHolds ==
  ASSUME PInv, phase = "idle", mode = "edit", RebuildAll(show'),
         UNCHANGED <<mode, phase, shaders, changed, programs>>,
         parted' = parted \cup Overlaid(show')
  PROVE  PInv'
<1>1. LoadMaterials(show') /\ sync' = TRUE /\ reload' = reload
  BY DEF RebuildAll
<1>2. \A p : FileAt(p)' = FileAt(p)
  BY DEF FileAt
<1>3. parted \subseteq parted' /\ Overlaid(show') \subseteq DOMAIN programs
  BY DEF Overlaid
<1>4. Shaped'
  BY DEF PInv, Shaped
<1>5. Pruned' /\ Placed' /\ Frozen'
  BY <1>1 DEF Pruned, Placed, PlacedIs, Frozen
<1>6. Marked'
  BY <1>3 DEF PInv, Marked
<1>7. Fresh'
  BY <1>1, <1>2, <1>3 DEF PInv, Fresh, FreshIs, Excused
<1>8. Sourced' /\ Read' /\ Held'
  BY <1>1, <1>4, <1>7, Loading
<1>9. QED BY <1>4, <1>5, <1>6, <1>7, <1>8 DEF PInv

\* Undo, redo, a load and a new show are of that kind.
LEMMA ReplacedHold ==
  ASSUME PInv, Undo \/ Redo \/ New \/ \E n \in DOMAIN Catalogue : Load(n)
  PROVE  PInv'
<1>1. \E s : /\ phase = "idle" /\ mode = "edit" /\ show' = s /\ RebuildAll(s)
             /\ parted' = parted \cup Overlaid(s)
             /\ UNCHANGED <<mode, disk, card, phase>>
  BY DEF Undo, Redo, Walk, New, Load, Replacing, Install
<1>2. QED BY <1>1, RebuildHolds DEF disk, card

\* A change on disk keeps it: the watcher has the path to report, or the file
\* is gone.
LEMMA WriteHolds ==
  ASSUME PInv, NEW p, NEW v, Write(p, v)
  PROVE  PInv'
<1>1. /\ shaders' = [q \in DOMAIN shaders \cup {p} |-> IF q = p THEN v ELSE shaders[q]]
      /\ changed' = IF v = "absent" THEN changed ELSE changed \cup {p}
      /\ UNCHANGED <<mode, show, materials, sync, reload, programs, phase, parted>>
  BY DEF Write, model, sources, deferred, card
<1>2. /\ \A q : q \in changed' \/ FileAt(q)' \in Unfit \/ FileAt(q)' = FileAt(q)
      /\ \A q : q \in changed => q \in changed'
  BY <1>1 DEF FileAt, Unfit
<1>3. (\A id : PathOf(show, id)' = PathOf(show, id)) /\ MaterialIds(show)' = MaterialIds(show)
  BY <1>1 DEF PathOf, MaterialIds
<1>4. Shaped' /\ Pruned' /\ Sourced' /\ Marked' /\ Placed'
  BY <1>1, <1>3 DEF PInv, Shaped, Pruned, Sourced, Marked, Placed, PlacedIs
<1>5. Read'
  <2> SUFFICES ASSUME NEW id \in MaterialIds(show),
                      PathOf(show, id) \notin changed', FileAt(PathOf(show, id))' \notin Unfit
               PROVE  ReadIs(id)'
    BY <1>3 DEF Read, ReadIs, Excused
  <2>1. FileAt(PathOf(show, id))' = FileAt(PathOf(show, id)) /\ PathOf(show, id) \notin changed
    BY <1>2, <1>3
  <2>2. ReadIs(id)
    BY DEF PInv, Read
  <2>3. OnDisk(show, id)' = OnDisk(show, id)
    BY <1>3, <2>1 DEF OnDisk
  <2>4. QED BY <1>1, <1>3, <2>1, <2>2, <2>3 DEF ReadIs, Excused, Refuses, Compiles
<1>6. Fresh'
  <2> SUFFICES ASSUME NEW id \in DOMAIN programs PROVE FreshIs(id)'
    BY <1>1 DEF Fresh
  <2>1. FreshIs(id)
    BY DEF PInv, Fresh
  <2>2. QED BY <1>1, <1>2, <1>3, <2>1 DEF FreshIs, Excused
<1>7. Held'
  BY <1>1, <1>2, <1>3 DEF PInv, Held, HeldIs, Excused, Compiles
<1>8. Frozen'
  BY <1>1 DEF PInv, Frozen, Compiles
<1>9. QED BY <1>4, <1>5, <1>6, <1>7, <1>8 DEF PInv

\* A batch of the watcher keeps it: the materials of the show whose file is
\* reported are reloaded, or set apart during a performance.
LEMMA BackgroundHolds ==
  ASSUME SInv, PInv, Background
  PROVE  PInv'
<1> DEFINE rescanned == /\ mode = "edit" /\ scan.state = "done"
                        /\ scan.media # show.media \/ scan.materials # show.materials
           others == rescanned /\ scan.materials # show.materials
           s == IF rescanned THEN [show EXCEPT !.media = scan.media, !.materials = scan.materials]
                ELSE show
<1>1. PICK batch \in {{}, changed} :
        /\ changed' = changed \ batch /\ show' = s
        /\ IF others \/ (mode = "edit" /\ Reported(s, batch) # {})
           THEN LoadMaterials(s) ELSE UNCHANGED sources
        /\ sync' = (sync \/ others) /\ reload' = Reloaded(s, batch)
        /\ parted' = parted \cup Overlaid(s) \cup
                       (IF mode = "show" THEN Reported(show, batch) ELSE {})
  BY DEF Background
<1>2. phase = "idle" /\ phase' = "frame" /\ UNCHANGED <<mode, shaders, card>>
  BY DEF Background
<1>3. HasLists(show)
  BY KeptIn DEF SInv
<1>4. /\ others \in BOOLEAN /\ sync \in BOOLEAN /\ mode \in {"edit", "show"}
      /\ ~others => s.materials = show.materials
      /\ mode = "show" => ~others /\ s = show
  BY <1>3 DEF HasLists, Fields, SInv, Basics
<1> HIDE DEF s, others, rescanned
<1>5. programs' = programs /\ \A p : FileAt(p)' = FileAt(p)
  BY <1>2 DEF card, FileAt
<1>6. MaterialIds(show)' = MaterialIds(s) /\ \A id : PathOf(show, id)' = PathOf(s, id)
  BY <1>1 DEF MaterialIds, PathOf
<1>7. ~others => MaterialIds(s) = MaterialIds(show) /\ \A id : PathOf(s, id) = PathOf(show, id)
  BY <1>4, SamePool
<1>8. /\ \A id \in parted : id \in parted'
      /\ \A id \in Overlaid(s) : id \in parted'
      /\ mode = "show" => \A id \in Reported(s, batch) : id \in parted'
      /\ mode = "edit" => \A id \in Reported(s, batch) : id \in reload'
      /\ \A id \in reload : id \in reload'
  BY <1>1, <1>4 DEF Reloaded
<1>9. Shaped'
  BY <1>5 DEF PInv, Shaped
<1>10. Pruned'
  BY <1>1, <1>4, <1>5, <1>6, <1>7 DEF PInv, Pruned
<1>11. Marked'
  <2>1. CASE mode = "show"
    BY <1>2, <2>1 DEF Marked
  <2>2. CASE mode = "edit"
    <3>1. parted \subseteq DOMAIN programs
      BY <2>2 DEF PInv, Marked
    <3>2. parted' = parted \cup Overlaid(s)
      BY <1>1, <2>2
    <3>3. QED BY <1>5, <3>1, <3>2 DEF Marked, Overlaid
  <2>3. QED BY <1>4, <2>1, <2>2
<1>12. Placed'
  <2> SUFFICES ASSUME NEW id \in DOMAIN programs \cap MaterialIds(s)
               PROVE  programs[id].path = PathOf(s, id) \/ id \in parted'
    BY <1>5, <1>6 DEF Placed, PlacedIs
  <2>1. programs[id].path = PathOf(s, id) \/ id \in Overlaid(s)
    BY DEF Overlaid
  <2>2. QED BY <1>8, <2>1
<1>13. Fresh'
  <2> SUFFICES ASSUME NEW id \in DOMAIN programs PROVE FreshIs(id)'
    BY <1>5 DEF Fresh
  <2>1. FreshIs(id)
    BY DEF PInv, Fresh
  <2>2. CASE id \in parted
    BY <1>8, <2>2 DEF FreshIs, Excused
  <2>3. CASE id \in reload
    BY <1>8, <2>3 DEF FreshIs
  <2>4. CASE FileAt(programs[id].path) \in Unfit \cup {programs[id].version}
    BY <1>5, <2>4 DEF FreshIs
  <2>5. CASE programs[id].path \in changed
    <3>1. CASE programs[id].path \notin batch
      BY <1>1, <1>5, <2>5, <3>1 DEF FreshIs, Excused
    <3>2. CASE id \notin MaterialIds(s)
      BY <1>2, <1>6, <3>2 DEF FreshIs
    <3>3. CASE id \in Overlaid(s)
      BY <1>8, <3>3 DEF FreshIs, Excused
    <3>4. CASE /\ programs[id].path \in batch /\ id \in MaterialIds(s) /\ id \notin Overlaid(s)
      <4>1. id \in Reported(s, batch)
        BY <3>4 DEF Reported, Overlaid
      <4>2. QED BY <1>4, <1>8, <4>1 DEF FreshIs, Excused
    <3>5. QED BY <3>1, <3>2, <3>3, <3>4
  <2>6. QED BY <1>2, <2>1, <2>2, <2>3, <2>4, <2>5 DEF FreshIs, Excused
<1>14. Frozen'
  <2> SUFFICES ASSUME mode = "show", ~sync PROVE Frozen'
    BY <1>1, <1>2, <1>4 DEF Frozen
  <2>1. materials' = materials /\ reload' = reload
    BY <1>1, <1>4 DEF sources, Reloaded
  <2>2. QED BY <1>2, <1>5, <2>1 DEF PInv, Frozen, Compiles
<1>15. Sourced' /\ Read' /\ Held'
  <2>1. CASE others \/ (mode = "edit" /\ Reported(s, batch) # {})
    BY <1>1, <1>2, <1>9, <1>13, <2>1, Loading
  <2>2. CASE ~(others \/ (mode = "edit" /\ Reported(s, batch) # {}))
    <3>1. /\ materials' = materials
          /\ MaterialIds(show)' = MaterialIds(show)
          /\ \A id : PathOf(show, id)' = PathOf(show, id)
      BY <1>1, <1>6, <1>7, <2>2 DEF sources
    <3>2. ASSUME NEW id \in MaterialIds(show), Excused(id, PathOf(show, id))
          PROVE  Excused(id, PathOf(show, id))'
      <4>1. CASE id \in parted \/ PathOf(show, id) \notin batch
        BY <1>1, <1>8, <3>1, <3>2, <4>1 DEF Excused
      <4>2. CASE PathOf(show, id) \in batch
        <5>1. id \in Reported(s, batch)
          BY <1>7, <2>2, <4>2 DEF Reported
        <5>2. mode = "show"
          BY <1>4, <2>2, <5>1
        <5>3. QED BY <1>8, <5>1, <5>2 DEF Excused
      <4>3. QED BY <4>1, <4>2
    <3>3. Sourced'
      BY <3>1 DEF PInv, Sourced
    <3>4. Read'
      <4>1. \A id : OnDisk(show, id)' = OnDisk(show, id)
        BY <1>5, <3>1 DEF OnDisk
      <4> SUFFICES ASSUME NEW id \in MaterialIds(show) PROVE ReadIs(id)'
        BY <3>1 DEF Read
      <4>2. ReadIs(id)
        BY DEF PInv, Read
      <4>3. QED BY <1>5, <3>1, <3>2, <4>1, <4>2 DEF ReadIs, Refuses, Compiles
    <3>5. Held'
      <4> SUFFICES ASSUME NEW id \in DOMAIN programs \cap DOMAIN materials PROVE HeldIs(id)'
        BY <1>5, <3>1 DEF Held
      <4>1. HeldIs(id) /\ id \in MaterialIds(show)
        BY DEF PInv, Held, Sourced
      <4>2. QED BY <1>5, <1>8, <3>1, <3>2, <4>1 DEF HeldIs, Compiles
    <3>6. QED BY <3>3, <3>4, <3>5
  <2>3. QED BY <2>1, <2>2
<1>16. QED BY <1>9, <1>10, <1>11, <1>12, <1>13, <1>14, <1>15 DEF PInv

\* The frame keeps the program it had.
FrameKept(id) ==
  /\ id \in DOMAIN programs /\ programs'[id] = programs[id]
  /\ sync => id \in MaterialIds(show)
  /\ id \in reload => Refuses(id)
\* The frame gives the program of the source held.
FrameMade(id) == id \in DOMAIN materials /\ Compiles(materials[id]) /\ programs'[id] = materials[id]

\* What maintenance and apply_materials do to the programs.
LEMMA FramePrograms ==
  ASSUME Frame
  PROVE  /\ programs' = [id \in DOMAIN programs' |-> programs'[id]]
         /\ \A id \in DOMAIN programs' : FrameKept(id) \/ FrameMade(id)
         /\ ~sync => DOMAIN programs \subseteq DOMAIN programs'
         /\ \A id \in DOMAIN materials :
              sync /\ Compiles(materials[id]) => id \in DOMAIN programs'
<1> DEFINE kept == Retained(programs, MaterialIds(show))
           p == IF sync THEN Ensured(kept, materials) ELSE programs
           again == reload \cap DOMAIN materials
           r == Recompiled(p, materials, again)
           usable == {id \in DOMAIN materials \ Maintained.failed :
                        \E s \in Slots : WantsMaterial(s, id)}
           used == Restrict(materials, usable)
           ids == {id \in usable : Compiles(materials[id])}
<1>1. programs' = Ensured(r, used)
  BY DEF Frame, Posed, Maintained
<1>2. /\ usable \subseteq DOMAIN materials /\ DOMAIN used = usable
      /\ \A id \in usable : used[id] = materials[id]
  BY DEF Restrict
<1> HIDE DEF usable, used
<1>3. programs' = [id \in DOMAIN r \cup ids |-> IF id \in DOMAIN r THEN r[id] ELSE materials[id]]
  <2>1. {i \in DOMAIN used : Compiles(used[i])} = ids
    BY <1>2
  <2>2. \A id \in ids : used[id] = materials[id]
    BY <1>2
  <2> HIDE DEF ids
  <2>3. QED BY <1>1, <2>1, <2>2 DEF Ensured
<1>4. ids \subseteq {id \in DOMAIN materials : Compiles(materials[id])}
  BY <1>2
<1> HIDE DEF ids
<1>5. r = [id \in DOMAIN p \cup {i \in again : Compiles(materials[i])} |->
             IF id \in again /\ Compiles(materials[id]) THEN materials[id] ELSE p[id]]
  BY DEF Recompiled
<1> HIDE DEF r
<1>6. /\ DOMAIN kept = DOMAIN programs \cap MaterialIds(show)
      /\ \A id \in DOMAIN kept : kept[id] = programs[id]
  BY DEF Retained, Restrict
<1> HIDE DEF kept
<1>7. CASE sync
  <2>1. p = [id \in DOMAIN kept \cup {i \in DOMAIN materials : Compiles(materials[i])} |->
               IF id \in DOMAIN kept THEN kept[id] ELSE materials[id]]
    BY <1>7 DEF Ensured
  <2> HIDE DEF p
  <2>2. /\ DOMAIN p = DOMAIN kept \cup {i \in DOMAIN materials : Compiles(materials[i])}
        /\ \A id \in DOMAIN kept : p[id] = programs[id]
        /\ \A id \in DOMAIN p \ DOMAIN kept : p[id] = materials[id]
    BY <1>6, <2>1
  <2>3. DOMAIN programs' = DOMAIN p
    BY <1>3, <1>4, <1>5, <2>2
  <2>4. ASSUME NEW id \in DOMAIN programs'
        PROVE  FrameKept(id) \/ FrameMade(id)
    <3>1. programs'[id] = r[id]
      BY <1>3, <1>5, <2>3
    <3>2. CASE id \in again /\ Compiles(materials[id])
      BY <1>5, <3>1, <3>2 DEF FrameMade
    <3>3. CASE ~(id \in again /\ Compiles(materials[id])) /\ id \in DOMAIN kept
      BY <1>5, <1>6, <2>2, <3>1, <3>3 DEF FrameKept, Refuses
    <3>4. CASE ~(id \in again /\ Compiles(materials[id])) /\ id \notin DOMAIN kept
      BY <1>5, <2>2, <2>3, <3>1, <3>4 DEF FrameMade
    <3>5. QED BY <3>2, <3>3, <3>4
  <2>5. QED BY <1>3, <1>7, <2>2, <2>3, <2>4
<1>8. CASE ~sync
  <2>1. p = programs
    BY <1>8
  <2> HIDE DEF p
  <2>2. ASSUME NEW id \in DOMAIN programs'
        PROVE  FrameKept(id) \/ FrameMade(id)
    <3>1. CASE id \notin DOMAIN r
      BY <1>3, <1>4, <3>1 DEF FrameMade
    <3>2. CASE id \in again /\ Compiles(materials[id])
      <4>1. programs'[id] = r[id] /\ r[id] = materials[id]
        BY <1>3, <1>5, <3>2
      <4>2. QED BY <3>2, <4>1 DEF FrameMade
    <3>3. CASE ~(id \in again /\ Compiles(materials[id])) /\ id \in DOMAIN r
      <4>1. id \in DOMAIN programs /\ programs'[id] = programs[id]
        BY <1>3, <1>5, <2>1, <3>3
      <4>2. QED BY <1>8, <3>3, <4>1 DEF FrameKept, Refuses
    <3>4. QED BY <3>1, <3>2, <3>3
  <2>3. DOMAIN programs \subseteq DOMAIN programs'
    BY <1>3, <1>5, <2>1
  <2>4. QED BY <1>3, <1>8, <2>2, <2>3
<1>9. QED BY <1>7, <1>8

\* A frame keeps it: what was to be compiled is compiled, or refused.
LEMMA FrameHolds ==
  ASSUME SInv, PInv, Frame
  PROVE  PInv'
<1>1. /\ phase = "frame" /\ phase' = "idle" /\ sync' = FALSE /\ reload' = {}
      /\ UNCHANGED <<mode, show, shaders, changed, materials>>
      /\ parted' = {id \in parted \cap DOMAIN programs' :
                      ~(id \in reload \cap DOMAIN materials /\ programs'[id] = OnDisk(show, id))}
  BY DEF Frame, model, disk
<1>2. /\ programs' = [id \in DOMAIN programs' |-> programs'[id]]
      /\ \A id \in DOMAIN programs' : FrameKept(id) \/ FrameMade(id)
      /\ ~sync => DOMAIN programs \subseteq DOMAIN programs'
      /\ \A id \in DOMAIN materials :
           sync /\ Compiles(materials[id]) => id \in DOMAIN programs'
  BY FramePrograms
<1>3. /\ MaterialIds(show)' = MaterialIds(show)
      /\ \A id : PathOf(show, id)' = PathOf(show, id)
      /\ \A id : OnDisk(show, id)' = OnDisk(show, id)
      /\ \A p : FileAt(p)' = FileAt(p)
      /\ \A id : OnDisk(show, id) = [path |-> PathOf(show, id), version |-> FileAt(PathOf(show, id))]
  BY <1>1 DEF MaterialIds, PathOf, OnDisk, FileAt
<1>4. \A id \in DOMAIN materials :
        /\ id \in MaterialIds(show)
        /\ materials[id] = [path |-> PathOf(show, id), version |-> materials[id].version]
  BY DEF PInv, Sourced
<1>5. \A id \in DOMAIN programs' : FrameKept(id) => id \in MaterialIds(show)
  BY DEF FrameKept, PInv, Pruned
<1>6. DOMAIN programs' \subseteq MaterialIds(show)
  BY <1>2, <1>4, <1>5 DEF FrameMade
\* A program that is no longer parted is the one of the file.
<1>7. ASSUME NEW id \in DOMAIN programs' \cap parted, id \notin parted'
      PROVE  id \in reload /\ programs'[id] = OnDisk(show, id)
  BY <1>1, <1>7
\* A compiling material has a program after a frame.
<1>8. ASSUME mode = "show" \/ sync, NEW id \in DOMAIN materials, Compiles(materials[id])
      PROVE  id \in DOMAIN programs'
  <2>1. CASE sync
    BY <1>2, <1>8, <2>1
  <2>2. CASE ~sync
    BY <1>2, <1>8, <2>2 DEF PInv, Frozen
  <2>3. QED BY <2>1, <2>2
<1>9. Shaped'
  <2> SUFFICES ASSUME NEW id \in DOMAIN programs'
               PROVE  programs'[id] = [path |-> programs'[id].path, version |-> programs'[id].version]
    BY <1>2 DEF Shaped
  <2>1. CASE FrameKept(id)
    BY <2>1 DEF FrameKept, PInv, Shaped
  <2>2. CASE FrameMade(id)
    BY <1>4, <2>2 DEF FrameMade
  <2>3. QED BY <1>2, <2>1, <2>2
<1>10. Pruned' /\ Sourced' /\ Marked'
  BY <1>1, <1>3, <1>4, <1>6 DEF Pruned, Sourced, Marked
<1>11. Read'
  <2> SUFFICES ASSUME NEW id \in MaterialIds(show) PROVE ReadIs(id)'
    BY <1>3 DEF Read
  <2>1. ReadIs(id)
    BY DEF PInv, Read
  <2>2. CASE \/ PathOf(show, id) \in changed \/ id \in parted'
             \/ FileAt(PathOf(show, id)) \in Unfit
             \/ id \in DOMAIN materials /\ materials[id].version = FileAt(PathOf(show, id))
    BY <1>1, <1>3, <2>2 DEF ReadIs, Excused
  <2>3. CASE id \in parted /\ id \notin parted' /\ id \in DOMAIN programs'
    <3>1. id \in reload /\ programs'[id] = OnDisk(show, id)
      BY <1>7, <2>3
    <3>2. CASE FrameKept(id)
      <4>1. Refuses(id)'
        BY <1>1, <3>1, <3>2 DEF FrameKept, Refuses, Compiles
      <4>2. QED BY <1>3, <3>1, <4>1 DEF ReadIs
    <3>3. CASE FrameMade(id)
      <4>1. id \in DOMAIN materials /\ materials[id].version = FileAt(PathOf(show, id))
        <5>1. materials[id] = OnDisk(show, id) /\ id \in DOMAIN materials
          BY <3>1, <3>3 DEF FrameMade
        <5>2. QED BY <5>1 DEF OnDisk
      <4>2. QED BY <2>2, <4>1
    <3>4. QED BY <1>2, <2>3, <3>2, <3>3
  <2>4. CASE id \in parted /\ id \notin DOMAIN programs'
    <3>1. Refuses(id)
      <4> SUFFICES ASSUME id \in DOMAIN materials, Compiles(materials[id]) PROVE FALSE
        BY DEF Refuses
      <4>1. mode # "show" /\ ~sync
        BY <1>8, <2>4
      <4>2. id \in DOMAIN programs
        BY <2>4, <4>1 DEF PInv, Marked
      <4>3. QED BY <1>2, <2>4, <4>1, <4>2
    <3>2. QED BY <1>1, <2>4, <3>1 DEF ReadIs, Refuses, Compiles
  <2>5. CASE Refuses(id) /\ (id \notin DOMAIN programs \/ programs[id] = OnDisk(show, id))
    <3>1. Refuses(id)'
      BY <1>1, <2>5 DEF Refuses, Compiles
    <3>2. id \in DOMAIN programs' => FrameKept(id)
      BY <1>2, <2>5 DEF FrameMade, Refuses
    <3>3. id \in DOMAIN programs' => programs'[id] = OnDisk(show, id)
      BY <2>5, <3>2 DEF FrameKept
    <3>4. QED BY <1>3, <3>1, <3>3 DEF ReadIs
  <2>6. QED BY <2>1, <2>2, <2>3, <2>4, <2>5 DEF ReadIs, Excused
<1>12. Placed'
  <2> SUFFICES ASSUME NEW id \in DOMAIN programs', id \notin parted'
               PROVE  programs'[id].path = PathOf(show, id)
    BY <1>3 DEF Placed, PlacedIs
  <2>1. CASE id \in parted
    BY <1>3, <1>7, <2>1
  <2>2. CASE id \notin parted /\ FrameKept(id)
    <3>1. PlacedIs(id)
      BY <1>5, <2>2 DEF FrameKept, PInv, Placed
    <3>2. QED BY <1>1, <2>2, <3>1 DEF FrameKept, PlacedIs
  <2>3. CASE FrameMade(id)
    BY <1>4, <2>3 DEF FrameMade
  <2>4. QED BY <1>2, <2>1, <2>2, <2>3
<1>13. Fresh'
  <2> SUFFICES ASSUME NEW id \in DOMAIN programs' PROVE FreshIs(id)'
    BY DEF Fresh
  <2>1. CASE id \in parted'
    BY <2>1 DEF FreshIs, Excused
  <2>2. CASE FileAt(programs'[id].path) \in Unfit \cup {programs'[id].version}
    BY <1>3, <2>2 DEF FreshIs
  <2>3. CASE programs'[id].path \in changed
    BY <1>1, <2>3 DEF FreshIs, Excused
  <2>4. CASE id \in parted /\ id \notin parted'
    <3>1. programs'[id] = [path |-> PathOf(show, id), version |-> FileAt(PathOf(show, id))]
      BY <1>3, <1>7, <2>4
    <3>2. QED BY <2>2, <3>1
  <2>5. CASE FrameMade(id) /\ id \notin parted
    <3>1. programs'[id] = [path |-> PathOf(show, id), version |-> materials[id].version]
      BY <1>4, <2>5 DEF FrameMade
    <3>2. ReadIs(id)
      BY <1>6 DEF PInv, Read
    <3>3. ~Refuses(id)
      BY <2>5 DEF FrameMade, Refuses
    <3>4. QED BY <2>2, <2>3, <2>5, <3>1, <3>2, <3>3 DEF ReadIs, Excused
  <2>6. CASE FrameKept(id) /\ id \notin parted
    <3>1. FreshIs(id) /\ programs'[id] = programs[id]
      BY <2>6 DEF FrameKept, PInv, Fresh
    <3>2. CASE id \in reload
      <4>1. ReadIs(id) /\ PlacedIs(id) /\ Refuses(id)
        BY <1>6, <2>6, <3>2 DEF FrameKept, PInv, Read, Placed
      <4>2. programs[id].path = PathOf(show, id)
        BY <1>1, <2>6, <4>1 DEF PlacedIs
      <4>3. CASE programs[id] = OnDisk(show, id)
        <5>1. programs'[id].version = FileAt(PathOf(show, id))
          BY <1>3, <3>1, <4>3
        <5>2. QED BY <2>2, <3>1, <4>2, <5>1
      <4>4. CASE id \in DOMAIN materials /\ materials[id].version = FileAt(PathOf(show, id))
        <5>1. FileAt(PathOf(show, id)) = "bad"
          BY <4>1, <4>4 DEF Refuses, Compiles
        <5>2. QED BY <2>2, <3>1, <4>2, <5>1 DEF Unfit
      <4>5. QED BY <2>2, <2>3, <2>6, <3>1, <4>1, <4>2, <4>3, <4>4
              DEF ReadIs, Excused, FrameKept
    <3>3. QED BY <1>6, <2>2, <2>3, <2>6, <3>1, <3>2 DEF FreshIs, Excused
  <2>7. QED BY <1>2, <2>1, <2>4, <2>5, <2>6
<1>14. Held'
  <2> SUFFICES ASSUME NEW id \in DOMAIN programs' \cap DOMAIN materials,
                      Compiles(materials[id]), id \notin parted',
                      PathOf(show, id) \notin changed, programs'[id].path = PathOf(show, id)
               PROVE  programs'[id] = materials[id]
    BY <1>1, <1>3 DEF Held, HeldIs, Excused, Compiles
  <2>1. CASE FrameMade(id)
    BY <2>1 DEF FrameMade
  <2>2. CASE FrameKept(id)
    <3>1. id \notin reload
      BY <2>2 DEF FrameKept, Refuses
    <3>2. id \notin parted
      BY <1>7, <3>1
    <3>3. id \in DOMAIN programs /\ programs'[id] = programs[id]
      BY <2>2 DEF FrameKept
    <3>4. HeldIs(id)
      BY <3>3 DEF PInv, Held
    <3>5. QED BY <3>1, <3>2, <3>3, <3>4 DEF HeldIs, Excused
  <2>3. QED BY <1>2, <2>1, <2>2
<1>15. Frozen'
  BY <1>1, <1>8 DEF Frozen, Compiles
<1>16. QED BY <1>9, <1>10, <1>11, <1>12, <1>13, <1>14, <1>15 DEF PInv

\* A session starts with no program.
LEMMA InitIsCurrent ==
  ASSUME Init
  PROVE  PInv
<1>1. /\ programs = <<>> /\ parted = {} /\ sync = TRUE /\ reload = {} /\ changed = {}
      /\ mode = "edit" /\ phase = "idle" /\ materials = Loaded(show)
  BY DEF Init
<1>2. DOMAIN programs = {} /\ programs = [id \in DOMAIN programs |-> programs[id]]
  BY <1>1
<1>3. Shaped /\ Pruned /\ Marked /\ Placed /\ Fresh /\ Held /\ Frozen
  BY <1>1, <1>2 DEF Shaped, Pruned, Marked, Placed, Fresh, Held, Frozen
<1>4. /\ DOMAIN materials \subseteq MaterialIds(show)
      /\ \A id \in DOMAIN materials :
           materials[id] = [path |-> PathOf(show, id), version |-> FileAt(PathOf(show, id))]
      /\ \A id \in MaterialIds(show) \ DOMAIN materials :
           FileAt(PathOf(show, id)) \in {"absent", "invalid"}
  BY <1>1 DEF Loaded, OnDisk
<1>5. Sourced
  BY <1>4 DEF Sourced
<1>6. Read
  BY <1>4 DEF Read, ReadIs, Unfit
<1>7. QED BY <1>3, <1>5, <1>6 DEF PInv

\* The scan, the folders of media, the mode and the knobs keep it.
LEMMA QuietSteps ==
  ASSUME SInv, PInv,
         \/ Rescan \/ Scan \/ UNCHANGED vars
         \/ \E f : Copy(f)
         \/ \E m \in {"edit", "show"} : ModeSet(m)
         \/ \E id, hz : ModFrequency(id, hz)
  PROVE  PInv'
<1>1. CASE \/ Rescan \/ Scan \/ UNCHANGED vars \/ \E f : Copy(f)
  <2>1. UNCHANGED <<mode, show, shaders, changed, materials, programs, parted, reload, phase, sync>>
    BY <1>1 DEF Rescan, Scan, Copy, vars, model, disk, sources, deferred, card
  <2>2. QED BY <2>1, Quiet
<1>2. CASE \E m \in {"edit", "show"} : ModeSet(m)
  <2>1. PICK m \in {"edit", "show"} : ModeSet(m)
    BY <1>2
  <2>2. /\ UNCHANGED <<show, shaders, changed, materials, programs, parted, reload, phase>>
        /\ phase = "idle" /\ mode' = m /\ sync' = (sync \/ m = "show")
    BY <2>1 DEF ModeSet, model, disk, sources, card
  <2>3. (sync => sync') /\ (mode' = "edit" \/ sync')
    BY <2>2
  <2>4. QED BY <2>2, <2>3, Quiet
<1>3. CASE \E id, hz : ModFrequency(id, hz)
  <2>1. PICK id, hz : ModFrequency(id, hz)
    BY <1>3
  <2>2. /\ UNCHANGED <<mode, shaders, changed, materials, programs, parted, reload, phase, sync>>
        /\ \E i : show' = [show EXCEPT !.modulators[i].freq = hz]
    BY <2>1 DEF ModFrequency, disk, sources, deferred, card
  <2>3. HasLists(show)
    BY KeptIn DEF SInv
  <2>4. show'.materials = show.materials
    BY <2>2, <2>3, FrequencyFields
  <2>5. QED BY <2>2, <2>4, Quiet
<1>4. QED BY <1>1, <1>2, <1>3

\* Every step keeps it.
LEMMA NextHolds ==
  ASSUME SInv, PInv, [Next]_vars
  PROVE  PInv'
<1>1. CASE Command
  BY <1>1, EditsHold, ReplacedHold, QuietSteps DEF Command
<1>2. CASE Background
  BY <1>2, BackgroundHolds
<1>3. CASE Frame
  BY <1>3, FrameHolds
<1>4. CASE Scan \/ UNCHANGED vars \/ \E f \in MediaDirs : Copy(f)
  BY <1>4, QuietSteps
<1>5. CASE \E p \in DOMAIN Versions : \E v \in Versions[p] : Write(p, v)
  BY <1>5, WriteHolds
<1>6. QED BY <1>1, <1>2, <1>3, <1>4, <1>5 DEF Next

\* It holds in every state of every behaviour.
LEMMA Holds == Spec => []PInv
<1>1. Init => PInv
  BY InitIsCurrent
<1>2. SInv /\ PInv /\ [Next]_vars => PInv'
  BY NextHolds
<1>3. QED BY <1>1, <1>2, Invariance, PTL DEF Spec

\* Once a frame has taken what the session deferred, the program drawn for a
\* material is compiled from the source held (reload_changed_shaders, rebuild_all,
\* apply_compositor_maintenance), whatever the order of edits and writes.
THEOREM ProgramsAreCurrent == Spec => []ProgramsCurrent
<1>1. PInv => ProgramsCurrent
  <2> SUFFICES ASSUME PInv, Settled,
                      NEW id \in (DOMAIN materials \cap DOMAIN programs) \ parted,
                      PathOf(show, id) \notin changed
               PROVE  Current(id)
    BY DEF ProgramsCurrent
  <2>1. HeldIs(id) /\ id \in MaterialIds(show)
    BY DEF PInv, Held, Sourced
  <2>2. PlacedIs(id)
    BY <2>1 DEF PInv, Placed
  <2>3. programs[id].path = PathOf(show, id)
    BY <2>2 DEF PlacedIs, Settled
  <2>4. QED BY <2>1, <2>3 DEF HeldIs, Excused, Settled, Current
<1>2. QED BY <1>1, Holds, PTL

\* apply_materials compiles nothing once the performance has been prepared
\* (ModeSet, "show"): no step of a show changes a program.
THEOREM NothingIsCompiledInAShow == Spec => NoCompileInShow
<1>1. ASSUME PInv, [Next]_vars, mode = "show", ~sync
      PROVE  programs' = programs
  <2>1. CASE Frame
    <3> DEFINE r == Recompiled(programs, materials, {})
               usable == {id \in DOMAIN materials \ Maintained.failed :
                            \E s \in Slots : WantsMaterial(s, id)}
               used == Restrict(materials, usable)
    <3>1. reload \cap DOMAIN materials = {}
      BY <1>1 DEF PInv, Frozen
    <3>2. programs' = Ensured(r, used)
      BY <1>1, <2>1, <3>1 DEF Frame, Posed, Maintained
    <3>3. \A id \in DOMAIN used : used[id] = materials[id] /\ id \in DOMAIN materials
      BY DEF Restrict
    <3> HIDE DEF used
    <3>4. r = [id \in DOMAIN programs |-> programs[id]]
      BY DEF Recompiled
    <3>5. r = programs
      BY <1>1, <3>4 DEF PInv, Shaped
    <3> HIDE DEF r
    <3>6. {id \in DOMAIN used : Compiles(used[id])} \subseteq DOMAIN programs
      BY <1>1, <3>3 DEF PInv, Frozen
    <3>7. programs' = [id \in DOMAIN programs |-> programs[id]]
      BY <3>2, <3>5, <3>6 DEF Ensured
    <3>8. QED BY <1>1, <3>7 DEF PInv, Shaped
  <2>2. CASE ~Frame
    BY <1>1, <2>2 DEF Next, Command, Edits, Undo, Redo, Walk, New, Load, Replacing, Rescan, ModeSet,
       ModFrequency, Background, Scan, Write, Copy, vars, card
  <2>3. QED BY <2>1, <2>2
<1>2. PInv /\ [Next]_vars => [mode = "show" /\ ~sync => programs' = programs]_vars
  BY <1>1
<1>3. QED BY <1>2, Holds, PTL DEF Spec, NoCompileInShow
================================================================================
