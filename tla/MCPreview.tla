------------------------------ MODULE MCPreview ------------------------------
(***************************************************************************)
(* Two pages, two sizes, an encoder that dies, and the splitter over every *)
(* short stream of bytes.                                                  *)
(***************************************************************************)
EXTENDS Preview, TLC

A == INSTANCE AnnexB WITH MaxBuffer <- 100

MCViewerSymmetry == Permutations(Viewers)

MCStart == [dims |-> 1, fps |-> 8]
MCSettings == {[dims |-> 1, fps |-> 8], [dims |-> 2, fps |-> 8]}

\* Streams of 0, 1 (a code, or a picture), 5 (a key picture) and 9 (a delimiter).
MCStreams == UNION {[1..n -> {0, 1, 5, 9}] : n \in 0..6}

Bytewise(s) == [i \in DOMAIN s |-> <<s[i]>>]
Halves(s, k) == <<SubSeq(s, 1, k), SubSeq(s, k + 1, Len(s))>>

\* A longer stream: parameters, a key picture, two others, with or without
\* delimiters.
Nal(t) == <<0, 0, 0, 1, t, 7>>
MCLong(aud) == (IF aud THEN Nal(9) ELSE <<>>) \o Nal(7) \o Nal(5)
               \o (IF aud THEN Nal(9) ELSE <<>>) \o Nal(1)
               \o (IF aud THEN Nal(9) ELSE <<>>) \o <<0, 0, 1, 1, 7>>

\* The units do not depend on how the stream was cut, nothing of it is lost
\* after the first start code, and the browser and the encoder agree on
\* which units are key units.
ASSUME \A s \in MCStreams :
  LET whole == A!Units(<<s>>) codes == A!StartCodes(s)
  IN  /\ A!Units(Bytewise(s)) = whole
      /\ FlattenSeq([i \in DOMAIN whole |-> whole[i].data])
           = (IF codes = <<>> THEN <<>> ELSE SubSeq(s, codes[1][1], Len(s)))
ASSUME \A aud \in BOOLEAN :
  LET s == MCLong(aud) units == A!Units(<<s>>)
  IN  /\ \A k \in DOMAIN s : A!Units(Halves(s, k)) = units
      /\ Len(units) = 3
      /\ \A i \in DOMAIN units : units[i].key = (i = 1) /\ A!ShownAsKey(units[i].data) = units[i].key
===============================================================================
