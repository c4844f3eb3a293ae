------------------------------- MODULE AnnexB --------------------------------
(***************************************************************************)
(* The splitter of the preview stream (AnnexBSplitter, preview_encoder.rs  *)
(* of crates/engine): what ffmpeg writes, read in chunks of any size, is   *)
(* cut into access units; and the test the browser makes on one of them    *)
(* (annexbIsKey, webui/app.js).                                            *)
(*                                                                         *)
(* Bytes are numbers, positions start at 1.                                *)
(***************************************************************************)
EXTENDS Integers, SequencesExt

CONSTANT MaxBuffer    \* SPLITTER_MAX_BUF

IsVcl(t) == t \in 1..5
NalType(header) == header % 32

----------------------------------------------------------------------------
(* find_start_codes: 00 00 01 or 00 00 00 01, the next search starting     *)
(* after the code.                                                         *)

CodeAt(buf, i) ==
  CASE i + 2 <= Len(buf) /\ SubSeq(buf, i, i + 2) = <<0, 0, 1>> -> 3
    [] i + 3 <= Len(buf) /\ SubSeq(buf, i, i + 3) = <<0, 0, 0, 1>> -> 4
    [] OTHER -> 0

StartCodes(buf) ==
  LET Step(found, i) ==
        IF i >= found.next /\ CodeAt(buf, i) # 0
        THEN [codes |-> Append(found.codes, <<i, CodeAt(buf, i)>>), next |-> i + CodeAt(buf, i)]
        ELSE found
  IN  FoldLeftDomain(Step, [codes |-> <<>>, next |-> 1], buf).codes

\* make_au: a key unit holds an IDR picture.
Unit(bytes) ==
  [data |-> bytes,
   key  |-> \E c \in Range(StartCodes(bytes)) :
              c[1] + c[2] \in DOMAIN bytes /\ NalType(bytes[c[1] + c[2]]) = 5]

----------------------------------------------------------------------------
(* The splitter: what it holds, whether the stream has delimiters, and the *)
(* units it has given.                                                     *)

Fresh == [buf |-> <<>>, sawAud |-> FALSE, out |-> <<>>]

\* One unit of the stream begins at a delimiter; in a stream that has none,
\* at what follows a picture.
Walk(w, buf, code) ==
  LET t == NalType(buf[code[1] + code[2]])
      aud == w.sawAud \/ t = 9
      boundary == (t = 9 \/ (~aud /\ w.vcl)) /\ code[1] > w.cut
  IN  [cut    |-> IF boundary THEN code[1] ELSE w.cut,
       vcl    |-> IsVcl(t) \/ (w.vcl /\ ~boundary),
       sawAud |-> aud,
       out    |-> IF boundary THEN Append(w.out, Unit(SubSeq(buf, w.cut, code[1] - 1))) ELSE w.out]

Push(s, bytes) ==
  LET buf == s.buf \o bytes
      whole == SelectSeq(StartCodes(buf), LAMBDA c : c[1] + c[2] \in DOMAIN buf)
      codes == StartCodes(buf)
      w == FoldLeft(LAMBDA acc, c : Walk(acc, buf, c),
                    [cut |-> codes[1][1], vcl |-> FALSE, sawAud |-> s.sawAud, out |-> s.out],
                    whole)
  IN  IF Len(buf) > MaxBuffer THEN [s EXCEPT !.buf = <<>>]
      ELSE IF codes = <<>> THEN [s EXCEPT !.buf = buf]
      ELSE [buf |-> SubSeq(buf, w.cut, Len(buf)), sawAud |-> w.sawAud, out |-> w.out]

\* The end of the stream gives what is left.
Finish(s) ==
  LET codes == StartCodes(s.buf)
  IN  IF codes = <<>> THEN [s EXCEPT !.buf = <<>>]
      ELSE [s EXCEPT !.buf = <<>>,
                     !.out = Append(@, Unit(SubSeq(s.buf, codes[1][1], Len(s.buf))))]

\* read_access_units: the chunks of a stream, then its end.
Units(chunks) == Finish(FoldLeft(Push, Fresh, chunks)).out

\* annexbIsKey: the first picture of the unit decides.
ShownAsKey(bytes) ==
  LET pictures == SelectSeq(StartCodes(bytes), LAMBDA c :
                    /\ c[1] + 3 <= Len(bytes)
                    /\ c[1] + c[2] \in DOMAIN bytes
                    /\ bytes[c[1] + c[2]] % 32 \in {1, 5})
  IN  pictures # <<>> /\ bytes[pictures[1][1] + pictures[1][2]] % 32 = 5
===============================================================================
