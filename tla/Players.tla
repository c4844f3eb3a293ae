------------------------------ MODULE Players ------------------------------
(***************************************************************************)
(* The media slots (crates/app/src/players.rs): one player per slice and   *)
(* deck.  Deck A is the programme; deck B the target of the running        *)
(* transition, or the standby being preloaded.                             *)
(*                                                                         *)
(* sync() compares the contents the frame wants with the slots: a content  *)
(* already there keeps its player, one that lives on the other deck is     *)
(* moved, one wanted on both decks is one player (an alias), anything else *)
(* is asked of the preload thread, which answers later.  advance() and     *)
(* poll_uploads() then run in the same tick; they are one step, Play.      *)
(*                                                                         *)
(* A content stands for a SlotKey: the media with its in and out points    *)
(* and its end mode, or a colour.  The clock of a video slot is kept as    *)
(* "at", the only thing restart_if_advanced and the end of media read:     *)
(*   cold   no frame served since it was opened or sought                  *)
(*   ready  first frame served, clock at the entry point                   *)
(*   on     playing: the clock has left the entry point                    *)
(*   end    eof() is true;  black  and the black end frame was pushed      *)
(* The player behind the slot (eof, poll_frame, seek) is FfmpegPlayer's;   *)
(* here a poll may give a frame, nothing, or the end.                      *)
(***************************************************************************)
EXTENDS Integers, Sequences, SequencesExt, FiniteSets, FiniteSetsExt, Functions

CONSTANTS
  Slices,
  Videos, Images, Colors,  \* the contents a slot can hold
  Loops,                   \* videos that never end (Loop, PingPong)
  BlackEnds,               \* videos whose end mode is Black
  Absent,                  \* media missing from the disk
  NoContent,               \* None, a material or a test pattern: no player
  Black                    \* the 1x1 black frame of EndMode::Black

Media == Videos \cup Images
Contents == Media \cup Colors
Decks == {"A", "B"}
Other(d) == IF d = "A" THEN "B" ELSE "A"

\* Assumed by the module that gives the contents.
ContentsAssumption ==
  /\ Loops \subseteq Videos /\ BlackEnds \subseteq Videos /\ Absent \subseteq Media
  /\ Videos \cap Images = {} /\ Media \cap Colors = {}
  /\ NoContent \notin Contents /\ Black \notin Contents

VARIABLES
  slots,    \* the slots, a function from pairs of a slice and a deck
  alias,    \* slices whose deck B shows the player of deck A (alias_b)
  fresh,    \* aliases made by the last sync (alias_fresh)
  moving,   \* deck B plays: a transition runs and does not freeze it
  requests, \* to the preload thread, in order
  done,     \* its answers, in order
  tex       \* what the compositor's texture of each slice and deck shows

\* The player of a slot is named by the generation of the request that opened it;
\* "holds" is the content it was opened for.
NewSlot(c) ==
  [key |-> c, kind |-> "pending", gen |-> 0, holds |-> NoContent,
   at |-> "cold", shown |-> FALSE, reupload |-> FALSE]

KindOf(c) == IF c \in Videos THEN "video" ELSE IF c \in Images THEN "image" ELSE "color"

Ended(sl) == sl.at \in {"end", "black"}
Entered(sl) == sl.at \in {"cold", "ready"}
HoldsKey(t, k, c) == k \in DOMAIN t.slots /\ t.slots[k].key = c

\* Mutant: the oracle looks at the standby.
MediaEof_Standby(s) == <<s, "B">> \in DOMAIN slots /\ Ended(slots[<<s, "B">>])

\* media_eof, the oracle of the cue engine.
MediaEof(s) == <<s, "A">> \in DOMAIN slots /\ Ended(slots[<<s, "A">>])

Put(t, k, sl) == [t EXCEPT !.slots = [j \in DOMAIN @ \cup {k} |-> IF j = k THEN sl ELSE @[j]]]
Drop(t, k) == [t EXCEPT !.slots = Restrict(@, DOMAIN @ \ {k})]

\* Dispose: the player goes to the preload thread, which kills its process.
Dispose(t, gen) ==
  [t EXCEPT !.requests = Append(@, [op |-> "dispose", gen |-> gen, key |-> NoContent])]

Evicted(t, k) ==
  IF t.slots[k].kind = "video" THEN Dispose(Drop(t, k), t.slots[k].gen) ELSE Drop(t, k)

----------------------------------------------------------------------------
(* sync().                                                                 *)

\* Mutant: an answer is matched by its content's slot being pending.
Installed_AnyPending(t, a) ==
  LET ks == {k \in DOMAIN t.slots : t.slots[k].kind = "pending"}
  IN  IF ks = {} THEN IF a.ok /\ a.key \in Videos THEN Dispose(t, a.gen) ELSE t
      ELSE LET k == CHOOSE k \in ks : TRUE
           IN  [t EXCEPT !.slots[k].kind = IF a.ok THEN KindOf(a.key) ELSE "missing",
                         !.slots[k].gen = a.gen,
                         !.slots[k].holds = IF a.ok THEN a.key ELSE NoContent]

\* drain_loader, for one answer: the slot waiting for its generation gets it,
\* and if it is gone the player is evicted.
Installed(t, a) ==
  LET ks == {k \in DOMAIN t.slots : t.slots[k].kind = "pending" /\ t.slots[k].gen = a.gen}
  IN  IF ks = {} THEN IF a.ok /\ a.key \in Videos THEN Dispose(t, a.gen) ELSE t
      ELSE LET k == CHOOSE k \in ks : TRUE
           IN  [t EXCEPT !.slots[k].kind = IF a.ok THEN KindOf(a.key) ELSE "missing",
                         !.slots[k].holds = IF a.ok THEN a.key ELSE NoContent]

\* Generations are only compared for equality: one that nothing uses is as good
\* as the next of the code's counter.
UsedGens(t) ==
  {t.slots[k].gen : k \in DOMAIN t.slots} \cup {slots[k].gen : k \in DOMAIN slots}
    \cup {t.requests[i].gen : i \in DOMAIN t.requests} \cup {done[i].gen : i \in DOMAIN done}
FreshGen(t) == Min((1..(Cardinality(UsedGens(t)) + 1)) \ UsedGens(t))

\* create_slot.
Created(t, k, c) ==
  IF c \in Colors THEN Put(t, k, [NewSlot(c) EXCEPT !.kind = "color", !.holds = c])
  ELSE IF c \in Absent THEN Put(t, k, [NewSlot(c) EXCEPT !.kind = "missing"])
  ELSE LET gen == FreshGen(t)
       IN  [Put(t, k, [NewSlot(c) EXCEPT !.gen = gen])
              EXCEPT !.requests = Append(@, [op |-> "load", gen |-> gen, key |-> c])]

\* Mutant: the clock is not looked at, only the end of the media.
RestartIfAdvanced_EofOnly(sl) ==
  IF sl.kind = "video" /\ Ended(sl) THEN [sl EXCEPT !.at = "cold"] ELSE sl

\* restart_if_advanced: the media goes back to its entry point, unless it is
\* still there.
RestartIfAdvanced(sl) ==
  IF sl.kind = "video" /\ ~Entered(sl) THEN [sl EXCEPT !.at = "cold"] ELSE sl

Reentered(sl, again) == IF again THEN RestartIfAdvanced(sl) ELSE sl

\* Mutants: a moved slot keeps its texture for granted; a slot is never moved.
Ensured_NoReupload(t, s, d, c, again) ==
  LET here == <<s, d>>  there == <<s, Other(d)>>
  IN  IF HoldsKey(t, here, c) THEN [t EXCEPT !.slots[here] = Reentered(@, again)]
      ELSE IF HoldsKey(t, there, c)
           THEN Put(Drop(t, there), here, Reentered(t.slots[there], again))
           ELSE Created(t, here, c)
Ensured_NeverMoved(t, s, d, c, again) ==
  LET here == <<s, d>>
  IN  IF HoldsKey(t, here, c) THEN [t EXCEPT !.slots[here] = Reentered(@, again)]
      ELSE Created(t, here, c)

\* ensure_slot: reuse, move from the other deck, or create.  The slot that was
\* there is overwritten.
Ensured(t, s, d, c, again) ==
  LET here == <<s, d>>  there == <<s, Other(d)>>
  IN  IF HoldsKey(t, here, c) THEN [t EXCEPT !.slots[here] = Reentered(@, again)]
      ELSE IF HoldsKey(t, there, c)
           THEN Put(Drop(t, there), here,
                    [Reentered(t.slots[there], again) EXCEPT !.reupload = TRUE])
           ELSE Created(t, here, c)

Wanting(deck) == {s \in Slices : deck[s] # NoContent}

SyncedA(t, deckA, again) ==
  FoldSet(LAMBDA s, u : Ensured(u, s, "A", deckA[s], s \in again), t, Wanting(deckA))

Same(t, s, deckB) == HoldsKey(t, <<s, "A">>, deckB[s])

SyncedB(t, deckB, again) ==
  FoldSet(LAMBDA s, u : IF Same(u, s, deckB) THEN Drop(u, <<s, "B">>)
                        ELSE Ensured(u, s, "B", deckB[s], s \in again),
          t, Wanting(deckB))

\* Mutant: only the programme is pruned.
Pruned_ProgrammeOnly(t, wanted) ==
  FoldSet(LAMBDA k, u : Evicted(u, k), t, (DOMAIN t.slots \cap (Slices \X {"A"})) \ wanted)

\* The slots that no deck wants are evicted.
Pruned(t, wanted) == FoldSet(LAMBDA k, u : Evicted(u, k), t, DOMAIN t.slots \ wanted)

\* sync: deckA and deckB give the content wanted of each slice, "again" the
\* slices of the cues that have just started (restart_pending).
Sync(deckA, deckB, playsB, again) ==
  \E t0 \in {FoldLeft(Installed, [slots |-> slots, requests |-> requests], done)} :
  \E tA \in {SyncedA(t0, deckA, again)} :
  \E tB \in {SyncedB(tA, deckB, again)} :
    LET aliased == {s \in Wanting(deckB) : Same(tA, s, deckB)}
        wanted == (Wanting(deckA) \X {"A"}) \cup ((Wanting(deckB) \ aliased) \X {"B"})
    IN  \E t \in {Pruned(tB, wanted)} :
          /\ slots' = t.slots /\ requests' = t.requests /\ done' = <<>>
          /\ alias' = aliased /\ fresh' = aliased \ alias
          /\ moving' = playsB
          /\ UNCHANGED tex

\* Mutant: the aliases just made are not forgotten.
Clear_KeepsFresh ==
  /\ slots' = <<>> /\ alias' = {}
  /\ UNCHANGED <<fresh, moving, requests, done, tex>>

\* clear: a new show, a media edit, the result of a rescan.
Clear ==
  /\ requests' = requests \o SetToSeq({[op |-> "dispose", gen |-> slots[k].gen, key |-> NoContent] :
                                        k \in {j \in DOMAIN slots : slots[j].kind = "video"}})
  /\ slots' = <<>> /\ alias' = {} /\ fresh' = {}
  /\ UNCHANGED <<moving, done, tex>>

----------------------------------------------------------------------------
(* advance() and poll_uploads().                                           *)

Polls == {"nothing", "frame", "end"}

\* Deck A always plays, deck B during a transition that does not freeze it.
Runs(k) == k[2] = "A" \/ moving

\* Is a frame asked of the player, and what does the poll give?
Polled(k, poll) ==
  LET sl == slots[k]
  IN  IF sl.kind # "video" \/ Ended(sl) \/ (~Runs(k) /\ sl.at # "cold") THEN "unasked"
      ELSE IF poll = "end" /\ sl.key \in Loops THEN "nothing" ELSE poll

\* The clock moves first (advance), then the poll is taken.
PlayedAt(k, poll) ==
  LET sl == slots[k]
      at == IF sl.kind = "video" /\ sl.at = "ready" /\ Runs(k) THEN "on" ELSE sl.at
  IN  CASE sl.kind \in {"image", "color"} -> "on"
        [] sl.kind = "video" /\ sl.at = "end" /\ sl.key \in BlackEnds -> "black"
        [] Polled(k, poll) = "end" -> "end"
        [] Polled(k, poll) = "frame" /\ at = "cold" -> "ready"
        [] OTHER -> at

Played(k, poll) ==
  LET sl == slots[k]
  IN  IF sl.kind \in {"pending", "missing"} THEN sl
      ELSE [sl EXCEPT !.at = PlayedAt(k, poll), !.reupload = FALSE,
                      !.shown = @ \/ Polled(k, poll) = "frame"]

\* What is uploaded to the deck of the slot itself.
Uploaded(k, poll) ==
  LET sl == slots[k]
  IN  IF sl.kind = "video" /\ sl.at = "end" /\ sl.key \in BlackEnds THEN Black
      ELSE IF \/ sl.kind = "video" /\ (Polled(k, poll) = "frame" \/ (sl.reupload /\ sl.shown))
              \/ sl.kind \in {"image", "color"} /\ (sl.at = "cold" \/ sl.reupload)
           THEN sl.holds ELSE NoContent

\* What is uploaded to deck B for a slot of deck A that is aliased.
UploadedTwin(s, poll) ==
  LET k == <<s, "A">>  sl == slots[k]
  IN  IF s \notin alias \/ k \notin DOMAIN slots THEN NoContent
      ELSE IF sl.kind = "video" /\ sl.at = "end" /\ sl.key \in BlackEnds THEN Black
      ELSE IF \/ sl.kind = "video" /\ Polled(k, poll) = "frame"
              \/ /\ sl.kind = "video" /\ Polled(k, poll) \in {"nothing", "end"}
                 /\ s \in fresh /\ sl.shown
              \/ sl.kind \in {"image", "color"} /\ s \in fresh
           THEN sl.holds ELSE NoContent

Play(poll) ==
  /\ slots' = [k \in DOMAIN slots |-> Played(k, poll[k])]
  /\ tex' = [k \in Slices \X Decks |->
               LET own  == IF k \in DOMAIN slots THEN Uploaded(k, poll[k]) ELSE NoContent
                   a    == <<k[1], "A">>
                   twin == IF k[2] = "B" /\ a \in DOMAIN slots
                           THEN UploadedTwin(k[1], poll[a]) ELSE NoContent
               IN  IF twin # NoContent THEN twin ELSE IF own # NoContent THEN own ELSE tex[k]]
  /\ UNCHANGED <<alias, fresh, moving, requests, done>>

----------------------------------------------------------------------------
(* The preload thread.                                                     *)

\* Mutant: a media that cannot be opened gets no answer.
Load_SilentFailure ==
  /\ requests # <<>> /\ requests' = Tail(requests)
  /\ \/ done' = done
     \/ /\ Head(requests).op = "load"
        /\ done' = Append(done, [gen |-> Head(requests).gen, key |-> Head(requests).key, ok |-> TRUE])
  /\ UNCHANGED <<slots, alias, fresh, moving, tex>>

\* A media opens or fails; a player to dispose of is dropped here.
Load ==
  /\ requests # <<>> /\ requests' = Tail(requests)
  /\ LET r == Head(requests)
     IN  \/ /\ r.op = "load"
            /\ \E ok \in BOOLEAN : done' = Append(done, [gen |-> r.gen, key |-> r.key, ok |-> ok])
         \/ r.op = "dispose" /\ done' = done
  /\ UNCHANGED <<slots, alias, fresh, moving, tex>>

InitSlots ==
  /\ slots = <<>> /\ alias = {} /\ fresh = {} /\ moving = FALSE
  /\ requests = <<>> /\ done = <<>>
  /\ tex = [k \in Slices \X Decks |-> NoContent]

SlotRecords ==
  [key : Contents, kind : {"pending", "video", "image", "color", "missing"},
   gen : Nat, holds : Contents \cup {NoContent},
   at : {"cold", "ready", "on", "end", "black"}, shown : BOOLEAN, reupload : BOOLEAN]

\* Type invariant of the slots.
SlotsTypeOK ==
  /\ DOMAIN slots \subseteq Slices \X Decks
  /\ \A k \in DOMAIN slots : slots[k] \in SlotRecords
  /\ fresh \subseteq alias /\ alias \subseteq Slices /\ moving \in BOOLEAN
  /\ requests \in Seq([op : {"load", "dispose"}, gen : Nat, key : Contents \cup {NoContent}])
  /\ done \in Seq([gen : Nat, key : Contents, ok : BOOLEAN])
  /\ tex \in [Slices \X Decks -> Contents \cup {NoContent, Black}]
=============================================================================
