--------------------------------- MODULE Upload ---------------------------------
(***************************************************************************)
(* The render thread and the graphics card (crates/compositor/src/gl.rs):  *)
(* the pictures of a deck go to its texture through a ring of slots the    *)
(* card reads later, each behind a fence, and the drawings waiting for the *)
(* card are limited.                                                       *)
(*                                                                         *)
(* The card takes the commands it is given in order, at its own pace.  A   *)
(* fence set after a command is signalled once the command is done; a wait *)
(* for it ends then, or gives up after FENCE_WAIT_TRIES.  The command of a *)
(* wait that gave up, or of a fence that could not be made, is "lost": no  *)
(* one watches it any more.  The command whose slot was written again      *)
(* before the card read it is "torn": it shows another picture.            *)
(***************************************************************************)
EXTENDS Integers, FiniteSets, SequencesExt

CONSTANTS
  RingSlots,    \* UPLOAD_RING_SLOTS
  MaxInFlight,  \* MAX_FRAMES_IN_FLIGHT
  Sizes,        \* dimensions of the pictures
  Cards,        \* the drivers: [version, embedded, exts]
  DriverQueue   \* bound: a call blocks when so many commands wait for the card

ASSUME UploadAssumption ==
  /\ RingSlots \in Nat \ {0} /\ MaxInFlight \in Nat /\ DriverQueue \in Nat

VARIABLES
  caps,          \* GlCaps
  texture,       \* the size of the video texture of the deck
  ring,          \* its UploadRing
  broken,        \* pbo_broken and persistent_pbo_broken
  fenceBroken,   \* fence_broken: the drawings are no longer limited
  queue          \* the commands the card has not done yet

gpu == <<caps, texture, ring, broken, fenceBroken, queue>>

\* caps_from(): versions are 10 * major + minor.
CapsFrom(card) ==
  IF card.embedded
  THEN [bgra |-> FALSE, texStorage |-> card.version >= 30,
        bufferStorage |-> "GL_EXT_buffer_storage" \in card.exts, fences |-> card.version >= 30]
  ELSE [bgra |-> TRUE,
        texStorage |-> card.version >= 42 \/ "GL_ARB_texture_storage" \in card.exts,
        bufferStorage |-> card.version >= 44 \/ "GL_ARB_buffer_storage" \in card.exts,
        fences |-> card.version >= 32 \/ "GL_ARB_sync" \in card.exts]

Slots == 1..RingSlots
NoSlot == 0
NoRing == [kind |-> "none", next |-> 1, fenced |-> [s \in Slots |-> FALSE]]

GpuInit ==
  /\ \E card \in Cards : caps = CapsFrom(card)
  /\ texture = 0
  /\ ring = NoRing
  /\ broken = [pbo |-> FALSE, persistent |-> FALSE]
  /\ fenceBroken = FALSE /\ queue = <<>>
----------------------------------------------------------------------------
(* The card.                                                               *)

Upload(slot, lost) == [is |-> "upload", slot |-> slot, lost |-> lost, torn |-> FALSE]
Drawing(lost) == [is |-> "draw", slot |-> NoSlot, lost |-> lost, torn |-> FALSE]

Execute ==
  /\ queue # <<>>
  /\ queue' = Tail(queue)
  /\ UNCHANGED <<caps, texture, ring, broken, fenceBroken>>
----------------------------------------------------------------------------
(* upload_frame().                                                         *)

\* release_upload_ring(): the card keeps what it has still to read of it.
Released(q) == [i \in DOMAIN q |-> [q[i] EXCEPT !.slot = NoSlot]]

\* ensure_upload_ring(): persistent slots, else orphaned buffers, else no
\* ring; what failed once is not tried again.
EnsuredRing(r, persistent, pair) ==
  LET ways == /\ r.kind = "none" /\ ~broken.pbo
      first == ways /\ caps.bufferStorage /\ caps.fences /\ ~broken.persistent
      second == ways /\ ~(first /\ persistent)
  IN  [ring |-> IF first /\ persistent THEN [NoRing EXCEPT !.kind = "persistent"]
                ELSE IF second /\ pair THEN [NoRing EXCEPT !.kind = "orphan"] ELSE r,
       broken |-> [pbo |-> broken.pbo \/ (second /\ ~pair),
                   persistent |-> broken.persistent \/ (first /\ ~persistent)]]

Waiting(slot) == \E i \in DOMAIN queue : queue[i].slot = slot
MustWait(r) == r.kind = "persistent" /\ r.fenced[r.next] /\ Waiting(r.next)

\* A mutant: the slot is written at once.
WaitOver_Always(r, abandon) == TRUE

\* wait_fence_bounded() for the slot that is to be written.
WaitOver(r, abandon) == MustWait(r) => abandon

\* The picture is copied into the slot, over one that may still be read.
Overwritten(q, slot, abandoned) ==
  [i \in DOMAIN q |-> IF q[i].slot = slot THEN [q[i] EXCEPT !.torn = TRUE, !.lost = @ \/ abandoned] ELSE q[i]]

\* A mutant: the ring does not go round.
Write_NoWrap(r, q, fence, abandon) ==
  IF r.kind = "persistent"
  THEN /\ WaitOver(r, abandon)
       /\ ring' = [r EXCEPT !.next = @ + 1, !.fenced[r.next] = fence]
       /\ queue' = Append(Overwritten(q, r.next, MustWait(r) /\ abandon), Upload(r.next, ~fence))
  ELSE /\ ring' = r
       /\ queue' = Append(q, Upload(NoSlot, FALSE))

\* The upload is asked for, and a fence set behind it if one can be made; an
\* orphaned buffer, or a copy, holds the picture by itself.
Write(r, q, fence, abandon) ==
  IF r.kind = "persistent"
  THEN /\ WaitOver(r, abandon)
       /\ ring' = [r EXCEPT !.next = (@ % RingSlots) + 1, !.fenced[r.next] = fence]
       /\ queue' = Append(Overwritten(q, r.next, MustWait(r) /\ abandon), Upload(r.next, ~fence))
  ELSE /\ ring' = r
       /\ queue' = Append(q, Upload(NoSlot, FALSE))

\* A picture of the size of the texture, or of another one: the ring is
\* released, and the texture made again if the card can (made).
UploadFrame(size, made, persistent, pair, fence, abandon) ==
  LET resized == size # texture
      ensured == EnsuredRing(IF resized THEN NoRing ELSE ring, persistent, pair)
      waiting == IF resized THEN Released(queue) ELSE queue
  IN  /\ Len(queue) < DriverQueue
      /\ IF resized /\ ~made
         THEN /\ ring' = NoRing /\ queue' = waiting
              /\ UNCHANGED <<texture, broken>>
         ELSE /\ texture' = size
              /\ broken' = ensured.broken
              /\ Write(ensured.ring, waiting, fence, abandon)
      /\ UNCHANGED <<caps, fenceBroken>>
----------------------------------------------------------------------------
(* limit_frame_latency().                                                  *)

\* The drawings the card has not done and that someone watches.
InFlight == Cardinality({i \in DOMAIN queue : queue[i].is = "draw" /\ ~queue[i].lost})

\* A drawing for a window, with the fence behind it; the first fence that
\* cannot be made ends the limit.
Draw(fence) ==
  /\ Len(queue) < DriverQueue
  /\ fenceBroken' = (fenceBroken \/ (caps.fences /\ ~fence))
  /\ queue' = Append(queue, Drawing(fenceBroken' \/ ~caps.fences))
  /\ UNCHANGED <<caps, texture, ring, broken>>

\* Too many drawings: the oldest is waited for.
Limited == ~fenceBroken /\ caps.fences /\ InFlight > MaxInFlight

\* That wait gives up.
GiveUp ==
  /\ Limited
  /\ LET oldest == SelectInSeq(queue, LAMBDA c : c.is = "draw" /\ ~c.lost)
     IN  queue' = [queue EXCEPT ![oldest].lost = TRUE]
  /\ UNCHANGED <<caps, texture, ring, broken, fenceBroken>>
----------------------------------------------------------------------------
(* Properties.                                                             *)

Commands == [is : {"upload", "draw"}, slot : 0..RingSlots, lost : BOOLEAN, torn : BOOLEAN]

GpuTypeOK ==
  /\ texture \in Sizes \cup {0}
  /\ ring.kind \in {"none", "persistent", "orphan"} /\ ring.next \in Slots
  /\ Len(queue) <= DriverQueue /\ \A i \in DOMAIN queue : queue[i] \in Commands

\* The render thread and the card never use a slot of the ring at the same
\* time: no picture is written over one the card has still to read, unless
\* a wait gave up or a fence could not be made (PersistentRing,
\* gl.rs:119-144).
SlotsHoldTheirFrame == \A i \in DOMAIN queue : queue[i].torn => queue[i].lost
===============================================================================
