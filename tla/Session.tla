-------------------------------- MODULE Session --------------------------------
(***************************************************************************)
(* The show under edition (crates/app/src/session.rs): the commands that   *)
(* change it and take changes back, the shows loaded in its place, the     *)
(* scan of the folders by a thread of its own, the shaders watched on      *)
(* disk, and what the session keeps on the graphics card for it.           *)
(*                                                                         *)
(* A tick takes the commands, then the result of a scan and the shaders    *)
(* that changed (Background), then draws a frame (Frame).  The disk, and   *)
(* the thread that scans it, move at any time.                             *)
(***************************************************************************)
EXTENDS Edit, FiniteSets

CONSTANTS
  Slices, NoMaterial,
  Kind, Hidden, Anchors, PathBefore(_, _), MaxDepth, Info,   \* of Library
  Blank,       \* Show::new
  Catalogue,   \* the shows on disk, by name
  Started,     \* the name and the folder of media a session may start with
  Ops,         \* the edits an operator may make
  Versions,    \* what the file of a shader may come to hold, by path
  Frequencies, \* what a frequency knob may send
  MediaDirs,   \* the states the folder of media may be in
  MaxEdits,    \* bound: edits, frequencies and undos (a redo follows an undo)
  MaxOpens,    \* bound: loads and scans
  MaxWrites    \* bound: changes on disk

Fields == {"cues", "media", "materials", "modulators", "slices"}

\* A show has its lists; the session starts with a show that is on disk; the
\* edit of a material does not change its id (MaterialUpdate finds it by the
\* id of the new one).
ASSUME ShowsAssumption ==
  /\ \A n \in DOMAIN Catalogue : Fields \subseteq DOMAIN Catalogue[n]
  /\ Fields \subseteq DOMAIN Blank
  /\ \A s \in Started : s.name \in DOMAIN Catalogue
ASSUME OpsAssumption ==
  \A op \in Ops : op.at = "materials" /\ op.op = "update" => op.item.id = op.number

L == INSTANCE Library

VARIABLES
  mode, name, show,
  stack, lastKey,      \* the undo stack and the key of the last edit
  shaders, media,      \* the two folders; shaders maps a path to a version
  changed,             \* paths the watcher has reported
  materials, failed,   \* sources loaded, materials the driver refused
  bound,               \* slots the session knows to carry a material
  sync, reload,        \* comp_sync, comp_reload
  programs, slots,     \* on the card
  scene,               \* the cue each deck plays, or NoCue
  scan,                \* the scan in flight: its pools at the start, its result
  phase,               \* "idle" between two ticks, "frame" before drawing
  moves,
  parted               \* materials loaded over another one of the same id, or
                       \* whose file changed during a performance

model == <<name, show, stack, lastKey>>
disk == <<shaders, media, changed>>
sources == <<materials, failed>>
deferred == <<bound, sync, reload>>
card == <<programs, slots>>
vars == <<mode, model, disk, sources, deferred, card, scene, scan, phase, moves, parted>>

NoCue == 0
NoScan == [state |-> "none", media |-> <<>>, materials |-> <<>>]
Count(kind, max) == moves[kind] < max /\ moves' = [moves EXCEPT ![kind] = @ + 1]
----------------------------------------------------------------------------
(* load_materials and what follows a change of the model.                  *)

MaterialIds(s) == L!IdsOf(s.materials)
\* The ids of a pool are unique.
PathOf(s, id) == s.materials[CHOOSE i \in DOMAIN s.materials : s.materials[i].id = id].path
FileAt(p) == IF p \in DOMAIN shaders THEN shaders[p] ELSE "absent"
OnDisk(s, id) == [path |-> PathOf(s, id), version |-> FileAt(PathOf(s, id))]

\* A file that is not there, or that is not ISF, gives no source.
Loaded(s) ==
  [id \in {i \in MaterialIds(s) : FileAt(PathOf(s, i)) \notin {"absent", "invalid"}} |-> OnDisk(s, id)]
\* Mutant: what the driver refused is not forgotten.
LoadMaterials_FailedKept(s) == materials' = Loaded(s) /\ failed' = failed
LoadMaterials(s) == materials' = Loaded(s) /\ failed' = {}

\* after_model_change(): the cue engine keeps its position when it is given
\* cues again; a deck whose cue is gone plays nothing.
NumbersOf(s) == {s.cues[i].number : i \in DOMAIN s.cues}
HotScene(s) ==
  LET onAir == IF scene.b # NoCue THEN scene.b ELSE scene.a
  IN  [a |-> IF onAir \in NumbersOf(s) THEN onAir ELSE NoCue, b |-> NoCue]

AfterChange(op, s) ==
  /\ IF op.at = "materials" THEN LoadMaterials(s) ELSE UNCHANGED sources
  /\ reload' = IF op.at = "materials" /\ op.op = "update" THEN reload \cup {op.number} ELSE reload
  /\ sync' = \/ sync
             \/ op.at = "materials" /\ op.op # "update"
             \/ op.at = "slices" /\ op.op = "remove"
  /\ scene' = IF op.at = "cues" THEN HotScene(s) ELSE scene

\* Mutant: the card keeps what the slots carry.
RebuildAll_NoSync(s) ==
  /\ LoadMaterials(s)
  /\ bound' = <<>> /\ sync' = sync /\ reload' = reload
  /\ scene' = [a |-> NoCue, b |-> NoCue]
\* rebuild_all(): the card is left for the next frame.
RebuildAll(s) ==
  /\ LoadMaterials(s)
  /\ bound' = <<>> /\ sync' = TRUE /\ reload' = reload
  /\ scene' = [a |-> NoCue, b |-> NoCue]

\* Materials of a show put in the place of another whose programs are not
\* compiled from the files it names.
Overlaid(s) ==
  {id \in DOMAIN programs : id \in MaterialIds(s) /\ programs[id].path # PathOf(s, id)}
----------------------------------------------------------------------------
(* The commands.                                                           *)

\* apply_relocate(): a medium whose path an edit changed.
Relocated(op, s) ==
  LET was == SelectInSeq(show.media, LAMBDA m : m.id = op.number)
      i == SelectInSeq(s.media, LAMBDA m : m.id = op.number)
      found == i # 0 /\ L!Relative(s.media[i].path) /\ s.media[i].path \in DOMAIN media
      marked == [s EXCEPT !.media = [@ EXCEPT ![i].missing = ~found]]
  IN  IF op.at # "media" \/ op.op # "update" \/ was = 0 THEN s
      ELSE IF show.media[was].path = op.item.path THEN s
      ELSE IF ~found THEN marked
      ELSE [marked EXCEPT !.media =
              L!Cascade(marked.media, media, show.media[was].path, op.item.path)]

\* Mutant: the pushed snapshot is the show after the edit.
Remembered_After(op, recent, after) ==
  IF recent /\ CoalesceKey(op) # <<>> /\ CoalesceKey(op) = lastKey THEN stack
  ELSE Pushed(stack, after)
\* apply_edit(): the edits of a gesture, closer than UNDO_COALESCE (recent),
\* are taken back together.
Remembered(op, recent, after) ==
  IF recent /\ CoalesceKey(op) # <<>> /\ CoalesceKey(op) = lastKey THEN stack
  ELSE Pushed(stack, show)

Edits(op) ==
  /\ phase = "idle" /\ mode = "edit" /\ Count("edits", MaxEdits)
  /\ LET after == Relocated(op, Applied(op, show))
     IN  /\ \E recent \in BOOLEAN : stack' = Remembered(op, recent, after)
         /\ lastKey' = CoalesceKey(op)
         /\ show' = after
         /\ AfterChange(op, after)
  /\ UNCHANGED <<mode, name, disk, bound, card, scan, phase, parted>>

\* do_undo() and do_redo().
Walk(next, walked) ==
  /\ phase = "idle" /\ mode = "edit"
  /\ stack' = walked /\ lastKey' = <<>>
  /\ show' = next
  /\ RebuildAll(next) /\ parted' = parted \cup Overlaid(next)
  /\ UNCHANGED <<mode, name, disk, card, scan, phase>>
Undo ==
  /\ stack.undo # <<>> /\ Count("edits", MaxEdits)
  /\ Walk(Last(stack.undo), Undone(stack, show))
Redo ==
  /\ stack.redo # <<>> /\ Walk(Last(stack.redo), Redone(stack, show))
  /\ UNCHANGED moves

\* ShowLoad: load_show_with_media looks for each medium; install_show.  What the
\* files of the shows hold, and the save of this one first, is in ShowStore.
Opened(s) ==
  [s EXCEPT !.media = [i \in DOMAIN @ |-> [s.media[i] EXCEPT !.missing =
       ~L!Relative(s.media[i].path) \/ s.media[i].path \notin DOMAIN media]]]
Install(s, n) ==
  /\ show' = s /\ name' = n
  /\ stack' = NoHistory /\ lastKey' = <<>>
  /\ RebuildAll(s) /\ parted' = parted \cup Overlaid(s)
Replacing ==
  /\ phase = "idle" /\ mode = "edit" /\ Count("opens", MaxOpens)
  /\ UNCHANGED <<mode, disk, card, scan, phase>>
Load(n) == Replacing /\ Install(Opened(Catalogue[n]), n)
New == Replacing /\ Install(Blank, "nouveau")

\* ModeSet: the programs are compiled before the performance.
\* Mutant: nothing is compiled when the performance starts.
ModeSet_Cold(m) ==
  /\ phase = "idle" /\ mode' = m
  /\ UNCHANGED <<model, disk, sources, deferred, card, scene, scan, phase, moves, parted>>
ModeSet(m) ==
  /\ phase = "idle" /\ mode' = m
  /\ sync' = (sync \/ m = "show")
  /\ UNCHANGED <<model, disk, sources, bound, reload, card, scene, scan, phase, moves, parted>>

\* A parameter mod/{id}/freq writes the frequency into the show, in any mode.
ModFrequency(id, hz) ==
  /\ phase = "idle" /\ Count("edits", MaxEdits)
  /\ LET i == SelectInSeq(show.modulators, LAMBDA m : m.id = id)
     IN  i # 0 /\ show' = [show EXCEPT !.modulators[i].freq = hz]
  /\ UNCHANGED <<mode, name, stack, lastKey, disk, sources, deferred, card, scene,
                 scan, phase, parted>>

\* media_rescan(): one scan at a time, of the pools the show has now.
Rescan ==
  /\ phase = "idle" /\ mode = "edit" /\ scan.state = "none" /\ Count("opens", MaxOpens)
  /\ scan' = [state |-> "reading", media |-> show.media, materials |-> show.materials]
  /\ UNCHANGED <<mode, model, disk, sources, deferred, card, scene, phase, parted>>

Command ==
  \/ \E op \in Ops : Edits(op)
  \/ Undo \/ Redo \/ New \/ Rescan
  \/ \E n \in DOMAIN Catalogue : Load(n)
  \/ \E m \in {"edit", "show"} : ModeSet(m)
  \/ \E m \in Range(show.modulators), hz \in Frequencies : m.freq # hz /\ ModFrequency(m.id, hz)
----------------------------------------------------------------------------
(* The rest of a tick.                                                     *)

ShaderFolder == [p \in {q \in DOMAIN shaders : shaders[q] # "absent"} |-> 0]

\* reload_changed_shaders(): the materials of the show whose file was reported.
Reported(s, batch) == {id \in MaterialIds(s) : PathOf(s, id) \in batch}
\* Mutant: the sources are read again, the programs are not compiled again.
Reloaded_SourcesOnly(s, batch) == reload
Reloaded(s, batch) == IF mode = "edit" THEN reload \cup Reported(s, batch) ELSE reload

\* The result of a scan (apply_rescan), then the batches of the watcher.
\* During a performance both are dropped.
Background ==
  /\ phase = "idle" /\ phase' = "frame"
  /\ scan' = IF scan.state = "done" THEN NoScan ELSE scan
  /\ \E batch \in {{}, changed} :
       LET rescanned == /\ mode = "edit" /\ scan.state = "done"
                        /\ scan.media # show.media \/ scan.materials # show.materials
           others == rescanned /\ scan.materials # show.materials
           s == IF rescanned THEN [show EXCEPT !.media = scan.media, !.materials = scan.materials]
                ELSE show
       IN  /\ changed' = changed \ batch
           /\ show' = s
           /\ IF others \/ (mode = "edit" /\ Reported(s, batch) # {})
              THEN LoadMaterials(s) ELSE UNCHANGED sources
           /\ sync' = (sync \/ others) /\ reload' = Reloaded(s, batch)
           /\ parted' = parted \cup Overlaid(s) \cup
                          (IF mode = "show" THEN Reported(show, batch) ELSE {})
  /\ UNCHANGED <<mode, name, stack, lastKey, shaders, media, bound, card, scene, moves>>

----------------------------------------------------------------------------
(* The materials on the card: "programs", compiled from their sources, by  *)
(* material id (crates/compositor/src/cache.rs), and "slots", the material *)
(* each deck of each slice carries (gl.rs).  A source is [path, version];  *)
(* the version "bad" is one the driver refuses.  The operators take the    *)
(* programs compiled and the sources wanted, by id.                        *)

Decks == {"a", "b"}
Slots == Slices \X Decks
Compiles(source) == source.version # "bad"
Bare == [s \in Slots |-> NoMaterial]

\* ensure(), for all the sources: what has a program keeps it, whatever it
\* was compiled from.
Ensured(compiled, wanted) ==
  [id \in DOMAIN compiled \cup {i \in DOMAIN wanted : Compiles(wanted[i])} |->
     IF id \in DOMAIN compiled THEN compiled[id] ELSE wanted[id]]
\* The materials ensure() fails for.
Refused(compiled, wanted) ==
  {id \in DOMAIN wanted \ DOMAIN compiled : ~Compiles(wanted[id])}

\* recompile(): a source that is refused leaves the program there was.
Recompiled(compiled, wanted, ids) ==
  [id \in DOMAIN compiled \cup {i \in ids : Compiles(wanted[i])} |->
     IF id \in ids /\ Compiles(wanted[id]) THEN wanted[id] ELSE compiled[id]]

\* retain_materials().
Retained(compiled, keep) == Restrict(compiled, DOMAIN compiled \cap keep)

\* apply_compositor_maintenance(): both parts, in order.
Maintained ==
  LET p == IF sync THEN Ensured(Retained(programs, MaterialIds(show)), materials) ELSE programs
      again == reload \cap DOMAIN materials
      refused == IF sync THEN Refused(Retained(programs, MaterialIds(show)), materials) ELSE {}
  IN  [programs |-> Recompiled(p, materials, again),
       slots |-> IF sync THEN Bare ELSE slots,
       bound |-> IF sync THEN <<>> ELSE bound,
       failed |-> ((failed \cup refused) \ {id \in again : Compiles(materials[id])})
                    \cup {id \in again : ~Compiles(materials[id])}]

\* The content a deck wants for a slice; a scene says nothing of a slice that
\* is not in its cue.
Scene(deck) ==
  IF scene'[deck] = NoCue THEN <<>>
  ELSE show.cues[SelectInSeq(show.cues, LAMBDA c : c.number = scene'[deck])].states
Wanted(s) == {x \in Range(Scene(s[2])) : x.slice = s[1]}
WantsMaterial(s, id) == \E x \in Wanted(s) : x.content = [kind |-> "material", id |-> id]
WantsOther(s) == \E x \in Wanted(s) : x.content.kind # "material"

\* apply_materials(): a material without a source, or that was refused, leaves
\* the slot as it is.
Posed(m) ==
  LET usable == {id \in DOMAIN materials \ m.failed : \E s \in Slots : WantsMaterial(s, id)}
      used == Restrict(materials, usable)
      good == usable \ Refused(m.programs, used)
      on(s) == {id \in good : WantsMaterial(s, id)}
      off(s) == WantsOther(s) /\ s \in DOMAIN m.bound
      carries(s) == CHOOSE id \in on(s) : TRUE
  IN  /\ programs' = Ensured(m.programs, used)
      /\ failed' = m.failed \cup Refused(m.programs, used)
      /\ slots' = [s \in Slots |-> IF on(s) # {} THEN carries(s)
                                     ELSE IF off(s) THEN NoMaterial ELSE m.slots[s]]
      /\ bound' = [s \in {x \in DOMAIN m.bound : ~off(x)} \cup {x \in Slots : on(x) # {}} |->
                     IF on(s) # {} THEN carries(s) ELSE m.bound[s]]

\* The cue engine's tick: it stays, starts a cue on deck B, or ends a fade.
CueTick ==
  \/ UNCHANGED scene
  \/ \E n \in NumbersOf(show) :
       scene' = [a |-> IF scene.b # NoCue THEN scene.b ELSE scene.a, b |-> n]
  \/ scene.b # NoCue /\ scene' = [a |-> scene.b, b |-> NoCue]

Frame ==
  /\ phase = "frame" /\ phase' = "idle"
  /\ CueTick
  /\ Posed(Maintained)
  /\ sync' = FALSE /\ reload' = {}
  /\ parted' = {id \in parted \cap DOMAIN programs' :
                  ~(id \in reload \cap DOMAIN materials /\ programs'[id] = OnDisk(show, id))}
  /\ UNCHANGED <<mode, model, disk, materials, scan, moves>>
----------------------------------------------------------------------------
(* The disk and the thread that scans it.                                  *)

\* The watcher reports a file that is there when it looks.
Write(p, v) ==
  /\ FileAt(p) # v /\ Count("writes", MaxWrites)
  /\ shaders' = [q \in DOMAIN shaders \cup {p} |-> IF q = p THEN v ELSE shaders[q]]
  /\ changed' = IF v = "absent" THEN changed ELSE changed \cup {p}
  /\ UNCHANGED <<mode, model, media, sources, deferred, card, scene, scan, phase, parted>>

Copy(folder) ==
  /\ media # folder /\ Count("writes", MaxWrites)
  /\ media' = folder
  /\ UNCHANGED <<mode, model, shaders, changed, sources, deferred, card, scene, scan, phase, parted>>

Scan ==
  /\ scan.state = "reading"
  /\ scan' = [state |-> "done", media |-> L!Rescanned(scan.media, media),
              materials |-> L!Joined(scan.materials, L!ScannedMaterials(ShaderFolder))]
  /\ UNCHANGED <<mode, model, disk, sources, deferred, card, scene, phase, moves, parted>>

Init ==
  /\ mode = "edit" /\ phase = "idle"
  /\ \E s \in Started : name = s.name /\ media = s.media
  /\ shaders \in [UNION {L!PathsOf(Catalogue[n].materials) : n \in DOMAIN Catalogue} -> {"v1"}]
  /\ show = Opened(Catalogue[name])
  /\ stack = NoHistory /\ lastKey = <<>> /\ changed = {}
  /\ materials = Loaded(show) /\ failed = {}
  /\ bound = <<>> /\ sync = TRUE /\ reload = {}
  /\ programs = <<>> /\ slots = Bare
  /\ scene = [a |-> NoCue, b |-> NoCue] /\ scan = NoScan
  /\ moves = [edits |-> 0, opens |-> 0, writes |-> 0] /\ parted = {}

Next ==
  \/ Command \/ Background \/ Frame \/ Scan
  \/ \E p \in DOMAIN Versions : \E v \in Versions[p] : Write(p, v)
  \/ \E f \in MediaDirs : Copy(f)
Spec == Init /\ [][Next]_vars
----------------------------------------------------------------------------
(* Properties.                                                             *)

\* Type invariant; the undo stack holds at most UNDO_CAP shows, and one place
\* of it is the show.
SessionTypeOK ==
  /\ mode \in {"edit", "show"} /\ phase \in {"idle", "frame"}
  /\ name \in DOMAIN Catalogue \cup {"nouveau"} /\ sync \in BOOLEAN
  /\ Len(stack.undo) + Len(stack.redo) <= UndoCap
  /\ DOMAIN materials \subseteq MaterialIds(show)
  /\ failed \subseteq DOMAIN materials
  /\ DOMAIN bound \subseteq Slots /\ slots \in [Slots -> Range(slots)]
  /\ scene.a \in NumbersOf(show) \cup {NoCue} /\ scene.b \in NumbersOf(show) \cup {NoCue}
  /\ scan.state \in {"none", "reading", "done"}

\* Two shows that differ by what a scan or a frequency knob may change.
Retouched(s, t) ==
  t = [s EXCEPT !.media = t.media, !.materials = t.materials, !.modulators = t.modulators]
History == INSTANCE UndoHistory WITH
  Touched <- Retouched, line <- stack.undo \o <<show>> \o Reverse(stack.redo),
  place <- Len(stack.undo) + 1

\* Undo and redo walk on one line of shows: whatever edits, gestures, scans and
\* loads come between, an undo gives back exactly the show before the last
\* gesture and a redo exactly the one that was undone.
UndoIsLinear == History!Spec

\* No ghost material: once the card was cleared, every slot that carries a
\* material is one the session knows of, so the next scene that wants something
\* else there takes the material away.
NoGhostMaterial ==
  ~sync => \A s \in Slots : slots[s] # NoMaterial => s \in DOMAIN bound /\ bound[s] = slots[s]

\* The program drawn for a material is compiled from the source the session
\* holds, as long as the driver takes it: an edit and a change of the file reach
\* the screen without a restart.  Left out are the materials that took the id of
\* another one, and those whose file changed during a performance (parted).
Current(id) == Compiles(materials[id]) => programs[id] = materials[id]
Settled == phase = "idle" /\ ~sync /\ reload = {}
ProgramsCurrent ==
  Settled => \A id \in (DOMAIN materials \cap DOMAIN programs) \ parted :
               PathOf(show, id) \in changed \/ Current(id)

\* Once the programs of a performance are compiled nothing is compiled any more,
\* whatever cue is played and whatever changes on disk.
NoCompileInShow == [][mode = "show" /\ ~sync => programs' = programs]_vars

\* The show, its history and its caches are well formed, and no slot carries a
\* material the session has lost track of.
SessionInvariant == SessionTypeOK /\ NoGhostMaterial
===============================================================================
