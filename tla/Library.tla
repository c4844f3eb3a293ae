-------------------------------- MODULE Library --------------------------------
(***************************************************************************)
(* The pools of a show (crates/media-library): the folders read into media *)
(* and materials, the pool of a show reconciled with what was read, the    *)
(* media found again after a move, the pictures of the pool, a show        *)
(* collected into a folder of its own.                                     *)
(*                                                                         *)
(* A folder is a function from the paths of its files to the date of each; *)
(* a path is a sequence of names.                                          *)
(***************************************************************************)
EXTENDS Integers, SequencesExt

CONSTANTS
  Kind,            \* what the extension of a name says: video, image, shader, other
  Hidden,          \* names that begin with a dot
  Anchors,         \* names only an absolute path or a URL begins with
  PathBefore(_, _),\* the order of paths
  MaxDepth,        \* MAX_DEPTH
  Info             \* what ffprobe or the image says of a path that can be read

Unknown == "unknown"
Relative(path) == path # <<>> /\ path[1] \notin Anchors /\ ".." \notin Range(path)
Extension(path) == Kind[Last(path)]
Medium(path) == Extension(path) \in {"video", "image"}
----------------------------------------------------------------------------
(* scan() and reconcile().                                                 *)

\* walk(): the root is at depth 0.
Walked(folder) ==
  {p \in DOMAIN folder : Len(p) - 1 <= MaxDepth /\ Range(p) \cap Hidden = {}}
InOrder(paths) == SetToSortSeq(paths, PathBefore)

NewMedia(id, path) == [id |-> id, path |-> path, missing |-> FALSE, info |-> Unknown]
Scanned(folder) ==
  LET paths == InOrder({p \in Walked(folder) : Medium(p)})
  IN  [i \in DOMAIN paths |-> NewMedia(i, paths[i])]
ScannedMaterials(folder) ==
  LET paths == InOrder({p \in Walked(folder) : Extension(p) = "shader"})
  IN  [i \in DOMAIN paths |-> [id |-> i, path |-> paths[i]]]

PathsOf(pool) == {pool[i].path : i \in DOMAIN pool}
IdsOf(pool) == {pool[i].id : i \in DOMAIN pool}
Above(pool) == Max(IdsOf(pool) \cup {0})

\* Mutant: what is new keeps the number of the scan.
Joined_ScanIds(existing, scanned) ==
  existing \o SelectSeq(scanned, LAMBDA m : m.path \notin PathsOf(existing))
\* What the pool has keeps its id; what is new has ids above them all.
Joined(existing, scanned) ==
  LET new == SelectSeq(scanned, LAMBDA m : m.path \notin PathsOf(existing))
  IN  existing \o [i \in DOMAIN new |-> [new[i] EXCEPT !.id = Above(existing) + i]]

Reconciled(existing, scanned) ==
  Joined([i \in DOMAIN existing |->
            [existing[i] EXCEPT !.missing = existing[i].path \notin PathsOf(scanned)]], scanned)

\* probe_all(): a medium that is there and cannot be read is kept, unknown.
Probed(pool) ==
  [i \in DOMAIN pool |->
     LET m == pool[i]
     IN  IF m.missing \/ ~Medium(m.path) THEN m
         ELSE [m EXCEPT !.info = IF m.path \in DOMAIN Info THEN Info[m.path] ELSE Unknown]]

\* The thread of a rescan: reads the folders, then looks at each file again.
Rescanned(existing, folder) ==
  LET pool == Reconciled(existing, Scanned(folder))
  IN  Probed([i \in DOMAIN pool |->
                [pool[i] EXCEPT !.missing = ~Relative(pool[i].path)
                                              \/ pool[i].path \notin DOMAIN folder]])
----------------------------------------------------------------------------
(* relocate_cascade().                                                     *)

RelDir(path) == Front(path)

\* One medium was found again: those missing from the folder it was in, and
\* from the folders below, are looked for under the folder it is in.
Relinked(m, folder, old, new) ==
  LET under == RelDir(old)
      found == RelDir(new) \o SubSeq(m.path, Len(under) + 1, Len(m.path))
  IN  IF /\ m.missing /\ m.path # old
         /\ Len(m.path) > Len(under) /\ IsPrefix(under, m.path)
         /\ Relative(found) /\ found \in DOMAIN folder
      THEN [m EXCEPT !.path = found, !.missing = FALSE]
      ELSE m
Cascade(pool, folder, old, new) ==
  IF RelDir(old) = RelDir(new) THEN pool
  ELSE [i \in DOMAIN pool |-> Relinked(pool[i], folder, old, new)]
----------------------------------------------------------------------------
(* Pictures: a cache from the id of a medium to [of, date].                *)

Fresh(cache, id, path, folder) == id \in DOMAIN cache /\ cache[id].date >= folder[path]

\* ensure_thumb(): a picture appears whole or not at all.  Nothing says which
\* file a picture is of: a newer one is taken for a good one.
Ensured(cache, m, folder, now) ==
  IF /\ ~m.missing /\ Relative(m.path) /\ m.path \in DOMAIN folder
     /\ ~Fresh(cache, m.id, m.path, folder)
     /\ Medium(m.path) /\ m.path \in DOMAIN Info
  THEN (m.id :> [of |-> m.path, date |-> now]) @@ cache
  ELSE cache
\* generate_thumbs(), one batch at a time.
Pictured(cache, pool, folder, now) ==
  FoldSeq(LAMBDA m, c : Ensured(c, m, folder, now), cache, pool)
----------------------------------------------------------------------------
(* collect_show().                                                         *)

Copied(pool, folder) == {p \in PathsOf(pool) : Relative(p) /\ p \in DOMAIN folder}
Collected(show, media, shaders) ==
  LET there == Copied(show.media, media)
  IN  [show |-> [show EXCEPT !.media = [i \in DOMAIN @ |->
                   [show.media[i] EXCEPT !.missing = show.media[i].path \notin there]]],
       media |-> there, shaders |-> Copied(show.materials, shaders),
       missing |-> (PathsOf(show.media) \ there)
                     \cup (PathsOf(show.materials) \ Copied(show.materials, shaders))]
===============================================================================
