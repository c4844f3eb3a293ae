------------------------------ MODULE ShowStore ------------------------------
(***************************************************************************)
(* How the show in memory reaches the disk: the session thread (commands, *)
(* autosave, destructive operations, exit), the `conduite-saver` worker    *)
(* and its bounded queue, the atomic file writes with their rotating       *)
(* backups, the post-panic recovery file, and the next start.              *)
(*                                                                         *)
(* A show's content is the number of the edit that produced it; 0 is the   *)
(* content nobody edited (the demo show, a new show).  Larger is newer.    *)
(* Elapsed delays (debounce, autosave period) are free choices.            *)
(***************************************************************************)
EXTENDS Integers, Sequences, FiniteSets, SequencesExt

CONSTANTS
  Names,       \* folders under shows/
  First,       \* the show of the first start
  Stock,       \* [Names -> content], what each folder holds at first
  Stocked,     \* the newest content in Stock
  NewName,     \* the folder of ShowNew ("nouveau")
  Fallback,    \* [Names -> Names], the "<name>-secours" folder
  QueueCap,    \* capacity of the worker's queue (8 in the code)
  BackupKeep,  \* backups kept per show (20 in the code)
  Ops,         \* the operations the environment performs
  MaxEdits,    \* bound: edits in a behaviour
  MaxFaults    \* bound: failed writes, crashes and corruptions

ASSUME StoreAssumption ==
  /\ First \in Names /\ NewName \in Names
  /\ Fallback \in [Names -> Names]
  /\ QueueCap \in Nat \ {0} /\ BackupKeep \in Nat \ {0}
  /\ MaxEdits \in Nat /\ MaxFaults \in Nat
  /\ Stocked \in 0 .. MaxEdits
  /\ Stock \in [Names -> -1 .. Stocked] /\ Stock[First] >= 0
  /\ Ops \subseteq {"Edit", "Save", "SaveAs", "Load", "New", "Recover",
                    "Quit", "Panic", "Kill", "Corrupt", "Fail"}

VARIABLES
  s,        \* the session: its show and its save flags
  queue,    \* the jobs posted and not yet taken by the worker
  worker,   \* the job the worker is executing, and where it is in it
  results,  \* the outcomes the session has not drained
  disk,     \* per folder: show.json as seen, as durable, and the backups
  cell,     \* the recovery snapshot the panic hook would write
  recover,  \* the newest recover-*.json
  lastShow, \* config.last_show
  edits,    \* edits so far (bound by MaxEdits)
  faults    \* faults so far (bound by MaxFaults)

vars == <<s, queue, worker, results, disk, cell, recover, lastShow, edits, faults>>

Versions == 0 .. MaxEdits
None == -1      \* no file, no snapshot, no recovery
Bad  == -2      \* an unreadable show.json or backup
Contents == Versions \cup {None, Bad}

\* A file: its content, and whether it is older than the recovery file.
File == [ver : Contents, old : BOOLEAN]
Folder == [file : File, durable : File, backups : Seq(Contents)]
Job == [kind : {"Save", "Snapshot"}, name : Names, ver : Versions, gen : Nat]
Steps == {"idle", "write", "sync", "backup", "publish"}

Fresh(v) == [ver |-> v, old |-> FALSE]
Loadable(f) == f.ver \in Versions
Idle == [step |-> "idle", job |-> [kind |-> "Snapshot", name |-> First,
                                   ver |-> 0, gen |-> 0], ok |-> FALSE]

(***************************************************************************)
(* Files (core/src/persist.rs)                                             *)
(***************************************************************************)
\* The newest BackupKeep backups; two in one second overwrite each other.
Pruned_Newest(b) == IF Len(b) > BackupKeep THEN SubSeq(b, 1, BackupKeep) ELSE b
Pruned(b) == IF Len(b) > BackupKeep THEN SubSeq(b, Len(b) - BackupKeep + 1, Len(b)) ELSE b
WithBackup(b, v, sameSecond) ==
  Pruned(IF sameSecond /\ b # <<>> THEN Front(b) \o <<v>> ELSE Append(b, v))

\* rename of a flushed temporary over show.json: visible, not yet durable
Renamed_NoFlush(d, v) == [d EXCEPT !.file = Fresh(v), !.durable = Fresh(Bad)]
Renamed(d, v) == [d EXCEPT !.file = Fresh(v)]
\* fsync of the directory
Synced(d) == [d EXCEPT !.durable = d.file]

\* save_show_atomic run to its end on the calling thread
SavedWhole(d, v, sameSecond) ==
  [Synced(Renamed(d, v)) EXCEPT !.backups = WithBackup(d.backups, v, sameSecond)]

(***************************************************************************)
(* The worker's queue (app/src/saver.rs)                                   *)
(***************************************************************************)
JobOf(kind, session) ==
  [kind |-> kind, name |-> session.name, ver |-> session.ver, gen |-> session.gen]
Full_OneMore(q) == Len(q) > QueueCap
Full(q) == Len(q) >= QueueCap

\* push_recover_snapshot: <<session, queue>> after it
PushSnapshot_Forgets(session, q) ==
  <<[session EXCEPT !.recDirty = FALSE],
    IF Full(q) THEN q ELSE Append(q, JobOf("Snapshot", session))>>
PushSnapshot(session, q) ==
  IF Full(q) THEN <<session, q>>
  ELSE <<[session EXCEPT !.recDirty = FALSE], Append(q, JobOf("Snapshot", session))>>

\* save_show: at most one save in flight
SaveShow(session, q) ==
  IF session.inFlight \/ Full(q) THEN <<session, q>>
  ELSE <<[session EXCEPT !.inFlight = TRUE, !.recDirty = FALSE],
         Append(q, JobOf("Save", session))>>

\* the outcomes of the worker, drained by autosave
Drained_AnyGen(session, rs) ==
  IF rs = <<>> THEN session
  ELSE [session EXCEPT !.inFlight = FALSE,
                       !.dirty = @ /\ ~\E i \in DOMAIN rs : rs[i].ok]
Drained_NeverClean(session, rs) ==
  IF rs = <<>> THEN session ELSE [session EXCEPT !.inFlight = FALSE]
Drained(session, rs) ==
  IF rs = <<>> THEN session
  ELSE [session EXCEPT
          !.inFlight = FALSE,
          !.dirty = @ /\ ~\E i \in DOMAIN rs : rs[i].ok /\ rs[i].gen = session.gen]

(***************************************************************************)
(* Start: ensure_show_exists, load_show_or_recover, notice_recover_files   *)
(***************************************************************************)
LastGood(b) == SelectLastInSeq(b, LAMBDA v : v \in Versions)

EmptyFolder == [file |-> Fresh(None), durable |-> Fresh(None), backups |-> <<>>]

\* first start of a folder: the demo show is created in it
Ensured(d) == IF d.file.ver = None THEN SavedWhole(d, 0, FALSE) ELSE d

\* where load_show_or_recover looks: the file, else the newest good backup, else
\* the demo under the fallback name.  The unreadable file is renamed away, and
\* try_backups leaves the last backup it tried in its place.
Source(d) == IF Loadable(d.file) THEN "file"
             ELSE IF LastGood(d.backups) > 0 THEN "backup" ELSE "none"
Restored(d) ==
  CASE Source(d) = "file"   -> d
    [] Source(d) = "backup" -> Synced(Renamed(d, d.backups[LastGood(d.backups)]))
    [] Source(d) = "none" /\ d.backups # <<>> -> Synced(Renamed(d, Bad))
    [] OTHER -> [d EXCEPT !.file = Fresh(None), !.durable = Fresh(None)]
OpenedName(n, d) == IF Source(d) = "none" THEN Fallback[n] ELSE n
OpenedVer(d) == IF Source(d) = "none" THEN 0 ELSE Restored(d).file.ver

\* notice_recover_files: a recovery file newer than the show is proposed
Proposed_NoShow(f) == IF recover # None /\ f.ver = None THEN recover ELSE None
Proposed(f) == IF recover # None /\ (f.ver = None \/ f.old) THEN recover ELSE None

\* Session::new, and the snapshot it posts
NewSession(name, ver, proposed) ==
  [phase |-> "up", name |-> name, ver |-> ver, dirty |-> FALSE, gen |-> 0,
   inFlight |-> FALSE, recDirty |-> FALSE, pending |-> proposed]

Init ==
  /\ disk = [n \in Names |-> IF Stock[n] = None THEN EmptyFolder
                             ELSE SavedWhole(EmptyFolder, Stock[n], FALSE)]
  /\ s = NewSession(First, Stock[First], None)
  /\ queue = <<JobOf("Snapshot", s)>>
  /\ worker = Idle
  /\ results = <<>>
  /\ cell = None
  /\ recover = None
  /\ lastShow = First
  /\ edits = Stocked
  /\ faults = 0

(***************************************************************************)
(* The session's operations (app/src/session.rs)                           *)
(***************************************************************************)
Up == s.phase = "up"
Fault == faults < MaxFaults /\ faults' = faults + 1
Outcomes == IF "Fail" \in Ops THEN {TRUE, FALSE} ELSE {TRUE}

\* apply_edit, do_undo, do_redo: new content, mark_dirty
MarkedDirty(session) ==
  [session EXCEPT !.dirty = TRUE, !.gen = @ + 1, !.recDirty = TRUE]
Edit ==
  /\ Up /\ "Edit" \in Ops /\ edits < MaxEdits
  /\ edits' = edits + 1
  /\ s' = MarkedDirty([s EXCEPT !.ver = edits + 1])
  /\ UNCHANGED <<queue, worker, results, disk, cell, recover, lastShow, faults>>

\* the session and its queue after an operation
Posts(pair) == s' = pair[1] /\ queue' = pair[2]

\* Command::ShowSave
Save ==
  /\ Up /\ "Save" \in Ops
  /\ Posts(SaveShow(s, queue))
  /\ UNCHANGED <<worker, results, disk, cell, recover, lastShow, edits, faults>>

\* Command::ShowSaveAs: the name changes whether or not a job could be posted
SaveAs(n) ==
  /\ Up /\ "SaveAs" \in Ops
  /\ Posts(SaveShow([s EXCEPT !.name = n], queue))
  /\ lastShow' = n
  /\ UNCHANGED <<worker, results, disk, cell, recover, edits, faults>>

\* A synchronous save of the show in memory when `needed`: save_before_destructive
\* and emergency_save.  It may fail, before the rename or after it (late); memory
\* then stays dirty.  A save that is done: late in the second of the last backup.
SyncSave(needed, ok, late) ==
  CASE needed /\ ok          -> [disk EXCEPT ![s.name] = SavedWhole(@, s.ver, late)]
    [] needed /\ ~ok /\ late -> [disk EXCEPT ![s.name] = Renamed(@, s.ver)]
    [] OTHER                 -> disk
SyncFault(needed, ok) == IF needed /\ ~ok THEN Fault ELSE UNCHANGED faults

\* install_show: undo cleared, clean, snapshot posted
Installed(session, name, ver, q) ==
  PushSnapshot([session EXCEPT !.name = name, !.ver = ver, !.dirty = FALSE], q)

\* Command::ShowLoad: save what is dirty, read the other show, install it;
\* an unreadable show leaves the current one in place
Load(n, ok, late) ==
  LET d == SyncSave(s.dirty, ok, late)
      kept == [s EXCEPT !.dirty = @ /\ ~ok]
  IN /\ Up /\ "Load" \in Ops
     /\ SyncFault(s.dirty, ok)
     /\ disk' = d
     /\ \/ /\ Loadable(d[n].file)
           /\ Posts(Installed(kept, n, d[n].file.ver, queue))
           /\ lastShow' = n
        \/ /\ ~Loadable(d[n].file)
           /\ Posts(<<kept, queue>>) /\ UNCHANGED lastShow
     /\ UNCHANGED <<worker, results, cell, recover, edits>>

\* Command::ShowNew: config.last_show is left alone
ShowNew(ok, late) ==
  /\ Up /\ "New" \in Ops
  /\ SyncFault(s.dirty, ok)
  /\ disk' = SyncSave(s.dirty, ok, late)
  /\ Posts(Installed(s, NewName, 0, queue))
  /\ UNCHANGED <<worker, results, cell, recover, lastShow, edits>>

RecoveryLoad_StaysClean ==
  /\ Up /\ "Recover" \in Ops /\ s.pending # None
  /\ Posts(Installed([s EXCEPT !.pending = None], s.name, s.pending, queue))
  /\ UNCHANGED <<worker, results, disk, cell, recover, lastShow, edits, faults>>

\* Command::RecoveryLoad of the proposed file, under the current name
RecoveryLoad ==
  LET done == Installed([s EXCEPT !.pending = None], s.name, s.pending, queue)
  IN /\ Up /\ "Recover" \in Ops /\ s.pending # None
     /\ Posts(<<MarkedDirty(done[1]), done[2]>>)
     /\ UNCHANGED <<worker, results, disk, cell, recover, lastShow, edits, faults>>

\* Command::RecoveryDismiss
RecoveryDismiss ==
  /\ Up /\ "Recover" \in Ops /\ s.pending # None
  /\ s' = [s EXCEPT !.pending = None]
  /\ UNCHANGED <<queue, worker, results, disk, cell, recover, lastShow, edits, faults>>

\* autosave, at the end of a tick: drain the outcomes, push the snapshot when
\* due, then save when dirty, nothing is in flight and a delay has elapsed
Autosave(snapshotDue, saveDue) ==
  LET drained  == Drained(s, results)
      pushed   == IF drained.recDirty /\ snapshotDue
                  THEN PushSnapshot(drained, queue) ELSE <<drained, queue>>
      mustSave == pushed[1].dirty /\ ~pushed[1].inFlight /\ saveDue
  IN /\ Up
     /\ Posts(IF mustSave THEN SaveShow(pushed[1], pushed[2]) ELSE pushed)
     /\ results' = <<>>
     /\ UNCHANGED <<worker, disk, cell, recover, lastShow, edits, faults>>

(***************************************************************************)
(* The worker: one job at a time, in the order they were posted            *)
(***************************************************************************)
TakeJob ==
  /\ s.phase # "down" /\ worker.step = "idle" /\ queue # <<>>
  /\ worker' = [step |-> IF Head(queue).kind = "Save" THEN "write" ELSE "publish",
                job |-> Head(queue), ok |-> FALSE]
  /\ queue' = Tail(queue)
  /\ UNCHANGED <<s, results, disk, cell, recover, lastShow, edits, faults>>

\* the folder a job is written to
Target_Current(job) == s.name
Target(job) == job.name

\* the temporary is flushed and renamed, or the write fails and leaves no trace
WriteShow(ok) ==
  /\ worker.step = "write"
  /\ IF ok
     THEN /\ disk' = [disk EXCEPT ![Target(worker.job)] = Renamed(@, worker.job.ver)]
          /\ worker' = [worker EXCEPT !.step = "sync"] /\ UNCHANGED faults
     ELSE /\ worker' = [worker EXCEPT !.step = "publish"]
          /\ UNCHANGED disk /\ Fault
  /\ UNCHANGED <<s, queue, results, cell, recover, lastShow, edits>>

SyncFolder(ok) ==
  /\ worker.step = "sync"
  /\ IF ok
     THEN /\ disk' = [disk EXCEPT ![worker.job.name] = Synced(@)]
          /\ worker' = [worker EXCEPT !.step = "backup", !.ok = TRUE] /\ UNCHANGED faults
     ELSE /\ worker' = [worker EXCEPT !.step = "publish"]
          /\ UNCHANGED disk /\ Fault
  /\ UNCHANGED <<s, queue, results, cell, recover, lastShow, edits>>

\* best effort: a failed backup fails nothing
WriteBackup(ok, sameSecond) ==
  /\ worker.step = "backup"
  /\ worker' = [worker EXCEPT !.step = "publish"]
  /\ IF ok
     THEN /\ disk' = [disk EXCEPT ![worker.job.name].backups =
                        WithBackup(@, worker.job.ver, sameSecond)]
          /\ UNCHANGED faults
     ELSE UNCHANGED disk /\ Fault
  /\ UNCHANGED <<s, queue, results, cell, recover, lastShow, edits>>

Publish_SnapshotJobsOnly ==
  /\ worker.step = "publish"
  /\ cell' = IF worker.job.kind = "Snapshot" THEN worker.job.ver ELSE cell
  /\ results' = IF worker.job.kind = "Save"
                THEN Append(results, [gen |-> worker.job.gen, ok |-> worker.ok])
                ELSE results
  /\ worker' = Idle
  /\ UNCHANGED <<s, queue, disk, recover, lastShow, edits, faults>>

\* update_snapshot, then the outcome of a save
Publish ==
  /\ worker.step = "publish"
  /\ cell' = worker.job.ver
  /\ results' = IF worker.job.kind = "Save"
                THEN Append(results, [gen |-> worker.job.gen, ok |-> worker.ok])
                ELSE results
  /\ worker' = Idle
  /\ UNCHANGED <<s, queue, disk, recover, lastShow, edits, faults>>

WorkerStep ==
  \/ TakeJob \/ Publish
  \/ \E ok \in Outcomes : WriteShow(ok) \/ SyncFolder(ok)
  \/ \E ok \in Outcomes, sameSecond \in BOOLEAN : WriteBackup(ok, sameSecond)

(***************************************************************************)
(* Ends and starts of the process                                          *)
(***************************************************************************)
\* Quit, Ctrl-C, GPU loss: emergency_save, then dropping the saver closes its
\* queue and waits for the worker
Quit(ok, late) ==
  LET needed == s.dirty \/ s.inFlight
  IN /\ Up /\ "Quit" \in Ops
     /\ SyncFault(needed, ok)
     /\ disk' = SyncSave(needed, ok, late)
     /\ s' = [s EXCEPT !.phase = "closing"]
     /\ UNCHANGED <<queue, worker, results, cell, recover, lastShow, edits>>

\* the panic hook writes the snapshot, then unwinding drops the saver
Panic ==
  /\ Up /\ "Panic" \in Ops /\ Fault
  /\ s' = [s EXCEPT !.phase = "closing"]
  /\ recover' = IF cell = None THEN recover ELSE cell
  /\ disk' = IF cell = None THEN disk
             ELSE [n \in Names |-> [disk[n] EXCEPT !.file.old = TRUE,
                                                   !.durable.old = TRUE]]
  /\ UNCHANGED <<queue, worker, results, cell, lastShow, edits>>

\* what is left of a process: its files
Gone ==
  /\ s' = [s EXCEPT !.phase = "down"]
  /\ queue' = <<>> /\ worker' = Idle /\ results' = <<>> /\ cell' = None

Exit ==
  /\ s.phase = "closing" /\ queue = <<>> /\ worker.step = "idle"
  /\ Gone
  /\ UNCHANGED <<disk, recover, lastShow, edits, faults>>

\* kill, native crash or power cut: a rename that was not synced may be undone
Kill ==
  /\ s.phase # "down" /\ "Kill" \in Ops /\ Fault
  /\ Gone
  /\ \E lost \in SUBSET {n \in Names : disk[n].file # disk[n].durable} :
       disk' = [n \in Names |->
                  IF n \in lost THEN [disk[n] EXCEPT !.file = disk[n].durable]
                  ELSE Synced(disk[n])]
  /\ UNCHANGED <<recover, lastShow, edits>>

\* show.json becomes unreadable while nothing runs; its backups may too, or be gone
\* (bound: never in a fallback folder, which has no fallback of its own here)
Corrupt(n, backups) ==
  /\ s.phase = "down" /\ "Corrupt" \in Ops /\ Fault
  /\ Loadable(disk[n].file) /\ Fallback[n] # n
  /\ disk' = [disk EXCEPT ![n] =
       [file |-> Fresh(Bad), durable |-> Fresh(Bad),
        backups |-> CASE backups = "kept" -> @.backups
                      [] backups = "bad"  -> [i \in DOMAIN @.backups |-> Bad]
                      [] backups = "gone" -> <<>>]]
  /\ UNCHANGED <<s, queue, worker, results, cell, recover, lastShow, edits>>

\* main: the folder of the last show is created when it has no show.json, then
\* opened or recovered; the new worker's first job is the snapshot
Restart ==
  LET d    == Ensured(disk[lastShow])
      name == OpenedName(lastShow, d)
  IN /\ s.phase = "down"
     /\ disk' = [disk EXCEPT ![lastShow] = Restored(d)]
     /\ s' = NewSession(name, OpenedVer(d), Proposed(disk'[name].file))
     /\ queue' = <<JobOf("Snapshot", s')>>
     /\ UNCHANGED <<worker, results, cell, recover, lastShow, edits, faults>>

Operator ==
  \/ Edit \/ Save \/ RecoveryLoad \/ RecoveryDismiss
  \/ \E ok \in Outcomes, late \in BOOLEAN : Quit(ok, late)
Tick == \E snapshotDue, saveDue \in BOOLEAN : Autosave(snapshotDue, saveDue)
Environment ==
  \/ Panic \/ Kill
  \/ \E n \in Names, backups \in {"kept", "bad", "gone"} : Corrupt(n, backups)
Continue == Operator \/ Tick \/ WorkerStep \/ Exit \/ Environment \/ Restart

\* Another show takes the place of the one in memory, or another name does.
Create == \E ok \in Outcomes, late \in BOOLEAN : ShowNew(ok, late)
Replace ==
  \E n \in Names : SaveAs(n) \/ \E ok \in Outcomes, late \in BOOLEAN : Load(n, ok, late)

Next == Continue \/ Create \/ Replace

Spec == Init /\ [][Next]_vars

(***************************************************************************)
(* Properties                                                              *)
(***************************************************************************)
\* Every variable stays in its domain; the queue never exceeds its capacity.
TypeOK ==
  /\ s \in [phase : {"up", "closing", "down"}, name : Names, ver : Versions,
            dirty : BOOLEAN, gen : Nat, inFlight : BOOLEAN, recDirty : BOOLEAN,
            pending : Versions \cup {None}]
  /\ queue \in Seq(Job) /\ Len(queue) <= QueueCap
  /\ worker \in [step : Steps, job : Job, ok : BOOLEAN]
  /\ results \in Seq([gen : Nat, ok : BOOLEAN])
  /\ disk \in [Names -> Folder]
  /\ cell \in Versions \cup {None} /\ recover \in Versions \cup {None}
  /\ lastShow \in Names
  /\ edits \in Versions /\ faults \in 0 .. MaxFaults

\* When the session shows nothing modified and no save under way, show.json of
\* the current show holds what is in memory, durably once anything was edited:
\* a power cut loses nothing.  (save_show, autosave: dirty falls only on the
\* outcome of the last edit; content 0, which nobody edited, may be on no disk)
CleanMeansSaved ==
  Up /\ ~s.dirty /\ ~s.inFlight /\ s.ver > 0 =>
    /\ disk[s.name].file.ver = s.ver
    /\ s.gen > 0 => disk[s.name].durable.ver = s.ver

\* The save flag counts exactly the save jobs queued, executing or reported:
\* it never stays raised with no outcome to come, which would end all saving,
\* and two saves never race.  (save_in_flight)
SavesUnderWay ==
  Cardinality({i \in DOMAIN queue : queue[i].kind = "Save"})
  + (IF worker.step # "idle" /\ worker.job.kind = "Save" THEN 1 ELSE 0)
  + Len(results)
OneSaveInFlight == Up => SavesUnderWay = IF s.inFlight THEN 1 ELSE 0

\* An edit is eventually saved, or the process ends.  (autosave retries)
DirtyIsSaved == (Up /\ s.dirty) ~> (~Up \/ ~s.dirty)
=============================================================================
