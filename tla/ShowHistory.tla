----------------------------- MODULE ShowHistory -----------------------------
(***************************************************************************)
(* ShowStore with what no single state remembers: which contents each      *)
(* folder's show has had in memory, whether the process that just ended    *)
(* wrote a recovery file, and what has happened that voids a promise.      *)
(***************************************************************************)
EXTENDS ShowStore

CONSTANT MaxMoves  \* bound: shows created, loaded or renamed in a behaviour

ASSUME MovesAssumption == MaxMoves \in Nat

VARIABLES
  moves,   \* shows created, loaded, or saved under another name, so far
  owned,   \* <<folder, content>> pairs the session has had in memory
  hooked,  \* the last process wrote the recovery file
  past     \* what has happened so far, of:
           \*   "moved"    a show was loaded, or saved under another name
           \*   "refused"  the queue was full when a show was put in place of another
           \*   "damaged"  a file was damaged from outside
           \*   "revived"  the proposed recovery file was loaded
           \*   "raced"    the worker failed or was killed, or the session wrote beside it

hvars == <<s, queue, worker, results, disk, cell, recover, lastShow, edits,
           faults, owned, hooked, moves, past>>

HInit ==
  /\ Init
  /\ owned = {<<n, Stock[n]>> : n \in {m \in Names : Stock[m] # None}}
  /\ hooked = FALSE
  /\ moves = 0 /\ past = {}

\* Panic is the step that closes the process and leaves its saves to the worker
Panicked == Panic /\ s'.phase = "closing"

Damaged == s.phase = "down" /\ s'.phase = "down"
Revived == s.phase = "up" /\ s.pending # None /\ s'.pending = None /\ s'.dirty
WroteBeside ==
  s.phase = "up" /\ worker' = worker
  /\ \E n \in Names : \/ disk'[n].file.ver # disk[n].file.ver
                      \/ disk'[n].backups # disk[n].backups
Raced ==
  \/ faults' # faults /\ (worker' # worker \/ (s.phase # "down" /\ s'.phase = "down"))
  \/ WroteBeside

\* the demo that ensure_show_exists writes belongs to the folder it creates
Recorded(marks) ==
  /\ owned' = owned \cup {<<s'.name, s'.ver>>, <<lastShow', 0>>}
  /\ hooked' = CASE Panicked -> cell # None
                 [] s.phase = "down" -> FALSE
                 [] OTHER -> hooked
  /\ past' = past \cup marks \cup {mark \in {"refused", "damaged", "revived", "raced"} :
                         CASE mark = "refused" -> moves' # moves /\ Full(queue)
                           [] mark = "damaged" -> Damaged
                           [] mark = "revived" -> Revived
                           [] mark = "raced"   -> Raced}

Another == moves < MaxMoves /\ moves' = moves + 1
HNext ==
  \/ Continue /\ UNCHANGED moves /\ Recorded({})
  \/ Create /\ Another /\ Recorded({})
  \/ Replace /\ Another /\ Recorded({"moved"})

HSpec == HInit /\ [][HNext]_hvars
\* The render loop ticks, its delays elapse, and the worker thread is scheduled.
HFairSpec == HSpec /\ WF_vars(Autosave(TRUE, TRUE)) /\ WF_vars(WorkerStep) /\ WF_vars(Exit)

\* Whatever the order of loads, renames and worker steps, a folder only ever
\* receives contents its own show has had: the job carries the folder it was
\* posted for.  (SaveJob::Save.dir)
FolderHoldsOwnShow ==
  \A n \in Names :
    \A v \in {disk[n].file.ver, disk[n].durable.ver} \cup ToSet(disk[n].backups) :
      v \in Versions => <<n, v>> \in owned

\* No crash leaves a show unreadable: only outside damage does.  (write_atomic
\* flushes the temporary before the rename)
CrashLeavesReadable ==
  "damaged" \notin past => \A n \in Names : disk[n].file.ver # Bad

\* Between two processes the newest backup is the show, when the worker alone
\* wrote it and got to the end: damage to show.json costs nothing that was saved.
\* (write_backup, prune_backups, try_backups.  A failed or killed save may lack
\* its backup, and a synchronous save racing the worker may be backed up first.)
BackupHoldsShow ==
  "raced" \notin past =>
    \A n \in Names : s.phase = "down" /\ Loadable(disk[n].file)
                      => disk[n].backups # <<>> /\ Last(disk[n].backups) = disk[n].file.ver

\* What is on disk can be trusted: after a crash it reads, its backup is the show
\* itself, and it never is another show's.
FilesCanBeTrusted == CrashLeavesReadable /\ BackupHoldsShow /\ FolderHoldsOwnShow

\* While the show in memory is the one the process opened or created, it is on
\* disk whenever it reads as saved.  (A show that is loaded, or saved under another
\* name, while a save is under way can be overwritten by that save, or be lost.)
OwnShowSaved == "moved" \notin past => CleanMeansSaved

\* After a panic, a recovery file with newer content than the show is proposed
\* at the next start, whatever the worker still wrote while the process was
\* unwinding, unless an older content was brought back on purpose.
\* (install_panic_hook, notice_recover_files)
RecoveryOffered ==
  [][ (/\ "revived" \notin past /\ moves = 0 /\ s.phase = "down" /\ s'.phase = "up"
       /\ hooked /\ Loadable(disk[lastShow].file) /\ recover > disk[lastShow].file.ver)
      => s'.pending = recover ]_hvars

\* Once the worker has caught up and no snapshot is due, what a panic would
\* write is what is in memory.  (recover_dirty, update_snapshot; install_show
\* drops the snapshot of a show that finds the queue full)
SnapshotCurrent ==
  [][ (Up /\ ~s.recDirty /\ queue = <<>> /\ worker.step = "idle" /\ "refused" \notin past
        => cell = s.ver)' ]_hvars

\* An edit eventually reaches the snapshot of the panic hook, even when the
\* queue was full at first.  (push_recover_snapshot)
EditReachesSnapshot == \A v \in Versions :
  (Up /\ s.ver = v) ~> (~Up \/ s.ver # v \/ cell = v \/ "refused" \in past)

\* An edit that was not saved is not lost with the process: the snapshot is the
\* show once the worker has caught up, and a panic makes it the next proposal.
RecoveryKept == SnapshotCurrent /\ RecoveryOffered

\* Nothing edited is forgotten: it is saved in the end, and it reaches the
\* snapshot of the panic hook.
NothingForgotten == DirtyIsSaved /\ EditReachesSnapshot
=============================================================================
