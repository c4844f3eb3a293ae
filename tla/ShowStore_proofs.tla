-------------------------- MODULE ShowStore_proofs --------------------------
(***************************************************************************)
(* Theorems about the save pipeline, for every set of folders, every       *)
(* capacity of the queue and every number of edits and faults.             *)
(***************************************************************************)
EXTENDS ShowHistory, SequenceTheorems, WellFoundedInduction, TLAPS

Sessions ==
  [phase : {"up", "closing", "down"}, name : Names, ver : Versions,
   dirty : BOOLEAN, gen : Nat, inFlight : BOOLEAN, recDirty : BOOLEAN,
   pending : Versions \cup {None}]
Queues == {q \in Seq(Job) : Len(q) <= QueueCap}
Workers == [step : Steps, job : Job, ok : BOOLEAN]
Results == Seq([gen : Nat, ok : BOOLEAN])
Disks == [Names -> Folder]

-----------------------------------------------------------------------------
(* Types: files.                                                           *)

LEMMA VersionsAreContents ==
  /\ Versions \subseteq Contents /\ None \in Contents /\ Bad \in Contents
  /\ 0 \in Versions
BY StoreAssumption DEF Versions, Contents

LEMMA FreshTyped == ASSUME NEW v \in Contents PROVE Fresh(v) \in File
BY DEF Fresh, File

LEMMA PrunedTyped ==
  ASSUME NEW b \in Seq(Contents) PROVE Pruned(b) \in Seq(Contents)
BY StoreAssumption DEF Pruned

LEMMA WithBackupTyped ==
  ASSUME NEW b \in Seq(Contents), NEW v \in Contents, NEW sameSecond \in BOOLEAN
  PROVE  WithBackup(b, v, sameSecond) \in Seq(Contents)
<1>1. CASE sameSecond /\ b # <<>>
  <2>1. Front(b) \in Seq(Contents)
    BY <1>1 DEF Front
  <2>2. Front(b) \o <<v>> \in Seq(Contents)
    BY <2>1
  <2> QED BY <1>1, <2>2, PrunedTyped DEF WithBackup
<1>2. CASE ~(sameSecond /\ b # <<>>)
  <2>1. Append(b, v) \in Seq(Contents)
    OBVIOUS
  <2> QED BY <1>2, <2>1, PrunedTyped DEF WithBackup
<1> QED BY <1>1, <1>2

LEMMA RenamedTyped ==
  ASSUME NEW d \in Folder, NEW v \in Contents PROVE Renamed(d, v) \in Folder
BY FreshTyped DEF Renamed, Folder

LEMMA SyncedTyped == ASSUME NEW d \in Folder PROVE Synced(d) \in Folder
BY DEF Synced, Folder

LEMMA SavedWholeTyped ==
  ASSUME NEW d \in Folder, NEW v \in Contents, NEW sameSecond \in BOOLEAN
  PROVE  SavedWhole(d, v, sameSecond) \in Folder
<1>1. Synced(Renamed(d, v)) \in Folder
  BY RenamedTyped, SyncedTyped
<1>2. WithBackup(d.backups, v, sameSecond) \in Seq(Contents)
  BY WithBackupTyped DEF Folder
<1> QED BY <1>1, <1>2 DEF SavedWhole, Folder

LEMMA EmptyFolderTyped == EmptyFolder \in Folder
BY FreshTyped, VersionsAreContents DEF EmptyFolder, Folder

LEMMA EnsuredTyped == ASSUME NEW d \in Folder PROVE Ensured(d) \in Folder
BY SavedWholeTyped, VersionsAreContents DEF Ensured

\* A non-empty set of naturals has a least element.
LEMMA LeastNatural ==
  ASSUME NEW S \in SUBSET Nat, S # {}
  PROVE  \E x \in S : \A y \in S : x <= y
<1> DEFINE R == OpToRel(<, Nat)
<1>1. \A x, y \in Nat : y < x => <<y, x>> \in R
  BY DEF OpToRel
<1>2. IsWellFoundedOn(R, Nat)
  BY NatLessThanWellFounded
<1> HIDE DEF R
<1>3. PICK x \in S : \A y \in S : ~(<<y, x>> \in R)
  BY <1>2, WFMin
<1>4. \A y \in S : ~(y < x)
  BY <1>1, <1>3
<1> QED BY <1>4

\* A non-empty set of naturals that is bounded has a largest element.
LEMMA MaxIsMember ==
  ASSUME NEW n \in Nat, NEW I \in SUBSET (0 .. n), I # {}
  PROVE  Max(I) \in I /\ \A i \in I : i <= Max(I)
<1> DEFINE Gaps == {g \in 0 .. n : n - g \in I}
<1>1. PICK i \in I : TRUE
  OBVIOUS
<1>2. i \in 0 .. n /\ n - i \in 0 .. n /\ n - (n - i) = i
  OBVIOUS
<1>3. n - i \in Gaps
  BY <1>2
<1>4. PICK g \in Gaps : \A h \in Gaps : g <= h
  <2>1. Gaps \in SUBSET Nat /\ Gaps # {}
    BY <1>3
  <2> HIDE DEF Gaps
  <2> QED BY <2>1, LeastNatural
<1>5. ASSUME NEW y \in I PROVE n - g >= y
  <2>1. y \in 0 .. n /\ n - y \in 0 .. n /\ n - (n - y) = y
    OBVIOUS
  <2>2. g <= n - y
    BY <1>4, <2>1
  <2> QED BY <2>1, <2>2
<1>6. \E z \in I : \A y \in I : z >= y
  BY <1>4, <1>5
<1> QED BY <1>6 DEF Max

\* The last good backup is a backup, and it is good.
LEMMA LastGoodIsGood ==
  ASSUME NEW b \in Seq(Contents)
  PROVE  LastGood(b) > 0 => LastGood(b) \in 1 .. Len(b) /\ b[LastGood(b)] \in Versions
<1> DEFINE I == {i \in 1 .. Len(b) : b[i] \in Versions}
<1>1. LastGood(b) = IF I # {} THEN Max(I) ELSE 0
  BY DEF LastGood, SelectLastInSeq
<1>2. CASE I # {}
  <2>1. Len(b) \in Nat /\ I \in SUBSET (0 .. Len(b))
    OBVIOUS
  <2>2. Max(I) \in I
    BY <1>2, <2>1, MaxIsMember
  <2> QED BY <1>1, <1>2, <2>2
<1> QED BY <1>1, <1>2

\* The start leaves a folder, and opens a content that is in it or the demo.
LEMMA RestoredTyped ==
  ASSUME NEW d \in Folder
  PROVE  /\ Restored(d) \in Folder
         /\ OpenedVer(d) \in Versions
         /\ OpenedVer(d) = 0 \/ (Source(d) # "none" /\ OpenedVer(d) = Restored(d).file.ver)
<1>1. d.backups \in Seq(Contents) /\ d.file.ver \in Contents
  BY DEF Folder, File
<1>2. CASE Source(d) = "file"
  <2>1. d.file.ver \in Versions
    BY <1>2 DEF Source, Loadable
  <2>2. Restored(d) = d
    BY <1>2 DEF Restored
  <2> QED BY <1>2, <2>1, <2>2 DEF OpenedVer
<1>3. CASE Source(d) = "backup"
  <2> DEFINE v == d.backups[LastGood(d.backups)]
  <2>1. v \in Versions
    BY <1>1, <1>3, LastGoodIsGood DEF Source
  <2>2. Restored(d) = Synced(Renamed(d, v))
    BY <1>3 DEF Restored
  <2> HIDE DEF v
  <2>3. Renamed(d, v) \in Folder /\ v \in Contents
    BY <2>1, RenamedTyped, VersionsAreContents
  <2>4. Restored(d) \in Folder
    BY <2>2, <2>3, SyncedTyped
  <2>5. Restored(d).file.ver = v
    BY <2>2 DEF Synced, Renamed, Fresh, Folder
  <2> QED BY <1>3, <2>1, <2>4, <2>5 DEF OpenedVer
<1>4. CASE Source(d) = "none"
  <2>1. OpenedVer(d) = 0
    BY <1>4 DEF OpenedVer
  <2>2. CASE d.backups # <<>>
    <3>1. Restored(d) = Synced(Renamed(d, Bad))
      BY <1>4, <2>2 DEF Restored
    <3>2. Renamed(d, Bad) \in Folder
      BY RenamedTyped, VersionsAreContents
    <3> QED BY <2>1, <3>1, <3>2, SyncedTyped, VersionsAreContents
  <2>3. CASE d.backups = <<>>
    <3>1. Restored(d) = [d EXCEPT !.file = Fresh(None), !.durable = Fresh(None)]
      BY <1>4, <2>3 DEF Restored
    <3>2. Fresh(None) \in File
      BY FreshTyped, VersionsAreContents
    <3>3. Restored(d) \in Folder
      BY <3>1, <3>2 DEF Folder
    <3> QED BY <2>1, <3>3, VersionsAreContents
  <2> QED BY <2>2, <2>3
<1>5. Source(d) \in {"file", "backup", "none"}
  BY DEF Source
<1> QED BY <1>2, <1>3, <1>4, <1>5

-----------------------------------------------------------------------------
(* Types: the session and its queue.                                       *)

LEMMA JobOfTyped ==
  ASSUME NEW session \in Sessions, NEW kind \in {"Save", "Snapshot"}
  PROVE  JobOf(kind, session) \in Job
BY DEF JobOf, Job, Sessions

LEMMA PostedTyped ==
  ASSUME NEW session \in Sessions, NEW kind \in {"Save", "Snapshot"},
         NEW q \in Queues, ~Full(q)
  PROVE  Append(q, JobOf(kind, session)) \in Queues
<1>1. JobOf(kind, session) \in Job
  BY JobOfTyped
<1> QED BY <1>1, StoreAssumption DEF Queues, Full

LEMMA PushSnapshotTyped ==
  ASSUME NEW session \in Sessions, NEW q \in Queues
  PROVE  /\ PushSnapshot(session, q)[1] \in Sessions
         /\ PushSnapshot(session, q)[2] \in Queues
<1>1. [session EXCEPT !.recDirty = FALSE] \in Sessions
  BY DEF Sessions
<1> QED BY <1>1, PostedTyped DEF PushSnapshot

LEMMA SaveShowTyped ==
  ASSUME NEW session \in Sessions, NEW q \in Queues
  PROVE  SaveShow(session, q)[1] \in Sessions /\ SaveShow(session, q)[2] \in Queues
<1>1. [session EXCEPT !.inFlight = TRUE, !.recDirty = FALSE] \in Sessions
  BY DEF Sessions
<1> QED BY <1>1, PostedTyped DEF SaveShow

LEMMA DrainedTyped ==
  ASSUME NEW session \in Sessions, NEW rs
  PROVE  Drained(session, rs) \in Sessions
BY DEF Drained, Sessions

LEMMA MarkedDirtyTyped ==
  ASSUME NEW session \in Sessions
  PROVE  MarkedDirty(session) \in Sessions
<1>1. session.gen + 1 \in Nat
  BY DEF Sessions
<1> QED BY <1>1 DEF MarkedDirty, Sessions

LEMMA InstalledTyped ==
  ASSUME NEW session \in Sessions, NEW name \in Names, NEW ver \in Versions,
         NEW q \in Queues
  PROVE  /\ Installed(session, name, ver, q)[1] \in Sessions
         /\ Installed(session, name, ver, q)[2] \in Queues
<1>1. [session EXCEPT !.name = name, !.ver = ver, !.dirty = FALSE] \in Sessions
  BY DEF Sessions
<1> QED BY <1>1, PushSnapshotTyped DEF Installed

LEMMA NewSessionTyped ==
  ASSUME NEW name \in Names, NEW ver \in Versions,
         NEW proposed \in Versions \cup {None}
  PROVE  NewSession(name, ver, proposed) \in Sessions
BY DEF NewSession, Sessions

LEMMA IdleTyped == Idle \in [step : Steps, job : Job, ok : BOOLEAN]
BY StoreAssumption, VersionsAreContents DEF Idle, Steps, Job

\* A synchronous save, done or not, leaves folders.
LEMMA SyncSaveTyped ==
  ASSUME TypeOK, NEW needed \in BOOLEAN, NEW ok \in BOOLEAN, NEW sameSecond \in BOOLEAN
  PROVE  SyncSave(needed, ok, sameSecond) \in [Names -> Folder]
<1>1. disk \in [Names -> Folder] /\ s.name \in Names /\ s.ver \in Contents
  BY VersionsAreContents DEF TypeOK
<1>2. disk[s.name] \in Folder
  BY <1>1
<1>3. SavedWhole(disk[s.name], s.ver, sameSecond) \in Folder
  BY <1>1, <1>2, SavedWholeTyped
<1>4. Renamed(disk[s.name], s.ver) \in Folder
  BY <1>1, <1>2, RenamedTyped
<1> QED BY <1>1, <1>3, <1>4 DEF SyncSave

LEMMA OutcomesAreBooleans == Outcomes \subseteq BOOLEAN
BY DEF Outcomes

-----------------------------------------------------------------------------
(* Type correctness.                                                       *)

\* The type invariant, with the names of this module.
LEMMA TypeParts ==
  TypeOK <=> /\ s \in Sessions
             /\ queue \in Queues
             /\ worker \in [step : Steps, job : Job, ok : BOOLEAN]
             /\ results \in Results
             /\ disk \in [Names -> Folder]
             /\ cell \in Versions \cup {None}
             /\ recover \in Versions \cup {None}
             /\ lastShow \in Names
             /\ edits \in Versions
             /\ faults \in 0 .. MaxFaults
BY DEF TypeOK, Sessions, Queues, Results

\* The same of the next state, in the direction the steps need.
LEMMA TypePartsNext ==
  /\ s' \in Sessions
  /\ queue' \in Queues
  /\ worker' \in [step : Steps, job : Job, ok : BOOLEAN]
  /\ results' \in Results
  /\ disk' \in [Names -> Folder]
  /\ cell' \in Versions \cup {None}
  /\ recover' \in Versions \cup {None}
  /\ lastShow' \in Names
  /\ edits' \in Versions
  /\ faults' \in 0 .. MaxFaults
  => TypeOK'
BY DEF TypeOK, Sessions, Queues, Results

LEMMA TypePartsNow == TypeOK' => s' \in Sessions
BY DEF TypeOK, Sessions

LEMMA InitTyped == Init => TypeOK
<1> SUFFICES ASSUME Init PROVE TypeOK
  OBVIOUS
<1>1. Stock[First] \in Versions /\ Stocked \in Versions
  BY StoreAssumption DEF Versions
<1>2. s \in Sessions
  BY <1>1, NewSessionTyped, StoreAssumption DEF Init
<1>3. queue \in Queues
  <2>1. JobOf("Snapshot", s) \in Job
    BY <1>2, JobOfTyped
  <2> QED BY <2>1, StoreAssumption DEF Init, Queues
<1>4. disk \in [Names -> Folder]
  <2>1. ASSUME NEW n \in Names, Stock[n] # None PROVE Stock[n] \in Contents
    BY <2>1, StoreAssumption DEF None, Contents, Versions
  <2>2. \A n \in Names : Stock[n] # None => SavedWhole(EmptyFolder, Stock[n], FALSE) \in Folder
    BY <2>1, SavedWholeTyped, EmptyFolderTyped
  <2> QED BY <2>2, EmptyFolderTyped DEF Init
<1>5. /\ worker = Idle /\ results = <<>> /\ cell = None /\ recover = None
      /\ lastShow = First /\ edits = Stocked /\ faults = 0
  BY DEF Init
<1>6. results \in Results /\ lastShow \in Names /\ faults \in 0 .. MaxFaults
  BY <1>5, StoreAssumption DEF Results
<1> QED BY <1>1, <1>2, <1>3, <1>4, <1>5, <1>6, IdleTyped, TypeParts

LEMMA OperatorTyped == TypeOK /\ (Operator \/ Create \/ Replace) => TypeOK'
<1> SUFFICES ASSUME TypeOK, Operator \/ Create \/ Replace PROVE TypeOK'
  OBVIOUS
<1>0. /\ s \in Sessions /\ queue \in Queues /\ s.name \in Names /\ s.ver \in Versions
      /\ disk \in [Names -> Folder] /\ s.dirty \in BOOLEAN /\ s.inFlight \in BOOLEAN
      /\ faults \in 0 .. MaxFaults
  BY TypeParts DEF Sessions
<1>1. CASE Edit
  <2>1. edits + 1 \in Versions
    BY <1>1, StoreAssumption DEF Edit, TypeOK, Versions
  <2>2. [s EXCEPT !.ver = edits + 1] \in Sessions
    BY <1>0, <2>1 DEF Sessions
  <2>3. s' \in Sessions
    BY <1>1, <2>2, MarkedDirtyTyped DEF Edit
  <2> QED BY <1>1, <2>1, <2>3, TypeParts, TypePartsNext DEF Edit
<1>2. CASE Save
  <2>1. s' \in Sessions /\ queue' \in Queues
    BY <1>0, <1>2, SaveShowTyped DEF Save, Posts
  <2> QED BY <1>2, <2>1, TypeParts, TypePartsNext DEF Save
<1>3. CASE RecoveryLoad
  <2>1. s.pending \in Versions /\ [s EXCEPT !.pending = None] \in Sessions
    BY <1>0, <1>3 DEF RecoveryLoad, Sessions
  <2>2. s' \in Sessions /\ queue' \in Queues
    BY <1>0, <1>3, <2>1, InstalledTyped, MarkedDirtyTyped DEF RecoveryLoad, Posts
  <2> QED BY <1>3, <2>2, TypeParts, TypePartsNext DEF RecoveryLoad
<1>4. CASE RecoveryDismiss
  <2>1. s' \in Sessions
    BY <1>0, <1>4 DEF RecoveryDismiss, Sessions
  <2> QED BY <1>4, <2>1, TypeParts, TypePartsNext DEF RecoveryDismiss
<1>5. ASSUME NEW n \in Names, SaveAs(n) PROVE TypeOK'
  <2>1. [s EXCEPT !.name = n] \in Sessions
    BY <1>0 DEF Sessions
  <2>2. s' \in Sessions /\ queue' \in Queues
    BY <1>0, <1>5, <2>1, SaveShowTyped DEF SaveAs, Posts
  <2> QED BY <1>5, <2>2, TypeParts, TypePartsNext DEF SaveAs
<1>6. ASSUME NEW needed \in BOOLEAN, NEW ok \in BOOLEAN, SyncFault(needed, ok)
      PROVE  faults' \in 0 .. MaxFaults
  BY <1>0, <1>6, StoreAssumption DEF SyncFault, Fault
<1>7. ASSUME NEW ok \in BOOLEAN, NEW sameSecond \in BOOLEAN, ShowNew(ok, sameSecond)
      PROVE  TypeOK'
  <2>1. s' \in Sessions /\ queue' \in Queues
    BY <1>0, <1>7, InstalledTyped, VersionsAreContents, StoreAssumption DEF ShowNew, Posts
  <2>2. disk' \in [Names -> Folder] /\ faults' \in 0 .. MaxFaults
    BY <1>0, <1>6, <1>7, SyncSaveTyped DEF ShowNew
  <2> QED BY <1>7, <2>1, <2>2, TypeParts, TypePartsNext DEF ShowNew
<1>8. ASSUME NEW ok \in BOOLEAN, NEW sameSecond \in BOOLEAN, Quit(ok, sameSecond)
      PROVE  TypeOK'
  <2>1. s' \in Sessions
    BY <1>0, <1>8 DEF Quit, Sessions
  <2>2. disk' \in [Names -> Folder] /\ faults' \in 0 .. MaxFaults
    <3>1. (s.dirty \/ s.inFlight) \in BOOLEAN
      OBVIOUS
    <3> QED BY <3>1, <1>6, <1>8, SyncSaveTyped DEF Quit
  <2> QED BY <1>8, <2>1, <2>2, TypeParts, TypePartsNext DEF Quit
<1>9. ASSUME NEW ok \in BOOLEAN, NEW sameSecond \in BOOLEAN, NEW n \in Names,
             Load(n, ok, sameSecond)
      PROVE  TypeOK'
  <2> DEFINE d == SyncSave(s.dirty, ok, sameSecond)
             kept == [s EXCEPT !.dirty = @ /\ ~ok]
  <2>1. kept \in Sessions
    BY <1>0 DEF Sessions
  <2>2. d \in [Names -> Folder] /\ disk' = d /\ faults' \in 0 .. MaxFaults
    BY <1>0, <1>6, <1>9, SyncSaveTyped DEF Load
  <2>3. CASE /\ Loadable(d[n].file)
             /\ Posts(Installed(kept, n, d[n].file.ver, queue)) /\ lastShow' = n
    <3>1. d[n].file.ver \in Versions
      BY <2>3 DEF Loadable
    <3> HIDE DEF d, kept
    <3>2. s' \in Sessions /\ queue' \in Queues
      BY <1>0, <2>1, <2>3, <3>1, InstalledTyped DEF Posts
    <3> QED BY <1>9, <2>2, <2>3, <3>2, TypeParts, TypePartsNext DEF Load
  <2>4. CASE Posts(<<kept, queue>>) /\ UNCHANGED lastShow
    <3>1. s' \in Sessions /\ queue' \in Queues
      BY <1>0, <2>1, <2>4 DEF Posts
    <3> QED BY <1>9, <2>2, <2>4, <3>1, TypeParts, TypePartsNext DEF Load
  <2> QED BY <1>9, <2>3, <2>4 DEF Load
<1> QED BY <1>1, <1>2, <1>3, <1>4, <1>5, <1>7, <1>8, <1>9, OutcomesAreBooleans
     DEF Operator, Create, Replace

LEMMA TickTyped == TypeOK /\ Tick => TypeOK'
<1> SUFFICES ASSUME TypeOK, NEW snapshotDue \in BOOLEAN, NEW saveDue \in BOOLEAN,
                    Autosave(snapshotDue, saveDue)
             PROVE  TypeOK'
  BY DEF Tick
<1> DEFINE drained == Drained(s, results)
           pushed  == IF drained.recDirty /\ snapshotDue
                      THEN PushSnapshot(drained, queue) ELSE <<drained, queue>>
<1>1. s \in Sessions /\ queue \in Queues
  BY TypeParts
<1>2. drained \in Sessions
  BY <1>1, DrainedTyped
<1>3. pushed[1] \in Sessions /\ pushed[2] \in Queues
  <2> HIDE DEF drained
  <2> QED BY <1>1, <1>2, PushSnapshotTyped
<1>4. \/ s' = SaveShow(pushed[1], pushed[2])[1] /\ queue' = SaveShow(pushed[1], pushed[2])[2]
      \/ s' = pushed[1] /\ queue' = pushed[2]
  BY DEF Autosave, Posts
<1>5. s' \in Sessions /\ queue' \in Queues
  <2> HIDE DEF pushed
  <2> QED BY <1>3, <1>4, SaveShowTyped
<1>6. results' = <<>> /\ UNCHANGED <<worker, disk, cell, recover, lastShow, edits, faults>>
  BY DEF Autosave
<1>7. results' \in Results
  BY <1>6 DEF Results
<1> QED BY <1>5, <1>6, <1>7, TypeParts, TypePartsNext

LEMMA WorkerTyped == TypeOK /\ WorkerStep => TypeOK'
<1> SUFFICES ASSUME TypeOK, WorkerStep PROVE TypeOK'
  OBVIOUS
<1>0. /\ queue \in Queues /\ results \in Results /\ disk \in [Names -> Folder]
      /\ worker.job \in Job /\ worker.ok \in BOOLEAN
      /\ worker.job.name \in Names /\ worker.job.ver \in Versions
      /\ worker.job.ver \in Contents /\ worker.job.gen \in Nat
      /\ worker \in [step : Steps, job : Job, ok : BOOLEAN]
      /\ faults \in 0 .. MaxFaults
  BY TypeParts, VersionsAreContents DEF Job
<1>1. CASE TakeJob
  <2>1. Head(queue) \in Job /\ Tail(queue) \in Queues
    <3>1. queue \in Seq(Job) /\ queue # <<>> /\ Len(queue) <= QueueCap
      BY <1>0, <1>1 DEF TakeJob, Queues
    <3>2. Head(queue) \in Job /\ Tail(queue) \in Seq(Job)
      BY <3>1
    <3>3. Len(Tail(queue)) <= QueueCap
      BY <3>1, StoreAssumption
    <3> QED BY <3>2, <3>3 DEF Queues
  <2>2. worker' \in [step : Steps, job : Job, ok : BOOLEAN]
    BY <1>1, <2>1 DEF TakeJob, Steps
  <2> QED BY <1>1, <2>1, <2>2, TypeParts, TypePartsNext DEF TakeJob
<1>2. CASE Publish
  <2>1. results' \in Results
    <3>1. [gen |-> worker.job.gen, ok |-> worker.ok] \in [gen : Nat, ok : BOOLEAN]
      BY <1>0
    <3>2. Append(results, [gen |-> worker.job.gen, ok |-> worker.ok]) \in Results
      BY <1>0, <3>1 DEF Results
    <3> QED BY <1>0, <1>2, <3>2 DEF Publish
  <2> QED BY <1>0, <1>2, <2>1, IdleTyped, TypeParts, TypePartsNext DEF Publish
<1>3. Fault => faults' \in 0 .. MaxFaults
  BY <1>0, StoreAssumption DEF Fault
<1>4. ASSUME NEW step \in Steps, NEW ok \in BOOLEAN
      PROVE  /\ [worker EXCEPT !.step = step] \in [step : Steps, job : Job, ok : BOOLEAN]
             /\ [worker EXCEPT !.step = step, !.ok = ok]
                  \in [step : Steps, job : Job, ok : BOOLEAN]
  BY <1>0
<1>5. {"publish", "sync", "backup"} \subseteq Steps
  BY DEF Steps
<1>6. ASSUME NEW ok \in BOOLEAN, WriteShow(ok) PROVE TypeOK'
  <2>1. Renamed(disk[worker.job.name], worker.job.ver) \in Folder
    BY <1>0, RenamedTyped
  <2>2. disk' \in [Names -> Folder] /\ faults' \in 0 .. MaxFaults
    BY <1>0, <1>3, <1>6, <2>1 DEF WriteShow, Target
  <2>3. worker' \in [step : Steps, job : Job, ok : BOOLEAN]
    BY <1>4, <1>5, <1>6 DEF WriteShow
  <2> QED BY <1>6, <2>2, <2>3, TypeParts, TypePartsNext DEF WriteShow
<1>7. ASSUME NEW ok \in BOOLEAN, SyncFolder(ok) PROVE TypeOK'
  <2>1. Synced(disk[worker.job.name]) \in Folder
    BY <1>0, SyncedTyped
  <2>2. disk' \in [Names -> Folder] /\ faults' \in 0 .. MaxFaults
    BY <1>0, <1>3, <1>7, <2>1 DEF SyncFolder
  <2>3. worker' \in [step : Steps, job : Job, ok : BOOLEAN]
    BY <1>4, <1>5, <1>7 DEF SyncFolder
  <2> QED BY <1>7, <2>2, <2>3, TypeParts, TypePartsNext DEF SyncFolder
<1>8. ASSUME NEW ok \in BOOLEAN, NEW sameSecond \in BOOLEAN, WriteBackup(ok, sameSecond)
      PROVE  TypeOK'
  <2>1. disk[worker.job.name] \in Folder
    BY <1>0
  <2>2. WithBackup(disk[worker.job.name].backups, worker.job.ver, sameSecond) \in Seq(Contents)
    BY <1>0, <2>1, WithBackupTyped DEF Folder
  <2>3. [disk[worker.job.name] EXCEPT !.backups =
           WithBackup(disk[worker.job.name].backups, worker.job.ver, sameSecond)] \in Folder
    BY <2>1, <2>2 DEF Folder
  <2>4. disk' \in [Names -> Folder] /\ faults' \in 0 .. MaxFaults
    BY <1>0, <1>3, <1>8, <2>3 DEF WriteBackup
  <2>5. worker' \in [step : Steps, job : Job, ok : BOOLEAN]
    BY <1>4, <1>5, <1>8 DEF WriteBackup
  <2> QED BY <1>8, <2>4, <2>5, TypeParts, TypePartsNext DEF WriteBackup
<1> QED BY <1>1, <1>2, <1>6, <1>7, <1>8, OutcomesAreBooleans DEF WorkerStep

LEMMA EndTyped == TypeOK /\ (Exit \/ Panic \/ Kill) => TypeOK'
<1> SUFFICES ASSUME TypeOK, Exit \/ Panic \/ Kill PROVE TypeOK'
  OBVIOUS
<1>0. /\ s \in Sessions /\ queue \in Queues /\ results \in Results
      /\ disk \in [Names -> Folder] /\ faults \in 0 .. MaxFaults
      /\ cell \in Versions \cup {None} /\ recover \in Versions \cup {None}
  BY TypeParts
<1>1. ASSUME NEW phase \in {"up", "closing", "down"}
      PROVE  [s EXCEPT !.phase = phase] \in Sessions
  BY <1>0 DEF Sessions
<1>2. ASSUME Gone
      PROVE  /\ s' \in Sessions /\ queue' \in Queues /\ results' \in Results
             /\ cell' \in Versions \cup {None}
             /\ worker' \in [step : Steps, job : Job, ok : BOOLEAN]
  BY <1>1, <1>2, IdleTyped, StoreAssumption DEF Gone, Queues, Results
<1>3. Fault => faults' \in 0 .. MaxFaults
  BY <1>0, StoreAssumption DEF Fault
<1>4. CASE Exit
  BY <1>2, <1>4, TypeParts, TypePartsNext DEF Exit
<1>5. CASE Panic
  <2>1. ASSUME NEW d \in Folder
        PROVE  [d EXCEPT !.file.old = TRUE, !.durable.old = TRUE] \in Folder
    BY DEF Folder, File
  <2>2. \A n \in Names :
          [disk[n] EXCEPT !.file.old = TRUE, !.durable.old = TRUE] \in Folder
    BY <1>0, <2>1
  <2>3. disk' \in [Names -> Folder]
    BY <1>0, <1>5, <2>2 DEF Panic
  <2>4. s' \in Sessions /\ recover' \in Versions \cup {None}
    BY <1>0, <1>1, <1>5 DEF Panic
  <2> QED BY <1>3, <1>5, <2>3, <2>4, TypeParts, TypePartsNext DEF Panic
<1>6. CASE Kill
  <2>1. PICK lost \in SUBSET {n \in Names : disk[n].file # disk[n].durable} :
          disk' = [n \in Names |->
                     IF n \in lost THEN [disk[n] EXCEPT !.file = disk[n].durable]
                     ELSE Synced(disk[n])]
    BY <1>6 DEF Kill
  <2>2. ASSUME NEW d \in Folder PROVE [d EXCEPT !.file = d.durable] \in Folder
    BY DEF Folder
  <2>3. disk' \in [Names -> Folder]
    BY <1>0, <2>1, <2>2, SyncedTyped
  <2> QED BY <1>2, <1>3, <1>6, <2>3, TypeParts, TypePartsNext DEF Kill
<1> QED BY <1>4, <1>5, <1>6

LEMMA CorruptTyped ==
  ASSUME TypeOK, NEW n \in Names, NEW backups \in {"kept", "bad", "gone"},
         Corrupt(n, backups)
  PROVE  TypeOK'
<1> DEFINE left == CASE backups = "kept" -> disk[n].backups
                     [] backups = "bad"  -> [i \in DOMAIN disk[n].backups |-> Bad]
                     [] backups = "gone" -> <<>>
<1>1. disk \in [Names -> Folder] /\ disk[n].backups \in Seq(Contents)
      /\ faults \in 0 .. MaxFaults
  BY TypeParts DEF Folder
<1>2. left \in Seq(Contents)
  <2>1. CASE backups = "kept"
    BY <1>1, <2>1
  <2>2. CASE backups = "gone"
    BY <2>2
  <2>3. CASE backups = "bad"
    <3> DEFINE bads == [i \in 1 .. Len(disk[n].backups) |-> Bad]
    <3>1. left = bads /\ Len(disk[n].backups) \in Nat
      BY <1>1, <2>3
    <3>2. bads \in [1 .. Len(disk[n].backups) -> Contents]
      BY VersionsAreContents
    <3> HIDE DEF bads
    <3>3. bads \in Seq(Contents)
      BY <3>1, <3>2, SeqDef
    <3> QED BY <3>1, <3>3
  <2> QED BY <2>1, <2>2, <2>3
<1>3. Fresh(Bad) \in File
  BY FreshTyped, VersionsAreContents
<1> HIDE DEF left
<1>4. [file |-> Fresh(Bad), durable |-> Fresh(Bad), backups |-> left] \in Folder
  BY <1>2, <1>3 DEF Folder
<1>5. disk' = [disk EXCEPT ![n] =
                 [file |-> Fresh(Bad), durable |-> Fresh(Bad), backups |-> left]]
  BY DEF Corrupt, left
<1>6. disk' \in [Names -> Folder] /\ faults' \in 0 .. MaxFaults
  BY <1>1, <1>4, <1>5, StoreAssumption DEF Corrupt, Fault
<1> QED BY <1>6, TypeParts, TypePartsNext DEF Corrupt

LEMMA RestartTyped == TypeOK /\ Restart => TypeOK'
<1> SUFFICES ASSUME TypeOK, Restart PROVE TypeOK'
  OBVIOUS
<1> DEFINE d == Ensured(disk[lastShow])
           name == OpenedName(lastShow, d)
<1>1. lastShow \in Names /\ disk \in [Names -> Folder] /\ recover \in Versions \cup {None}
  BY TypeParts
<1>2. d \in Folder
  BY <1>1, EnsuredTyped
<1>3. Restored(d) \in Folder /\ OpenedVer(d) \in Versions /\ name \in Names
  <2> HIDE DEF d
  <2> QED BY <1>1, <1>2, RestoredTyped, StoreAssumption DEF OpenedName
<1>4. disk' \in [Names -> Folder]
  BY <1>1, <1>3 DEF Restart
<1>5. s' \in Sessions
  <2> DEFINE proposed == Proposed(disk'[name].file)
  <2>1. proposed \in Versions \cup {None}
    BY <1>1 DEF Proposed
  <2>2. s' = NewSession(name, OpenedVer(d), proposed)
    BY DEF Restart
  <2> HIDE DEF d, name, proposed
  <2> QED BY <1>3, <2>1, <2>2, NewSessionTyped
<1>6. queue' \in Queues
  <2>1. ASSUME NEW session \in Sessions PROVE <<JobOf("Snapshot", session)>> \in Queues
    BY JobOfTyped, StoreAssumption DEF Queues
  <2> QED BY <1>5, <2>1 DEF Restart
<1> QED BY <1>4, <1>5, <1>6, TypeParts, TypePartsNext DEF Restart

\* Whatever the operator, the worker, the crashes and the damage do, the save
\* pipeline keeps its types; the queue never holds more than its capacity.
THEOREM StoreTyped == Spec => []TypeOK
<1>1. TypeOK /\ [Next]_vars => TypeOK'
  <2> SUFFICES ASSUME TypeOK, [Next]_vars PROVE TypeOK'
    OBVIOUS
  <2>1. CASE Next
    BY <2>1, OperatorTyped, TickTyped, WorkerTyped, EndTyped, CorruptTyped,
       RestartTyped DEF Next, Continue, Environment
  <2>2. CASE UNCHANGED vars
    BY <2>2, TypeParts, TypePartsNext DEF vars
  <2> QED BY <2>1, <2>2
<1> QED BY <1>1, InitTyped, PTL DEF Spec

-----------------------------------------------------------------------------
(* Nothing modified, nothing under way: the show is on disk.               *)
(*                                                                         *)
(* CleanMeansSaved is not inductive: it says nothing of the save that is   *)
(* under way, whose outcome will clear the flag.  The inductive invariant  *)
(* follows that save from the queue to the outcome: there is at most one,  *)
(* it carries the show as it was at its edit number, and once the worker   *)
(* has renamed and synced its file the folder holds what it carries.       *)

SaveIn(q) == {i \in DOMAIN q : q[i].kind = "Save"}
Saving(w) == w.step # "idle" /\ w.job.kind = "Save"
\* the edit number is that of the show in memory, and somebody edited it
Current(session, gen) == gen = session.gen /\ session.ver > 0
Visible(session, d) == d[session.name].file.ver = session.ver
Durable(session, d) == Visible(session, d) /\ d[session.name].durable.ver = session.ver

AtMostOneSave(session, q, w, rs) ==
  /\ ~session.inFlight => SaveIn(q) = {} /\ ~Saving(w) /\ rs = <<>>
  /\ Saving(w) => SaveIn(q) = {} /\ rs = <<>>
  /\ rs # <<>> => SaveIn(q) = {}
  /\ \A i, j \in SaveIn(q) : i = j

Carries(session, job) ==
  /\ job.gen <= session.gen
  /\ Current(session, job.gen) => job.name = session.name /\ job.ver = session.ver
  /\ ~session.dirty /\ session.ver > 0 => job.gen = session.gen
JobsCarry(session, q, w) ==
  /\ \A i \in SaveIn(q) : Carries(session, q[i])
  /\ Saving(w) => Carries(session, w.job)

WorkerWrote(session, w, d) ==
  /\ w.step \in {"write", "sync", "backup"} => w.job.kind = "Save"
  /\ Saving(w) /\ w.step \in {"write", "sync"} => ~w.ok
  /\ Saving(w) /\ Current(session, w.job.gen) =>
       /\ w.step = "sync" => Visible(session, d)
       /\ w.ok => Durable(session, d)

OutcomesTrue(session, rs, d) ==
  \A i \in DOMAIN rs :
    /\ rs[i].gen <= session.gen
    /\ rs[i].ok /\ Current(session, rs[i].gen) => Durable(session, d)

CleanOnDisk(session, d) ==
  ~session.dirty /\ session.ver > 0 =>
    Visible(session, d) /\ (session.gen > 0 => Durable(session, d))

Sound(session, q, w, rs, d) ==
  /\ AtMostOneSave(session, q, w, rs)
  /\ JobsCarry(session, q, w)
  /\ WorkerWrote(session, w, d)
  /\ OutcomesTrue(session, rs, d)
  /\ CleanOnDisk(session, d)

IInv ==
  /\ TypeOK
  /\ s.phase = "down" => queue = <<>> /\ worker = Idle /\ results = <<>>
  /\ Up => Sound(s, queue, worker, results, disk)

\* Two queues with the same saves at the same places.
SameSaves(q, r) == SaveIn(r) = SaveIn(q) /\ \A i \in SaveIn(q) : r[i] = q[i]

LEMMA ElementTyped ==
  ASSUME NEW S, NEW seq \in Seq(S), NEW i \in DOMAIN seq PROVE seq[i] \in S
OBVIOUS

LEMMA SoundBySaves ==
  ASSUME NEW session, NEW q, NEW r, NEW w, NEW rs, NEW d,
         Sound(session, q, w, rs, d), SameSaves(q, r)
  PROVE  Sound(session, r, w, rs, d)
BY DEF Sound, AtMostOneSave, JobsCarry, SameSaves

\* A snapshot at the end of the queue is no save.
LEMMA SnapshotIsNoSave ==
  ASSUME NEW q \in Queues, NEW job \in Job, job.kind = "Snapshot"
  PROVE  SameSaves(q, Append(q, job))
<1>1. Len(q) \in Nat /\ q \in Seq(Job)
  BY DEF Queues
<1>2. /\ DOMAIN Append(q, job) = 1 .. Len(q) + 1 /\ DOMAIN q = 1 .. Len(q)
      /\ Append(q, job)[Len(q) + 1] = job
      /\ \A i \in 1 .. Len(q) : Append(q, job)[i] = q[i]
  BY <1>1
<1> QED BY <1>1, <1>2 DEF SameSaves, SaveIn

LEMMA PushedSameSaves ==
  ASSUME NEW session \in Sessions, NEW q \in Queues
  PROVE  SameSaves(q, PushSnapshot(session, q)[2])
<1>1. JobOf("Snapshot", session) \in Job /\ JobOf("Snapshot", session).kind = "Snapshot"
  BY JobOfTyped DEF JobOf
<1>2. SameSaves(q, Append(q, JobOf("Snapshot", session)))
  BY <1>1, SnapshotIsNoSave
<1>3. SameSaves(q, q)
  BY DEF SameSaves
<1> QED BY <1>2, <1>3 DEF PushSnapshot

\* The session as the pipeline sees it: its snapshot flag and proposal are not.
LEMMA SoundOfFlags ==
  ASSUME NEW session, NEW other, NEW q, NEW w, NEW rs, NEW d,
         Sound(session, q, w, rs, d),
         other.name = session.name, other.ver = session.ver, other.gen = session.gen,
         other.dirty = session.dirty, other.inFlight = session.inFlight
  PROVE  Sound(other, q, w, rs, d)
BY DEF Sound, AtMostOneSave, JobsCarry, Carries, WorkerWrote, OutcomesTrue,
       CleanOnDisk, Current, Visible, Durable

LEMMA PushSnapshotSound ==
  ASSUME NEW session \in Sessions, NEW q \in Queues, NEW w, NEW rs, NEW d,
         Sound(session, q, w, rs, d)
  PROVE  Sound(PushSnapshot(session, q)[1], PushSnapshot(session, q)[2], w, rs, d)
<1> DEFINE r == PushSnapshot(session, q)[2]
           other == PushSnapshot(session, q)[1]
<1>1. Sound(session, r, w, rs, d)
  <2>1. SameSaves(q, r)
    BY PushedSameSaves
  <2> HIDE DEF r
  <2> QED BY <2>1, SoundBySaves
<1>2. /\ other.name = session.name /\ other.ver = session.ver
      /\ other.gen = session.gen /\ other.dirty = session.dirty
      /\ other.inFlight = session.inFlight
  BY DEF PushSnapshot, Sessions
<1> HIDE DEF r, other
<1>3. Sound(other, r, w, rs, d)
  BY <1>1, <1>2, SoundOfFlags
<1> QED BY <1>3 DEF r, other

\* A save is only posted when none is under way, and carries the show.
LEMMA SaveShowSound ==
  ASSUME NEW session \in Sessions, NEW q \in Queues, NEW w, NEW rs, NEW d,
         Sound(session, q, w, rs, d)
  PROVE  Sound(SaveShow(session, q)[1], SaveShow(session, q)[2], w, rs, d)
<1>1. CASE session.inFlight \/ Full(q)
  BY <1>1 DEF SaveShow
<1>2. CASE ~(session.inFlight \/ Full(q))
  <2> DEFINE job == JobOf("Save", session)
             r == Append(q, job)
             other == [session EXCEPT !.inFlight = TRUE, !.recDirty = FALSE]
  <2>1. SaveIn(q) = {} /\ ~Saving(w) /\ rs = <<>>
    BY <1>2 DEF Sound, AtMostOneSave
  <2>2. job \in Job /\ q \in Seq(Job) /\ Len(q) \in Nat
    BY JobOfTyped DEF Queues
  <2>3. /\ job.kind = "Save" /\ job.name = session.name /\ job.ver = session.ver
        /\ job.gen = session.gen
    BY DEF JobOf
  <2>4. /\ other.name = session.name /\ other.ver = session.ver
        /\ other.gen = session.gen /\ other.dirty = session.dirty /\ other.inFlight
    BY DEF Sessions
  <2>5. session.gen \in Nat
    BY DEF Sessions
  <2> HIDE DEF job, other
  <2>6. /\ DOMAIN r = 1 .. Len(q) + 1 /\ DOMAIN q = 1 .. Len(q)
        /\ r[Len(q) + 1] = job /\ \A i \in 1 .. Len(q) : r[i] = q[i]
    BY <2>2
  <2>7. \A i \in SaveIn(r) : i = Len(q) + 1 /\ r[i] = job
    BY <2>1, <2>2, <2>6 DEF SaveIn
  <2> HIDE DEF r
  <2>8. AtMostOneSave(other, r, w, rs)
    BY <2>1, <2>4, <2>7 DEF AtMostOneSave
  <2>9. JobsCarry(other, r, w)
    BY <2>1, <2>3, <2>4, <2>5, <2>7 DEF JobsCarry, Carries, Current
  <2>10. WorkerWrote(other, w, d) /\ OutcomesTrue(other, rs, d) /\ CleanOnDisk(other, d)
    BY <2>4 DEF Sound, WorkerWrote, OutcomesTrue, CleanOnDisk, Current, Visible, Durable
  <2>11. Sound(other, r, w, rs, d)
    BY <2>8, <2>9, <2>10 DEF Sound
  <2>12. SaveShow(session, q) = <<other, r>>
    BY <1>2 DEF SaveShow, other, r, job
  <2> QED BY <2>11, <2>12
<1> QED BY <1>1, <1>2

\* The modified flag falls only on an outcome of the show as it is in memory.
LEMMA DrainedSound ==
  ASSUME NEW session \in Sessions, NEW q, NEW w, NEW rs \in Results, NEW d,
         Sound(session, q, w, rs, d)
  PROVE  Sound(Drained(session, rs), q, w, <<>>, d)
<1>1. CASE rs = <<>>
  BY <1>1 DEF Drained
<1>2. CASE rs # <<>>
  <2> DEFINE other == Drained(session, rs)
  <2>1. SaveIn(q) = {} /\ ~Saving(w)
    BY <1>2 DEF Sound, AtMostOneSave
  <2>2. /\ other.name = session.name /\ other.ver = session.ver
        /\ other.gen = session.gen
        /\ other.dirty = (session.dirty
             /\ ~\E i \in DOMAIN rs : rs[i].ok /\ rs[i].gen = session.gen)
    BY <1>2 DEF Drained, Sessions
  <2> HIDE DEF other
  <2>3. AtMostOneSave(other, q, w, <<>>)
    BY <2>1 DEF AtMostOneSave
  <2>4. JobsCarry(other, q, w)
    BY <2>1 DEF JobsCarry
  <2>5. WorkerWrote(other, w, d)
    BY <2>1 DEF Sound, WorkerWrote
  <2>6. OutcomesTrue(other, <<>>, d)
    BY DEF OutcomesTrue
  <2>7. CleanOnDisk(other, d)
    <3>1. ASSUME ~other.dirty, other.ver > 0, session.dirty
          PROVE  Durable(session, d)
      BY <2>2, <3>1 DEF Sound, OutcomesTrue, Current
    <3>2. (Visible(other, d) <=> Visible(session, d)) /\ (Durable(other, d) <=> Durable(session, d))
      BY <2>2 DEF Visible, Durable
    <3> QED BY <2>2, <3>1, <3>2 DEF Sound, CleanOnDisk, Durable
  <2>8. Sound(other, q, w, <<>>, d)
    BY <2>3, <2>4, <2>5, <2>6, <2>7 DEF Sound
  <2> QED BY <2>8 DEF other
<1> QED BY <1>1, <1>2

\* After an edit every save under way carries an older edit number.
LEMMA EditedSound ==
  ASSUME NEW session \in Sessions, NEW other, NEW q, NEW w, NEW rs, NEW d,
         q \in Queues, w \in Workers, rs \in Results,
         Sound(session, q, w, rs, d),
         other.gen = session.gen + 1, other.dirty, other.inFlight = session.inFlight
  PROVE  Sound(other, q, w, rs, d)
<1>1. session.gen \in Nat /\ w.job.gen \in Nat
      /\ (\A i \in SaveIn(q) : q[i].gen \in Nat) /\ (\A i \in DOMAIN rs : rs[i].gen \in Nat)
  <2>1. session.gen \in Nat /\ w.job.gen \in Nat
    BY DEF Sessions, Workers, Job
  <2>2. \A i \in DOMAIN q : q[i] \in Job
    BY DEF Queues
  <2>3. \A i \in DOMAIN rs : rs[i] \in [gen : Nat, ok : BOOLEAN]
    BY ElementTyped DEF Results
  <2> QED BY <2>1, <2>2, <2>3 DEF SaveIn, Job
<1>2. \A gen \in Nat : gen <= session.gen => gen <= other.gen /\ gen # other.gen
  BY <1>1
<1>3. AtMostOneSave(other, q, w, rs)
  BY DEF Sound, AtMostOneSave
<1>4. JobsCarry(other, q, w)
  BY <1>1, <1>2 DEF Sound, JobsCarry, Carries, Current
<1>5. WorkerWrote(other, w, d)
  BY <1>1, <1>2 DEF Sound, WorkerWrote, JobsCarry, Carries, Current
<1>6. OutcomesTrue(other, rs, d)
  BY <1>1, <1>2 DEF Sound, OutcomesTrue, Current
<1>7. CleanOnDisk(other, d)
  BY DEF CleanOnDisk
<1> QED BY <1>3, <1>4, <1>5, <1>6, <1>7 DEF Sound

\* Of a show nobody edited nothing is claimed, whatever is still under way.
LEMMA UneditedSound ==
  ASSUME NEW session, NEW other, NEW q, NEW w, NEW rs, NEW d, NEW e,
         Sound(session, q, w, rs, d),
         other.ver = 0, other.gen = session.gen, other.inFlight = session.inFlight
  PROVE  Sound(other, q, w, rs, e)
<1>1. ~(other.ver > 0)
  OBVIOUS
<1>2. AtMostOneSave(other, q, w, rs)
  BY DEF Sound, AtMostOneSave
<1>3. JobsCarry(other, q, w)
  BY <1>1 DEF Sound, JobsCarry, Carries, Current
<1>4. WorkerWrote(other, w, e)
  BY <1>1 DEF Sound, WorkerWrote, Current
<1>5. OutcomesTrue(other, rs, e) /\ CleanOnDisk(other, e)
  BY <1>1 DEF Sound, OutcomesTrue, CleanOnDisk, Current
<1> QED BY <1>2, <1>3, <1>4, <1>5 DEF Sound

-----------------------------------------------------------------------------
(* The invariant is kept by every step, when no show is loaded or renamed. *)

\* A process that starts with a clean show, its file on disk, and no save.
LEMMA FreshSound ==
  ASSUME NEW session \in Sessions, NEW d,
         ~session.dirty, session.gen = 0,
         session.ver > 0 => Visible(session, d)
  PROVE  Sound(session, <<JobOf("Snapshot", session)>>, Idle, <<>>, d)
<1> DEFINE q == <<JobOf("Snapshot", session)>>
<1>1. SaveIn(q) = {}
  BY DEF SaveIn, JobOf
<1>2. ~Saving(Idle) /\ Idle.step = "idle"
  BY DEF Saving, Idle
<1> HIDE DEF q
<1>3. AtMostOneSave(session, q, Idle, <<>>) /\ JobsCarry(session, q, Idle)
  BY <1>1, <1>2 DEF AtMostOneSave, JobsCarry
<1>4. WorkerWrote(session, Idle, d) /\ OutcomesTrue(session, <<>>, d)
  BY <1>2 DEF WorkerWrote, OutcomesTrue
<1>5. CleanOnDisk(session, d)
  BY DEF CleanOnDisk
<1> QED BY <1>3, <1>4, <1>5 DEF Sound, q

LEMMA InitSound == Init => IInv
<1> SUFFICES ASSUME Init PROVE IInv
  OBVIOUS
<1>1. TypeOK /\ s \in Sessions
  BY InitTyped, TypeParts
<1>2. s = NewSession(First, Stock[First], None)
  BY DEF Init
<1>3. s.phase = "up" /\ ~s.dirty /\ s.gen = 0 /\ s.name = First /\ s.ver = Stock[First]
  BY <1>2 DEF NewSession
<1>4. Visible(s, disk)
  <2>0. First \in Names /\ Stock[First] # None
    BY StoreAssumption DEF None
  <2>1. disk[First] = SavedWhole(EmptyFolder, Stock[First], FALSE)
    BY <2>0 DEF Init
  <2>2. SavedWhole(EmptyFolder, Stock[First], FALSE).file.ver = Stock[First]
    BY DEF SavedWhole, Synced, Renamed, EmptyFolder, Fresh
  <2> QED BY <1>3, <2>1, <2>2 DEF Visible
<1>5. queue = <<JobOf("Snapshot", s)>> /\ worker = Idle /\ results = <<>>
  BY DEF Init
<1>6. Sound(s, queue, worker, results, disk)
  BY <1>1, <1>3, <1>4, <1>5, FreshSound
<1> QED BY <1>1, <1>3, <1>6 DEF IInv

LEMMA OperatorSound ==
  ASSUME IInv, Operator \/ Create
  PROVE  IInv'
<1>1. TypeOK'
  BY OperatorTyped DEF IInv
<1>2. /\ s \in Sessions /\ queue \in Queues /\ worker \in Workers /\ results \in Results
  BY TypeParts DEF IInv, Workers
<1>3. CASE Edit
  <2>1. /\ s'.phase = "up" /\ s'.gen = s.gen + 1 /\ s'.dirty /\ s'.inFlight = s.inFlight
        /\ Sound(s, queue, worker, results, disk)
    BY <1>2, <1>3 DEF Edit, MarkedDirty, Up, IInv, Sessions
  <2>2. Sound(s', queue, worker, results, disk)
    BY <1>2, <2>1, EditedSound
  <2> QED BY <1>1, <1>3, <2>1, <2>2 DEF IInv, Edit
<1>4. CASE Save
  <2>1. Sound(s, queue, worker, results, disk) /\ s.phase = "up"
    BY <1>4 DEF Save, Up, IInv
  <2>2. Sound(s', queue', worker, results, disk)
    BY <1>2, <1>4, <2>1, SaveShowSound DEF Save, Posts
  <2>3. s'.phase = "up"
    BY <1>2, <1>4, <2>1 DEF Save, Posts, SaveShow, Sessions
  <2> QED BY <1>1, <1>4, <2>2, <2>3 DEF IInv, Save
<1>5. CASE RecoveryLoad
  <2> DEFINE x == [[s EXCEPT !.pending = None] EXCEPT !.name = s.name, !.ver = s.pending,
                                                      !.dirty = FALSE]
  <2>1. x \in Sessions /\ x.gen = s.gen /\ x.inFlight = s.inFlight /\ x.phase = "up"
    BY <1>2, <1>5 DEF RecoveryLoad, Sessions, Up
  <2>2. s' = MarkedDirty(PushSnapshot(x, queue)[1]) /\ queue' = PushSnapshot(x, queue)[2]
    BY <1>2, <1>5 DEF RecoveryLoad, Posts, Installed, Sessions
  <2> HIDE DEF x
  <2>3. /\ s'.phase = "up" /\ s'.gen = s.gen + 1 /\ s'.dirty /\ s'.inFlight = s.inFlight
    BY <2>1, <2>2 DEF MarkedDirty, PushSnapshot, Sessions
  <2>4. Sound(s', queue, worker, results, disk)
    <3>1. Sound(s, queue, worker, results, disk)
      BY <1>5 DEF RecoveryLoad, Up, IInv
    <3> QED BY <1>2, <2>3, <3>1, EditedSound
  <2>5. SameSaves(queue, queue')
    BY <1>2, <2>1, <2>2, PushedSameSaves
  <2>6. Sound(s', queue', worker, results, disk)
    BY <2>4, <2>5, SoundBySaves
  <2> QED BY <1>1, <1>5, <2>3, <2>6 DEF IInv, RecoveryLoad
<1>6. CASE RecoveryDismiss
  <2>1. /\ s'.name = s.name /\ s'.ver = s.ver /\ s'.gen = s.gen /\ s'.dirty = s.dirty
        /\ s'.inFlight = s.inFlight /\ s'.phase = "up"
        /\ Sound(s, queue, worker, results, disk)
    BY <1>2, <1>6 DEF RecoveryDismiss, Up, IInv, Sessions
  <2>2. Sound(s', queue, worker, results, disk)
    BY <2>1, SoundOfFlags
  <2> QED BY <1>1, <1>6, <2>1, <2>2 DEF IInv, RecoveryDismiss
<1>7. ASSUME NEW ok \in BOOLEAN, NEW sameSecond \in BOOLEAN, ShowNew(ok, sameSecond)
      PROVE  IInv'
  <2> DEFINE x == [s EXCEPT !.name = NewName, !.ver = 0, !.dirty = FALSE]
  <2>1. x \in Sessions /\ x.ver = 0 /\ x.gen = s.gen /\ x.inFlight = s.inFlight
        /\ x.phase = "up"
    BY <1>2, <1>7, VersionsAreContents, StoreAssumption DEF ShowNew, Sessions, Up
  <2>2. s' = PushSnapshot(x, queue)[1] /\ queue' = PushSnapshot(x, queue)[2]
    BY <1>7 DEF ShowNew, Posts, Installed
  <2> HIDE DEF x
  <2>3. Sound(x, queue, worker, results, disk')
    <3>1. Sound(s, queue, worker, results, disk)
      BY <1>7 DEF ShowNew, Up, IInv
    <3> QED BY <2>1, <3>1, UneditedSound
  <2>4. Sound(s', queue', worker, results, disk')
    BY <1>2, <2>1, <2>2, <2>3, PushSnapshotSound
  <2>5. s'.phase = "up"
    BY <2>1, <2>2 DEF PushSnapshot, Sessions
  <2> QED BY <1>1, <1>7, <2>4, <2>5 DEF IInv, ShowNew
<1>8. ASSUME NEW ok \in BOOLEAN, NEW sameSecond \in BOOLEAN, Quit(ok, sameSecond)
      PROVE  IInv'
  <2>1. s'.phase = "closing"
    BY <1>2, <1>8 DEF Quit, Sessions
  <2> QED BY <1>1, <2>1 DEF IInv, Up
<1> QED BY <1>3, <1>4, <1>5, <1>6, <1>7, <1>8, OutcomesAreBooleans
     DEF Operator, Create

LEMMA TickSound ==
  ASSUME IInv, NEW snapshotDue \in BOOLEAN, NEW saveDue \in BOOLEAN,
         Autosave(snapshotDue, saveDue)
  PROVE  IInv'
<1> DEFINE drained == Drained(s, results)
           pushed  == IF drained.recDirty /\ snapshotDue
                      THEN PushSnapshot(drained, queue) ELSE <<drained, queue>>
<1>1. TypeOK' /\ s \in Sessions /\ queue \in Queues /\ results \in Results
  BY TickTyped, TypeParts DEF IInv, Tick
<1>2. Sound(s, queue, worker, results, disk) /\ s.phase = "up"
  BY DEF IInv, Autosave, Up
<1>3. drained \in Sessions /\ Sound(drained, queue, worker, <<>>, disk)
  BY <1>1, <1>2, DrainedTyped, DrainedSound
<1>4. drained.phase = "up"
  BY <1>1, <1>2 DEF Drained, Sessions
<1> HIDE DEF drained
<1>5. /\ pushed[1] \in Sessions /\ pushed[2] \in Queues /\ pushed[1].phase = "up"
      /\ Sound(pushed[1], pushed[2], worker, <<>>, disk)
  <2>1. PushSnapshot(drained, queue)[1].phase = "up"
    BY <1>3, <1>4 DEF PushSnapshot, Sessions
  <2> QED BY <1>1, <1>3, <1>4, <2>1, PushSnapshotTyped, PushSnapshotSound
<1>6. \/ s' = SaveShow(pushed[1], pushed[2])[1] /\ queue' = SaveShow(pushed[1], pushed[2])[2]
      \/ s' = pushed[1] /\ queue' = pushed[2]
  BY DEF Autosave, Posts, drained
<1> HIDE DEF pushed
<1>7. Sound(s', queue', worker, <<>>, disk)
  BY <1>5, <1>6, SaveShowSound
<1>8. s'.phase = "up"
  BY <1>5, <1>6 DEF SaveShow, Sessions
<1> QED BY <1>1, <1>7, <1>8 DEF IInv, Autosave

\* A backup leaves what the show is in its folder, and the other folders.
BackedUp(d, m, b) == [d EXCEPT ![m] = [d[m] EXCEPT !.backups = b]]
LEMMA BackupOnly ==
  ASSUME NEW d \in Disks, NEW e, NEW m, NEW b, e = d \/ e = BackedUp(d, m, b)
  PROVE  \A n \in Names : e[n].file = d[n].file /\ e[n].durable = d[n].durable
<1> SUFFICES ASSUME NEW n \in Names PROVE e[n].file = d[n].file /\ e[n].durable = d[n].durable
  OBVIOUS
<1>1. n \in DOMAIN d /\ d[n] \in Folder
  BY DEF Disks
<1> DEFINE a == [d[m] EXCEPT !.backups = b]
<1>2. n = m => a.file = d[n].file /\ a.durable = d[n].durable
  BY <1>1 DEF Folder
<1> HIDE DEF a
<1>3. e = d \/ e = [d EXCEPT ![m] = a]
  BY Zenon DEF a, BackedUp
<1>4. CASE e = d
  BY <1>4
<1>5. CASE e = [d EXCEPT ![m] = a]
  <2>1. e[n] = IF n = m THEN a ELSE d[n]
    BY <1>1, <1>5, Zenon
  <2> QED BY <1>2, <2>1
<1> QED BY <1>3, <1>4, <1>5

\* What the worker's steps leave of the save it executes.
LEMMA WorkerSound ==
  ASSUME IInv, WorkerStep
  PROVE  IInv'
<1>1. TypeOK'
  BY WorkerTyped DEF IInv
<1>2. /\ s \in Sessions /\ queue \in Queues /\ worker \in Workers /\ results \in Results
      /\ disk \in Disks
  BY TypeParts DEF IInv, Workers, Disks
<1>3. UNCHANGED s
  BY DEF WorkerStep, TakeJob, Publish, WriteShow, SyncFolder, WriteBackup
<1>4. worker.step # "idle" \/ queue # <<>>
  BY DEF WorkerStep, TakeJob, Publish, WriteShow, SyncFolder, WriteBackup
<1>5. s.phase # "down"
  BY <1>4 DEF IInv, Idle
<1>6. SUFFICES ASSUME Up, Sound(s, queue, worker, results, disk)
               PROVE  Sound(s, queue', worker', results', disk')
  BY <1>1, <1>3, <1>5 DEF IInv, Up
<1>7. CASE TakeJob
  <2> DEFINE job == Head(queue)
             rest == Tail(queue)
  <2>1. /\ queue # <<>> /\ queue \in Seq(Job) /\ Len(queue) \in Nat
        /\ job = queue[1] /\ 1 \in DOMAIN queue
        /\ \A i \in DOMAIN rest : i + 1 \in DOMAIN queue /\ rest[i] = queue[i + 1] /\ i \in Nat \ {0}
    BY <1>2, <1>7 DEF TakeJob, Queues
  <2>2. /\ worker.step = "idle" /\ queue' = rest
        /\ worker' = [step |-> IF job.kind = "Save" THEN "write" ELSE "publish",
                      job |-> job, ok |-> FALSE]
        /\ UNCHANGED <<results, disk>>
    BY <1>7 DEF TakeJob
  <2>3. \A i \in SaveIn(rest) : i + 1 \in SaveIn(queue) /\ rest[i] = queue[i + 1] /\ i # 0
    BY <2>1 DEF SaveIn
  <2>4. job.kind = "Save" => 1 \in SaveIn(queue)
    BY <2>1 DEF SaveIn
  <2> HIDE DEF job, rest
  <2>5. job.kind = "Save" => SaveIn(rest) = {} /\ results = <<>>
    <3>1. ASSUME job.kind = "Save", NEW i \in SaveIn(rest) PROVE FALSE
      <4>1. i + 1 = 1 /\ i \in Nat /\ i # 0
        BY <2>1, <2>3, <2>4, <3>1, <1>6 DEF Sound, AtMostOneSave, SaveIn
      <4> QED BY <4>1
    <3>2. job.kind = "Save" => results = <<>>
      BY <2>4, <1>6 DEF Sound, AtMostOneSave
    <3> QED BY <3>1, <3>2
  <2>6. Saving(worker') => job.kind = "Save" /\ worker'.job = job
    BY <2>2 DEF Saving
  <2>7. AtMostOneSave(s, rest, worker', results)
    <3>1. ~s.inFlight => SaveIn(rest) = {} /\ ~Saving(worker') /\ results = <<>>
      BY <2>3, <2>4, <2>6, <1>6 DEF Sound, AtMostOneSave
    <3>2. results # <<>> => SaveIn(rest) = {}
      BY <2>3, <1>6 DEF Sound, AtMostOneSave
    <3>3. \A i, j \in SaveIn(rest) : i = j
      <4>1. ASSUME NEW i \in SaveIn(rest), NEW j \in SaveIn(rest) PROVE i = j
        <5>1. i + 1 = j + 1 /\ i \in Nat /\ j \in Nat
          BY <2>1, <2>3, <1>6 DEF Sound, AtMostOneSave, SaveIn
        <5> QED BY <5>1
      <4> QED BY <4>1
    <3> QED BY <2>5, <2>6, <3>1, <3>2, <3>3 DEF AtMostOneSave
  <2>8. JobsCarry(s, rest, worker')
    BY <2>1, <2>3, <2>4, <2>6, <1>6 DEF Sound, JobsCarry
  <2>9. WorkerWrote(s, worker', disk)
    BY <2>2 DEF WorkerWrote
  <2> QED BY <1>6, <2>2, <2>7, <2>8, <2>9 DEF Sound
<1>8. CASE Publish
  <2>1. worker' = Idle /\ UNCHANGED <<queue, disk>> /\ worker.step = "publish"
    BY <1>8 DEF Publish
  <2>2. ~Saving(Idle) /\ Idle.step = "idle"
    BY DEF Saving, Idle
  <2>3. CASE worker.job.kind = "Save"
    <3> DEFINE outcome == [gen |-> worker.job.gen, ok |-> worker.ok]
    <3>1. Saving(worker)
      BY <2>1, <2>3 DEF Saving
    <3>2. SaveIn(queue) = {} /\ results = <<>> /\ s.inFlight
      BY <1>6, <3>1 DEF Sound, AtMostOneSave
    <3>3. results' = <<outcome>>
      BY <1>8, <2>3, <3>2 DEF Publish
    <3>4. AtMostOneSave(s, queue, Idle, results')
      BY <2>2, <3>2 DEF AtMostOneSave
    <3>5. JobsCarry(s, queue, Idle) /\ WorkerWrote(s, Idle, disk)
      BY <2>2, <3>2 DEF JobsCarry, WorkerWrote
    <3>6. /\ outcome.gen <= s.gen
          /\ outcome.ok /\ Current(s, outcome.gen) => Durable(s, disk)
      BY <1>6, <3>1 DEF Sound, JobsCarry, Carries, WorkerWrote
    <3>7. OutcomesTrue(s, results', disk)
      <4> HIDE DEF outcome
      <4> QED BY <3>3, <3>6 DEF OutcomesTrue
    <3> QED BY <1>6, <2>1, <3>4, <3>5, <3>7 DEF Sound
  <2>4. CASE worker.job.kind # "Save"
    <3>1. results' = results
      BY <1>8, <2>4 DEF Publish
    <3>2. AtMostOneSave(s, queue, Idle, results)
      BY <1>6, <2>2 DEF Sound, AtMostOneSave
    <3>3. JobsCarry(s, queue, Idle) /\ WorkerWrote(s, Idle, disk)
      BY <1>6, <2>2 DEF Sound, JobsCarry, WorkerWrote
    <3> QED BY <1>6, <2>1, <3>1, <3>2, <3>3 DEF Sound
  <2> QED BY <2>3, <2>4
\* the remaining steps keep the job, and leave idle out
<1>9. ASSUME UNCHANGED <<queue, results>>, worker'.job = worker.job,
             worker.step \in {"write", "sync", "backup"}, worker'.step # "idle",
             WorkerWrote(s, worker', disk'), OutcomesTrue(s, results, disk'),
             CleanOnDisk(s, disk')
      PROVE  Sound(s, queue', worker', results', disk')
  <2>1. worker.job.kind = "Save" /\ Saving(worker) /\ Saving(worker')
    BY <1>6, <1>9 DEF Sound, WorkerWrote, Saving
  <2>2. AtMostOneSave(s, queue, worker', results) /\ JobsCarry(s, queue, worker')
    BY <1>6, <1>9, <2>1 DEF Sound, AtMostOneSave, JobsCarry
  <2> QED BY <1>9, <2>2 DEF Sound
<1>10. worker.step \in {"write", "sync", "backup"} =>
         /\ worker.job.kind = "Save" /\ Saving(worker) /\ results = <<>>
         /\ Carries(s, worker.job)
  BY <1>6 DEF Sound, WorkerWrote, Saving, AtMostOneSave, JobsCarry
<1>11. worker.job.name \in Names /\ s.name \in Names /\ disk[s.name] \in Folder
       /\ disk[worker.job.name] \in Folder
  BY <1>2 DEF Workers, Job, Sessions, Disks
<1>12. ASSUME NEW ok \in BOOLEAN, WriteShow(ok)
       PROVE  Sound(s, queue', worker', results', disk')
  <2>1. worker.step = "write" /\ UNCHANGED <<queue, results>> /\ ~worker.ok
    BY <1>6, <1>10, <1>12 DEF WriteShow, Sound, WorkerWrote
  <2>2. CASE ok
    <3>1. worker' = [worker EXCEPT !.step = "sync"]
      BY <1>12, <2>2 DEF WriteShow
    <3>2. worker'.job = worker.job /\ worker'.step = "sync" /\ ~worker'.ok
      BY <1>2, <2>1, <3>1 DEF Workers
    <3>3. disk' = [disk EXCEPT ![worker.job.name] = Renamed(disk[worker.job.name], worker.job.ver)]
      BY <1>12, <2>2 DEF WriteShow, Target
    <3>4. \A n \in Names : /\ disk'[n].durable = disk[n].durable
                           /\ n # worker.job.name => disk'[n].file = disk[n].file
                           /\ n = worker.job.name => disk'[n].file.ver = worker.job.ver
      BY <1>2, <1>11, <3>3 DEF Renamed, Fresh, Disks, Folder
    <3>5. Current(s, worker.job.gen) => Visible(s, disk')
      BY <1>10, <1>11, <2>1, <3>4 DEF Carries, Visible
    <3>6. WorkerWrote(s, worker', disk')
      BY <1>10, <2>1, <3>2, <3>5 DEF WorkerWrote
    <3>7. CleanOnDisk(s, disk')
      <4>1. ASSUME ~s.dirty, s.ver > 0 PROVE Current(s, worker.job.gen)
        BY <1>10, <2>1, <4>1 DEF Carries, Current
      <4>2. Durable(s, disk) => disk'[s.name].durable.ver = s.ver
        BY <1>11, <3>4 DEF Durable
      <4> QED BY <1>6, <3>5, <4>1, <4>2 DEF Sound, CleanOnDisk, Durable
    <3>8. OutcomesTrue(s, results, disk')
      BY <1>10, <2>1 DEF OutcomesTrue
    <3> QED BY <1>9, <2>1, <3>2, <3>6, <3>7, <3>8
  <2>3. CASE ~ok
    <3>1. worker' = [worker EXCEPT !.step = "publish"] /\ disk' = disk
      BY <1>12, <2>3 DEF WriteShow
    <3>2. worker'.job = worker.job /\ worker'.step = "publish" /\ ~worker'.ok
      BY <1>2, <2>1, <3>1 DEF Workers
    <3>3. WorkerWrote(s, worker', disk')
      BY <3>2 DEF WorkerWrote
    <3> QED BY <1>6, <1>9, <2>1, <3>1, <3>2, <3>3 DEF Sound
  <2> QED BY <2>2, <2>3
<1>13. ASSUME NEW ok \in BOOLEAN, SyncFolder(ok)
       PROVE  Sound(s, queue', worker', results', disk')
  <2>1. worker.step = "sync" /\ UNCHANGED <<queue, results>> /\ ~worker.ok
        /\ (Current(s, worker.job.gen) => Visible(s, disk))
    BY <1>6, <1>10, <1>13 DEF SyncFolder, Sound, WorkerWrote
  <2>2. CASE ok
    <3>1. worker' = [worker EXCEPT !.step = "backup", !.ok = TRUE]
      BY <1>13, <2>2 DEF SyncFolder
    <3>2. worker'.job = worker.job /\ worker'.step = "backup"
      BY <1>2, <3>1 DEF Workers
    <3>3. disk' = [disk EXCEPT ![worker.job.name] = Synced(disk[worker.job.name])]
      BY <1>13, <2>2 DEF SyncFolder
    <3>4. \A n \in Names : /\ disk'[n].file = disk[n].file
                           /\ n # worker.job.name => disk'[n].durable = disk[n].durable
                           /\ n = worker.job.name => disk'[n].durable = disk[n].file
      BY <1>2, <1>11, <3>3 DEF Synced, Disks, Folder
    <3>5. Current(s, worker.job.gen) => Durable(s, disk')
      BY <1>10, <1>11, <2>1, <3>4 DEF Carries, Visible, Durable
    <3>6. WorkerWrote(s, worker', disk')
      BY <1>10, <2>1, <3>2, <3>5 DEF WorkerWrote
    <3>7. CleanOnDisk(s, disk')
      <4>1. ASSUME ~s.dirty, s.ver > 0 PROVE Current(s, worker.job.gen)
        BY <1>10, <2>1, <4>1 DEF Carries, Current
      <4> QED BY <3>5, <4>1 DEF CleanOnDisk, Durable
    <3>8. OutcomesTrue(s, results, disk')
      BY <1>10, <2>1 DEF OutcomesTrue
    <3> QED BY <1>9, <2>1, <3>2, <3>6, <3>7, <3>8
  <2>3. CASE ~ok
    <3>1. worker' = [worker EXCEPT !.step = "publish"] /\ disk' = disk
      BY <1>13, <2>3 DEF SyncFolder
    <3>2. worker'.job = worker.job /\ worker'.step = "publish" /\ ~worker'.ok
      BY <1>2, <2>1, <3>1 DEF Workers
    <3>3. WorkerWrote(s, worker', disk')
      BY <3>2 DEF WorkerWrote
    <3> QED BY <1>6, <1>9, <2>1, <3>1, <3>2, <3>3 DEF Sound
  <2> QED BY <2>2, <2>3
<1>14. ASSUME NEW ok \in BOOLEAN, NEW sameSecond \in BOOLEAN, WriteBackup(ok, sameSecond)
       PROVE  Sound(s, queue', worker', results', disk')
  <2>1. worker.step = "backup" /\ UNCHANGED <<queue, results>>
        /\ worker' = [worker EXCEPT !.step = "publish"]
    BY <1>14 DEF WriteBackup
  <2>2. worker'.job = worker.job /\ worker'.step = "publish" /\ worker'.ok = worker.ok
    BY <1>2, <2>1 DEF Workers
  <2>3. \A n \in Names : disk'[n].file = disk[n].file /\ disk'[n].durable = disk[n].durable
    <3> DEFINE b == WithBackup(disk[worker.job.name].backups, worker.job.ver, sameSecond)
    <3>1. disk' = disk \/ disk' = BackedUp(disk, worker.job.name, b)
      BY <1>2, <1>14 DEF WriteBackup, Disks, BackedUp
    <3> DEFINE m == worker.job.name
    <3> HIDE DEF b, m
    <3>2. disk \in Disks
      BY <1>2
    <3>3. disk' = disk \/ disk' = BackedUp(disk, m, b)
      BY <3>1 DEF m
    <3>4. ASSUME NEW e, e = disk \/ e = BackedUp(disk, m, b)
          PROVE  \A n \in Names : e[n].file = disk[n].file /\ e[n].durable = disk[n].durable
      BY <3>2, <3>4, BackupOnly
    <3> QED BY <3>3, <3>4
  <2>4. (Visible(s, disk') <=> Visible(s, disk)) /\ (Durable(s, disk') <=> Durable(s, disk))
    BY <1>11, <2>3 DEF Visible, Durable
  <2>5. WorkerWrote(s, worker', disk')
    BY <1>6, <1>10, <2>1, <2>2, <2>4 DEF Sound, WorkerWrote
  <2>6. OutcomesTrue(s, results, disk') /\ CleanOnDisk(s, disk')
    BY <1>6, <2>4 DEF Sound, OutcomesTrue, CleanOnDisk
  <2> QED BY <1>9, <2>1, <2>2, <2>5, <2>6
<1> QED BY <1>7, <1>8, <1>12, <1>13, <1>14, OutcomesAreBooleans DEF WorkerStep

\* The ends of the process leave nothing to claim but an empty pipeline.
LEMMA EndSound ==
  ASSUME IInv, Exit \/ Panic \/ Kill
  PROVE  IInv'
<1>1. TypeOK' /\ s \in Sessions
  BY EndTyped, TypeParts DEF IInv
<1>2. CASE Exit \/ Kill
  <2>1. Gone
    BY <1>2 DEF Exit, Kill
  <2>2. s'.phase = "down" /\ queue' = <<>> /\ worker' = Idle /\ results' = <<>>
    BY <1>1, <2>1 DEF Gone, Sessions
  <2> QED BY <1>1, <2>2 DEF IInv, Up
<1>3. CASE Panic
  <2>1. s'.phase = "closing"
    BY <1>1, <1>3 DEF Panic, Sessions
  <2> QED BY <1>1, <2>1 DEF IInv, Up
<1> QED BY <1>2, <1>3

LEMMA CorruptSound ==
  ASSUME IInv, NEW n \in Names, NEW backups \in {"kept", "bad", "gone"},
         Corrupt(n, backups)
  PROVE  IInv'
<1>1. TypeOK'
  BY CorruptTyped DEF IInv
<1> QED BY <1>1 DEF IInv, Corrupt, Up

\* The start opens what it restored, or the demo nobody edited.
LEMMA RestartSound ==
  ASSUME IInv, Restart
  PROVE  IInv'
<1> DEFINE d == Ensured(disk[lastShow])
           name == OpenedName(lastShow, d)
           proposed == Proposed(disk'[name].file)
<1>1. TypeOK' /\ s' \in Sessions
  BY RestartTyped, TypePartsNow DEF IInv
<1>2. lastShow \in Names /\ disk \in Disks /\ d \in Folder
  BY TypeParts, EnsuredTyped DEF IInv, Disks
<1>3. /\ s' = NewSession(name, OpenedVer(d), proposed)
      /\ queue' = <<JobOf("Snapshot", s')>>
      /\ disk' = [disk EXCEPT ![lastShow] = Restored(d)]
      /\ worker' = Idle /\ results' = <<>>
  BY DEF Restart, IInv
<1>4. /\ s'.phase = "up" /\ ~s'.dirty /\ s'.gen = 0
      /\ s'.name = name /\ s'.ver = OpenedVer(d)
  <2> HIDE DEF name, proposed
  <2> QED BY <1>3 DEF NewSession
<1>5. s'.ver > 0 => Visible(s', disk')
  <2>1. ASSUME OpenedVer(d) > 0 PROVE Source(d) # "none" /\ OpenedVer(d) = Restored(d).file.ver
    BY <1>2, <2>1, RestoredTyped
  <2>2. ASSUME OpenedVer(d) > 0 PROVE name = lastShow
    BY <2>1, <2>2 DEF OpenedName
  <2>3. disk'[lastShow] = Restored(d)
    BY <1>2, <1>3 DEF Disks
  <2> HIDE DEF d, name
  <2> QED BY <1>4, <2>1, <2>2, <2>3 DEF Visible
<1> HIDE DEF d, name, proposed
<1>6. Sound(s', queue', worker', results', disk')
  BY <1>1, <1>3, <1>4, <1>5, FreshSound
<1> QED BY <1>1, <1>4, <1>6 DEF IInv

\* Every step that keeps the show in memory, or replaces it by a new one, keeps
\* the invariant.
LEMMA StepSound ==
  ASSUME IInv, Continue \/ Create \/ UNCHANGED vars
  PROVE  IInv'
<1>1. CASE Operator \/ Create
  BY <1>1, OperatorSound
<1>2. CASE Tick
  BY <1>2, TickSound DEF Tick
<1>3. CASE WorkerStep
  BY <1>3, WorkerSound
<1>4. CASE Exit \/ Environment
  BY <1>4, EndSound, CorruptSound DEF Environment
<1>5. CASE Restart
  BY <1>5, RestartSound
<1>6. CASE UNCHANGED vars
  <2>1. TypeOK'
    BY <1>6, TypeParts, TypePartsNext DEF vars, IInv
  <2> QED BY <1>6, <2>1 DEF vars, IInv, Up
<1> QED BY <1>1, <1>2, <1>3, <1>4, <1>5, <1>6 DEF Continue

\* The inductive invariant of a show that is neither loaded nor renamed.
Followed == "moved" \notin past => IInv

\* The save under way is followed from the queue to its outcome until a show is
\* loaded, or saved under another name, while it may be under way.
THEOREM SavesFollowed == HSpec => []Followed
<1>1. HInit => Followed
  BY InitSound DEF HInit, Followed
<1>2. Followed /\ [HNext]_hvars => Followed'
  <2> SUFFICES ASSUME Followed, [HNext]_hvars, "moved" \notin past' PROVE IInv'
    BY DEF Followed
  <2>1. CASE Continue /\ Recorded({})
    BY <2>1, StepSound DEF Recorded, Followed
  <2>2. CASE Create /\ Recorded({})
    BY <2>2, StepSound DEF Recorded, Followed
  <2>3. CASE Recorded({"moved"})
    BY <2>3 DEF Recorded
  <2>4. CASE UNCHANGED hvars
    BY <2>4, StepSound DEF hvars, vars, Followed
  <2> QED BY <2>1, <2>2, <2>3, <2>4 DEF HNext
<1> QED BY <1>1, <1>2, PTL DEF HSpec

\* When the session shows nothing modified and no save under way, show.json of
\* the current show holds what is in memory, and holds it through a power cut
\* once anything was edited; whatever was saved, retried, panicked, killed,
\* damaged, recovered or created before, as long as no show was loaded or
\* renamed.  (save_show, autosave, the outcomes of the worker)
THEOREM CleanShowIsSaved == HSpec => []OwnShowSaved
<1>1. Followed => OwnShowSaved
  BY DEF Followed, OwnShowSaved, IInv, CleanMeansSaved, Sound, CleanOnDisk, Visible, Durable
<1> QED BY <1>1, SavesFollowed, PTL

-----------------------------------------------------------------------------
(* What is on disk can be trusted.                                         *)
(*                                                                         *)
(* The three promises of FilesCanBeTrusted rest on more than the files a   *)
(* start reads: on the durable files a power cut brings back, on the jobs  *)
(* that wait for the worker, and on the folder the worker is writing to.   *)

\* Damage is the only source of a file that does not read.
Readable(d) == d.file.ver # Bad /\ d.durable.ver # Bad

\* The contents of a folder are its own show's.
Inside(d, v) == v = d.file.ver \/ v = d.durable.ver \/ \E i \in DOMAIN d.backups : v = d.backups[i]
Owned(n, d, own) == \A v \in Versions : Inside(d, v) => <<n, v>> \in own
JobOwned(job, own) == <<job.name, job.ver>> \in own

\* The newest backup is the file; and it is the one that is restored once the
\* file is damaged, unless no backup reads.
Backed(d) == Loadable(d.file) => d.backups # <<>> /\ Last(d.backups) = d.file.ver
Restorable(d) ==
  d.file.ver = Bad /\ (\E i \in DOMAIN d.backups : d.backups[i] \in Versions)
    => Last(d.backups) \in Versions
Writing(w) == w.step \in {"sync", "backup"}

AllReadable == "damaged" \notin past => \A n \in Names : Readable(disk[n])
AllOwned ==
  /\ \A n \in Names : Owned(n, disk[n], owned)
  /\ \A i \in DOMAIN queue : JobOwned(queue[i], owned)
  /\ worker.step # "idle" => JobOwned(worker.job, owned)
  /\ <<s.name, s.ver>> \in owned
AllBacked ==
  "raced" \notin past =>
    /\ s.phase = "down" => worker.step = "idle"
    /\ Writing(worker) => disk[worker.job.name].file.ver = worker.job.ver
    /\ \A n \in Names : Backed(disk[n]) \/ (Writing(worker) /\ worker.job.name = n)
    /\ \A n \in Names : Restorable(disk[n])

Trusted == TypeOK /\ AllReadable /\ AllOwned /\ AllBacked

\* What writing a backup gives: it is the last one, the others were there.
BackedWith(b, v, w) ==
  /\ w \in Seq(Contents) /\ w # <<>> /\ Last(w) = v
  /\ \A i \in DOMAIN w : w[i] = v \/ \E j \in DOMAIN b : w[i] = b[j]

LEMMA PrunedIs ==
  ASSUME NEW x \in Seq(Contents), Len(x) > 0
  PROVE  /\ Pruned(x) \in Seq(Contents) /\ Pruned(x) # <<>> /\ Last(Pruned(x)) = x[Len(x)]
         /\ \A i \in DOMAIN Pruned(x) : \E j \in DOMAIN x : Pruned(x)[i] = x[j]
<1>1. CASE Len(x) <= BackupKeep
  <2>1. Pruned(x) = x
    BY <1>1, StoreAssumption DEF Pruned
  <2> QED BY <2>1 DEF Last
<1>2. CASE Len(x) > BackupKeep
  <2> DEFINE k == Len(x) - BackupKeep
             y == SubSeq(x, k + 1, Len(x))
  <2>1. Pruned(x) = y
    BY <1>2, StoreAssumption DEF Pruned
  <2>2. k \in Nat /\ BackupKeep \in Nat \ {0} /\ k + BackupKeep = Len(x)
    BY <1>2, StoreAssumption
  <2>3. y \in Seq(Contents) /\ Len(y) = BackupKeep /\ \A i \in 1 .. BackupKeep : y[i] = x[k + i]
    BY <2>2
  <2> HIDE DEF y
  <2>4. y # <<>> /\ Last(y) = x[Len(x)]
    BY <2>2, <2>3 DEF Last
  <2> HIDE DEF k
  <2>5. ASSUME NEW i \in DOMAIN y PROVE k + i \in DOMAIN x /\ y[i] = x[k + i]
    <3>1. i \in 1 .. BackupKeep
      BY <2>3
    <3>2. k + i \in 1 .. Len(x)
      BY <2>2, <3>1
    <3> QED BY <2>3, <3>1, <3>2
  <2> QED BY <2>1, <2>3, <2>4, <2>5
<1> QED BY <1>1, <1>2, StoreAssumption

LEMMA WithBackupIs ==
  ASSUME NEW b \in Seq(Contents), NEW v \in Contents, NEW sameSecond \in BOOLEAN
  PROVE  BackedWith(b, v, WithBackup(b, v, sameSecond))
<1> DEFINE x == IF sameSecond /\ b # <<>> THEN Front(b) \o <<v>> ELSE Append(b, v)
<1>1. /\ x \in Seq(Contents) /\ Len(x) > 0 /\ x[Len(x)] = v
      /\ \A i \in DOMAIN x : x[i] = v \/ \E j \in DOMAIN b : x[i] = b[j]
  <2>1. CASE sameSecond /\ b # <<>>
    <3> DEFINE f == Front(b)
    <3>1. f \in Seq(Contents) /\ Len(f) = Len(b) - 1 /\ \A i \in 1 .. Len(f) : f[i] = b[i]
      <4> DEFINE k == Len(b) - 1
      <4>1. f = SubSeq(b, 1, k) /\ k \in Nat /\ \A i \in 1 .. k : b[i] \in Contents
        BY <2>1 DEF Front
      <4> HIDE DEF k
      <4>2. /\ SubSeq(b, 1, k) \in Seq(Contents) /\ Len(SubSeq(b, 1, k)) = k
            /\ \A i \in 1 .. k : SubSeq(b, 1, k)[i] = b[i]
        BY <4>1
      <4> QED BY <4>1, <4>2 DEF k
    <3>2. x = f \o <<v>>
      BY <2>1
    <3> HIDE DEF f, x
    <3>3. x \in Seq(Contents) /\ Len(x) = Len(f) + 1 /\ x[Len(x)] = v
      BY <3>1, <3>2
    <3>4. \A i \in 1 .. Len(f) : x[i] = b[i]
      BY <3>1, <3>2
    <3> QED BY <3>1, <3>3, <3>4
  <2>2. CASE ~(sameSecond /\ b # <<>>)
    BY <2>2
  <2> QED BY <2>1, <2>2
<1>2. WithBackup(b, v, sameSecond) = Pruned(x)
  BY DEF WithBackup
<1> HIDE DEF x
<1> QED BY <1>1, <1>2, PrunedIs DEF BackedWith

\* A whole save: the folder holds its content, and its newest backup too.
LEMMA SavedWholeIs ==
  ASSUME NEW d \in Folder, NEW v \in Contents, NEW sameSecond \in BOOLEAN, NEW e,
         e = SavedWhole(d, v, sameSecond)
  PROVE  /\ e \in Folder /\ e.file.ver = v /\ e.durable.ver = v
         /\ BackedWith(d.backups, v, e.backups)
<1>1. d.backups \in Seq(Contents)
  BY DEF Folder
<1>2. BackedWith(d.backups, v, WithBackup(d.backups, v, sameSecond))
  BY <1>1, WithBackupIs
<1>3. e \in Folder
  BY SavedWholeTyped
<1> DEFINE w == WithBackup(d.backups, v, sameSecond)
<1> HIDE DEF w
<1>4. e.file = Fresh(v) /\ e.durable = Fresh(v) /\ e.backups = w
  BY DEF SavedWhole, Synced, Renamed, Folder, w
<1> QED BY <1>2, <1>3, <1>4 DEF Fresh, w

\* ... so what a folder promises is kept.
LEMMA BackedWithKeeps ==
  ASSUME NEW n, NEW d \in Folder, NEW v \in Contents, NEW e \in Folder, NEW own, NEW bigger,
         BackedWith(d.backups, v, e.backups), e.file.ver = v,
         e.durable.ver \in {v, d.durable.ver},
         Owned(n, d, own), own \subseteq bigger, v \in Versions => <<n, v>> \in bigger
  PROVE  Owned(n, e, bigger) /\ Backed(e)
<1>1. ASSUME NEW u \in Versions, Inside(e, u) PROVE u = v \/ Inside(d, u)
  BY <1>1 DEF Inside, BackedWith
<1> QED BY <1>1 DEF Owned, Backed, BackedWith

\* The last good backup is the last one when that one is good.
LEMMA LastGoodIsLast ==
  ASSUME NEW b \in Seq(Contents)
  PROVE  /\ LastGood(b) \in Nat
         /\ b # <<>> /\ Last(b) \in Versions => LastGood(b) = Len(b)
         /\ LastGood(b) = 0 <=> \A i \in DOMAIN b : b[i] \notin Versions
<1> DEFINE I == {i \in 1 .. Len(b) : b[i] \in Versions}
<1>1. LastGood(b) = IF I # {} THEN Max(I) ELSE 0
  BY DEF LastGood, SelectLastInSeq
<1>2. ASSUME I # {} PROVE Max(I) \in 1 .. Len(b) /\ \A i \in I : i <= Max(I)
  <2>1. Len(b) \in Nat /\ I \in SUBSET (0 .. Len(b))
    OBVIOUS
  <2>2. Max(I) \in I /\ \A i \in I : i <= Max(I)
    BY <1>2, <2>1, MaxIsMember
  <2> QED BY <2>2
<1>3. ASSUME b # <<>>, Last(b) \in Versions PROVE LastGood(b) = Len(b)
  <2>1. Len(b) \in I
    BY <1>3 DEF Last
  <2> QED BY <1>1, <1>2, <2>1
<1>4. LastGood(b) = 0 <=> I = {}
  BY <1>1, <1>2
<1>5. LastGood(b) \in Nat
  BY <1>1, <1>2
<1> QED BY <1>3, <1>4, <1>5

\* The start restores the newest backup, and reads what it restores.
LEMMA RestoredIs ==
  ASSUME NEW d \in Folder, NEW e, e = Restored(d)
  PROVE  /\ e \in Folder /\ e.backups = d.backups
         /\ \/ e = d /\ Loadable(d.file)
            \/ /\ ~Loadable(d.file) /\ LastGood(d.backups) > 0
               /\ e.file.ver = d.backups[LastGood(d.backups)] /\ e.durable.ver = e.file.ver
            \/ /\ ~Loadable(d.file) /\ LastGood(d.backups) = 0
               /\ e.file.ver \in {None, Bad} /\ e.durable.ver = e.file.ver
<1>1. e \in Folder
  BY RestoredTyped
<1>2. CASE Source(d) = "file"
  BY <1>1, <1>2 DEF Restored, Source
<1>3. CASE Source(d) = "backup"
  <2> DEFINE v == d.backups[LastGood(d.backups)]
  <2>1. e = Synced(Renamed(d, v))
    BY <1>3 DEF Restored
  <2>2. ~Loadable(d.file) /\ LastGood(d.backups) > 0
    BY <1>3 DEF Source
  <2> HIDE DEF v
  <2>3. e.file = Fresh(v) /\ e.durable = Fresh(v) /\ e.backups = d.backups
    BY <2>1 DEF Synced, Renamed, Folder
  <2> QED BY <1>1, <2>2, <2>3 DEF Fresh, v
<1>4. CASE Source(d) = "none"
  <2>1. ~Loadable(d.file) /\ ~(LastGood(d.backups) > 0)
    BY <1>4 DEF Source
  <2>2. LastGood(d.backups) = 0
    <3>1. LastGood(d.backups) \in Nat
      BY LastGoodIsLast DEF Folder
    <3> QED BY <2>1, <3>1
  <2>3. e = IF d.backups # <<>> THEN Synced(Renamed(d, Bad))
            ELSE [d EXCEPT !.file = Fresh(None), !.durable = Fresh(None)]
    BY <1>4 DEF Restored
  <2>4. \E v \in {None, Bad} : e.file = Fresh(v) /\ e.durable = Fresh(v) /\ e.backups = d.backups
    BY <2>3 DEF Synced, Renamed, Folder
  <2> QED BY <1>1, <2>1, <2>2, <2>4 DEF Fresh
<1> QED BY <1>2, <1>3, <1>4 DEF Source

-----------------------------------------------------------------------------
(* ... by the session.                                                     *)

\* The jobs of r are those of q, or carry the show of the session.
From(q, r, session) ==
  \A i \in DOMAIN r : \/ \E j \in DOMAIN q : r[i] = q[j]
                      \/ r[i].name = session.name /\ r[i].ver = session.ver
SameShow(a, b) == b.name = a.name /\ b.ver = a.ver /\ b.phase = a.phase

LEMMA PostedFrom ==
  ASSUME NEW session \in Sessions, NEW q \in Queues, NEW kind \in {"Save", "Snapshot"}
  PROVE  From(q, Append(q, JobOf(kind, session)), session)
<1> DEFINE job == JobOf(kind, session)
<1>1. job.name = session.name /\ job.ver = session.ver /\ job \in Job
  BY JobOfTyped DEF JobOf
<1> HIDE DEF job
<1>2. q \in Seq(Job)
  BY DEF Queues
<1>3. \A i \in DOMAIN Append(q, job) : Append(q, job)[i] = job \/ \E j \in DOMAIN q : Append(q, job)[i] = q[j]
  BY <1>1, <1>2
<1> QED BY <1>1, <1>3 DEF From, job

LEMMA PushSnapshotFrom ==
  ASSUME NEW session \in Sessions, NEW q \in Queues
  PROVE  /\ From(q, PushSnapshot(session, q)[2], session)
         /\ SameShow(session, PushSnapshot(session, q)[1])
<1>1. From(q, q, session)
  BY DEF From
<1> QED BY <1>1, PostedFrom DEF PushSnapshot, SameShow, Sessions

LEMMA SaveShowFrom ==
  ASSUME NEW session \in Sessions, NEW q \in Queues
  PROVE  /\ From(q, SaveShow(session, q)[2], session)
         /\ SameShow(session, SaveShow(session, q)[1])
<1>1. From(q, q, session)
  BY DEF From
<1> QED BY <1>1, PostedFrom DEF SaveShow, SameShow, Sessions

\* What the session does, when it is up: it posts jobs of its own show, and it
\* may save the show it had by itself.
SavedBeside(sameSecond) == disk' = [disk EXCEPT ![s.name] = SavedWhole(@, s.ver, sameSecond)]
RenamedBeside == disk' = [disk EXCEPT ![s.name] = Renamed(@, s.ver)]
Beside == RenamedBeside \/ \E sameSecond \in BOOLEAN : SavedBeside(sameSecond)
SessionShape ==
  /\ Up /\ s'.phase \in {"up", "closing"} /\ worker' = worker
  /\ From(queue, queue', s')
  /\ disk' = disk \/ Beside

LEMMA SyncSaveShape ==
  ASSUME NEW needed, NEW ok, NEW sameSecond \in BOOLEAN,
         disk' = SyncSave(needed, ok, sameSecond)
  PROVE  disk' = disk \/ Beside
BY DEF SyncSave, SavedBeside, RenamedBeside, Beside

LEMMA InstalledFrom ==
  ASSUME NEW session \in Sessions, NEW name \in Names, NEW ver \in Versions, NEW q \in Queues
  PROVE  /\ From(q, Installed(session, name, ver, q)[2], Installed(session, name, ver, q)[1])
         /\ Installed(session, name, ver, q)[1].phase = session.phase
<1> DEFINE shown == [session EXCEPT !.name = name, !.ver = ver, !.dirty = FALSE]
<1>1. shown \in Sessions /\ shown.phase = session.phase
  BY DEF Sessions
<1>2. Installed(session, name, ver, q) = PushSnapshot(shown, q)
  BY DEF Installed
<1> HIDE DEF shown
<1>3. From(q, PushSnapshot(shown, q)[2], shown) /\ SameShow(shown, PushSnapshot(shown, q)[1])
  BY <1>1, PushSnapshotFrom
<1> QED BY <1>1, <1>2, <1>3 DEF From, SameShow

LEMMA OperatorShape ==
  ASSUME TypeOK, Operator \/ Create \/ Replace
  PROVE  SessionShape
<1>1. s \in Sessions /\ queue \in Queues /\ disk \in [Names -> Folder]
  BY TypeParts
<1>2. From(queue, queue, s')
  BY DEF From
<1>3. CASE Edit
  <2>1. s'.phase = s.phase
    BY <1>1, <1>3 DEF Edit, MarkedDirty, Sessions
  <2> QED BY <1>2, <1>3, <2>1 DEF Edit, SessionShape, Up
<1>4. CASE Save
  <2>1. From(queue, SaveShow(s, queue)[2], s) /\ SameShow(s, SaveShow(s, queue)[1])
    BY <1>1, SaveShowFrom
  <2> QED BY <1>4, <2>1 DEF Save, Posts, SessionShape, Up, From, SameShow
<1>5. CASE RecoveryLoad
  <2> DEFINE a == [s EXCEPT !.pending = None]
             done == Installed(a, s.name, s.pending, queue)
  <2>1. a \in Sessions /\ a.phase = s.phase /\ s.name \in Names /\ s.pending \in Versions
    BY <1>1, <1>5 DEF Sessions, RecoveryLoad
  <2> HIDE DEF a
  <2>2. /\ done[1] \in Sessions /\ From(queue, done[2], done[1]) /\ done[1].phase = s.phase
    BY <1>1, <2>1, InstalledTyped, InstalledFrom
  <2>3. s' = MarkedDirty(done[1]) /\ queue' = done[2]
    BY <1>5 DEF RecoveryLoad, Posts, a
  <2> HIDE DEF done
  <2>4. SameShow(done[1], s')
    BY <2>2, <2>3 DEF MarkedDirty, SameShow, Sessions
  <2> QED BY <1>5, <2>2, <2>3, <2>4 DEF RecoveryLoad, SessionShape, Up, From, SameShow
<1>6. CASE RecoveryDismiss
  <2>1. s'.phase = s.phase
    BY <1>1, <1>6 DEF RecoveryDismiss, Sessions
  <2> QED BY <1>2, <1>6, <2>1 DEF RecoveryDismiss, SessionShape, Up
<1>7. ASSUME NEW ok \in Outcomes, NEW sameSecond \in BOOLEAN, Quit(ok, sameSecond)
      PROVE  SessionShape
  <2>1. s'.phase = "closing"
    BY <1>1, <1>7 DEF Quit, Sessions
  <2>2. disk' = disk \/ Beside
    BY <1>7, SyncSaveShape DEF Quit
  <2> QED BY <1>2, <1>7, <2>1, <2>2 DEF Quit, SessionShape
<1>8. ASSUME NEW ok \in Outcomes, NEW sameSecond \in BOOLEAN, ShowNew(ok, sameSecond)
      PROVE  SessionShape
  <2> DEFINE done == Installed(s, NewName, 0, queue)
  <2>1. From(queue, done[2], done[1]) /\ done[1].phase = s.phase
    BY <1>1, InstalledFrom, StoreAssumption, VersionsAreContents
  <2>2. s' = done[1] /\ queue' = done[2]
    BY <1>8 DEF ShowNew, Posts
  <2> HIDE DEF done
  <2>3. disk' = disk \/ Beside
    BY <1>8, SyncSaveShape DEF ShowNew
  <2> QED BY <1>8, <2>1, <2>2, <2>3 DEF ShowNew, SessionShape, Up
<1>9. ASSUME NEW n \in Names, SaveAs(n) PROVE SessionShape
  <2> DEFINE a == [s EXCEPT !.name = n]
  <2>1. a \in Sessions /\ a.phase = s.phase
    BY <1>1 DEF Sessions
  <2>2. s' = SaveShow(a, queue)[1] /\ queue' = SaveShow(a, queue)[2]
    BY <1>9 DEF SaveAs, Posts
  <2> HIDE DEF a
  <2>3. From(queue, SaveShow(a, queue)[2], a) /\ SameShow(a, SaveShow(a, queue)[1])
    BY <1>1, <2>1, SaveShowFrom
  <2> QED BY <1>9, <2>1, <2>2, <2>3 DEF SaveAs, SessionShape, Up, From, SameShow
<1>10. ASSUME NEW n \in Names, NEW ok \in Outcomes, NEW sameSecond \in BOOLEAN,
              Load(n, ok, sameSecond)
       PROVE  SessionShape
  <2> DEFINE kept == [s EXCEPT !.dirty = @ /\ ~ok]
             d == SyncSave(s.dirty, ok, sameSecond)
  <2>1. kept \in Sessions /\ kept.phase = s.phase
    BY <1>1 DEF Sessions
  <2>2. d \in [Names -> Folder]
    BY <1>1, SyncSaveTyped, OutcomesAreBooleans DEF Sessions
  <2>3. /\ disk' = d /\ Up /\ worker' = worker
        /\ \/ Loadable(d[n].file) /\ Posts(Installed(kept, n, d[n].file.ver, queue))
           \/ Posts(<<kept, queue>>)
    BY <1>10 DEF Load
  <2>4. disk' = disk \/ Beside
    BY <2>3, SyncSaveShape
  <2> HIDE DEF kept, d
  <2>5. CASE Posts(<<kept, queue>>)
    BY <1>2, <2>1, <2>3, <2>4, <2>5 DEF Posts, SessionShape, Up
  <2>6. CASE Loadable(d[n].file) /\ Posts(Installed(kept, n, d[n].file.ver, queue))
    <3> DEFINE v == d[n].file.ver
               done == Installed(kept, n, v, queue)
    <3>1. v \in Versions
      BY <2>6 DEF Loadable
    <3> HIDE DEF v
    <3>2. From(queue, done[2], done[1]) /\ done[1].phase = s.phase
      BY <1>1, <2>1, <3>1, InstalledFrom
    <3>3. s' = done[1] /\ queue' = done[2]
      BY <2>6 DEF Posts, v
    <3> HIDE DEF done
    <3> QED BY <2>3, <2>4, <3>2, <3>3 DEF SessionShape, Up
  <2> QED BY <2>3, <2>5, <2>6
<1> QED BY <1>3, <1>4, <1>5, <1>6, <1>7, <1>8, <1>9, <1>10 DEF Operator, Create, Replace

LEMMA TickShape ==
  ASSUME TypeOK, NEW snapshotDue \in BOOLEAN, NEW saveDue \in BOOLEAN,
         Autosave(snapshotDue, saveDue)
  PROVE  SessionShape
<1> DEFINE a == Drained(s, results)
           p == IF a.recDirty /\ snapshotDue THEN PushSnapshot(a, queue) ELSE <<a, queue>>
<1>1. s \in Sessions /\ queue \in Queues
  BY TypeParts
<1>2. a \in Sessions /\ SameShow(s, a)
  BY <1>1, DrainedTyped DEF Drained, SameShow, Sessions
<1>3. /\ s' = (IF p[1].dirty /\ ~p[1].inFlight /\ saveDue THEN SaveShow(p[1], p[2]) ELSE p)[1]
      /\ queue' = (IF p[1].dirty /\ ~p[1].inFlight /\ saveDue THEN SaveShow(p[1], p[2]) ELSE p)[2]
      /\ worker' = worker /\ disk' = disk /\ Up
  BY DEF Autosave, Posts
<1> HIDE DEF a
<1>4. /\ p[1] \in Sessions /\ p[2] \in Queues
      /\ From(queue, p[2], a) /\ SameShow(a, p[1])
  <2>1. From(queue, queue, a) /\ SameShow(a, a)
    BY DEF From, SameShow
  <2> QED BY <1>1, <1>2, <2>1, PushSnapshotTyped, PushSnapshotFrom
<1> HIDE DEF p
<1> DEFINE x == p[1]
           q == p[2]
<1>5. From(q, SaveShow(x, q)[2], x) /\ SameShow(x, SaveShow(x, q)[1])
  BY <1>4, SaveShowFrom
<1>6. (s' = x /\ queue' = q) \/ (s' = SaveShow(x, q)[1] /\ queue' = SaveShow(x, q)[2])
  BY <1>3
<1>7. From(queue, queue', s') /\ SameShow(s, s')
  BY <1>2, <1>4, <1>5, <1>6 DEF From, SameShow
<1> QED BY <1>3, <1>7 DEF SessionShape, SameShow, Up

-----------------------------------------------------------------------------
(* ... and by each step.                                                   *)

LEMMA Marked ==
  ASSUME NEW marks, Recorded(marks)
  PROVE  /\ owned \subseteq owned' /\ <<s'.name, s'.ver>> \in owned' /\ <<lastShow', 0>> \in owned'
         /\ "damaged" \notin past' => "damaged" \notin past /\ ~Damaged
         /\ "raced" \notin past' => "raced" \notin past /\ ~Raced
BY DEF Recorded

LEMMA NumbersOf == Bad \notin Versions /\ None \notin Versions /\ Bad # None
BY StoreAssumption DEF Bad, None, Versions

LEMMA SessionTrusted ==
  ASSUME Trusted, TypeOK', SessionShape, NEW marks, Recorded(marks)
  PROVE  Trusted'
<1>1. s \in Sessions /\ disk \in [Names -> Folder] /\ disk' \in [Names -> Folder]
  <2>1. disk' \in [Names -> Folder]
    BY DEF TypeOK
  <2> QED BY <2>1, TypeParts DEF Trusted
<1>2. s.name \in Names /\ s.ver \in Versions /\ s.ver \in Contents /\ s.phase = "up"
  BY <1>1, VersionsAreContents DEF Sessions, SessionShape, Up
<1>3. \A n \in Names : \/ disk'[n] = disk[n]
                       \/ /\ n = s.name /\ disk'[n].file.ver = s.ver
                          /\ \/ /\ disk'[n].durable.ver = s.ver
                                /\ BackedWith(disk[n].backups, s.ver, disk'[n].backups)
                             \/ /\ disk'[n].durable = disk[n].durable
                                /\ disk'[n].backups = disk[n].backups
  <2>1. ASSUME NEW sameSecond \in BOOLEAN, SavedBeside(sameSecond), NEW n \in Names
        PROVE  \/ disk'[n] = disk[n]
               \/ /\ n = s.name /\ disk'[n].file.ver = s.ver /\ disk'[n].durable.ver = s.ver
                  /\ BackedWith(disk[n].backups, s.ver, disk'[n].backups)
    <3>1. CASE n # s.name
      BY <1>1, <2>1, <3>1 DEF SavedBeside
    <3>2. CASE n = s.name
      <4>1. disk'[n] = SavedWhole(disk[n], s.ver, sameSecond) /\ disk[n] \in Folder
        BY <1>1, <2>1, <3>2 DEF SavedBeside
      <4> QED BY <1>2, <3>2, <4>1, SavedWholeIs
    <3> QED BY <3>1, <3>2
  <2>2. ASSUME RenamedBeside, NEW n \in Names
        PROVE  \/ disk'[n] = disk[n]
               \/ /\ n = s.name /\ disk'[n].file.ver = s.ver
                  /\ disk'[n].durable = disk[n].durable /\ disk'[n].backups = disk[n].backups
    <3>1. disk[n] \in Folder
      BY <1>1
    <3> QED BY <1>1, <2>2, <3>1 DEF RenamedBeside, Renamed, Fresh, Folder
  <2> QED BY <2>1, <2>2 DEF SessionShape, Beside
<1>4. AllReadable'
  BY <1>2, <1>3, Marked, NumbersOf DEF Trusted, AllReadable, Readable
<1>5. AllOwned'
  <2>1. ASSUME NEW n \in Names PROVE Owned(n, disk'[n], owned')
    <3>1. Owned(n, disk[n], owned) /\ disk[n] \in Folder /\ disk'[n] \in Folder
      BY <1>1 DEF Trusted, AllOwned
    <3>2. owned \subseteq owned' /\ <<s.name, s.ver>> \in owned'
      BY Marked DEF Trusted, AllOwned
    <3>3. CASE disk'[n] = disk[n]
      BY <3>1, <3>2, <3>3 DEF Owned
    <3>4. CASE /\ n = s.name /\ disk'[n].file.ver = s.ver /\ disk'[n].durable.ver = s.ver
               /\ BackedWith(disk[n].backups, s.ver, disk'[n].backups)
      BY <1>2, <3>1, <3>2, <3>4, BackedWithKeeps
    <3>5. CASE /\ n = s.name /\ disk'[n].file.ver = s.ver
               /\ disk'[n].durable = disk[n].durable /\ disk'[n].backups = disk[n].backups
      BY <3>1, <3>2, <3>5 DEF Owned, Inside
    <3> QED BY <1>3, <3>3, <3>4, <3>5
  <2>2. ASSUME NEW i \in DOMAIN queue' PROVE JobOwned(queue'[i], owned')
    BY Marked DEF Trusted, AllOwned, SessionShape, From, JobOwned
  <2>3. worker'.step # "idle" => JobOwned(worker'.job, owned')
    BY Marked DEF Trusted, AllOwned, SessionShape, JobOwned
  <2>4. <<s'.name, s'.ver>> \in owned'
    BY Marked
  <2> QED BY <2>1, <2>2, <2>3, <2>4 DEF AllOwned, Owned, Inside, JobOwned
<1>6. AllBacked'
  <2> SUFFICES ASSUME "raced" \notin past' PROVE AllBacked'
    BY DEF AllBacked
  <2>1. "raced" \notin past /\ ~WroteBeside
    BY Marked DEF Raced
  <2>2. \A n \in Names : disk'[n].file.ver = disk[n].file.ver /\ disk'[n].backups = disk[n].backups
    BY <1>2, <2>1 DEF WroteBeside, SessionShape
  <2>3. worker' = worker /\ s'.phase # "down"
    BY DEF SessionShape
  <2>4. Writing(worker) => worker.job.name \in Names
    BY DEF Trusted, TypeOK, Job
  <2> QED BY <2>1, <2>2, <2>3, <2>4
       DEF Trusted, AllBacked, Backed, Restorable, Loadable
<1> QED BY <1>4, <1>5, <1>6 DEF Trusted

\* A step that leaves the contents of the folders alone.
LEMMA QuietTrusted ==
  ASSUME Trusted, TypeOK', NEW marks, Recorded(marks),
         \A n \in Names : /\ disk'[n].file.ver = disk[n].file.ver
                          /\ disk'[n].durable.ver = disk[n].durable.ver
                          /\ disk'[n].backups = disk[n].backups,
         \A i \in DOMAIN queue' : \E j \in DOMAIN queue : queue'[i] = queue[j],
         \/ worker'.step = "idle" /\ worker.step \notin {"sync", "backup"}
         \/ /\ worker.step # "idle" /\ worker'.job = worker.job /\ s'.phase # "down"
            /\ Writing(worker') = Writing(worker)
         \/ /\ worker.step = "idle" /\ s'.phase # "down" /\ worker'.step \in {"write", "publish"}
            /\ \E i \in DOMAIN queue : worker'.job = queue[i]
         \/ worker' = worker /\ s'.phase # "down"
  PROVE  Trusted'
<1>1. AllReadable'
  BY Marked DEF Trusted, AllReadable, Readable
<1>2. AllOwned'
  <2>1. \A n \in Names : Owned(n, disk'[n], owned')
    BY Marked DEF Trusted, AllOwned, Owned, Inside
  <2>2. \A i \in DOMAIN queue' : JobOwned(queue'[i], owned')
    BY Marked DEF Trusted, AllOwned, JobOwned
  <2>3. worker'.step # "idle" => JobOwned(worker'.job, owned')
    BY Marked DEF Trusted, AllOwned, JobOwned
  <2> QED BY <2>1, <2>2, <2>3, Marked DEF AllOwned, Owned, Inside, JobOwned
<1>3. AllBacked'
  <2> SUFFICES ASSUME "raced" \notin past' PROVE AllBacked'
    BY DEF AllBacked
  <2>1. "raced" \notin past
    BY Marked
  <2>2. worker.job.name \in Names
    BY DEF Trusted, TypeOK, Job
  <2>3. \A n \in Names : Backed(disk[n])' = Backed(disk[n]) /\ Restorable(disk[n])' = Restorable(disk[n])
    BY DEF Backed, Restorable, Loadable
  <2>4. Writing(worker') => Writing(worker) /\ worker'.job = worker.job
    BY DEF Writing
  <2>5. Writing(worker) => Writing(worker')
    BY DEF Writing
  <2>6. s'.phase = "down" => worker'.step = "idle"
    OBVIOUS
  <2> QED BY <2>1, <2>2, <2>3, <2>4, <2>5, <2>6 DEF Trusted, AllBacked
<1> QED BY <1>1, <1>2, <1>3 DEF Trusted

LEMMA WorkerTrusted ==
  ASSUME Trusted, TypeOK', WorkerStep, NEW marks, Recorded(marks)
  PROVE  Trusted'
<1>1. /\ disk \in [Names -> Folder] /\ disk' \in [Names -> Folder] /\ queue \in Seq(Job)
      /\ worker \in Workers /\ faults \in Nat
  <2>1. disk' \in [Names -> Folder]
    BY DEF TypeOK
  <2> QED BY <2>1, TypeParts, StoreAssumption DEF Trusted, Queues, Workers
<1>2. /\ worker.job.name \in Names /\ worker.job.ver \in Versions /\ worker.job.ver \in Contents
      /\ worker.step \in Steps
  BY <1>1, VersionsAreContents DEF Workers, Job
<1>3. CASE TakeJob
  <2>1. worker'.job = queue[1] /\ worker'.step \in {"write", "publish"} /\ 1 \in DOMAIN queue
    BY <1>1, <1>3 DEF TakeJob
  <2>2. \A i \in DOMAIN queue' : \E j \in DOMAIN queue : queue'[i] = queue[j]
    <3>1. \A i \in DOMAIN queue' : i + 1 \in DOMAIN queue /\ queue'[i] = queue[i + 1]
      BY <1>1, <1>3 DEF TakeJob
    <3> QED BY <3>1
  <2> QED BY <1>3, <2>1, <2>2, QuietTrusted DEF TakeJob
<1>4. CASE Publish
  BY <1>4, QuietTrusted DEF Publish, Idle
<1>5. ASSUME NEW ok \in Outcomes, WriteShow(ok) PROVE Trusted'
  <2>1. CASE ~ok
    <3>1. worker'.job = worker.job /\ worker'.step = "publish"
      BY <1>1, <1>5, <2>1 DEF WriteShow, Workers
    <3>2. "raced" \in past'
      <4>1. Raced
        BY <1>1, <1>5, <2>1, <3>1 DEF WriteShow, Fault, Raced
      <4> QED BY <4>1, Marked
    <3>3. AllReadable'
      BY <1>5, <2>1, Marked DEF WriteShow, Trusted, AllReadable, Readable
    <3>4. AllOwned'
      BY <1>5, <2>1, <3>1, Marked DEF WriteShow, Trusted, AllOwned, Owned, JobOwned
    <3> QED BY <3>2, <3>3, <3>4 DEF Trusted, AllBacked
  <2>2. CASE ok
    <3> DEFINE n == worker.job.name
               d == disk[n]
               e == Renamed(d, worker.job.ver)
    <3>1. /\ disk' = [disk EXCEPT ![n] = e] /\ d \in Folder
          /\ worker'.job = worker.job /\ worker'.step = "sync" /\ worker.step = "write" /\ s' = s /\ queue' = queue
      BY <1>1, <1>2, <1>5, <2>2 DEF WriteShow, Target, Workers
    <3>2. e.file.ver = worker.job.ver /\ e.durable = d.durable /\ e.backups = d.backups
      BY <3>1 DEF Renamed, Folder, Fresh
    <3> HIDE DEF e
    <3>3. disk'[n] = e /\ \A m \in Names : m # n => disk'[m] = disk[m]
      BY <1>1, <1>2, <3>1
    <3>4. AllReadable'
      BY <1>2, <3>2, <3>3, Marked, NumbersOf DEF Trusted, AllReadable, Readable
    <3>5. AllOwned'
      <4>1. JobOwned(worker.job, owned) /\ owned \subseteq owned'
        BY <3>1, Marked DEF Trusted, AllOwned
      <4>2. \A m \in Names : Owned(m, disk'[m], owned')
        BY <3>2, <3>3, <4>1 DEF Trusted, AllOwned, Owned, Inside, JobOwned
      <4> QED BY <3>1, <4>1, <4>2, Marked DEF Trusted, AllOwned, Owned, Inside, JobOwned
    <3>6. AllBacked'
      <4> SUFFICES ASSUME "raced" \notin past' PROVE AllBacked'
        BY DEF AllBacked
      <4>1. /\ s.phase # "down" /\ ~Writing(worker)
            /\ \A m \in Names : Backed(disk[m]) /\ Restorable(disk[m])
        BY <3>1, Marked DEF Trusted, AllBacked, Writing
      <4>2. Writing(worker') /\ worker'.job = worker.job
        BY <3>1 DEF Writing
      <4>3. Restorable(e)
        BY <1>2, <3>2, NumbersOf DEF Restorable
      <4>4. \A m \in Names : m # n => Backed(disk'[m]) /\ Restorable(disk'[m])
        BY <3>3, <4>1
      <4> QED BY <3>1, <3>2, <3>3, <4>1, <4>2, <4>3, <4>4 DEF AllBacked, Backed, Restorable, Loadable
    <3> QED BY <3>4, <3>5, <3>6 DEF Trusted
  <2> QED BY <2>1, <2>2
<1>6. ASSUME NEW ok \in Outcomes, SyncFolder(ok) PROVE Trusted'
  <2> DEFINE n == worker.job.name
             d == disk[n]
             e == Synced(d)
  <2>1. /\ disk' = disk \/ disk' = [disk EXCEPT ![n] = e]
        /\ d \in Folder /\ worker.step = "sync" /\ worker'.job = worker.job /\ s' = s /\ queue' = queue
        /\ worker'.step = IF ok THEN "backup" ELSE "publish"
        /\ ~ok => faults' = faults + 1 /\ disk' = disk
    BY <1>1, <1>2, <1>6 DEF SyncFolder, Workers, Fault
  <2>2. e.file = d.file /\ e.durable = d.file /\ e.backups = d.backups
    BY <2>1 DEF Synced, Folder
  <2> HIDE DEF e
  <2>3. \A m \in Names :
          /\ disk'[m].file = disk[m].file /\ disk'[m].backups = disk[m].backups
          /\ disk'[m].durable \in {disk[m].durable, disk[m].file}
    BY <1>1, <1>2, <2>1, <2>2
  <2>4. AllReadable'
    BY <2>3, Marked DEF Trusted, AllReadable, Readable
  <2>5. AllOwned'
    <3>1. \A m \in Names : Owned(m, disk'[m], owned')
      BY <2>3, Marked DEF Trusted, AllOwned, Owned, Inside
    <3> QED BY <2>1, <3>1, Marked DEF Trusted, AllOwned, Owned, Inside, JobOwned
  <2>6. AllBacked'
    <3> SUFFICES ASSUME "raced" \notin past' PROVE AllBacked'
      BY DEF AllBacked
    <3>1. "raced" \notin past /\ ok
      BY <1>1, <2>1, Marked DEF Raced
    <3>2. Writing(worker) /\ Writing(worker')
      BY <2>1, <3>1 DEF Writing
    <3>3. \A m \in Names : Backed(disk[m])' = Backed(disk[m]) /\ Restorable(disk[m])' = Restorable(disk[m])
      BY <2>3 DEF Backed, Restorable, Loadable
    <3> QED BY <1>2, <2>1, <2>3, <3>1, <3>2, <3>3 DEF Trusted, AllBacked
  <2> QED BY <2>4, <2>5, <2>6 DEF Trusted
<1>7. ASSUME NEW ok \in Outcomes, NEW sameSecond \in BOOLEAN, WriteBackup(ok, sameSecond)
      PROVE  Trusted'
  <2> DEFINE n == worker.job.name
             d == disk[n]
             v == worker.job.ver
             b == WithBackup(d.backups, v, sameSecond)
             e == [d EXCEPT !.backups = b]
  <2>1. /\ IF ok THEN disk' = [disk EXCEPT ![n].backups = WithBackup(@, v, sameSecond)]
                 ELSE disk' = disk /\ faults' = faults + 1
        /\ d \in Folder /\ worker.step = "backup" /\ worker'.job = worker.job /\ s' = s /\ queue' = queue
        /\ worker'.step = "publish"
    BY <1>1, <1>2, <1>7 DEF WriteBackup, Workers, Fault
  <2>2. BackedWith(d.backups, v, b)
    BY <1>2, <2>1, WithBackupIs DEF Folder
  <2>3. ok => disk' = [disk EXCEPT ![n] = e]
    BY <1>1, <1>2, <2>1
  <2> HIDE DEF b
  <2>4. e.file = d.file /\ e.durable = d.durable /\ e.backups = b
    BY <2>1 DEF Folder
  <2> HIDE DEF e
  <2>5. \A m \in Names :
          \/ disk'[m] = disk[m]
          \/ /\ m = n /\ disk'[m].file = disk[m].file /\ disk'[m].durable = disk[m].durable
             /\ BackedWith(disk[m].backups, v, disk'[m].backups)
    BY <1>1, <1>2, <2>1, <2>2, <2>3, <2>4
  <2>6. AllReadable'
    BY <2>5, Marked DEF Trusted, AllReadable, Readable
  <2>7. AllOwned'
    <3>1. <<n, v>> \in owned /\ owned \subseteq owned'
      BY <2>1, Marked DEF Trusted, AllOwned, JobOwned
    <3>2. ASSUME NEW m \in Names, NEW u \in Versions, Inside(disk'[m], u) PROVE <<m, u>> \in owned'
      <4>1. Inside(disk[m], u) \/ (m = n /\ u = v)
        BY <2>5, <3>2 DEF Inside, BackedWith
      <4> QED BY <3>1, <4>1 DEF Trusted, AllOwned, Owned
    <3>3. \A m \in Names : Owned(m, disk'[m], owned')
      BY <3>2 DEF Owned
    <3> QED BY <2>1, <3>1, <3>3, Marked DEF Trusted, AllOwned, Owned, Inside, JobOwned
  <2>8. AllBacked'
    <3> SUFFICES ASSUME "raced" \notin past' PROVE AllBacked'
      BY DEF AllBacked
    <3>1. "raced" \notin past /\ ok
      BY <1>1, <2>1, Marked DEF Raced
    <3>2. /\ s.phase # "down" /\ d.file.ver = v /\ Writing(worker) /\ ~Writing(worker')
          /\ \A m \in Names : (m # n => Backed(disk[m])) /\ Restorable(disk[m])
      BY <2>1, <3>1 DEF Trusted, AllBacked, Writing
    <3>3. disk'[n] = e
      BY <1>1, <1>2, <2>3, <3>1
    <3>4. Backed(e) /\ Restorable(e)
      BY <1>2, <2>2, <2>4, <3>2, NumbersOf DEF Backed, Restorable, BackedWith
    <3>5. \A m \in Names : Backed(disk'[m]) /\ Restorable(disk'[m])
      BY <1>1, <1>2, <2>3, <3>1, <3>2, <3>3, <3>4
    <3> QED BY <2>1, <3>2, <3>5 DEF AllBacked, Backed, Restorable, Loadable
  <2> QED BY <2>6, <2>7, <2>8 DEF Trusted
<1> QED BY <1>3, <1>4, <1>5, <1>6, <1>7 DEF WorkerStep

\* The end of a process.
LEMMA EndTrusted ==
  ASSUME Trusted, TypeOK', Exit \/ Panic \/ Kill, NEW marks, Recorded(marks)
  PROVE  Trusted'
<1>1. /\ disk \in [Names -> Folder] /\ s \in Sessions /\ faults \in Nat
      /\ worker.job.name \in Names /\ worker.step \in Steps
  BY TypeParts, StoreAssumption DEF Trusted, Workers, Job
<1>2. CASE Exit
  BY <1>2, QuietTrusted DEF Exit, Gone, Idle
<1>3. CASE Panic
  <2>1. \A n \in Names : /\ disk'[n].file.ver = disk[n].file.ver
                         /\ disk'[n].durable.ver = disk[n].durable.ver
                         /\ disk'[n].backups = disk[n].backups
    <3>1. CASE disk' = disk
      BY <3>1
    <3>2. CASE disk' = [n \in Names |-> [disk[n] EXCEPT !.file.old = TRUE, !.durable.old = TRUE]]
      <4>1. ASSUME NEW n \in Names
            PROVE  /\ disk'[n].file.ver = disk[n].file.ver
                   /\ disk'[n].durable.ver = disk[n].durable.ver
                   /\ disk'[n].backups = disk[n].backups
        <5>1. disk'[n] = [disk[n] EXCEPT !.file.old = TRUE, !.durable.old = TRUE]
          BY <3>2
        <5>2. disk[n] \in Folder
          BY <1>1
        <5> QED BY <5>1, <5>2 DEF Folder, File
      <4> QED BY <4>1
    <3> QED BY <1>3, <3>1, <3>2 DEF Panic
  <2>2. s'.phase = "closing" /\ worker' = worker /\ queue' = queue
    BY <1>1, <1>3 DEF Panic, Sessions
  <2> QED BY <2>1, <2>2, QuietTrusted
<1>4. CASE Kill
  <2>1. \A n \in Names : LET d == disk[n] e == disk'[n]
                         IN  /\ e.backups = d.backups
                             /\ e.file \in {d.file, d.durable} /\ e.durable \in {d.file, d.durable}
    <3>1. PICK lost \in SUBSET {n \in Names : disk[n].file # disk[n].durable} :
            disk' = [n \in Names |-> IF n \in lost THEN [disk[n] EXCEPT !.file = disk[n].durable]
                                     ELSE Synced(disk[n])]
      BY <1>4 DEF Kill
    <3>2. ASSUME NEW n \in Names
          PROVE  /\ disk'[n].backups = disk[n].backups
                 /\ disk'[n].file \in {disk[n].file, disk[n].durable}
                 /\ disk'[n].durable \in {disk[n].file, disk[n].durable}
      <4>1. disk[n] \in Folder
        BY <1>1
      <4>2. disk'[n] = [disk[n] EXCEPT !.file = disk[n].durable] \/ disk'[n] = Synced(disk[n])
        BY <3>1
      <4> QED BY <4>1, <4>2 DEF Folder, Synced
    <3> QED BY <3>2
  <2>2. "raced" \in past'
    <3>1. Raced
      <4>1. s'.phase = "down" /\ s.phase # "down" /\ faults' # faults
        BY <1>1, <1>4 DEF Kill, Gone, Fault, Sessions
      <4> QED BY <4>1 DEF Raced
    <3> QED BY <3>1, Marked
  <2>3. AllReadable'
    BY <2>1, Marked DEF Trusted, AllReadable, Readable
  <2>4. AllOwned'
    <3>1. \A n \in Names : Owned(n, disk'[n], owned')
      BY <2>1, Marked DEF Trusted, AllOwned, Owned, Inside
    <3>2. queue' = <<>> /\ worker'.step = "idle"
      BY <1>4 DEF Kill, Gone, Idle
    <3> QED BY <3>1, <3>2, Marked DEF AllOwned, Owned, Inside, JobOwned
  <2> QED BY <2>2, <2>3, <2>4 DEF Trusted, AllBacked
<1> QED BY <1>2, <1>3, <1>4

\* Damage while nothing runs.
LEMMA CorruptTrusted ==
  ASSUME Trusted, TypeOK', NEW n \in Names, NEW backups \in {"kept", "bad", "gone"},
         Corrupt(n, backups), NEW marks, Recorded(marks)
  PROVE  Trusted'
<1> DEFINE d == disk[n]
           left == CASE backups = "kept" -> d.backups
                     [] backups = "bad"  -> [i \in DOMAIN d.backups |-> Bad]
                     [] backups = "gone" -> <<>>
           e == [file |-> Fresh(Bad), durable |-> Fresh(Bad), backups |-> left]
<1>1. disk \in [Names -> Folder] /\ d \in Folder
  BY TypeParts DEF Trusted
<1>2. disk' = [disk EXCEPT ![n] = e]
  BY DEF Corrupt
<1>3. /\ s' = s /\ queue' = queue /\ worker' = worker /\ s.phase = "down" /\ Loadable(d.file)
  BY DEF Corrupt
<1>4. \A i \in DOMAIN left : left[i] \in Versions => i \in DOMAIN d.backups /\ left = d.backups
  BY NumbersOf
<1> HIDE DEF left
<1>5. e.file.ver = Bad /\ e.durable.ver = Bad /\ e.backups = left
  BY DEF Fresh
<1> HIDE DEF e
<1>6. disk'[n] = e /\ \A m \in Names : m # n => disk'[m] = disk[m]
  BY <1>1, <1>2
<1>7. AllReadable'
  BY <1>3, Marked DEF Damaged, AllReadable
<1>8. AllOwned'
  <2>1. ASSUME NEW u \in Versions, Inside(e, u) PROVE Inside(d, u)
    BY <1>4, <1>5, <2>1, NumbersOf DEF Inside
  <2>2. \A m \in Names : Owned(m, disk'[m], owned')
    BY <1>6, <2>1, Marked DEF Trusted, AllOwned, Owned
  <2> QED BY <1>3, <2>2, Marked DEF Trusted, AllOwned, Owned, Inside, JobOwned
<1>9. AllBacked'
  <2> SUFFICES ASSUME "raced" \notin past' PROVE AllBacked'
    BY DEF AllBacked
  <2>1. /\ worker.step = "idle" /\ ~Writing(worker)
        /\ \A m \in Names : Backed(disk[m]) /\ Restorable(disk[m])
    BY <1>3, Marked DEF Trusted, AllBacked, Writing
  <2>2. Backed(e)
    BY <1>5, NumbersOf DEF Backed, Loadable
  <2>3. Restorable(e)
    <3>1. Last(d.backups) \in Versions
      BY <1>3, <2>1 DEF Backed, Loadable
    <3> QED BY <1>4, <1>5, <3>1 DEF Restorable
  <2>4. \A m \in Names : Backed(disk'[m]) /\ Restorable(disk'[m])
    BY <1>6, <2>1, <2>2, <2>3
  <2> QED BY <1>3, <2>1, <2>4 DEF AllBacked, Backed, Restorable, Loadable, Writing
<1> QED BY <1>7, <1>8, <1>9 DEF Trusted

\* The next start.
LEMMA RestartTrusted ==
  ASSUME Trusted, TypeOK', Restart, NEW marks, Recorded(marks)
  PROVE  Trusted'
<1> DEFINE n == lastShow
           c == disk[n]
           d == Ensured(c)
           e == Restored(d)
<1>1. disk \in [Names -> Folder] /\ n \in Names /\ c \in Folder
  BY TypeParts DEF Trusted
<1>2. disk' = [disk EXCEPT ![n] = e]
  BY DEF Restart
<1>3. worker' = worker /\ lastShow' = n /\ s.phase = "down"
  BY DEF Restart
<1>4. s'.phase # "down" /\ queue' = <<JobOf("Snapshot", s')>>
  BY DEF Restart, NewSession
<1>5. \/ d = c /\ c.file.ver # None
      \/ /\ c.file.ver = None /\ d \in Folder /\ d.file.ver = 0 /\ d.durable.ver = 0
         /\ BackedWith(c.backups, 0, d.backups)
  BY <1>1, SavedWholeIs, VersionsAreContents DEF Ensured
<1>6. d \in Folder /\ d.file.ver \in Contents /\ d.backups \in Seq(Contents) /\ d.file.ver # None
  BY <1>1, <1>5, EnsuredTyped, NumbersOf, VersionsAreContents DEF Folder, File
<1>7. Owned(n, d, owned')
  <2>1. Owned(n, c, owned) /\ owned \subseteq owned' /\ <<n, 0>> \in owned'
    BY <1>1, <1>3, Marked DEF Trusted, AllOwned
  <2>2. CASE d = c
    BY <2>1, <2>2 DEF Owned
  <2>3. CASE d # c
    BY <1>1, <1>5, <2>1, <2>3, VersionsAreContents, BackedWithKeeps
  <2> QED BY <2>2, <2>3
<1>8. Readable(c) => Readable(d)
  BY <1>5, NumbersOf, VersionsAreContents DEF Readable
<1>9. Backed(c) /\ Restorable(c) => Backed(d) /\ Restorable(d)
  BY <1>5, NumbersOf, VersionsAreContents DEF Backed, Restorable, BackedWith
<1>10. Loadable(d.file) \/ d.file.ver = Bad
  BY <1>6 DEF Loadable, Contents
<1> HIDE DEF c, d
<1>11. /\ e \in Folder /\ e.backups = d.backups
       /\ \/ e = d /\ Loadable(d.file)
          \/ /\ ~Loadable(d.file) /\ LastGood(d.backups) > 0
             /\ e.file.ver = d.backups[LastGood(d.backups)] /\ e.durable.ver = e.file.ver
          \/ /\ ~Loadable(d.file) /\ LastGood(d.backups) = 0
             /\ e.file.ver \in {None, Bad} /\ e.durable.ver = e.file.ver
  BY <1>6, RestoredIs
<1>12. LastGood(d.backups) > 0 =>
         LastGood(d.backups) \in 1 .. Len(d.backups) /\ d.backups[LastGood(d.backups)] \in Versions
  BY <1>6, LastGoodIsGood
<1> HIDE DEF e
<1>13. disk'[n] = e /\ \A m \in Names : m # n => disk'[m] = disk[m]
  BY <1>1, <1>2
<1>14. AllReadable'
  <2>1. Readable(d) => Readable(e)
    BY <1>10, <1>11 DEF Readable
  <2> QED BY <1>1, <1>8, <1>13, <2>1, Marked DEF Trusted, AllReadable, Readable, c
<1>15. AllOwned'
  <2>1. ASSUME NEW u \in Versions, Inside(e, u) PROVE Inside(d, u)
    <3>1. LastGood(d.backups) > 0 => LastGood(d.backups) \in DOMAIN d.backups
      BY <1>6, <1>12
    <3> QED BY <1>11, <2>1, <3>1, NumbersOf DEF Inside
  <2>2. Owned(n, e, owned')
    BY <1>7, <2>1 DEF Owned
  <2>3. \A m \in Names : Owned(m, disk'[m], owned')
    BY <1>13, <2>2, Marked DEF Trusted, AllOwned, Owned
  <2>4. \A i \in DOMAIN queue' : JobOwned(queue'[i], owned')
    BY <1>4, Marked DEF JobOwned, JobOf
  <2>5. worker'.step # "idle" => JobOwned(worker'.job, owned')
    BY <1>3, Marked DEF Trusted, AllOwned, JobOwned
  <2> QED BY <2>3, <2>4, <2>5, Marked DEF AllOwned, Owned, Inside, JobOwned
<1>16. AllBacked'
  <2> SUFFICES ASSUME "raced" \notin past' PROVE AllBacked'
    BY DEF AllBacked
  <2>1. /\ worker.step = "idle" /\ ~Writing(worker)
        /\ \A m \in Names : Backed(disk[m]) /\ Restorable(disk[m])
    BY <1>3, Marked DEF Trusted, AllBacked, Writing
  <2>2. Backed(d) /\ Restorable(d)
    BY <1>1, <1>9, <2>1 DEF c
  <2>3. Backed(e) /\ Restorable(e)
    <3>1. CASE Loadable(d.file)
      BY <1>11, <2>2, <3>1
    <3>2. CASE ~Loadable(d.file) /\ LastGood(d.backups) > 0
      <4>1. \E i \in DOMAIN d.backups : d.backups[i] \in Versions
        BY <1>6, <1>12, <3>2
      <4>2. Last(d.backups) \in Versions /\ d.backups # <<>>
        BY <1>10, <2>2, <3>2, <4>1 DEF Restorable
      <4>3. LastGood(d.backups) = Len(d.backups)
        BY <1>6, <4>2, LastGoodIsLast
      <4>4. e.file.ver = Last(e.backups) /\ e.file.ver \in Versions
        BY <1>11, <1>12, <3>2, <4>3 DEF Last
      <4> QED BY <1>11, <4>2, <4>4, NumbersOf DEF Backed, Restorable
    <3>3. CASE ~Loadable(d.file) /\ LastGood(d.backups) = 0
      <4>1. \A i \in DOMAIN e.backups : e.backups[i] \notin Versions
        BY <1>6, <1>11, <3>3, LastGoodIsLast
      <4> QED BY <1>11, <3>3, <4>1, NumbersOf DEF Backed, Restorable, Loadable
    <3> QED BY <1>11, <3>1, <3>2, <3>3
  <2>4. \A m \in Names : Backed(disk'[m]) /\ Restorable(disk'[m])
    BY <1>13, <2>1, <2>3
  <2> QED BY <1>3, <1>4, <2>1, <2>4 DEF AllBacked, Backed, Restorable, Loadable, Writing
<1> QED BY <1>14, <1>15, <1>16 DEF Trusted

LEMMA TrustedHolds == HSpec => []Trusted
<1>1. HInit => Trusted
  <2> SUFFICES ASSUME HInit PROVE Trusted
    OBVIOUS
  <2>1. TypeOK
    BY InitTyped DEF HInit
  <2>2. \A n \in Names : \/ Stock[n] = None /\ disk[n] = EmptyFolder
                         \/ Stock[n] # None /\ disk[n] = SavedWhole(EmptyFolder, Stock[n], FALSE)
    BY DEF HInit, Init
  <2>3. \A n \in Names : Stock[n] \in Contents /\ (Stock[n] # None => Stock[n] \in Versions)
    BY StoreAssumption DEF Contents, Versions, None
  <2>4. ASSUME NEW n \in Names
        PROVE  /\ Readable(disk[n]) /\ Owned(n, disk[n], owned)
               /\ Backed(disk[n]) /\ Restorable(disk[n])
    <3>1. CASE Stock[n] = None
      <4> DEFINE d == EmptyFolder
      <4>1. disk[n] = d
        BY <2>2, <3>1
      <4>2. d.file.ver = None /\ d.durable.ver = None /\ d.backups = <<>>
        BY DEF EmptyFolder, Fresh
      <4> HIDE DEF d
      <4>3. ~Loadable(d.file) /\ d.file.ver # Bad /\ \A u \in Versions : ~Inside(d, u)
        BY <4>2, NumbersOf DEF Inside, Loadable
      <4>4. Readable(d) /\ Owned(n, d, owned) /\ Backed(d) /\ Restorable(d)
        BY <4>2, <4>3, NumbersOf DEF Readable, Owned, Backed, Restorable
      <4> QED BY <4>1, <4>4
    <3>2. CASE Stock[n] # None
      <4> DEFINE d == disk[n]
                 v == Stock[n]
      <4>1. v \in Versions /\ v \in Contents /\ d = SavedWhole(EmptyFolder, v, FALSE)
        BY <2>2, <2>3, <3>2
      <4>2. <<n, v>> \in owned
        BY <3>2 DEF HInit
      <4> HIDE DEF d, v
      <4>3. /\ d.file.ver = v /\ d.durable.ver = v
            /\ BackedWith(EmptyFolder.backups, v, d.backups)
        BY <4>1, EmptyFolderTyped, SavedWholeIs
      <4>4. EmptyFolder.backups = <<>>
        BY DEF EmptyFolder
      <4>5. \A i \in DOMAIN d.backups : d.backups[i] = v
        BY <4>3, <4>4 DEF BackedWith
      <4>6. Readable(d) /\ Owned(n, d, owned) /\ Backed(d) /\ Restorable(d)
        BY <4>1, <4>2, <4>3, <4>5, NumbersOf
           DEF Readable, Owned, Inside, Backed, Restorable, BackedWith
      <4> QED BY <4>6 DEF d
    <3> QED BY <3>1, <3>2
  <2>5. <<s.name, s.ver>> \in owned
    <3>1. s.name = First /\ s.ver = Stock[First]
      BY DEF HInit, Init, NewSession
    <3>2. First \in Names /\ Stock[First] # None
      BY StoreAssumption DEF None
    <3> QED BY <3>1, <3>2 DEF HInit
  <2>6. \A i \in DOMAIN queue : JobOwned(queue[i], owned)
    BY <2>5 DEF HInit, Init, JobOf, JobOwned
  <2>7. worker.step = "idle"
    BY DEF HInit, Init, Idle
  <2>8. AllReadable /\ AllOwned /\ AllBacked
    BY <2>4, <2>5, <2>6, <2>7 DEF AllReadable, AllOwned, AllBacked, Writing
  <2> QED BY <2>1, <2>8 DEF Trusted
<1>2. Trusted /\ [HNext]_hvars => Trusted'
  <2> SUFFICES ASSUME Trusted, [HNext]_hvars PROVE Trusted'
    OBVIOUS
  <2>1. CASE HNext
    <3>1. TypeOK'
      BY <2>1, OperatorTyped, TickTyped, WorkerTyped, EndTyped, CorruptTyped, RestartTyped
         DEF HNext, Continue, Environment, Trusted
    <3>2. PICK marks : Recorded(marks) /\ (Continue \/ Create \/ Replace)
      BY <2>1 DEF HNext
    <3>3. CASE Operator \/ Create \/ Replace
      BY <3>1, <3>2, <3>3, OperatorShape, SessionTrusted DEF Trusted
    <3>4. CASE Tick
      BY <3>1, <3>2, <3>4, TickShape, SessionTrusted DEF Tick, Trusted
    <3>5. CASE WorkerStep
      BY <3>1, <3>2, <3>5, WorkerTrusted
    <3>6. CASE Exit \/ Panic \/ Kill
      BY <3>1, <3>2, <3>6, EndTrusted
    <3>7. CASE \E n \in Names, backups \in {"kept", "bad", "gone"} : Corrupt(n, backups)
      BY <3>1, <3>2, <3>7, CorruptTrusted
    <3>8. CASE Restart
      BY <3>1, <3>2, <3>8, RestartTrusted
    <3> QED BY <3>2, <3>3, <3>4, <3>5, <3>6, <3>7, <3>8 DEF Continue, Environment
  <2>2. CASE UNCHANGED hvars
    <3>1. TypeOK'
      BY <2>2, TypeParts, TypePartsNext DEF hvars, Trusted
    <3>2. UNCHANGED <<s, queue, worker, disk, owned, past>>
      BY <2>2 DEF hvars
    <3> QED BY <3>1, <3>2 DEF Trusted, AllReadable, AllOwned, AllBacked, Readable, Owned, Inside,
                              JobOwned, Backed, Restorable, Loadable, Writing
  <2> QED BY <2>1, <2>2
<1> QED BY <1>1, <1>2, PTL DEF HSpec

\* Whatever crashes, fails, is damaged, loaded, renamed or recovered: only damage
\* makes a show unreadable; a folder never holds another show's content; and once
\* nothing runs the newest backup is the show, where the worker alone wrote it
\* and got to the end (write_atomic, write_backup, prune_backups, try_backups).
THEOREM DiskCanBeTrusted == HSpec => []FilesCanBeTrusted
<1>1. Trusted => FilesCanBeTrusted
  <2> SUFFICES ASSUME Trusted PROVE FilesCanBeTrusted
    OBVIOUS
  <2>1. CrashLeavesReadable
    BY DEF Trusted, AllReadable, Readable, CrashLeavesReadable
  <2>2. BackupHoldsShow
    BY DEF Trusted, AllBacked, Backed, Writing, BackupHoldsShow
  <2>3. FolderHoldsOwnShow
    BY DEF Trusted, AllOwned, Owned, Inside, FolderHoldsOwnShow, ToSet
  <2> QED BY <2>1, <2>2, <2>3 DEF FilesCanBeTrusted
<1> QED BY <1>1, TrustedHolds, PTL

-----------------------------------------------------------------------------
(* What a panic writes, and what the next start proposes.                  *)
(*                                                                         *)
(* Content travels from the show to the queue, to the worker and to the    *)
(* snapshot of the panic hook: the newest of these on the way is the show, *)
(* and, without a move to another show, no younger content is overtaken.   *)

\* The content the snapshot will have once the worker has caught up.
Newest(q, w, c) ==
  IF q # <<>> THEN q[Len(q)].ver ELSE IF w.step # "idle" THEN w.job.ver ELSE c

SnapshotFollows ==
  Up /\ ~s.recDirty /\ "refused" \notin past => Newest(queue, worker, cell) = s.ver

\* The jobs of r are those of q, then jobs with content v.
Grown(q, r, v) ==
  /\ Len(q) <= Len(r)
  /\ \A i \in DOMAIN q : i \in DOMAIN r /\ r[i] = q[i]
  /\ \A i \in DOMAIN r : i \notin DOMAIN q => r[i].ver = v
\* Either the snapshot is due, or a job was just posted, or nothing changed.
Accounted(a, q, b, r) ==
  b.recDirty \/ Len(r) > Len(q) \/ (b.ver = a.ver /\ ~a.recDirty)
Posted(a, q, b, r) == Grown(q, r, b.ver) /\ Accounted(a, q, b, r)

LEMMA GrownByNone == ASSUME NEW q \in Seq(Job), NEW v PROVE Grown(q, q, v)
BY DEF Grown

LEMMA GrownByOne ==
  ASSUME NEW q \in Seq(Job), NEW job \in Job, NEW r, r = Append(q, job)
  PROVE  Grown(q, r, job.ver) /\ Len(r) > Len(q) /\ r \in Seq(Job)
<1>1. /\ r \in Seq(Job) /\ Len(r) = Len(q) + 1 /\ Len(q) \in Nat
      /\ r[Len(q) + 1] = job /\ \A i \in 1 .. Len(q) : r[i] = q[i]
  OBVIOUS
<1>2. DOMAIN q = 1 .. Len(q) /\ DOMAIN r = 1 .. (Len(q) + 1)
  BY <1>1
<1> QED BY <1>1, <1>2 DEF Grown

LEMMA GrownTwice ==
  ASSUME NEW q \in Seq(Job), NEW r \in Seq(Job), NEW t \in Seq(Job), NEW v,
         Grown(q, r, v), Grown(r, t, v)
  PROVE  Grown(q, t, v)
<1>1. Len(q) \in Nat /\ Len(r) \in Nat /\ Len(t) \in Nat
  OBVIOUS
<1>2. Len(q) <= Len(t)
  BY <1>1 DEF Grown
<1>3. \A i \in DOMAIN q : i \in DOMAIN t /\ t[i] = q[i]
  BY DEF Grown
<1>4. \A i \in DOMAIN t : i \notin DOMAIN q => t[i].ver = v
  BY DEF Grown
<1> QED BY <1>2, <1>3, <1>4 DEF Grown

LEMMA JobOfCarries ==
  ASSUME NEW session \in Sessions, NEW q \in Queues, NEW kind \in {"Save", "Snapshot"}
  PROVE  /\ Grown(q, Append(q, JobOf(kind, session)), session.ver)
         /\ Len(Append(q, JobOf(kind, session))) > Len(q)
<1> DEFINE job == JobOf(kind, session)
           r == Append(q, job)
<1>1. job \in Job /\ job.ver = session.ver
  BY JobOfTyped DEF JobOf
<1>2. q \in Seq(Job) /\ r = Append(q, job)
  BY DEF Queues
<1> HIDE DEF job, r
<1>3. Grown(q, r, job.ver) /\ Len(r) > Len(q)
  BY <1>1, <1>2, GrownByOne
<1> QED BY <1>1, <1>3 DEF r, job

LEMMA PushSnapshotPosts ==
  ASSUME NEW session \in Sessions, NEW q \in Queues
  PROVE  /\ Posted(session, q, PushSnapshot(session, q)[1], PushSnapshot(session, q)[2])
         /\ PushSnapshot(session, q)[1].ver = session.ver
         /\ ~Full(q) => Len(PushSnapshot(session, q)[2]) > Len(q)
<1> DEFINE b == PushSnapshot(session, q)[1]
           r == PushSnapshot(session, q)[2]
<1>1. q \in Seq(Job) /\ session.recDirty \in BOOLEAN
  BY DEF Queues, Sessions
<1>2. CASE Full(q)
  <2>1. b = session /\ r = q
    BY <1>2 DEF PushSnapshot
  <2> HIDE DEF b, r
  <2>2. Posted(session, q, b, r) /\ b.ver = session.ver
    BY <1>1, <2>1, GrownByNone DEF Posted, Accounted
  <2> QED BY <1>2, <2>2 DEF b, r
<1>3. CASE ~Full(q)
  <2>1. /\ b = [session EXCEPT !.recDirty = FALSE]
        /\ r = Append(q, JobOf("Snapshot", session))
    BY <1>3 DEF PushSnapshot
  <2>2. b.ver = session.ver
    BY <2>1 DEF Sessions
  <2> HIDE DEF b, r
  <2>3. Posted(session, q, b, r) /\ Len(r) > Len(q)
    BY <2>1, <2>2, JobOfCarries DEF Posted, Accounted
  <2> QED BY <2>2, <2>3 DEF b, r
<1> QED BY <1>2, <1>3

LEMMA SaveShowPosts ==
  ASSUME NEW session \in Sessions, NEW q \in Queues
  PROVE  /\ Posted(session, q, SaveShow(session, q)[1], SaveShow(session, q)[2])
         /\ SaveShow(session, q)[1].ver = session.ver
<1> DEFINE b == SaveShow(session, q)[1]
           r == SaveShow(session, q)[2]
<1>1. q \in Seq(Job) /\ session.recDirty \in BOOLEAN
  BY DEF Queues, Sessions
<1>2. CASE session.inFlight \/ Full(q)
  <2>1. b = session /\ r = q
    BY <1>2 DEF SaveShow
  <2> HIDE DEF b, r
  <2>2. Posted(session, q, b, r) /\ b.ver = session.ver
    BY <1>1, <2>1, GrownByNone DEF Posted, Accounted
  <2> QED BY <2>2 DEF b, r
<1>3. CASE ~(session.inFlight \/ Full(q))
  <2>1. /\ b = [session EXCEPT !.inFlight = TRUE, !.recDirty = FALSE]
        /\ r = Append(q, JobOf("Save", session))
    BY <1>3 DEF SaveShow
  <2>2. b.ver = session.ver
    BY <2>1 DEF Sessions
  <2> HIDE DEF b, r
  <2>3. Posted(session, q, b, r)
    BY <2>1, <2>2, JobOfCarries DEF Posted, Accounted
  <2> QED BY <2>2, <2>3 DEF b, r
<1> QED BY <1>2, <1>3

\* Two postings of the same show, one after the other.
LEMMA PostedTwice ==
  ASSUME NEW a, NEW q \in Seq(Job), NEW b, NEW r \in Seq(Job), NEW c, NEW t \in Seq(Job),
         Posted(a, q, b, r), Posted(b, r, c, t), c.ver = b.ver,
         a.recDirty \in BOOLEAN, b.recDirty \in BOOLEAN, c.recDirty \in BOOLEAN
  PROVE  Posted(a, q, c, t)
<1> DEFINE v == b.ver
<1>1. Grown(q, r, v) /\ Grown(r, t, v)
  BY DEF Posted
<1>2. Grown(q, t, v)
  <2> HIDE DEF v
  <2> QED BY <1>1, GrownTwice
<1>3. Len(q) <= Len(r) /\ Len(r) <= Len(t)
  BY <1>1 DEF Grown
<1>4. Len(q) \in Nat /\ Len(r) \in Nat /\ Len(t) \in Nat
  OBVIOUS
<1>5. c.recDirty \/ Len(t) > Len(q) \/ (c.ver = a.ver /\ ~a.recDirty)
  <2>1. CASE Len(t) > Len(r)
    BY <1>3, <1>4, <2>1
  <2>2. CASE Len(r) > Len(q)
    BY <1>3, <1>4, <2>2
  <2>3. CASE ~(Len(t) > Len(r)) /\ ~(Len(r) > Len(q))
    BY <2>3 DEF Posted, Accounted
  <2> QED BY <2>1, <2>2, <2>3
<1> QED BY <1>2, <1>5 DEF Posted, Accounted

\* What the session does, as its queue and its show tell: it posts its show, or
\* a show that takes the place of another finds the queue full.
SessionPosts ==
  /\ Up /\ worker' = worker /\ cell' = cell
  /\ Posted(s, queue, s', queue') \/ (Full(queue) /\ moves' # moves)

LEMMA MarkedToo ==
  ASSUME NEW marks, Recorded(marks)
  PROVE  /\ "refused" \notin past' => "refused" \notin past /\ ~(moves' # moves /\ Full(queue))
         /\ "revived" \notin past' => "revived" \notin past /\ ~Revived
         /\ owned' = owned \cup {<<s'.name, s'.ver>>, <<lastShow', 0>>}
BY DEF Recorded

LEMMA GrownFollows ==
  ASSUME NEW marks, Recorded(marks), SnapshotFollows, SessionPosts,
         queue \in Seq(Job), queue' \in Seq(Job)
  PROVE  SnapshotFollows'
<1> SUFFICES ASSUME s'.phase = "up", ~s'.recDirty, "refused" \notin past'
             PROVE  Newest(queue', worker', cell') = s'.ver
  BY DEF SnapshotFollows, Up
<1>1. "refused" \notin past /\ Grown(queue, queue', s'.ver) /\ Accounted(s, queue, s', queue')
  BY MarkedToo DEF SessionPosts, Posted
<1> DEFINE n == Len(queue)
           m == Len(queue')
<1>2. n \in Nat /\ m \in Nat /\ n <= m /\ DOMAIN queue = 1 .. n /\ DOMAIN queue' = 1 .. m
  BY <1>1 DEF Grown
<1>3. (queue # <<>> <=> n > 0) /\ (queue' # <<>> <=> m > 0)
  OBVIOUS
<1>4. CASE m > n
  <2>1. queue'[m].ver = s'.ver
    <3> HIDE DEF n, m
    <3>1. m \in DOMAIN queue' /\ m \notin DOMAIN queue
      BY <1>2, <1>4
    <3> QED BY <1>1, <3>1 DEF Grown
  <2>2. queue' # <<>>
    BY <1>2, <1>3, <1>4
  <2> QED BY <2>1, <2>2 DEF Newest
<1>5. CASE ~(m > n)
  <2>1. s'.ver = s.ver /\ ~s.recDirty
    BY <1>1, <1>5 DEF Accounted
  <2>2. Newest(queue, worker, cell) = s.ver
    BY <1>1, <2>1 DEF SnapshotFollows, SessionPosts
  <2>3. m = n
    <3> HIDE DEF n, m
    <3> QED BY <1>2, <1>5
  <2>4. CASE n > 0
    <3>1. queue'[m] = queue[n]
      <4> HIDE DEF n, m
      <4>1. n \in DOMAIN queue
        BY <1>2, <2>4
      <4> QED BY <1>1, <2>3, <4>1 DEF Grown
    <3> QED BY <1>3, <2>1, <2>2, <2>3, <2>4, <3>1 DEF Newest
  <2>5. CASE ~(n > 0)
    <3>1. queue = <<>> /\ queue' = <<>>
      BY <1>3, <2>3, <2>5
    <3> QED BY <2>1, <2>2, <3>1 DEF Newest, SessionPosts
  <2> QED BY <2>4, <2>5
<1> QED BY <1>4, <1>5

\* The show that takes the place of another is posted, unless the queue is full.
LEMMA InstalledPosts ==
  ASSUME NEW session \in Sessions, NEW name \in Names, NEW ver \in Versions, NEW q \in Queues
  PROVE  LET done == Installed(session, name, ver, q)
         IN  /\ Grown(q, done[2], done[1].ver)
             /\ ~Full(q) => Posted(session, q, done[1], done[2])
             /\ done[1] \in Sessions /\ done[2] \in Queues
<1> DEFINE shown == [session EXCEPT !.name = name, !.ver = ver, !.dirty = FALSE]
           b == PushSnapshot(shown, q)[1]
           r == PushSnapshot(shown, q)[2]
<1>1. shown \in Sessions
  BY DEF Sessions
<1>2. Installed(session, name, ver, q)[1] = b /\ Installed(session, name, ver, q)[2] = r
  BY DEF Installed
<1>3. b \in Sessions /\ r \in Queues
  <2> HIDE DEF shown
  <2> QED BY <1>1, PushSnapshotTyped
<1>4. Posted(shown, q, b, r) /\ (~Full(q) => Len(r) > Len(q))
  <2> HIDE DEF shown
  <2> QED BY <1>1, PushSnapshotPosts
<1> HIDE DEF b, r, shown
<1>5. Grown(q, r, b.ver) /\ (~Full(q) => Posted(session, q, b, r))
  BY <1>4 DEF Posted, Accounted
<1> QED BY <1>2, <1>3, <1>5

\* A step of the session that keeps its show, its flag and its queue.
LEMMA IdlePosts ==
  ASSUME TypeOK, queue' = queue, s'.ver = s.ver, s'.recDirty = s.recDirty
  PROVE  Posted(s, queue, s', queue')
<1>1. queue \in Seq(Job) /\ s.recDirty \in BOOLEAN
  BY TypeParts DEF Queues, Sessions
<1> QED BY <1>1, GrownByNone DEF Posted, Accounted

\* The session's own steps.  Its content only changes by an edit, which makes
\* newer content than there ever was, or by a recovery.
OwnPosts ==
  /\ Up /\ worker' = worker /\ cell' = cell /\ recover' = recover /\ lastShow' = lastShow
  /\ Posted(s, queue, s', queue')
  /\ \/ s'.ver = s.ver /\ edits' = edits
     \/ s'.ver = edits + 1 /\ edits' = edits + 1
     \/ Revived

LEMMA OperatorPosts ==
  ASSUME TypeOK, Operator
  PROVE  OwnPosts
<1>1. s \in Sessions /\ queue \in Queues /\ queue \in Seq(Job) /\ s.recDirty \in BOOLEAN
  BY TypeParts DEF Sessions, Queues
<1>2. CASE Edit
  <2>1. s'.ver = edits + 1 /\ s'.recDirty
    BY <1>1, <1>2 DEF Edit, MarkedDirty, Sessions
  <2>2. queue' = queue /\ Up /\ worker' = worker /\ cell' = cell /\ recover' = recover
        /\ lastShow' = lastShow /\ edits' = edits + 1
    BY <1>2 DEF Edit
  <2>3. Posted(s, queue, s', queue')
    BY <1>1, <2>1, <2>2, GrownByNone DEF Posted, Accounted
  <2> QED BY <2>1, <2>2, <2>3 DEF OwnPosts
<1>3. CASE Save
  <2>1. s' = SaveShow(s, queue)[1] /\ queue' = SaveShow(s, queue)[2]
    BY <1>3 DEF Save, Posts
  <2>2. Posted(s, queue, s', queue') /\ s'.ver = s.ver
    BY <1>1, <2>1, SaveShowPosts
  <2> QED BY <1>3, <2>2 DEF Save, OwnPosts
<1>4. CASE RecoveryLoad
  <2> DEFINE a == [s EXCEPT !.pending = None]
             done == Installed(a, s.name, s.pending, queue)
  <2>1. a \in Sessions /\ s.name \in Names /\ s.pending \in Versions /\ s.pending # None /\ Up
    BY <1>1, <1>4 DEF Sessions, RecoveryLoad
  <2>2. s' = MarkedDirty(done[1]) /\ queue' = done[2]
    BY <1>4 DEF RecoveryLoad, Posts
  <2>3. done[1] = PushSnapshot([a EXCEPT !.name = s.name, !.ver = s.pending, !.dirty = FALSE], queue)[1]
    BY DEF Installed
  <2>4. done[1].pending = None
    BY <1>1, <2>3 DEF PushSnapshot, Sessions
  <2> HIDE DEF a
  <2>5. done[1] \in Sessions /\ Grown(queue, done[2], done[1].ver)
    BY <1>1, <2>1, InstalledPosts
  <2> HIDE DEF done
  <2>6. s'.ver = done[1].ver /\ s'.recDirty /\ s'.pending = None /\ s'.dirty
    BY <2>2, <2>4, <2>5 DEF MarkedDirty, Sessions
  <2>7. Posted(s, queue, s', queue')
    BY <2>2, <2>5, <2>6 DEF Posted, Accounted
  <2>8. Revived
    BY <2>1, <2>6 DEF Revived, Up
  <2> QED BY <1>4, <2>7, <2>8 DEF RecoveryLoad, OwnPosts
<1>5. CASE RecoveryDismiss
  <2>1. s'.ver = s.ver /\ s'.recDirty = s.recDirty
    BY <1>1, <1>5 DEF RecoveryDismiss, Sessions
  <2> QED BY <1>5, <2>1, IdlePosts DEF RecoveryDismiss, OwnPosts
<1>6. ASSUME NEW ok \in Outcomes, NEW sameSecond \in BOOLEAN, Quit(ok, sameSecond)
      PROVE  OwnPosts
  <2>1. s'.ver = s.ver /\ s'.recDirty = s.recDirty
    BY <1>1, <1>6 DEF Quit, Sessions
  <2> QED BY <1>6, <2>1, IdlePosts DEF Quit, OwnPosts
<1> QED BY <1>2, <1>3, <1>4, <1>5, <1>6 DEF Operator

LEMMA TickPosts ==
  ASSUME TypeOK, NEW snapshotDue \in BOOLEAN, NEW saveDue \in BOOLEAN,
         Autosave(snapshotDue, saveDue)
  PROVE  OwnPosts
<1> DEFINE a == Drained(s, results)
           p == IF a.recDirty /\ snapshotDue THEN PushSnapshot(a, queue) ELSE <<a, queue>>
           b == p[1]
           r == p[2]
<1>1. s \in Sessions /\ queue \in Queues /\ queue \in Seq(Job) /\ s.recDirty \in BOOLEAN
  BY TypeParts DEF Sessions, Queues
<1>2. a \in Sessions /\ a.ver = s.ver /\ a.recDirty = s.recDirty
  BY <1>1, DrainedTyped DEF Drained, Sessions
<1>3. /\ s' = (IF b.dirty /\ ~b.inFlight /\ saveDue THEN SaveShow(b, r) ELSE p)[1]
      /\ queue' = (IF b.dirty /\ ~b.inFlight /\ saveDue THEN SaveShow(b, r) ELSE p)[2]
      /\ worker' = worker /\ cell' = cell /\ recover' = recover /\ lastShow' = lastShow
      /\ edits' = edits /\ Up
  BY DEF Autosave, Posts
<1> HIDE DEF a
<1>4. b \in Sessions /\ r \in Queues /\ Posted(a, queue, b, r) /\ b.ver = a.ver
  <2>1. CASE a.recDirty /\ snapshotDue
    <3>1. b = PushSnapshot(a, queue)[1] /\ r = PushSnapshot(a, queue)[2]
      BY <2>1
    <3> HIDE DEF b, r
    <3> QED BY <1>1, <1>2, <3>1, PushSnapshotTyped, PushSnapshotPosts
  <2>2. CASE ~(a.recDirty /\ snapshotDue)
    <3>1. b = a /\ r = queue
      BY <2>2
    <3>2. Posted(a, queue, a, queue)
      BY <1>1, <1>2, GrownByNone DEF Posted, Accounted
    <3> QED BY <1>1, <1>2, <3>1, <3>2
  <2> QED BY <2>1, <2>2
<1>5. (s' = b /\ queue' = r) \/ (s' = SaveShow(b, r)[1] /\ queue' = SaveShow(b, r)[2])
  BY <1>3
<1> HIDE DEF b, r, p
<1>6. r \in Seq(Job) /\ b.recDirty \in BOOLEAN
  BY <1>4 DEF Queues, Sessions
<1>7. s' \in Sessions /\ queue' \in Queues /\ Posted(b, r, s', queue') /\ s'.ver = b.ver
  <2>1. Posted(b, r, b, r)
    BY <1>6, GrownByNone DEF Posted, Accounted
  <2> QED BY <1>4, <1>5, <2>1, SaveShowTyped, SaveShowPosts
<1>8. queue' \in Seq(Job) /\ s'.recDirty \in BOOLEAN
  BY <1>7 DEF Queues, Sessions
<1>9. Posted(a, queue, s', queue')
  BY <1>1, <1>2, <1>4, <1>6, <1>7, <1>8, PostedTwice
<1>10. Posted(s, queue, s', queue')
  BY <1>2, <1>9 DEF Posted, Accounted
<1> QED BY <1>2, <1>3, <1>4, <1>7, <1>10 DEF OwnPosts

LEMMA MovePosts ==
  ASSUME TypeOK, Create \/ Replace, moves \in Nat, moves' = moves + 1
  PROVE  SessionPosts
<1>1. s \in Sessions /\ queue \in Queues /\ queue \in Seq(Job) /\ disk \in [Names -> Folder]
      /\ s.dirty \in BOOLEAN
  BY TypeParts DEF Sessions, Queues
<1>2. moves' # moves
  OBVIOUS
<1>3. ASSUME NEW ok \in Outcomes, NEW sameSecond \in BOOLEAN, ShowNew(ok, sameSecond)
      PROVE  SessionPosts
  <2> DEFINE done == Installed(s, NewName, 0, queue)
  <2>1. ~Full(queue) => Posted(s, queue, done[1], done[2])
    BY <1>1, InstalledPosts, StoreAssumption, VersionsAreContents
  <2>2. s' = done[1] /\ queue' = done[2]
    BY <1>3 DEF ShowNew, Posts
  <2> HIDE DEF done
  <2> QED BY <1>2, <1>3, <2>1, <2>2 DEF ShowNew, SessionPosts
<1>4. ASSUME NEW n \in Names, SaveAs(n) PROVE SessionPosts
  <2> DEFINE a == [s EXCEPT !.name = n]
  <2>1. a \in Sessions /\ a.ver = s.ver /\ a.recDirty = s.recDirty
    BY <1>1 DEF Sessions
  <2>2. s' = SaveShow(a, queue)[1] /\ queue' = SaveShow(a, queue)[2]
    BY <1>4 DEF SaveAs, Posts
  <2> HIDE DEF a
  <2>3. Posted(a, queue, s', queue')
    BY <1>1, <2>1, <2>2, SaveShowPosts
  <2>4. Posted(s, queue, s', queue')
    BY <2>1, <2>3 DEF Posted, Accounted
  <2> QED BY <1>4, <2>4 DEF SaveAs, SessionPosts
<1>5. ASSUME NEW n \in Names, NEW ok \in Outcomes, NEW sameSecond \in BOOLEAN,
             Load(n, ok, sameSecond)
      PROVE  SessionPosts
  <2> DEFINE kept == [s EXCEPT !.dirty = @ /\ ~ok]
             d == SyncSave(s.dirty, ok, sameSecond)
  <2>1. kept \in Sessions /\ kept.ver = s.ver /\ kept.recDirty = s.recDirty
    BY <1>1 DEF Sessions
  <2>2. /\ Up /\ worker' = worker /\ cell' = cell
        /\ \/ Loadable(d[n].file) /\ Posts(Installed(kept, n, d[n].file.ver, queue))
           \/ Posts(<<kept, queue>>)
    BY <1>5 DEF Load
  <2> HIDE DEF kept, d
  <2>3. CASE Posts(<<kept, queue>>)
    <3>1. s' = kept /\ queue' = queue
      BY <2>3 DEF Posts
    <3> QED BY <2>1, <2>2, <3>1, IdlePosts DEF SessionPosts
  <2>4. CASE Loadable(d[n].file) /\ Posts(Installed(kept, n, d[n].file.ver, queue))
    <3> DEFINE v == d[n].file.ver
               done == Installed(kept, n, v, queue)
    <3>1. v \in Versions
      BY <2>4 DEF Loadable
    <3> HIDE DEF v
    <3>2. ~Full(queue) => Posted(kept, queue, done[1], done[2])
      BY <1>1, <2>1, <3>1, InstalledPosts
    <3>3. s' = done[1] /\ queue' = done[2]
      BY <2>4 DEF Posts, v
    <3> HIDE DEF done
    <3>4. ~Full(queue) => Posted(s, queue, s', queue')
      BY <2>1, <3>2, <3>3 DEF Posted, Accounted
    <3> QED BY <1>2, <2>2, <3>4 DEF SessionPosts
  <2> QED BY <2>2, <2>3, <2>4
<1> QED BY <1>3, <1>4, <1>5 DEF Create, Replace

\* The worker takes the oldest job, and publishes the one it has.
LEMMA WorkerFollows ==
  ASSUME TypeOK, SnapshotFollows, WorkerStep, NEW marks, Recorded(marks)
  PROVE  SnapshotFollows'
<1> SUFFICES ASSUME s'.phase = "up", ~s'.recDirty, "refused" \notin past'
             PROVE  Newest(queue', worker', cell') = s'.ver
  BY DEF SnapshotFollows, Up
<1>1. s' = s /\ "refused" \notin past
  BY MarkedToo DEF WorkerStep, TakeJob, WriteShow, SyncFolder, WriteBackup, Publish
<1>2. Newest(queue, worker, cell) = s.ver
  BY <1>1 DEF SnapshotFollows, Up
<1>3. queue \in Seq(Job) /\ worker \in Workers
  BY TypeParts DEF Queues, Workers
<1>4. CASE TakeJob
  <2>1. /\ worker.step = "idle" /\ queue # <<>> /\ worker'.job = queue[1] /\ worker'.step # "idle"
        /\ queue' = Tail(queue)
    BY <1>3, <1>4 DEF TakeJob
  <2>2. queue[Len(queue)].ver = s.ver
    BY <1>2, <2>1 DEF Newest
  <2>3. CASE Len(queue) = 1
    <3>1. queue' = <<>>
      BY <1>3, <2>1, <2>3
    <3> QED BY <1>1, <2>1, <2>2, <2>3, <3>1 DEF Newest
  <2>4. CASE Len(queue) # 1
    <3>1. queue' # <<>> /\ queue'[Len(queue')] = queue[Len(queue)]
      <4> DEFINE n == Len(queue)
      <4>1. n \in Nat /\ n > 0
        BY <1>3, <2>1
      <4>2. Len(queue') = n - 1 /\ \A i \in 1 .. (n - 1) : queue'[i] = queue[i + 1]
        BY <1>3, <2>1
      <4>3. n # 1
        BY <2>4
      <4> HIDE DEF n
      <4>4. n - 1 \in 1 .. (n - 1) /\ (n - 1) + 1 = n
        BY <4>1, <4>3
      <4>5. queue'[n - 1] = queue[n]
        BY <4>2, <4>4
      <4>6. queue' # <<>>
        BY <4>2, <4>4
      <4> QED BY <4>2, <4>5, <4>6 DEF n
    <3> QED BY <1>1, <2>2, <3>1 DEF Newest
  <2> QED BY <2>3, <2>4
<1>5. CASE Publish
  <2>1. queue' = queue /\ worker.step # "idle" /\ worker'.step = "idle" /\ cell' = worker.job.ver
    BY <1>5 DEF Publish, Idle
  <2> QED BY <1>1, <1>2, <2>1 DEF Newest
<1>6. ASSUME NEW ok \in Outcomes, NEW sameSecond \in BOOLEAN,
             WriteShow(ok) \/ SyncFolder(ok) \/ WriteBackup(ok, sameSecond)
      PROVE  Newest(queue', worker', cell') = s'.ver
  <2>1. /\ queue' = queue /\ cell' = cell /\ worker.step # "idle"
        /\ worker'.step # "idle" /\ worker'.job = worker.job
    BY <1>3, <1>6 DEF WriteShow, SyncFolder, WriteBackup, Workers
  <2> QED BY <1>1, <1>2, <2>1 DEF Newest
<1>7. \/ TakeJob \/ Publish
      \/ \E ok \in Outcomes, sameSecond \in BOOLEAN :
           WriteShow(ok) \/ SyncFolder(ok) \/ WriteBackup(ok, sameSecond)
  BY DEF WorkerStep
<1> QED BY <1>4, <1>5, <1>6, <1>7

\* A process that ends, or does not run, has no snapshot to keep.
LEMMA DownFollows ==
  ASSUME TypeOK, Exit \/ Panic \/ Kill \/ \E n \in Names, backups \in {"kept", "bad", "gone"} : Corrupt(n, backups)
  PROVE  SnapshotFollows'
<1>1. s'.phase # "up"
  <2>1. s \in Sessions
    BY TypeParts
  <2> QED BY <2>1 DEF Exit, Panic, Kill, Gone, Corrupt, Sessions
<1> QED BY <1>1 DEF SnapshotFollows, Up

LEMMA RestartFollows == ASSUME Restart PROVE SnapshotFollows'
<1>1. queue' = <<JobOf("Snapshot", s')>>
  BY DEF Restart
<1>2. Newest(queue', worker', cell') = JobOf("Snapshot", s').ver
  BY <1>1 DEF Newest
<1> QED BY <1>2 DEF SnapshotFollows, JobOf

Counted == moves \in Nat
LEMMA MovesCounted == HSpec => []Counted
<1>1. HInit => Counted
  BY DEF HInit, Counted
<1>2. Counted /\ [HNext]_hvars => Counted'
  BY DEF HNext, Another, hvars, Counted
<1> QED BY <1>1, <1>2, PTL DEF HSpec

LEMMA StoreTypedToo == HSpec => []TypeOK
BY TrustedHolds, PTL DEF Trusted

LEMMA SnapshotFollowsHolds == HSpec => []SnapshotFollows
<1>1. HInit => SnapshotFollows
  BY DEF HInit, Init, SnapshotFollows, Newest, JobOf
<1>2. /\ SnapshotFollows /\ TypeOK /\ TypeOK' /\ Counted /\ [HNext]_hvars
      => SnapshotFollows'
  <2> SUFFICES ASSUME SnapshotFollows, TypeOK, TypeOK', Counted, [HNext]_hvars
               PROVE  SnapshotFollows'
    OBVIOUS
  <2>1. queue \in Seq(Job) /\ queue' \in Seq(Job)
    <3>1. queue' \in Seq(Job)
      BY DEF TypeOK
    <3> QED BY <3>1, TypeParts DEF Queues
  <2>2. CASE HNext
    <3>1. PICK marks : /\ Recorded(marks)
                       /\ Continue \/ ((Create \/ Replace) /\ moves' = moves + 1)
      BY <2>2 DEF HNext, Another
    <3>2. CASE (Create \/ Replace) /\ moves' = moves + 1
      BY <2>1, <3>1, <3>2, MovePosts, GrownFollows DEF Counted
    <3>3. OwnPosts => SessionPosts
      BY DEF OwnPosts, SessionPosts
    <3>4. CASE Operator
      BY <2>1, <3>1, <3>3, <3>4, OperatorPosts, GrownFollows
    <3>5. CASE Tick
      BY <2>1, <3>1, <3>3, <3>5, TickPosts, GrownFollows DEF Tick
    <3>6. CASE WorkerStep
      BY <3>1, <3>6, WorkerFollows
    <3>7. CASE Exit \/ Environment
      BY <3>7, DownFollows DEF Environment
    <3>8. CASE Restart
      BY <3>8, RestartFollows
    <3> QED BY <3>1, <3>2, <3>4, <3>5, <3>6, <3>7, <3>8 DEF Continue
  <2>3. CASE UNCHANGED hvars
    <3>1. UNCHANGED <<s, queue, worker, cell, past>>
      BY <2>3 DEF hvars
    <3> QED BY <3>1 DEF SnapshotFollows, Newest, Up
  <2> QED BY <2>2, <2>3
<1> QED BY <1>1, <1>2, StoreTypedToo, MovesCounted, PTL DEF HSpec

\* Once the worker has caught up and no snapshot is due, the content a panic would
\* write is the content in memory, as long as no show found the queue full.
\* (recover_dirty, push_recover_snapshot, update_snapshot)
THEOREM SnapshotIsCurrent == HSpec => SnapshotCurrent
<1> DEFINE P == Up /\ ~s.recDirty /\ queue = <<>> /\ worker.step = "idle" /\ "refused" \notin past
                  => cell = s.ver
<1>1. SnapshotFollows => P
  BY DEF SnapshotFollows, Newest
<1>2. HSpec => []P
  BY <1>1, SnapshotFollowsHolds, PTL
<1>3. HSpec => [][P']_hvars
  <2> HIDE DEF P
  <2> QED BY <1>2, PTL
<1> QED BY <1>3 DEF SnapshotCurrent
-----------------------------------------------------------------------------
(* ... and at the next start.                                              *)

\* What travels never overtakes: the snapshot, then the job of the worker, then
\* the queue from its oldest job, then the show.
InOrder(c, w, q, v) ==
  /\ c <= v
  /\ w.step # "idle" => c <= w.job.ver /\ w.job.ver <= v
  /\ \A i \in DOMAIN q : c <= q[i].ver /\ q[i].ver <= v
  /\ w.step # "idle" => \A i \in DOMAIN q : w.job.ver <= q[i].ver
  /\ \A i, j \in DOMAIN q : i < j => q[i].ver <= q[j].ver

\* A file that a recovery with content r does not have to be proposed for, or
\* that is older than it.
Superseded(f, r) == f.old \/ f.ver \notin Versions \/ r <= f.ver
Hooked(h, session, c, d, r) ==
  h => /\ session.phase # "up"
       /\ session.phase = "closing" => r <= c
       /\ \A n \in Names : Superseded(d[n].file, r) /\ Superseded(d[n].durable, r)

\* Nothing owned is newer than the last edit.
Newer(own, e) == \A n \in Names, v \in Versions : <<n, v>> \in own => v <= e
NothingLeft == s.phase = "down" => queue = <<>> /\ worker.step = "idle" /\ cell = None

Promised ==
  "revived" \notin past /\ moves = 0 =>
    /\ InOrder(cell, worker, queue, s.ver)
    /\ Hooked(hooked, s, cell, disk, recover)
    /\ Newer(owned, edits)

LEMMA SmallSteps ==
  /\ Versions \subseteq Nat /\ None \in Int /\ \A v \in Versions : None <= v /\ v \in Int
BY StoreAssumption DEF Versions, None

\* Numbers of the state.
Numbered(c, w, q, v) ==
  /\ c \in Int /\ v \in Int /\ w.job.ver \in Int
  /\ q \in Seq(Job) /\ \A i \in DOMAIN q : q[i].ver \in Int
LEMMA TypedNumbered ==
  ASSUME NEW session \in Sessions, NEW q \in Seq(Job), NEW w \in Workers,
         NEW c \in Versions \cup {None}
  PROVE  Numbered(c, w, q, session.ver)
<1>1. \A i \in DOMAIN q : q[i] \in Job
  BY ElementTyped
<1> QED BY <1>1, SmallSteps DEF Numbered, Sessions, Workers, Job

LEMMA StateNumbered == TypeOK => Numbered(cell, worker, queue, s.ver)
BY TypeParts, TypedNumbered DEF Queues, Workers

LEMMA NextNumbered == TypeOK' => Numbered(cell', worker', queue', s'.ver)
<1>1. TypeOK' => /\ s' \in Sessions /\ queue' \in Seq(Job) /\ worker' \in Workers
                 /\ cell' \in Versions \cup {None}
  BY DEF TypeOK, Sessions, Workers
<1> QED BY <1>1, TypedNumbered

LEMMA GrownInOrder ==
  ASSUME NEW c, NEW w, NEW q, NEW v, NEW r, NEW u, Numbered(c, w, q, v), Numbered(c, w, r, u),
         InOrder(c, w, q, v), Grown(q, r, u), v <= u
  PROVE  InOrder(c, w, r, u)
<1> DEFINE n == Len(q)
           m == Len(r)
<1>1. n \in Nat /\ m \in Nat /\ DOMAIN q = 1 .. n /\ DOMAIN r = 1 .. m /\ n <= m
  BY DEF Numbered, Grown
<1> HIDE DEF n, m
<1>2. c \in Int /\ v \in Int /\ u \in Int /\ w.job.ver \in Int
  BY DEF Numbered
<1>3. \A i \in DOMAIN r : r[i].ver \in Int /\ (i \in DOMAIN q => r[i] = q[i]) /\ (i \notin DOMAIN q => r[i].ver = u)
  BY DEF Numbered, Grown
<1>4. c <= u /\ (w.step # "idle" => c <= w.job.ver /\ w.job.ver <= u)
  BY <1>2 DEF InOrder
<1>5. ASSUME NEW i \in DOMAIN r
      PROVE  /\ c <= r[i].ver /\ r[i].ver <= u /\ (w.step # "idle" => w.job.ver <= r[i].ver)
  <2>1. CASE i \in DOMAIN q
    <3>1. /\ c <= r[i].ver /\ r[i].ver <= v /\ (w.step # "idle" => w.job.ver <= r[i].ver)
      BY <1>3, <2>1 DEF InOrder
    <3> QED BY <1>2, <1>3, <3>1
  <2>2. CASE i \notin DOMAIN q
    BY <1>2, <1>3, <1>4, <2>2
  <2> QED BY <2>1, <2>2
<1>6. ASSUME NEW i \in DOMAIN r, NEW j \in DOMAIN r, i < j
      PROVE  r[i].ver <= r[j].ver
  <2>1. CASE j \in DOMAIN q
    <3>1. i \in DOMAIN q
      BY <1>1, <1>6, <2>1
    <3> QED BY <1>3, <1>6, <2>1, <3>1 DEF InOrder
  <2>2. CASE j \notin DOMAIN q
    BY <1>3, <1>5, <2>2
  <2> QED BY <2>1, <2>2
<1> QED BY <1>4, <1>5, <1>6 DEF InOrder

LEMMA OwnPromised ==
  ASSUME TypeOK, TypeOK', AllOwned, Promised, OwnPosts, ~Panicked, s'.phase \in {"up", "closing"},
         moves' = moves, NEW marks, Recorded(marks)
  PROVE  Promised'
<1> SUFFICES ASSUME "revived" \notin past', moves = 0 PROVE Promised'
  BY DEF Promised
<1>1. "revived" \notin past /\ ~Revived
  BY MarkedToo
<1>2. /\ InOrder(cell, worker, queue, s.ver)
      /\ Hooked(hooked, s, cell, disk, recover)
      /\ Newer(owned, edits)
  BY <1>1 DEF Promised
<1>3. /\ s \in Sessions /\ s' \in Sessions /\ edits \in Versions /\ edits' \in Versions
      /\ s.name \in Names /\ s.ver \in Versions /\ s.ver \in Int /\ s'.ver \in Versions
      /\ edits \in Int /\ lastShow \in Names
  <2>1. s' \in Sessions /\ edits' \in Versions
    BY DEF TypeOK, Sessions
  <2> QED BY <2>1, TypeParts, SmallSteps DEF Sessions
<1>4. s.ver <= edits
  BY <1>2, <1>3 DEF AllOwned, Newer
<1>5. /\ s.ver <= s'.ver /\ s'.ver <= edits' /\ edits <= edits'
  BY <1>1, <1>3, <1>4 DEF OwnPosts
<1>6. InOrder(cell', worker', queue', s'.ver)
  <2>1. Numbered(cell, worker, queue, s.ver) /\ Numbered(cell, worker, queue', s'.ver)
    BY StateNumbered, NextNumbered DEF OwnPosts
  <2> QED BY <1>2, <1>5, <2>1, GrownInOrder DEF OwnPosts, Posted
<1>7. Hooked(hooked', s', cell', disk', recover')
  <2>1. ~hooked
    BY <1>2 DEF OwnPosts, Up, Hooked
  <2>2. ~hooked'
    BY <2>1 DEF Recorded
  <2> QED BY <2>2 DEF Hooked
<1>8. Newer(owned', edits')
  <2>1. ASSUME NEW n \in Names, NEW v \in Versions, <<n, v>> \in owned' PROVE v <= edits'
    <3>1. <<n, v>> \in owned \/ v = s'.ver \/ v = 0
      BY <2>1, MarkedToo
    <3>2. v \in Nat /\ edits' \in Nat /\ edits \in Nat
      BY <1>3, SmallSteps
    <3> QED BY <1>2, <1>5, <3>1, <3>2 DEF Newer
  <2> QED BY <2>1 DEF Newer
<1> QED BY <1>6, <1>7, <1>8 DEF Promised
\* The step of a process that is not the session's: its show stays, and nothing
\* of what is owned is new.
LEMMA StillNewer ==
  ASSUME TypeOK, TypeOK', Newer(owned, edits), edits' = edits, s'.ver <= edits,
         NEW marks, Recorded(marks)
  PROVE  Newer(owned', edits')
<1>1. edits \in Nat /\ s'.ver \in Nat
  <2>1. s'.ver \in Versions
    BY DEF TypeOK
  <2> QED BY <2>1, TypeParts, SmallSteps
<1>2. ASSUME NEW n \in Names, NEW v \in Versions, <<n, v>> \in owned' PROVE v <= edits'
  <2>1. <<n, v>> \in owned \/ v = s'.ver \/ v = 0
    BY <1>2, MarkedToo
  <2> QED BY <1>1, <2>1 DEF Newer
<1> QED BY <1>2 DEF Newer

\* The files of a folder, as a recovery with content r sees them.
AllSuperseded(d, r) ==
  \A n \in Names : Superseded(d[n].file, r) /\ Superseded(d[n].durable, r)

LEMMA WorkerPromised ==
  ASSUME TypeOK, TypeOK', AllOwned, Promised, NothingLeft, WorkerStep,
         NEW marks, Recorded(marks), moves' = moves
  PROVE  Promised'
<1> SUFFICES ASSUME "revived" \notin past', moves = 0 PROVE Promised'
  BY DEF Promised
<1>1. "revived" \notin past
  BY MarkedToo
<1>2. /\ InOrder(cell, worker, queue, s.ver)
      /\ Hooked(hooked, s, cell, disk, recover)
      /\ Newer(owned, edits)
  BY <1>1 DEF Promised
<1>3. s' = s /\ edits' = edits /\ recover' = recover
  BY DEF WorkerStep, TakeJob, WriteShow, SyncFolder, WriteBackup, Publish
<1>4. /\ s \in Sessions /\ queue \in Seq(Job) /\ worker \in Workers /\ disk \in Disks
      /\ worker.step \in Steps /\ worker.job.name \in Names
      /\ cell \in Int /\ s.ver \in Int /\ worker.job.ver \in Int /\ s.phase \in {"up", "closing", "down"}
      /\ \A i \in DOMAIN queue : queue[i].ver \in Int
      /\ edits \in Versions /\ s.ver \in Versions /\ s.name \in Names /\ recover \in Int
  BY TypeParts, StateNumbered, SmallSteps DEF Queues, Workers, Disks, Job, Sessions, Numbered
<1>5. Newer(owned', edits')
  <2>1. s.ver <= edits
    BY <1>2, <1>4 DEF AllOwned, Newer
  <2> QED BY <1>2, <1>3, <2>1, StillNewer
<1>6. ~Panicked
  BY <1>3 DEF Panicked, Panic, Up
<1>7. hooked' => hooked
  BY <1>6 DEF Recorded
<1>8. hooked' => s.phase = "closing" \/ s.phase = "down"
  BY <1>2, <1>4, <1>7 DEF Hooked
<1>9. CASE TakeJob
  <2>1. /\ worker.step = "idle" /\ queue # <<>> /\ worker'.job = queue[1] /\ queue' = Tail(queue)
        /\ cell' = cell /\ disk' = disk
    BY <1>4, <1>9 DEF TakeJob
  <2>2. 1 \in DOMAIN queue /\ \A i \in DOMAIN queue' : i + 1 \in DOMAIN queue /\ 1 < i + 1 /\ queue'[i] = queue[i + 1]
    BY <1>4, <2>1
  <2>3. \A i, j \in DOMAIN queue' : i < j => i + 1 < j + 1
    BY <1>4, <2>1
  <2>4. InOrder(cell', worker', queue', s'.ver)
    <3>1. cell <= s.ver /\ cell <= queue[1].ver /\ queue[1].ver <= s.ver
      BY <1>2, <2>2 DEF InOrder
    <3>2. \A i \in DOMAIN queue' : /\ cell <= queue'[i].ver /\ queue'[i].ver <= s.ver
                                   /\ queue[1].ver <= queue'[i].ver
      BY <1>2, <2>2 DEF InOrder
    <3>3. \A i, j \in DOMAIN queue' : i < j => queue'[i].ver <= queue'[j].ver
      BY <1>2, <2>2, <2>3 DEF InOrder
    <3> QED BY <1>3, <2>1, <3>1, <3>2, <3>3 DEF InOrder
  <2>5. Hooked(hooked', s', cell', disk', recover')
    BY <1>2, <1>3, <1>7, <2>1 DEF Hooked
  <2> QED BY <1>5, <2>4, <2>5 DEF Promised
<1>10. CASE Publish
  <2>1. /\ worker.step # "idle" /\ worker'.step = "idle" /\ cell' = worker.job.ver /\ queue' = queue
        /\ disk' = disk
    BY <1>10 DEF Publish, Idle
  <2>2. InOrder(cell', worker', queue', s'.ver)
    BY <1>2, <1>3, <1>4, <2>1 DEF InOrder
  <2>3. Hooked(hooked', s', cell', disk', recover')
    <3>1. hooked /\ s.phase = "closing" => recover <= worker.job.ver
      BY <1>2, <1>4, <2>1 DEF Hooked, InOrder
    <3> QED BY <1>2, <1>3, <1>7, <2>1, <3>1 DEF Hooked
  <2> QED BY <1>5, <2>2, <2>3 DEF Promised
<1>11. ASSUME NEW ok \in Outcomes, NEW sameSecond \in BOOLEAN,
              WriteShow(ok) \/ SyncFolder(ok) \/ WriteBackup(ok, sameSecond)
       PROVE  Promised'
  <2> DEFINE m == worker.job.name
             u == worker.job.ver
  <2>1. /\ queue' = queue /\ cell' = cell /\ worker.step # "idle"
        /\ worker'.step # "idle" /\ worker'.job = worker.job
    BY <1>4, <1>11 DEF WriteShow, SyncFolder, WriteBackup, Workers
  <2>2. InOrder(cell', worker', queue', s'.ver)
    BY <1>2, <1>3, <2>1 DEF InOrder
  <2>3. \A n \in Names :
          /\ disk'[n].file = disk[n].file \/ disk'[n].file.ver = u
          /\ disk'[n].durable \in {disk[n].durable, disk[n].file}
    <3>1. CASE disk' = disk
      BY <3>1
    <3>2. CASE disk' = [disk EXCEPT ![m] = Renamed(@, u)]
      <4>1. Renamed(disk[m], u).file.ver = u /\ Renamed(disk[m], u).durable = disk[m].durable
        BY <1>4 DEF Renamed, Fresh, Disks, Folder
      <4> QED BY <1>4, <3>2, <4>1 DEF Disks
    <3>3. CASE disk' = [disk EXCEPT ![m] = Synced(@)]
      <4>1. Synced(disk[m]).file = disk[m].file /\ Synced(disk[m]).durable = disk[m].file
        BY <1>4 DEF Synced, Disks, Folder
      <4> QED BY <1>4, <3>3, <4>1 DEF Disks
    <3>4. CASE disk' = [disk EXCEPT ![m].backups = WithBackup(@, u, sameSecond)]
      <4> DEFINE b == WithBackup(disk[m].backups, u, sameSecond)
      <4>1. disk' = BackedUp(disk, m, b)
        BY <1>4, <3>4 DEF BackedUp, Disks
      <4> HIDE DEF b
      <4>2. \A n \in Names : disk'[n].file = disk[n].file /\ disk'[n].durable = disk[n].durable
        BY <1>4, <4>1, BackupOnly
      <4> QED BY <4>2
    <3> QED BY <1>11, <3>1, <3>2, <3>3, <3>4 DEF WriteShow, SyncFolder, WriteBackup, Target
  <2>4. Hooked(hooked', s', cell', disk', recover')
    <3> SUFFICES ASSUME hooked' PROVE Hooked(hooked', s', cell', disk', recover')
      BY DEF Hooked
    <3>1. s.phase = "closing" /\ recover <= cell /\ AllSuperseded(disk, recover)
      BY <1>2, <1>7, <1>8, <2>1 DEF Hooked, NothingLeft, AllSuperseded
    <3>2. recover <= u
      BY <1>2, <1>4, <2>1, <3>1 DEF InOrder
    <3>3. AllSuperseded(disk', recover)
      BY <2>3, <3>1, <3>2 DEF AllSuperseded, Superseded
    <3> QED BY <1>3, <2>1, <3>1, <3>3 DEF Hooked, AllSuperseded
  <2> QED BY <1>5, <2>2, <2>4 DEF Promised
<1>12. \/ TakeJob \/ Publish
       \/ \E ok \in Outcomes, sameSecond \in BOOLEAN :
            WriteShow(ok) \/ SyncFolder(ok) \/ WriteBackup(ok, sameSecond)
  BY DEF WorkerStep
<1> QED BY <1>9, <1>10, <1>11, <1>12
\* The hook writes what the snapshot has; every file is older.
LEMMA PanicPromised ==
  ASSUME TypeOK, TypeOK', AllOwned, Promised, Panicked,
         NEW marks, Recorded(marks), moves' = moves
  PROVE  Promised'
<1> SUFFICES ASSUME "revived" \notin past', moves = 0 PROVE Promised'
  BY DEF Promised
<1>1. "revived" \notin past
  BY MarkedToo
<1>2. InOrder(cell, worker, queue, s.ver) /\ Newer(owned, edits)
  BY <1>1 DEF Promised
<1>3. /\ s \in Sessions /\ disk \in Disks /\ s.ver \in Versions /\ s.name \in Names
      /\ edits \in Versions /\ cell \in Int
  BY TypeParts, StateNumbered DEF Disks, Sessions, Numbered
<1>4. /\ s'.phase = "closing" /\ s'.ver = s.ver /\ queue' = queue /\ worker' = worker /\ cell' = cell
      /\ edits' = edits
  BY <1>3 DEF Panicked, Panic, Sessions
<1>5. Newer(owned', edits')
  <2>1. s.ver <= edits
    BY <1>2, <1>3 DEF AllOwned, Newer
  <2> QED BY <1>2, <1>4, <2>1, StillNewer
<1>6. Hooked(hooked', s', cell', disk', recover')
  <2> SUFFICES ASSUME hooked' PROVE Hooked(hooked', s', cell', disk', recover')
    BY DEF Hooked
  <2>1. cell # None
    BY DEF Recorded
  <2>2. /\ recover' = cell
        /\ disk' = [n \in Names |-> [disk[n] EXCEPT !.file.old = TRUE, !.durable.old = TRUE]]
    BY <2>1 DEF Panicked, Panic
  <2>3. ASSUME NEW n \in Names PROVE disk'[n].file.old /\ disk'[n].durable.old
    <3>1. disk'[n] = [disk[n] EXCEPT !.file.old = TRUE, !.durable.old = TRUE] /\ disk[n] \in Folder
      BY <1>3, <2>2 DEF Disks
    <3> QED BY <3>1 DEF Folder, File
  <2>4. recover' <= cell'
    <3>1. cell <= cell
      BY <1>3
    <3> QED BY <1>4, <2>2, <3>1
  <2> QED BY <1>4, <2>3, <2>4 DEF Hooked, Superseded
<1> QED BY <1>2, <1>4, <1>5, <1>6 DEF Promised

\* A process that ends leaves its files, the durable ones at least.
LEMMA EndPromised ==
  ASSUME TypeOK, TypeOK', AllOwned, Promised, Exit \/ Kill,
         NEW marks, Recorded(marks), moves' = moves
  PROVE  Promised'
<1> SUFFICES ASSUME "revived" \notin past', moves = 0 PROVE Promised'
  BY DEF Promised
<1>1. "revived" \notin past
  BY MarkedToo
<1>2. Hooked(hooked, s, cell, disk, recover) /\ Newer(owned, edits)
  BY <1>1 DEF Promised
<1>3. /\ s \in Sessions /\ disk \in Disks /\ s.ver \in Versions /\ s.name \in Names
      /\ edits \in Versions /\ s.ver \in Int
  BY TypeParts, SmallSteps DEF Disks, Sessions
<1>4. /\ s'.phase = "down" /\ s'.ver = s.ver /\ queue' = <<>> /\ worker'.step = "idle" /\ cell' = None
      /\ edits' = edits /\ recover' = recover
  BY <1>3 DEF Exit, Kill, Gone, Idle, Sessions
<1>5. Newer(owned', edits')
  <2>1. s.ver <= edits
    BY <1>2, <1>3 DEF AllOwned, Newer
  <2> QED BY <1>2, <1>4, <2>1, StillNewer
<1>6. InOrder(cell', worker', queue', s'.ver)
  <2>1. None <= s.ver
    BY <1>3, SmallSteps
  <2> QED BY <1>4, <2>1 DEF InOrder
<1>7. hooked' => hooked
  <2>1. ~Panicked
    BY <1>4 DEF Panicked
  <2> QED BY <2>1 DEF Recorded
<1>8. \A n \in Names : /\ disk'[n].file \in {disk[n].file, disk[n].durable}
                       /\ disk'[n].durable \in {disk[n].file, disk[n].durable}
  <2>1. CASE Exit
    BY <2>1 DEF Exit
  <2>2. CASE Kill
    <3>1. PICK lost \in SUBSET {n \in Names : disk[n].file # disk[n].durable} :
            disk' = [n \in Names |-> IF n \in lost THEN [disk[n] EXCEPT !.file = disk[n].durable]
                                     ELSE Synced(disk[n])]
      BY <2>2 DEF Kill
    <3>2. ASSUME NEW n \in Names
          PROVE  /\ disk'[n].file \in {disk[n].file, disk[n].durable}
                 /\ disk'[n].durable \in {disk[n].file, disk[n].durable}
      <4>1. disk[n] \in Folder
        BY <1>3 DEF Disks
      <4>2. disk'[n] = [disk[n] EXCEPT !.file = disk[n].durable] \/ disk'[n] = Synced(disk[n])
        BY <3>1
      <4> QED BY <4>1, <4>2 DEF Folder, Synced
    <3> QED BY <3>2
  <2> QED BY <2>1, <2>2
<1>9. Hooked(hooked', s', cell', disk', recover')
  <2>1. hooked => \A n \in Names : Superseded(disk[n].file, recover) /\ Superseded(disk[n].durable, recover)
    BY <1>2 DEF Hooked
  <2>2. hooked' => \A n \in Names : Superseded(disk'[n].file, recover) /\ Superseded(disk'[n].durable, recover)
    BY <1>7, <1>8, <2>1
  <2> QED BY <1>4, <2>2 DEF Hooked
<1> QED BY <1>5, <1>6, <1>9 DEF Promised

\* Damage, like the start, ends the promise: nothing runs, nothing is under way.
LEMMA CorruptPromised ==
  ASSUME TypeOK, TypeOK', AllOwned, Promised, NEW n \in Names,
         NEW backups \in {"kept", "bad", "gone"}, Corrupt(n, backups),
         NEW marks, Recorded(marks), moves' = moves
  PROVE  Promised'
<1> SUFFICES ASSUME "revived" \notin past', moves = 0 PROVE Promised'
  BY DEF Promised
<1>1. "revived" \notin past
  BY MarkedToo
<1>2. InOrder(cell, worker, queue, s.ver) /\ Newer(owned, edits)
  BY <1>1 DEF Promised
<1>3. s.ver \in Versions /\ s.name \in Names /\ edits \in Versions
  BY TypeParts DEF Sessions
<1>4. /\ s.phase = "down" /\ s' = s /\ queue' = queue /\ worker' = worker /\ cell' = cell /\ edits' = edits
  BY DEF Corrupt
<1>5. Newer(owned', edits')
  <2>1. s.ver <= edits
    BY <1>2, <1>3 DEF AllOwned, Newer
  <2> QED BY <1>2, <1>4, <2>1, StillNewer
<1>6. ~hooked'
  <2>1. ~Panicked
    BY <1>4 DEF Panicked
  <2> QED BY <1>4, <2>1 DEF Recorded
<1> QED BY <1>2, <1>4, <1>5, <1>6 DEF Promised, Hooked

\* What a start opens was in the folder, or is the demo.
LEMMA OpenedIs ==
  ASSUME NEW c \in Folder, NEW d, d = Ensured(c)
  PROVE  OpenedVer(d) \in Versions /\ (OpenedVer(d) = 0 \/ Inside(c, OpenedVer(d)))
<1> DEFINE e == Restored(d)
           v == OpenedVer(d)
<1>1. \/ d = c
      \/ /\ d \in Folder /\ d.file.ver = 0 /\ d.durable.ver = 0
         /\ BackedWith(c.backups, 0, d.backups)
  <2>1. d = c \/ d = SavedWhole(c, 0, FALSE)
    BY DEF Ensured
  <2>2. 0 \in Contents
    BY VersionsAreContents
  <2> QED BY <2>1, <2>2, SavedWholeIs
<1>2. d \in Folder /\ d.backups \in Seq(Contents)
  BY <1>1 DEF Folder
<1>3. v \in Versions /\ (v = 0 \/ v = e.file.ver)
  BY <1>2, RestoredTyped
<1>4. \/ e = d
      \/ LastGood(d.backups) > 0 /\ e.file.ver = d.backups[LastGood(d.backups)]
      \/ e.file.ver \in {None, Bad}
  BY <1>2, RestoredIs
<1>5. LastGood(d.backups) > 0 => LastGood(d.backups) \in DOMAIN d.backups
  <2>1. LastGood(d.backups) > 0 => LastGood(d.backups) \in 1 .. Len(d.backups)
    BY <1>2, LastGoodIsGood
  <2> QED BY <1>2, <2>1
<1> HIDE DEF e, v
<1>6. v = 0 \/ Inside(d, v)
  BY <1>3, <1>4, <1>5, NumbersOf DEF Inside
<1>7. Inside(d, v) => v = 0 \/ Inside(c, v)
  BY <1>1 DEF Inside, BackedWith
<1> QED BY <1>3, <1>6, <1>7 DEF v

LEMMA RestartPromised ==
  ASSUME TypeOK, TypeOK', AllOwned, Promised, NothingLeft, Restart,
         NEW marks, Recorded(marks), moves' = moves
  PROVE  Promised'
<1> SUFFICES ASSUME "revived" \notin past', moves = 0 PROVE Promised'
  BY DEF Promised
<1>1. "revived" \notin past
  BY MarkedToo
<1>2. Newer(owned, edits)
  BY <1>1 DEF Promised
<1> DEFINE c == disk[lastShow]
           d == Ensured(c)
           v == OpenedVer(d)
<1>3. c \in Folder /\ lastShow \in Names /\ edits \in Versions
  BY TypeParts
<1>4. v \in Versions /\ (v = 0 \/ Inside(c, v))
  <2> HIDE DEF c
  <2> QED BY <1>3, OpenedIs
<1>5. Owned(lastShow, c, owned)
  BY <1>3 DEF AllOwned
<1>6. /\ s.phase = "down" /\ s'.ver = v /\ worker' = worker /\ cell' = cell /\ edits' = edits
      /\ queue' = <<JobOf("Snapshot", s')>>
  BY DEF Restart, NewSession
<1> HIDE DEF c, d, v
<1>7. v <= edits
  <2>1. Inside(c, v) => v <= edits
    BY <1>2, <1>3, <1>4, <1>5 DEF Owned, Newer
  <2>2. edits \in Nat
    BY <1>3, SmallSteps
  <2> QED BY <1>4, <2>1, <2>2
<1>8. Newer(owned', edits')
  BY <1>2, <1>6, <1>7, StillNewer
<1>9. InOrder(cell', worker', queue', s'.ver)
  <2>1. worker.step = "idle" /\ cell = None /\ None <= v /\ v <= v
    BY <1>4, <1>6, SmallSteps DEF NothingLeft
  <2>2. DOMAIN queue' = {1} /\ queue'[1].ver = v
    BY <1>6 DEF JobOf
  <2>3. \A i \in DOMAIN queue' : queue'[i].ver = v
    BY <2>2
  <2> QED BY <1>6, <2>1, <2>3 DEF InOrder
<1>10. ~hooked'
  <2>1. ~Panicked
    BY <1>6 DEF Panicked, Panic, Up
  <2> QED BY <1>6, <2>1 DEF Recorded
<1> QED BY <1>8, <1>9, <1>10 DEF Promised, Hooked

LEMMA NothingIsLeft == HSpec => []NothingLeft
<1>1. HInit => NothingLeft
  BY DEF HInit, Init, NewSession, NothingLeft
<1>2. NothingLeft /\ TypeOK /\ [HNext]_hvars => NothingLeft'
  <2> SUFFICES ASSUME NothingLeft, TypeOK, [HNext]_hvars, s'.phase = "down"
               PROVE  queue' = <<>> /\ worker'.step = "idle" /\ cell' = None
    BY DEF NothingLeft
  <2>1. s \in Sessions
    BY TypeParts
  <2>2. (Operator \/ Tick \/ Create \/ Replace) => s'.phase # "down"
    BY <2>1, OperatorShape, TickShape DEF SessionShape, Tick
  <2>3. CASE WorkerStep
    BY <2>3 DEF WorkerStep, TakeJob, WriteShow, SyncFolder, WriteBackup, Publish, NothingLeft
  <2>4. CASE Exit \/ Kill
    BY <2>4 DEF Exit, Kill, Gone, Idle
  <2>5. (Panic => s'.phase # "down") /\ (Restart => s'.phase # "down")
    <3>1. Panic => s'.phase # "down"
      BY <2>1 DEF Panic, Sessions
    <3>2. Restart => s'.phase # "down"
      BY DEF Restart, NewSession
    <3> QED BY <3>1, <3>2
  <2>6. CASE \E n \in Names, backups \in {"kept", "bad", "gone"} : Corrupt(n, backups)
    BY <2>6 DEF Corrupt, NothingLeft
  <2>7. CASE UNCHANGED hvars
    BY <2>7 DEF hvars, NothingLeft
  <2> QED BY <2>2, <2>3, <2>4, <2>5, <2>6, <2>7 DEF HNext, Continue, Environment
<1> QED BY <1>1, <1>2, StoreTypedToo, PTL DEF HSpec

LEMMA OwnedHolds == HSpec => []AllOwned
BY TrustedHolds, PTL DEF Trusted

LEMMA PromisedHolds == HSpec => []Promised
<1>1. HInit => Promised
  <2> SUFFICES ASSUME HInit PROVE Promised
    OBVIOUS
  <2>1. /\ ~hooked /\ worker.step = "idle" /\ cell = None /\ edits = Stocked /\ s.ver = Stock[First]
        /\ queue = <<JobOf("Snapshot", s)>>
    BY DEF HInit, Init, NewSession, Idle
  <2>2. /\ Stock[First] \in Int /\ None <= Stock[First] /\ Stock[First] <= Stock[First]
    BY StoreAssumption DEF None
  <2>3. DOMAIN queue = {1} /\ queue[1].ver = s.ver
    BY <2>1 DEF JobOf
  <2>4. InOrder(cell, worker, queue, s.ver)
    <3>1. \A i \in DOMAIN queue : queue[i].ver = s.ver
      BY <2>3
    <3> QED BY <2>1, <2>2, <3>1 DEF InOrder
  <2>5. Newer(owned, edits)
    <3>1. \A n \in Names : Stock[n] \in Int /\ Stock[n] <= Stocked
      BY StoreAssumption
    <3> QED BY <2>1, <3>1 DEF HInit, Newer
  <2> QED BY <2>1, <2>4, <2>5 DEF Promised, Hooked
<1>2. /\ Promised /\ TypeOK /\ TypeOK' /\ AllOwned /\ NothingLeft /\ Counted /\ [HNext]_hvars
      => Promised'
  <2> SUFFICES ASSUME Promised, TypeOK, TypeOK', AllOwned, NothingLeft, Counted, [HNext]_hvars
               PROVE  Promised'
    OBVIOUS
  <2>1. CASE HNext
    <3>1. PICK marks : /\ Recorded(marks)
                       /\ (Continue /\ moves' = moves) \/ moves' = moves + 1
      BY <2>1 DEF HNext, Another
    <3>2. CASE moves' = moves + 1
      BY <3>2 DEF Counted, Promised
    <3> SUFFICES ASSUME Continue, moves' = moves PROVE Promised'
      BY <3>1, <3>2
    <3>3. CASE Panicked
      BY <3>1, <3>3, PanicPromised
    <3>4. CASE ~Panicked /\ (Operator \/ Tick)
      <4>1. OwnPosts
        BY <3>4, OperatorPosts, TickPosts DEF Tick
      <4>2. s'.phase \in {"up", "closing"}
        BY <3>4, OperatorShape, TickShape DEF Tick, SessionShape
      <4> QED BY <3>1, <3>4, <4>1, <4>2, OwnPromised
    <3>5. CASE WorkerStep
      BY <3>1, <3>5, WorkerPromised
    <3>6. CASE Exit \/ Kill
      BY <3>1, <3>6, EndPromised
    <3>7. CASE Panic
      <4>1. Panicked
        <5>1. s \in Sessions
          BY TypeParts
        <5> QED BY <3>7, <5>1 DEF Panicked, Panic, Sessions
      <4> QED BY <3>3, <4>1
    <3>8. CASE \E n \in Names, backups \in {"kept", "bad", "gone"} : Corrupt(n, backups)
      BY <3>1, <3>8, CorruptPromised
    <3>9. CASE Restart
      BY <3>1, <3>9, RestartPromised
    <3> QED BY <3>3, <3>4, <3>5, <3>6, <3>7, <3>8, <3>9 DEF Continue, Environment
  <2>2. CASE UNCHANGED hvars
    <3>1. UNCHANGED <<s, queue, worker, disk, cell, recover, edits, owned, hooked, moves, past>>
      BY <2>2 DEF hvars
    <3> QED BY <3>1 DEF Promised
  <2> QED BY <2>1, <2>2
<1> QED BY <1>1, <1>2, StoreTypedToo, OwnedHolds, NothingIsLeft, MovesCounted, PTL DEF HSpec

\* After a panic, a recovery file newer than the show of the last session is
\* proposed when the next process is up, whatever the worker still wrote
\* meanwhile.  (install_panic_hook, notice_recover_files)
THEOREM RecoveryIsOffered == HSpec => RecoveryOffered
<1> DEFINE A == (/\ "revived" \notin past /\ moves = 0 /\ s.phase = "down" /\ s'.phase = "up"
                 /\ hooked /\ Loadable(disk[lastShow].file) /\ recover > disk[lastShow].file.ver)
                => s'.pending = recover
<1>1. Promised /\ TypeOK /\ [HNext]_hvars => A
  <2> SUFFICES ASSUME Promised, TypeOK, [HNext]_hvars,
                      "revived" \notin past, moves = 0, s.phase = "down", s'.phase = "up",
                      hooked, Loadable(disk[lastShow].file), recover > disk[lastShow].file.ver
               PROVE  s'.pending = recover
    OBVIOUS
  <2> DEFINE c == disk[lastShow]
  <2>1. /\ s \in Sessions /\ disk \in Disks /\ lastShow \in Names /\ c \in Folder
        /\ recover \in Versions \cup {None}
    BY TypeParts DEF Disks
  <2>2. Superseded(c.file, recover)
    BY <2>1 DEF Promised, Hooked
  <2>3. c.file.ver \in Versions
    BY DEF Loadable
  <2>4. c.file.old /\ recover # None /\ c.file.ver # None
    <3> DEFINE u == c.file.ver
    <3>1. recover > u /\ u \in Versions
      BY <2>3
    <3>2. c.file.old \/ u \notin Versions \/ recover <= u
      BY <2>2 DEF Superseded
    <3> HIDE DEF u, c
    <3>3. u \in Int /\ recover \in Int /\ None <= u /\ None \in Int
      BY <2>1, <3>1, SmallSteps
    <3>4. ~(recover <= u) /\ recover # None
      BY <3>1, <3>3
    <3> QED BY <3>1, <3>2, <3>4, NumbersOf DEF u
  <2>5. Restart
    <3>1. (Operator \/ Tick \/ Create \/ Replace) => s.phase = "up"
      BY OperatorShape, TickShape DEF SessionShape, Tick, Up
    <3>2. WorkerStep => s' = s
      BY DEF WorkerStep, TakeJob, WriteShow, SyncFolder, WriteBackup, Publish
    <3>3. Exit \/ Panic \/ Kill => s.phase # "down"
      BY DEF Exit, Panic, Kill, Up
    <3>4. \A n \in Names, backups \in {"kept", "bad", "gone"} : Corrupt(n, backups) => s' = s
      BY DEF Corrupt
    <3>5. UNCHANGED hvars => s' = s
      BY DEF hvars
    <3> QED BY <3>1, <3>2, <3>3, <3>4, <3>5 DEF HNext, Continue, Environment
  <2>6. Ensured(c) = c
    BY <2>4 DEF Ensured
  <2>7. Source(c) = "file"
    BY DEF Source
  <2>8. Restored(c) = c /\ OpenedName(lastShow, c) = lastShow
    BY <2>7 DEF Restored, OpenedName
  <2>9. disk' = [disk EXCEPT ![lastShow] = c] /\ s'.pending = Proposed(disk'[lastShow].file)
    <3> HIDE DEF c
    <3> QED BY <2>5, <2>6, <2>8 DEF Restart, NewSession, c
  <2>10. disk'[lastShow] = c
    BY <2>1, <2>9 DEF Disks
  <2> QED BY <2>4, <2>9, <2>10 DEF Proposed
<1>2. HSpec => [][A]_hvars
  <2> HIDE DEF A
  <2> QED BY <1>1, PromisedHolds, StoreTypedToo, PTL DEF HSpec
<1> QED BY <1>2 DEF RecoveryOffered

\* The snapshot follows the show and is proposed after a panic: an edit that was
\* not saved is not lost with the process.  (update_snapshot, install_panic_hook)
THEOREM RecoveryIsKept == HSpec => RecoveryKept
BY SnapshotIsCurrent, RecoveryIsOffered DEF RecoveryKept
================================================================================
