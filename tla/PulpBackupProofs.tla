------------------------- MODULE PulpBackupProofs -------------------------
(***************************************************************************)
(* What the backup controller guarantees for every list of files, every    *)
(* number of failures, restarts and edits and every way the cache may lag: *)
(* the directory it publishes is complete and stays as it is, and the dump *)
(* in it finds its files.                                                  *)
(***************************************************************************)
EXTENDS PulpBackup, TLAPS

-----------------------------------------------------------------------------
(* Types.  There are only as many directories as runs that the creation, a  *)
(* fault or an edit may ask for.                                            *)
Counted == time <= 1 + faults + edits /\ (queue => time <= faults + edits)

LocalOK ==
  /\ pc \in Steps /\ n \in DOMAIN Files
  /\ time \in 0..MaxRuns /\ (pc # "idle" => time > 0)
  /\ todo \subseteq Artifacts /\ fresh \in BOOLEAN /\ queue \in BOOLEAN
StatusOK == mem \in Status /\ status \in Status
CountOK  == faults \in 0..MaxFaults /\ edits \in 0..MaxEdits /\ Counted
PulpOK   == /\ rows \subseteq Artifacts /\ blobs \subseteq Artifacts
            /\ gone \subseteq Artifacts /\ named \in BOOLEAN
DirsOK   == dirs \in [Times -> Directory]

LEMMA TypeParts == TypeOK /\ Counted <=> LocalOK /\ StatusOK /\ CountOK /\ PulpOK /\ DirsOK
  BY DEF TypeOK, LocalOK, StatusOK, CountOK, PulpOK, DirsOK

LEMMA FileTypes ==
  /\ Len(Files) \in Nat \ {0} /\ DOMAIN Files = 1..Len(Files) /\ 1 \in DOMAIN Files
  /\ n \in DOMAIN Files => File \in FileSet /\ (n # Len(Files) => n + 1 \in DOMAIN Files)
<1>1. Files \in Seq(STRING) /\ Files # <<>>
  BY FilesAssumption
<1>2. DOMAIN Files = 1..Len(Files) /\ Len(Files) \in Nat \ {0}
  BY <1>1
<1> QED BY <1>2 DEF File, FileSet

LEMMA RunTypes == MaxFaults \in Nat /\ MaxEdits \in Nat /\ MaxRuns \in Nat
  BY BackupEnvironment DEF MaxRuns

(* A fault pays for the run that follows it.                                *)
LEMMA CountKept ==
  ASSUME CountOK, LocalOK, UNCHANGED <<time, edits>>, queue' \in BOOLEAN,
         \/ Retried
         \/ UNCHANGED faults /\ (queue' => queue)
  PROVE  CountOK'
<1> USE RunTypes
<1>1. faults' \in 0..MaxFaults /\ edits' \in 0..MaxEdits
  BY DEF CountOK, Retried
<1>2. time \in Nat /\ faults \in Nat /\ edits \in Nat
  BY DEF CountOK, LocalOK
<1>3. CASE Retried
  <2>1. faults' = faults + 1 /\ time' = time /\ edits' = edits /\ time <= 1 + faults + edits
    BY <1>3 DEF Retried, CountOK, Counted
  <2>2. time' <= faults' + edits'
    BY <1>2, <2>1
  <2>3. time' <= 1 + faults' + edits'
    BY <1>2, <2>1
  <2> QED BY <1>1, <2>2, <2>3 DEF CountOK, Counted
<1>4. CASE UNCHANGED faults /\ (queue' => queue)
  BY <1>1, <1>4 DEF CountOK, Counted
<1> QED BY <1>3, <1>4

LEMMA StartCount ==
  ASSUME NEW t \in Nat, NEW f \in Nat, NEW g \in Nat, NEW e \in Nat, t <= f + e, g >= f
  PROVE  t + 1 <= 1 + g + e
  OBVIOUS

LEMMA UpdateTypes ==
  ASSUME StatusOK, NEW s \in Status, Update(s)
  PROVE  StatusOK' /\ (Retried \/ UNCHANGED faults)
  BY DEF Update, StatusOK, Fault

LEMMA RunningTypes == ASSUME StatusOK PROVE Running \in Status
  BY DEF StatusOK, Status, Running

LEMMA ProgressTypes ==
  ASSUME StatusOK, Progress
  PROVE  StatusOK' /\ (Retried \/ UNCHANGED faults)
  BY RunningTypes, UpdateTypes DEF Progress, StatusOK

LEMMA ReturnTypes ==
  ASSUME LocalOK, NEW q \in BOOLEAN, Return(q)
  PROVE  LocalOK' /\ queue' \in BOOLEAN /\ UNCHANGED time
<1>1. queue' \in BOOLEAN
  BY Zenon DEF Return
<1> QED BY <1>1, FileTypes DEF Return, LocalOK, Steps

LEMMA FailTypes ==
  ASSUME LocalOK, StatusOK, Fail
  PROVE  LocalOK' /\ StatusOK' /\ queue' \in BOOLEAN /\ UNCHANGED time
<1>1. StatusOK'
  BY RunningTypes DEF Fail, StatusOK
<1> QED BY <1>1, ReturnTypes DEF Fail

LEMMA GotoTypes ==
  ASSUME LocalOK, NEW step \in Steps \ {"idle"}, Goto(step), pc # "idle"
  PROVE  LocalOK' /\ UNCHANGED <<time, queue>>
  BY DEF Goto, LocalOK

LEMMA NextFileTypes ==
  ASSUME LocalOK, NextFile, todo' \subseteq Artifacts, pc # "idle"
  PROVE  LocalOK' /\ UNCHANGED <<time, queue>>
<1>1. n' \in DOMAIN Files /\ pc' \in Steps
  BY FileTypes DEF NextFile, LocalOK, Steps
<1> QED BY <1>1 DEF NextFile, LocalOK

(* The writes to a directory.                                               *)
LEMMA DirTypes ==
  ASSUME DirsOK, NEW t \in Times, NEW d \in Directory, dirs' = [dirs EXCEPT ![t] = d]
  PROVE  DirsOK'
  BY DEF DirsOK

LEMMA TimeTypes == ASSUME LocalOK, pc # "idle" PROVE time \in Times
  BY RunTypes DEF LocalOK, Times

LEMMA TypeNext == TypeOK /\ Counted /\ [Next]_vars => TypeOK' /\ Counted'
<1> SUFFICES ASSUME TypeOK, Counted, [Next]_vars
             PROVE  LocalOK' /\ StatusOK' /\ CountOK' /\ PulpOK' /\ DirsOK'
  BY TypeParts DEF TypeOK, Counted, LocalOK, StatusOK, CountOK, PulpOK, DirsOK
<1>0. LocalOK /\ StatusOK /\ CountOK /\ PulpOK /\ DirsOK
  BY TypeParts
<1>r. Running \in Status
  BY <1>0, RunningTypes
<1>p. UNCHANGED pulp => PulpOK'
  BY <1>0 DEF pulp, PulpOK
<1>d. UNCHANGED dirs => DirsOK'
  BY <1>0 DEF DirsOK
<1>1. CASE StartBackup
  <2>1. mem' \in Status /\ status' \in Status
    <3>1. [status EXCEPT !.cond = "False"] \in Status
      BY <1>0 DEF StatusOK, Status
    <3> QED BY <1>0, <1>1, <3>1 DEF StartBackup, StatusOK
  <2>2. queue /\ ~queue' /\ time' = time + 1 /\ UNCHANGED edits /\ (Retried \/ UNCHANGED faults)
    BY <1>1 DEF StartBackup, Fault
  <2>3. faults' \in 0..MaxFaults /\ edits' \in 0..MaxEdits /\ faults' >= faults
    BY <1>0, <2>2, RunTypes DEF CountOK, Retried
  <2>4. time \in Nat /\ faults \in Nat /\ edits \in Nat /\ time <= faults + edits
    BY <1>0, <2>2, RunTypes DEF CountOK, LocalOK, Counted
  <2>n. faults' \in Nat /\ faults' <= MaxFaults /\ edits' = edits /\ edits <= MaxEdits
    BY <2>2, <2>3, RunTypes
  <2>s. time' = time + 1 /\ faults' >= faults
    BY <2>2, <2>3
  <2>t. time' <= 1 + faults' + edits'
    BY <2>s, <2>4, <2>n, StartCount
  <2>m. time' \in 1..MaxRuns
    BY <2>s, <2>4, <2>n, <2>t, RunTypes DEF MaxRuns
  <2>5. CountOK' /\ time' \in 1..MaxRuns
    BY <2>2, <2>3, <2>t, <2>m DEF CountOK, Counted
  <2>6. fresh' \in BOOLEAN /\ queue' \in BOOLEAN
    BY <1>1 DEF StartBackup, CurrentReads
  <2>7. LocalOK'
    BY <1>0, <1>1, <2>5, <2>6 DEF StartBackup, LocalOK, Steps
  <2>8. PulpOK' /\ DirsOK'
    BY <1>0, <1>1, <1>d DEF StartBackup, PulpOK
  <2> QED BY <2>1, <2>5, <2>7, <2>8 DEF StatusOK
<1>2. CASE createBackupPVC \/ createBackupPod \/ createBackupDir
  <2>1. /\ pc # "idle" /\ UNCHANGED <<dirs, pulp, edits>>
        /\ \/ (Goto("pod") \/ Goto("mkdir") \/ Goto("files")) /\ Update(Running)
           \/ Retried /\ Fail
    BY <1>2 DEF createBackupPVC, createBackupPod, createBackupDir, Fault
  <2>2. LocalOK' /\ StatusOK' /\ UNCHANGED time /\ queue' \in BOOLEAN
    BY <1>0, <1>r, <2>1, GotoTypes, UpdateTypes, FailTypes DEF Steps, LocalOK
  <2>3. Retried \/ (UNCHANGED <<faults, queue>>)
    BY <1>0, <1>r, <2>1, UpdateTypes DEF Goto
  <2>4. CountOK'
    BY <1>0, <2>1, <2>2, <2>3, CountKept
  <2> QED BY <1>p, <1>d, <2>1, <2>2, <2>4
<1>3. CASE SkipFile
  <2>1. pc # "idle" /\ NextFile /\ Progress /\ UNCHANGED <<todo, dirs, pulp, edits>>
    BY <1>3 DEF SkipFile
  <2>2. LocalOK' /\ UNCHANGED <<time, queue>>
    BY <1>0, <2>1, NextFileTypes DEF LocalOK
  <2>3. StatusOK' /\ (Retried \/ UNCHANGED faults)
    BY <1>0, <2>1, ProgressTypes
  <2>4. CountOK'
    BY <1>0, <2>1, <2>2, <2>3, CountKept DEF LocalOK
  <2> QED BY <1>p, <1>d, <2>1, <2>2, <2>3, <2>4
<1>4. CASE BackupFile
  <2>1. pc # "idle" /\ NextFile /\ Progress /\ UNCHANGED <<todo, pulp, edits>>
    BY <1>4 DEF BackupFile
  <2>2. LocalOK' /\ UNCHANGED <<time, queue>>
    BY <1>0, <2>1, NextFileTypes DEF LocalOK
  <2>3. StatusOK' /\ (Retried \/ UNCHANGED faults)
    BY <1>0, <2>1, ProgressTypes
  <2>4. CountOK'
    BY <1>0, <2>1, <2>2, <2>3, CountKept DEF LocalOK
  <2>5. DirsOK'
    <3>1. time \in Times /\ File \in FileSet
      BY <1>0, <2>1, TimeTypes, FileTypes DEF LocalOK
    <3>2. dirs[time] \in Directory
      BY <1>0, <3>1 DEF DirsOK
    <3>3. [dirs[time] EXCEPT !.files = @ \cup {File}, !.rows = IF File = Dump THEN rows ELSE @] \in Directory
      BY <1>0, <3>1, <3>2 DEF Directory, PulpOK
    <3>4. dirs' = [dirs EXCEPT ![time] = [dirs[time] EXCEPT !.files = @ \cup {File}, !.rows = IF File = Dump THEN rows ELSE @]]
      BY <1>0, <1>4, <3>1 DEF BackupFile, DirsOK
    <3> QED BY <1>0, <3>1, <3>3, <3>4, DirTypes
  <2> QED BY <1>p, <2>1, <2>2, <2>3, <2>4, <2>5
<1>5. CASE BackupFileFails
  <2>1. pc # "idle" /\ Retried /\ Fail /\ UNCHANGED <<pulp, edits>>
    BY <1>5 DEF BackupFileFails, Fault
  <2>2. LocalOK' /\ StatusOK' /\ queue' \in BOOLEAN /\ UNCHANGED time
    BY <1>0, <2>1, FailTypes
  <2>3. CountOK'
    BY <1>0, <2>1, <2>2, CountKept
  <2>4. DirsOK'
    <3>1. time \in Times
      BY <1>0, <2>1, TimeTypes
    <3>2. dirs[time] \in Directory
      BY <1>0, <3>1 DEF DirsOK
    <3>3. [dirs[time] EXCEPT !.files = @ \ {File}] \in Directory
      BY <3>2 DEF Directory
    <3>4. dirs' = [dirs EXCEPT ![time] = [dirs[time] EXCEPT !.files = @ \ {File}]]
      BY <1>0, <1>5, <3>1 DEF BackupFileFails, DirsOK
    <3> QED BY <1>0, <3>1, <3>3, <3>4, DirTypes
  <2> QED BY <1>p, <2>1, <2>2, <2>3, <2>4
<1>6. CASE StartCopy
  <2>1. /\ pc # "idle" /\ pc' = "copy" /\ todo' = Artifacts /\ Update(Running)
        /\ UNCHANGED <<n, time, fresh, queue, dirs, pulp, edits>>
    BY <1>6 DEF StartCopy
  <2>2. LocalOK'
    BY <1>0, <2>1 DEF LocalOK, Steps
  <2>3. StatusOK' /\ (Retried \/ UNCHANGED faults)
    BY <1>0, <1>r, <2>1, UpdateTypes
  <2>4. CountOK'
    BY <1>0, <2>1, <2>3, CountKept DEF LocalOK
  <2> QED BY <1>p, <1>d, <2>1, <2>2, <2>3, <2>4
<1>7. ASSUME NEW a \in Artifacts, CopyArtifact(a) PROVE LocalOK' /\ StatusOK' /\ CountOK' /\ PulpOK' /\ DirsOK'
  <2>1. /\ pc # "idle" /\ UNCHANGED <<pc, n, time, mem, fresh, queue, status, pulp, faults, edits>>
        /\ todo' = todo \ {a}
    BY <1>7 DEF CopyArtifact
  <2>2. LocalOK' /\ StatusOK' /\ CountOK'
    BY <1>0, <2>1 DEF LocalOK, StatusOK, CountOK, Counted
  <2>3. DirsOK'
    <3>1. time \in Times
      BY <1>0, <2>1, TimeTypes
    <3>2. dirs[time] \in Directory
      BY <1>0, <3>1 DEF DirsOK
    <3>3. [dirs[time] EXCEPT !.blobs = @ \cup {a}] \in Directory
      BY <3>2 DEF Directory
    <3>4. dirs' = dirs \/ dirs' = [dirs EXCEPT ![time] = [dirs[time] EXCEPT !.blobs = @ \cup {a}]]
      BY <1>0, <1>7, <3>1 DEF CopyArtifact, DirsOK
    <3> QED BY <1>0, <1>d, <3>1, <3>3, <3>4, DirTypes
  <2> QED BY <1>p, <2>1, <2>2, <2>3
<1>8. CASE Copied
  <2>1. pc # "idle" /\ NextFile /\ UNCHANGED <<mem, status, todo, pulp, faults, edits>>
    BY <1>8 DEF Copied
  <2>2. LocalOK' /\ UNCHANGED <<time, queue>>
    BY <1>0, <2>1, NextFileTypes DEF LocalOK
  <2>3. StatusOK' /\ CountOK'
    BY <1>0, <2>1, <2>2 DEF StatusOK, CountOK, Counted
  <2>4. DirsOK'
    <3>1. time \in Times /\ Dir \in FileSet
      BY <1>0, <2>1, TimeTypes, FilesAssumption
    <3>2. dirs[time] \in Directory
      BY <1>0, <3>1 DEF DirsOK
    <3>3. [dirs[time] EXCEPT !.files = @ \cup {Dir}] \in Directory
      BY <3>1, <3>2 DEF Directory
    <3>4. dirs' = [dirs EXCEPT ![time] = [dirs[time] EXCEPT !.files = @ \cup {Dir}]]
      BY <1>0, <1>8, <3>1 DEF Copied, DirsOK
    <3> QED BY <1>0, <3>1, <3>3, <3>4, DirTypes
  <2> QED BY <1>p, <2>1, <2>2, <2>3, <2>4
<1>9. CASE CopyFails
  <2>1. Retried /\ Fail /\ UNCHANGED <<dirs, pulp, edits>>
    BY <1>9 DEF CopyFails, Fault
  <2>2. LocalOK' /\ StatusOK' /\ queue' \in BOOLEAN /\ UNCHANGED time
    BY <1>0, <2>1, FailTypes
  <2>3. CountOK'
    BY <1>0, <2>1, <2>2, CountKept
  <2> QED BY <1>p, <1>d, <2>1, <2>2, <2>3
<1>10. CASE setStatusFields
  <2>1. /\ pc # "idle" /\ Update([cond |-> "False", dir |-> time]) /\ Goto("complete")
        /\ UNCHANGED <<dirs, pulp, edits>>
    BY <1>10 DEF setStatusFields
  <2>2. LocalOK' /\ UNCHANGED <<time, queue>>
    BY <1>0, <2>1, GotoTypes DEF Steps
  <2>3. [cond |-> "False", dir |-> time] \in Status
    BY <1>0 DEF LocalOK, Status
  <2>4. StatusOK' /\ (Retried \/ UNCHANGED faults)
    BY <1>0, <2>1, <2>3, UpdateTypes
  <2>5. CountOK'
    BY <1>0, <2>1, <2>2, <2>4, CountKept DEF LocalOK
  <2> QED BY <1>p, <1>d, <2>1, <2>2, <2>4, <2>5
<1>11. CASE Complete
  <2>1. Update([mem EXCEPT !.cond = "True"]) /\ Return(FALSE) /\ UNCHANGED <<dirs, pulp, edits>>
    BY <1>11 DEF Complete
  <2>2. LocalOK' /\ queue' \in BOOLEAN /\ UNCHANGED time
    BY <1>0, <2>1, ReturnTypes
  <2>3. [mem EXCEPT !.cond = "True"] \in Status
    BY <1>0 DEF StatusOK, Status
  <2>4. StatusOK' /\ (Retried \/ UNCHANGED faults)
    BY <1>0, <2>1, <2>3, UpdateTypes
  <2>5. queue' => queue
    BY <2>1 DEF Return
  <2>6. CountOK'
    BY <1>0, <2>1, <2>2, <2>4, <2>5, CountKept
  <2> QED BY <1>p, <1>d, <2>1, <2>2, <2>4, <2>6
<1>12. CASE EditSpec
  <2>1. /\ edits < MaxEdits /\ edits' = edits + 1 /\ fresh' = FALSE /\ queue' = TRUE
        /\ UNCHANGED <<pc, n, time, mem, todo, status, dirs, pulp, faults>>
    BY <1>12 DEF EditSpec
  <2>2. LocalOK' /\ StatusOK'
    BY <1>0, <2>1 DEF LocalOK, StatusOK
  <2>3. CountOK'
    BY <1>0, <2>1, RunTypes DEF CountOK, Counted, LocalOK
  <2> QED BY <1>p, <1>d, <2>1, <2>2, <2>3
<1>13. CASE OperatorRestart
  <2>1. Retried /\ Return(TRUE) /\ UNCHANGED <<mem, status, dirs, pulp, edits>>
    BY <1>13 DEF OperatorRestart, Fault
  <2>2. LocalOK' /\ queue' \in BOOLEAN /\ UNCHANGED time
    BY <1>0, <2>1, ReturnTypes
  <2>3. CountOK' /\ StatusOK'
    BY <1>0, <2>1, <2>2, CountKept DEF StatusOK
  <2> QED BY <1>p, <1>d, <2>1, <2>2, <2>3
<1>14. CASE (\E a \in Artifacts : Content(a)) \/ NameSecrets
  <2>1. UNCHANGED Backup /\ PulpOK'
    BY <1>0, <1>14 DEF Content, SaveBlob, SaveRow, DeleteRow, DeleteBlob, NameSecrets, PulpOK
  <2>2. UNCHANGED <<pc, n, time, mem, fresh, todo, queue, status, dirs, faults, edits>>
    BY <2>1 DEF Backup, local
  <2> QED BY <1>0, <2>1, <2>2 DEF LocalOK, StatusOK, CountOK, Counted, DirsOK
<1>15. CASE UNCHANGED vars
  BY <1>0, <1>15 DEF vars, LocalOK, StatusOK, CountOK, Counted, PulpOK, DirsOK
<1> QED
  BY <1>1, <1>2, <1>3, <1>4, <1>5, <1>6, <1>7, <1>8, <1>9, <1>10, <1>11, <1>12, <1>13, <1>14, <1>15
  DEF Next, Reconcile

LEMMA TypeInit == Init => TypeOK /\ Counted
<1> SUFFICES ASSUME Init PROVE LocalOK /\ StatusOK /\ CountOK /\ PulpOK /\ DirsOK
  BY TypeParts
<1>1. LocalOK
  <2>1. pc = "idle" /\ n = 1 /\ time = 0 /\ todo = {} /\ fresh = FALSE /\ queue = TRUE
    BY DEF Init
  <2>2. 0 \in 0..MaxRuns /\ 1 \in DOMAIN Files
    BY RunTypes, FileTypes
  <2> QED BY <2>1, <2>2 DEF LocalOK, Steps
<1>2. StatusOK
  BY RunTypes DEF Init, StatusOK, Status, NoDir
<1>3. CountOK
  BY RunTypes DEF Init, CountOK, Counted
<1>4. PulpOK /\ DirsOK
  BY DEF Init, PulpOK, DirsOK, Missing, Directory
<1> QED BY <1>1, <1>2, <1>3, <1>4

LEMMA Typed == Spec => [](TypeOK /\ Counted)
  BY TypeInit, TypeNext, PTL DEF Spec

(* TypeOK: every variable keeps its type, and every run finds a directory   *)
(* of its own within the bound on runs.                                     *)
THEOREM BackupTypeCorrect == Spec => []TypeOK
  BY Typed, PTL

-----------------------------------------------------------------------------
(* The published directory.                                                 *)

(* Directory d may be published; the first m files of this run are written. *)
Full(d) == d = NoDir \/ Used \subseteq dirs[d].files
Done(m) == \A i \in 1..m : Files[i] \in Used => Files[i] \in dirs[time].files

Writing == Steps \ {"idle", "complete"}

(* The inductive invariant.  A run names no directory but a complete one,   *)
(* its own only once all of its files are there, and while it writes its    *)
(* own no status in sight names it.                                         *)
NamesFull ==
  /\ Full(status.dir) /\ Full(mem.dir)
  /\ status.cond = "True" => status.dir # NoDir
  /\ status.dir <= time /\ mem.dir <= time
  /\ pc \in Writing => status.dir < time /\ mem.dir < time
  /\ pc = "complete" => mem.dir = time

FilesDone ==
  /\ pc \notin {"files", "copy"} => n = 1
  /\ pc = "copy" => File = Dir
  /\ pc \in {"files", "copy"} => Done(n - 1)
  /\ pc \in {"fields", "complete"} => Done(Len(Files))

PublishInv == NamesFull /\ FilesDone

(* What a step is worth.                                                    *)
PublishStep ==
  /\ PublishInv'
  /\ status.dir # NoDir => dirs'[status.dir] = dirs[status.dir]

LEMMA DirNumbers ==
  ASSUME TypeOK
  PROVE  /\ time \in Nat /\ status.dir \in Nat /\ mem.dir \in Nat
         /\ status.dir # NoDir => status.dir \in Times
         /\ mem.dir # NoDir => mem.dir \in Times
         /\ pc # "idle" => time \in Times
  BY RunTypes DEF TypeOK, Status, Times, NoDir

(* An update of the status while a run writes: nothing is named that was    *)
(* not named before, and only the run's own directory changes.              *)
LEMMA NamesKept ==
  ASSUME TypeOK, NamesFull, pc \in Writing,
         \A t \in Times : t # time => dirs'[t] = dirs[t],
         time' = time, mem'.dir = mem.dir, pc' # "complete",
         status' = status \/ (status'.dir = mem.dir /\ status'.cond = "False")
  PROVE  NamesFull' /\ (status.dir # NoDir => dirs'[status.dir] = dirs[status.dir])
<1>1. status.dir < time /\ mem.dir < time /\ status'.dir \in {status.dir, mem.dir}
  BY DEF NamesFull
<1>2. /\ status.dir # NoDir => dirs'[status.dir] = dirs[status.dir]
      /\ mem.dir # NoDir => dirs'[mem.dir] = dirs[mem.dir]
  BY <1>1, DirNumbers
<1>3. Full(status.dir)' /\ Full(mem.dir)'
  BY <1>1, <1>2 DEF NamesFull, Full
<1>4. status'.cond = "True" => status'.dir # NoDir
  BY DEF NamesFull
<1>5. status'.dir < time' /\ mem'.dir < time' /\ status'.dir <= time' /\ mem'.dir <= time'
  BY <1>1, DirNumbers
<1> QED BY <1>2, <1>3, <1>4, <1>5 DEF NamesFull

(* ... and what Update, Progress and Fail do to the two.                    *)
LEMMA UpdateNames ==
  ASSUME TypeOK, Update(Running) \/ Progress \/ Fail
  PROVE  /\ mem'.dir = mem.dir
         /\ status' = status \/ (status'.dir = mem.dir /\ status'.cond = "False")
<1>1. Running.dir = mem.dir /\ Running.cond = "False"
  BY DEF Running, TypeOK, Status
<1> QED BY <1>1 DEF Update, Progress, Fail

LEMMA FilesNext ==
  ASSUME TypeOK, FilesDone, pc \in {"files", "copy"}, NextFile,
         dirs[time].files \subseteq dirs'[time].files,
         File \in Used => File \in dirs'[time].files
  PROVE  FilesDone' /\ pc' \in {"files", "fields"} /\ time' = time
<1>1. n \in 1..Len(Files) /\ Len(Files) \in Nat
  BY FileTypes DEF TypeOK
<1>2. \A i \in 1..n : Files[i] \in Used => Files[i] \in dirs'[time].files
  <2> SUFFICES ASSUME NEW i \in 1..n, Files[i] \in Used PROVE Files[i] \in dirs'[time].files
    OBVIOUS
  <2>1. i \in 1..(n - 1) \/ i = n
    BY <1>1
  <2>2. Done(n - 1)
    BY DEF FilesDone
  <2> QED BY <2>1, <2>2 DEF Done, File
<1>3. CASE n < Len(Files) /\ n' = n + 1 /\ pc' = "files"
  <2>1. n' - 1 = n /\ time' = time
    BY <1>1, <1>3 DEF NextFile
  <2>2. Done(n - 1)'
    BY <1>2, <2>1 DEF Done
  <2> QED BY <1>3, <2>1, <2>2 DEF FilesDone
<1>4. CASE n = Len(Files) /\ n' = 1 /\ pc' = "fields"
  <2>1. time' = time
    BY DEF NextFile
  <2>2. Done(Len(Files))'
    BY <1>2, <1>4, <2>1 DEF Done
  <2> QED BY <1>4, <2>1, <2>2 DEF FilesDone
<1> QED BY <1>3, <1>4 DEF NextFile

LEMMA FilesAbandoned ==
  ASSUME NEW q, Return(q)
  PROVE  FilesDone' /\ pc' = "idle" /\ time' = time
  BY DEF FilesDone, Return

LEMMA PublishNext ==
  ASSUME TypeOK, PublishInv, [Next]_vars
  PROVE  PublishStep
<1> USE DEF PublishStep, PublishInv
<1>n. /\ time \in Nat /\ status.dir \in Nat /\ mem.dir \in Nat
      /\ pc # "idle" => time \in Times
  BY DirNumbers
<1>1. CASE StartBackup
  <2>1. /\ pc = "idle" /\ pc' = "pvc" /\ time' = time + 1 /\ UNCHANGED <<n, dirs>>
        /\ mem' = [status EXCEPT !.cond = "False"]
        /\ status' = status \/ status' = mem'
    BY <1>1 DEF StartBackup
  <2>2. mem'.dir = status.dir /\ mem'.cond = "False" /\ status'.dir = status.dir
    BY <2>1 DEF TypeOK, Status
  <2>3. status.dir < time' /\ status.dir <= time'
    BY <1>n, <2>1 DEF NamesFull
  <2>4. Full(status.dir)' /\ Full(mem.dir)'
    BY <2>1, <2>2 DEF NamesFull, Full
  <2>5. status'.cond = "True" => status'.dir # NoDir
    BY <2>1, <2>2 DEF NamesFull
  <2>6. NamesFull'
    BY <2>1, <2>2, <2>3, <2>4, <2>5 DEF NamesFull
  <2>7. FilesDone'
    BY <2>1 DEF FilesDone
  <2> QED BY <2>1, <2>6, <2>7
<1>2. CASE createBackupPVC \/ createBackupPod \/ createBackupDir
  <2>1. /\ pc \in {"pvc", "pod", "mkdir"} /\ UNCHANGED dirs
        /\ \/ (Goto("pod") \/ Goto("mkdir") \/ Goto("files")) /\ Update(Running)
           \/ Fail
    BY <1>2 DEF createBackupPVC, createBackupPod, createBackupDir
  <2>2. FilesDone' /\ pc' # "complete" /\ time' = time
    <3>1. CASE Fail
      BY <3>1, FilesAbandoned DEF Fail
    <3>2. CASE Goto("pod") \/ Goto("mkdir") \/ Goto("files")
      <4>1. n = 1 /\ n' = 1 /\ pc' \in {"pod", "mkdir", "files"} /\ time' = time
        BY <2>1, <3>2 DEF Goto, FilesDone
      <4>2. Done(n - 1)'
        BY <4>1 DEF Done
      <4> QED BY <4>1, <4>2 DEF FilesDone
    <3> QED BY <2>1, <3>1, <3>2
  <2> QED BY <2>1, <2>2, UpdateNames, NamesKept DEF Writing, Steps
<1>3. CASE SkipFile
  <2>1. pc = "files" /\ File \notin Used /\ NextFile /\ Progress /\ UNCHANGED dirs
    BY <1>3 DEF SkipFile
  <2>2. FilesDone' /\ pc' # "complete" /\ time' = time
    BY <2>1, FilesNext
  <2> QED BY <2>1, <2>2, UpdateNames, NamesKept DEF Writing, Steps
<1>4. CASE BackupFile
  <2>1. pc = "files" /\ NextFile /\ Progress
    BY <1>4 DEF BackupFile
  <2>2. /\ \A t \in Times : t # time => dirs'[t] = dirs[t]
        /\ dirs'[time].files = dirs[time].files \cup {File}
    BY <1>n, <1>4, <2>1 DEF BackupFile, TypeOK, Directory
  <2>3. FilesDone' /\ pc' # "complete" /\ time' = time
    BY <2>1, <2>2, FilesNext
  <2> QED BY <2>1, <2>2, <2>3, UpdateNames, NamesKept DEF Writing, Steps
<1>5. CASE BackupFileFails
  <2>1. pc = "files" /\ Fail
    BY <1>5 DEF BackupFileFails
  <2>2. \A t \in Times : t # time => dirs'[t] = dirs[t]
    BY <1>n, <1>5, <2>1 DEF BackupFileFails, TypeOK, Directory
  <2>3. FilesDone' /\ pc' # "complete" /\ time' = time
    BY <2>1, FilesAbandoned DEF Fail
  <2> QED BY <2>1, <2>2, <2>3, UpdateNames, NamesKept DEF Writing, Steps
<1>6. CASE StartCopy
  <2>1. pc = "files" /\ File = Dir /\ pc' = "copy" /\ Update(Running) /\ UNCHANGED <<n, time, dirs>>
    BY <1>6 DEF StartCopy
  <2>2. FilesDone'
    BY <2>1 DEF FilesDone, Done, File
  <2> QED BY <2>1, <2>2, UpdateNames, NamesKept DEF Writing, Steps
<1>7. ASSUME NEW a \in Artifacts, CopyArtifact(a) PROVE PublishStep
  <2>1. pc = "copy" /\ UNCHANGED <<pc, n, time, mem, status>>
    BY <1>7 DEF CopyArtifact
  <2>2. /\ \A t \in Times : t # time => dirs'[t] = dirs[t]
        /\ dirs'[time].files = dirs[time].files
    BY <1>n, <1>7, <2>1 DEF CopyArtifact, TypeOK, Directory
  <2>3. FilesDone'
    BY <2>1, <2>2 DEF FilesDone, Done, File
  <2> QED BY <2>1, <2>2, <2>3, NamesKept DEF Writing, Steps
<1>8. CASE Copied
  <2>1. pc = "copy" /\ NextFile /\ UNCHANGED <<mem, status>>
    BY <1>8 DEF Copied
  <2>2. /\ \A t \in Times : t # time => dirs'[t] = dirs[t]
        /\ dirs'[time].files = dirs[time].files \cup {Dir}
    BY <1>n, <1>8, <2>1 DEF Copied, TypeOK, Directory
  <2>3. File = Dir
    BY <2>1 DEF FilesDone
  <2>4. FilesDone' /\ pc' # "complete" /\ time' = time
    BY <2>1, <2>2, <2>3, FilesNext
  <2> QED BY <2>1, <2>2, <2>4, NamesKept DEF Writing, Steps
<1>9. CASE CopyFails
  <2>1. pc = "copy" /\ Fail /\ UNCHANGED dirs
    BY <1>9 DEF CopyFails
  <2>2. FilesDone' /\ pc' # "complete" /\ time' = time
    BY <2>1, FilesAbandoned DEF Fail
  <2> QED BY <2>1, <2>2, UpdateNames, NamesKept DEF Writing, Steps
<1>10. CASE setStatusFields
  <2>1. /\ pc = "fields" /\ pc' = "complete" /\ UNCHANGED <<n, time, dirs>>
        /\ mem' = [cond |-> "False", dir |-> time] /\ status' \in {status, mem'}
    BY <1>10 DEF setStatusFields, Update, Goto
  <2>2. Used \subseteq dirs[time].files
    <3>1. Done(Len(Files)) /\ Used \subseteq FileSet
      BY <2>1, FilesAssumption DEF FilesDone
    <3> QED BY <3>1, FileTypes DEF Done, FileSet
  <2>3. Full(status.dir)' /\ Full(mem.dir)'
    BY <2>1, <2>2 DEF NamesFull, Full
  <2>4. time # NoDir
    BY <1>n, <2>1 DEF Times, NoDir
  <2>5. NamesFull'
    BY <1>n, <2>1, <2>3, <2>4 DEF NamesFull, Writing
  <2>6. FilesDone'
    BY <2>1 DEF FilesDone, Done
  <2> QED BY <2>1, <2>5, <2>6
<1>11. CASE Complete
  <2>1. /\ pc = "complete" /\ Return(FALSE) /\ UNCHANGED dirs
        /\ mem' = [mem EXCEPT !.cond = "True"] /\ status' \in {status, mem'}
    BY <1>11 DEF Complete, Update
  <2>2. FilesDone' /\ pc' = "idle" /\ time' = time
    BY <2>1, FilesAbandoned
  <2>3. mem'.dir = time /\ mem.dir = time /\ time # NoDir
    BY <1>n, <2>1 DEF NamesFull, TypeOK, Status, Times, NoDir
  <2>4. Full(status.dir)' /\ Full(mem.dir)'
    BY <2>1, <2>3 DEF NamesFull, Full
  <2>5. NamesFull'
    BY <1>n, <2>1, <2>2, <2>3, <2>4 DEF NamesFull, Writing
  <2> QED BY <2>1, <2>2, <2>5
<1>12. CASE OperatorRestart
  <2>1. Return(TRUE) /\ UNCHANGED <<mem, status, dirs>>
    BY <1>12 DEF OperatorRestart
  <2>2. FilesDone' /\ pc' = "idle" /\ time' = time
    BY <2>1, FilesAbandoned
  <2>3. NamesFull'
    BY <2>1, <2>2 DEF NamesFull, Full, Writing
  <2> QED BY <2>1, <2>2, <2>3
<1>13. CASE EditSpec \/ (\E a \in Artifacts : Content(a)) \/ NameSecrets \/ UNCHANGED vars
  <2>1. UNCHANGED <<pc, n, time, mem, status, dirs>>
    BY <1>13 DEF EditSpec, Content, SaveBlob, SaveRow, DeleteRow, DeleteBlob, NameSecrets, Backup, local, vars
  <2>2. NamesFull'
    BY <2>1 DEF NamesFull, Full
  <2>3. FilesDone'
    BY <2>1 DEF FilesDone, Done, File
  <2> QED BY <2>1, <2>2, <2>3
<1> QED
  BY <1>1, <1>2, <1>3, <1>4, <1>5, <1>6, <1>7, <1>8, <1>9, <1>10, <1>11, <1>12, <1>13
  DEF Next, Reconcile

LEMMA PublishInvariant == Spec => []PublishInv
<1>1. Init => PublishInv
  BY DEF Init, PublishInv, NamesFull, FilesDone, Full, NoDir, Writing
<1>2. TypeOK /\ PublishInv /\ [Next]_vars => PublishInv'
  BY PublishNext DEF PublishStep
<1> QED BY <1>1, <1>2, BackupTypeCorrect, PTL DEF Spec

(* PublishedComplete: a directory named by the status has every file that   *)
(* the backup is to have, whatever failed on the way to it.                 *)
THEOREM PublishedIsComplete == Spec => []PublishedComplete
<1>1. PublishInv => PublishedComplete
  BY DEF PublishInv, NamesFull, Full, PublishedComplete
<1> QED BY <1>1, PublishInvariant, PTL

(* PublishedUntouched: no retry, rerun or restart writes to it.             *)
THEOREM PublishedIsFinal == Spec => PublishedUntouched
<1>1. TypeOK /\ PublishInv /\ [Next]_vars
      => [status.dir # NoDir => dirs'[status.dir] = dirs[status.dir]]_vars
  BY PublishNext DEF PublishStep
<1> QED BY <1>1, PublishInvariant, BackupTypeCorrect, PTL DEF Spec, PublishedUntouched
-----------------------------------------------------------------------------
(* The dump and its files.                                                  *)

(* Apart from what was removed since the run began, every artifact of the   *)
(* dump is in /var/lib/pulp until cp has come by, and in the copy after     *)
(* that: a file is stored before its row is.                                *)
Kept(x, y) == x \subseteq y \cup gone
DirCopied  == \E i \in 1..(n - 1) : Files[i] = Dir

ContentInv ==
  /\ rows \subseteq blobs
  /\ \A t \in Times : t > time => dirs[t].rows = {}
  /\ pc # "idle" => Kept(dirs[time].rows, blobs)
  /\ pc = "copy" => Kept(dirs[time].rows \ todo, dirs[time].blobs)
  /\ pc = "files" /\ DirCopied /\ Dir \in Used => Kept(dirs[time].rows, dirs[time].blobs)
  /\ pc \in {"fields", "complete"} /\ Dir \in Used => Kept(dirs[time].rows, dirs[time].blobs)

(* On to the next file, when this one has changed nothing but, being the    *)
(* dump, the rows, or, being the directory, is copied.                      *)
LEMMA ContentNextFile ==
  ASSUME TypeOK, ContentInv, pc \in {"files", "copy"}, NextFile, UNCHANGED pulp,
         \A t \in Times : t # time => dirs'[t] = dirs[t],
         Kept(dirs'[time].rows, blobs),
         (DirCopied \/ File = Dir) /\ Dir \in Used => Kept(dirs'[time].rows, dirs'[time].blobs)
  PROVE  ContentInv'
<1>1. n \in 1..Len(Files) /\ Len(Files) \in Nat /\ DOMAIN Files = 1..Len(Files)
  BY FileTypes DEF TypeOK
<1>2. time' = time /\ time \in Times /\ UNCHANGED <<rows, blobs, gone>> /\ pc' \in {"files", "fields"}
  BY DirNumbers DEF NextFile, pulp
<1>3. rows' \subseteq blobs' /\ (\A t \in Times : t > time' => dirs'[t].rows = {})
  BY <1>2 DEF ContentInv, Times
<1>4. Kept(dirs[time].rows, blobs)'
  BY <1>2 DEF Kept
<1>5. CASE pc' = "files" /\ n' = n + 1
  <2>1. DirCopied' => DirCopied \/ File = Dir
    BY <1>1, <1>5 DEF DirCopied, File
  <2>2. DirCopied' /\ Dir \in Used => Kept(dirs[time].rows, dirs[time].blobs)'
    BY <1>2, <2>1 DEF Kept
  <2> QED BY <1>3, <1>4, <1>5, <2>2 DEF ContentInv
<1>6. CASE pc' = "fields" /\ n = Len(Files)
  <2>1. Dir \in FileSet
    BY FilesAssumption
  <2>2. PICK i \in 1..Len(Files) : Files[i] = Dir
    BY <1>1, <2>1 DEF FileSet
  <2>3. DirCopied \/ File = Dir
    BY <1>1, <1>6, <2>2 DEF DirCopied, File
  <2>4. Dir \in Used => Kept(dirs[time].rows, dirs[time].blobs)'
    BY <1>2, <2>3 DEF Kept
  <2> QED BY <1>3, <1>4, <1>6, <2>4 DEF ContentInv
<1> QED BY <1>5, <1>6 DEF NextFile

(* The run is given up, or has not come to its files.                       *)
LEMMA ContentElsewhere ==
  ASSUME ContentInv, pc' \notin {"files", "copy", "fields", "complete"} \/ (pc' = "files" /\ n' = 1),
         time' = time, UNCHANGED <<rows, blobs, gone>>,
         \A t \in Times : t # time => dirs'[t] = dirs[t],
         pc' # "idle" => pc # "idle" /\ dirs'[time] = dirs[time]
  PROVE  ContentInv'
<1>1. rows' \subseteq blobs' /\ (pc' # "idle" => Kept(dirs[time].rows, blobs)')
  BY DEF ContentInv, Kept
<1>2. \A t \in Times : t > time' => dirs'[t].rows = {}
  <2> SUFFICES ASSUME NEW t \in Times, t > time PROVE dirs'[t].rows = {}
    OBVIOUS
  <2>1. t # time \/ t > t
    OBVIOUS
  <2> QED BY <2>1 DEF ContentInv, Times
<1>3. ~DirCopied' \/ pc' # "files"
  BY DEF DirCopied
<1> QED BY <1>1, <1>2, <1>3 DEF ContentInv

LEMMA ContentNext ==
  ASSUME TypeOK, TypeOK', PublishInv, ContentInv, [Next]_vars
  PROVE  ContentInv'
<1>n. time \in Nat /\ (pc # "idle" => time \in Times)
  BY DirNumbers
<1>1. CASE StartBackup
  <2>1. /\ pc' = "pvc" /\ time' = time + 1 /\ gone' = {} /\ UNCHANGED <<rows, blobs, dirs>>
    BY <1>1 DEF StartBackup
  <2>2. time' \in Times
    BY <1>n, <2>1 DEF Times, TypeOK
  <2>3. dirs'[time'].rows = {} /\ (\A t \in Times : t > time' => dirs'[t].rows = {})
    BY <1>n, <2>1, <2>2 DEF ContentInv, Times
  <2> QED BY <2>1, <2>3 DEF ContentInv, Kept
<1>2. CASE createBackupPVC \/ createBackupPod \/ createBackupDir
  <2>1. /\ pc \in {"pvc", "pod", "mkdir"} /\ UNCHANGED <<dirs, pulp>> /\ time' = time
        /\ pc' \in {"idle", "pod", "mkdir", "files"} /\ n' \in {1, n}
    BY <1>2 DEF createBackupPVC, createBackupPod, createBackupDir, Goto, Fail, Return
  <2>2. n = 1
    BY <2>1 DEF PublishInv, FilesDone
  <2> QED BY <2>1, <2>2, ContentElsewhere DEF pulp
<1>3. CASE SkipFile
  <2>1. pc = "files" /\ File \notin Used /\ NextFile /\ UNCHANGED <<dirs, pulp>>
    BY <1>3 DEF SkipFile
  <2>2. (DirCopied \/ File = Dir) /\ Dir \in Used => Kept(dirs'[time].rows, dirs'[time].blobs)
    BY <2>1 DEF ContentInv
  <2>3. Kept(dirs'[time].rows, blobs)
    BY <2>1 DEF ContentInv
  <2> QED BY <2>1, <2>2, <2>3, ContentNextFile
<1>4. CASE BackupFile
  <2>1. pc = "files" /\ File # Dir /\ NextFile /\ UNCHANGED pulp
    BY <1>4 DEF BackupFile
  <2>2. /\ \A t \in Times : t # time => dirs'[t] = dirs[t]
        /\ dirs'[time].rows = IF File = Dump THEN rows ELSE dirs[time].rows
        /\ dirs'[time].blobs = dirs[time].blobs
    BY <1>n, <1>4, <2>1 DEF BackupFile, TypeOK, Directory
  <2>3. Kept(dirs'[time].rows, blobs)
    BY <2>1, <2>2 DEF ContentInv, Kept
  <2>4. DirCopied => File # Dump
    <3> SUFFICES ASSUME NEW i \in 1..(n - 1), Files[i] = Dir, Files[n] = Dump PROVE FALSE
      BY DEF DirCopied, File
    <3>1. n \in 1..Len(Files) /\ DOMAIN Files = 1..Len(Files) /\ Len(Files) \in Nat
      BY FileTypes DEF TypeOK
    <3>2. n < i
      BY <3>1, FilesAssumption
    <3> QED BY <3>1, <3>2
  <2>5. DirCopied /\ Dir \in Used => Kept(dirs'[time].rows, dirs'[time].blobs)
    BY <2>1, <2>2, <2>4 DEF ContentInv
  <2> QED BY <2>1, <2>2, <2>3, <2>5, ContentNextFile
<1>5. CASE BackupFileFails
  <2>1. pc = "files" /\ Fail /\ UNCHANGED pulp
    BY <1>5 DEF BackupFileFails
  <2>2. \A t \in Times : t # time => dirs'[t] = dirs[t]
    BY <1>n, <1>5, <2>1 DEF BackupFileFails, TypeOK, Directory
  <2> QED BY <2>1, <2>2, ContentElsewhere DEF Fail, Return, pulp
<1>6. CASE StartCopy
  <2>1. pc = "files" /\ pc' = "copy" /\ todo' = Artifacts /\ UNCHANGED <<time, dirs, pulp>>
    BY <1>6 DEF StartCopy
  <2>2. dirs[time].rows \subseteq Artifacts
    BY <1>n, <2>1 DEF TypeOK, Directory
  <2> QED BY <2>1, <2>2 DEF ContentInv, Kept, pulp
<1>7. ASSUME NEW a \in Artifacts, CopyArtifact(a) PROVE ContentInv'
  <2>1. pc = "copy" /\ todo' = todo \ {a} /\ UNCHANGED <<pc, n, time, pulp>>
    BY <1>7 DEF CopyArtifact
  <2>2. /\ \A t \in Times : t # time => dirs'[t] = dirs[t]
        /\ dirs'[time].rows = dirs[time].rows
        /\ dirs'[time].blobs = IF a \in blobs THEN dirs[time].blobs \cup {a} ELSE dirs[time].blobs
    BY <1>n, <1>7, <2>1 DEF CopyArtifact, TypeOK, Directory
  <2>3. Kept(dirs[time].rows \ todo, dirs[time].blobs)'
    BY <2>1, <2>2 DEF ContentInv, Kept, pulp
  <2>4. \A t \in Times : t > time => dirs'[t].rows = {}
    BY <1>n, <2>1, <2>2 DEF ContentInv, Times
  <2> QED BY <2>1, <2>2, <2>3, <2>4 DEF ContentInv, Kept, pulp
<1>8. CASE Copied
  <2>1. pc = "copy" /\ todo = {} /\ NextFile /\ UNCHANGED pulp
    BY <1>8 DEF Copied
  <2>2. /\ \A t \in Times : t # time => dirs'[t] = dirs[t]
        /\ dirs'[time].rows = dirs[time].rows /\ dirs'[time].blobs = dirs[time].blobs
    BY <1>n, <1>8, <2>1 DEF Copied, TypeOK, Directory
  <2>3. Kept(dirs'[time].rows, blobs) /\ Kept(dirs'[time].rows, dirs'[time].blobs)
    BY <2>1, <2>2 DEF ContentInv, Kept
  <2> QED BY <2>1, <2>2, <2>3, ContentNextFile
<1>9. CASE CopyFails
  <2>1. pc' = "idle" /\ UNCHANGED <<time, dirs, pulp>>
    BY <1>9 DEF CopyFails, Fail, Return
  <2> QED BY <2>1, ContentElsewhere DEF pulp
<1>10. CASE setStatusFields
  <2>1. pc = "fields" /\ pc' = "complete" /\ UNCHANGED <<time, dirs, pulp>>
    BY <1>10 DEF setStatusFields, Goto
  <2> QED BY <2>1 DEF ContentInv, Kept, pulp
<1>11. CASE Complete \/ OperatorRestart
  <2>1. pc' = "idle" /\ UNCHANGED <<time, dirs, pulp>>
    BY <1>11 DEF Complete, OperatorRestart, Return
  <2> QED BY <2>1, ContentElsewhere DEF pulp
<1>12. CASE (\E a \in Artifacts : Content(a)) \/ NameSecrets
  <2>1. UNCHANGED <<pc, n, time, todo, dirs>>
    BY <1>12 DEF Content, SaveBlob, SaveRow, DeleteRow, DeleteBlob, NameSecrets, Backup, local
  <2>2. rows' \subseteq blobs' /\ gone \subseteq gone' /\ blobs \subseteq blobs' \cup gone'
    BY <1>12 DEF Content, SaveBlob, SaveRow, DeleteRow, DeleteBlob, NameSecrets, ContentInv
  <2> QED BY <2>1, <2>2 DEF ContentInv, Kept, DirCopied
<1>13. CASE EditSpec \/ UNCHANGED vars
  <2>1. UNCHANGED <<pc, n, time, todo, dirs, pulp>>
    BY <1>13 DEF EditSpec, vars, pulp
  <2> QED BY <2>1 DEF ContentInv, Kept, DirCopied, pulp
<1> QED
  BY <1>1, <1>2, <1>3, <1>4, <1>5, <1>6, <1>7, <1>8, <1>9, <1>10, <1>11, <1>12, <1>13
  DEF Next, Reconcile

(* DumpHasItsFiles: in every finished directory the dump refers only to     *)
(* artifacts that were copied or have been removed meanwhile.               *)
THEOREM DumpIsCovered == Spec => []DumpHasItsFiles
<1>1. Init => ContentInv
  BY DEF Init, ContentInv, Missing, Kept
<1>2. TypeOK /\ TypeOK' /\ PublishInv /\ ContentInv /\ [Next]_vars => ContentInv'
  BY ContentNext
<1>3. ContentInv => DumpHasItsFiles
  BY DEF ContentInv, DumpHasItsFiles, Kept
<1> QED BY <1>1, <1>2, <1>3, PublishInvariant, BackupTypeCorrect, PTL DEF Spec
-----------------------------------------------------------------------------
(* The refinement of BackupStore.                                           *)

(* A run's copy never names an older directory than the status does.        *)
Later == pc # "idle" => status.dir <= mem.dir

LEMMA LaterNext ==
  ASSUME TypeOK, PublishInv, Later, [Next]_vars
  PROVE  Later' /\ status.dir <= status'.dir
<1>n. status.dir \in Nat /\ mem.dir \in Nat /\ time \in Nat /\ status.dir <= time
  BY DirNumbers DEF PublishInv, NamesFull
<1>1. CASE StartBackup
  <2>1. mem'.dir = status.dir /\ status'.dir = status.dir
    BY <1>1 DEF StartBackup, TypeOK, Status
  <2> QED BY <1>n, <2>1 DEF Later
<1>2. CASE pc # "idle" /\ (Update(Running) \/ Progress \/ Fail)
  <2>1. mem'.dir = mem.dir /\ (status' = status \/ status'.dir = mem.dir)
    BY <1>2, UpdateNames
  <2> QED BY <1>n, <1>2, <2>1 DEF Later
<1>3. CASE setStatusFields
  <2>1. mem'.dir = time /\ (status' = status \/ status'.dir = time)
    BY <1>3 DEF setStatusFields, Update
  <2> QED BY <1>n, <2>1 DEF Later
<1>4. CASE Complete
  <2>1. [mem EXCEPT !.cond = "True"].dir = mem.dir
    BY DEF TypeOK, Status
  <2>2. pc' = "idle" /\ (status' = status \/ status'.dir = mem.dir)
    BY <1>4, <2>1 DEF Complete, Update, Return
  <2> QED BY <1>n, <1>4, <2>2 DEF Later, Complete
<1>5. CASE UNCHANGED <<mem, status>> /\ (pc' = "idle" \/ pc # "idle")
  BY <1>n, <1>5 DEF Later
<1>6. CASE UNCHANGED <<mem, status, pc>>
  BY <1>n, <1>6 DEF Later
<1>7. createBackupPVC \/ createBackupPod \/ createBackupDir \/ SkipFile \/ BackupFile
      \/ BackupFileFails \/ StartCopy \/ CopyFails
      => pc # "idle" /\ (Update(Running) \/ Progress \/ Fail)
  BY DEF createBackupPVC, createBackupPod, createBackupDir, SkipFile, BackupFile,
         BackupFileFails, StartCopy, CopyFails
<1>8. (\E a \in Artifacts : CopyArtifact(a)) \/ Copied \/ OperatorRestart
      => UNCHANGED <<mem, status>> /\ (pc' = "idle" \/ pc # "idle")
  BY DEF CopyArtifact, Copied, OperatorRestart, Return
<1>9. EditSpec \/ (\E a \in Artifacts : Content(a)) \/ NameSecrets \/ UNCHANGED vars
      => UNCHANGED <<mem, status, pc>>
  BY DEF EditSpec, Content, SaveBlob, SaveRow, DeleteRow, DeleteBlob, NameSecrets, Backup, local, vars
<1> QED
  BY <1>1, <1>2, <1>3, <1>4, <1>5, <1>6, <1>7, <1>8, <1>9 DEF Next, Reconcile

LEMMA LaterInvariant == Spec => []Later
<1>1. Init => Later
  BY DEF Init, Later
<1>2. TypeOK /\ PublishInv /\ Later /\ [Next]_vars => Later'
  BY LaterNext
<1> QED BY <1>1, <1>2, BackupTypeCorrect, PublishInvariant, PTL DEF Spec

(* A step that keeps the name keeps what is there; one that changes it      *)
(* names a later directory, which is complete.                              *)
LEMMA StoreStep ==
  ASSUME TypeOK, TypeOK', PublishInv, Later, [Next]_vars
  PROVE  [Store!Next]_<<status.dir, Published, status.cond = "True">>
<1>1. PublishStep /\ status.dir <= status'.dir
  BY PublishNext, LaterNext
<1>2. status.dir \in Nat
  BY DirNumbers
<1>3. CASE status'.dir = status.dir
  <2>1. Published' = Published
    BY <1>1, <1>3 DEF PublishStep, Published
  <2>2. CASE status'.cond = "True"
    <3>1. status.dir # 0
      BY <1>1, <1>3, <2>2 DEF PublishStep, PublishInv, NamesFull, NoDir
    <3> QED BY <1>3, <2>1, <2>2, <3>1 DEF Store!Next, Store!Report
  <2>3. CASE status'.cond # "True"
    BY <1>3, <2>1, <2>3 DEF Store!Next, Store!Run
  <2> QED BY <2>2, <2>3
<1>4. CASE status'.dir # status.dir
  <2>1. Full(status.dir)'
    BY <1>1 DEF PublishStep, PublishInv, NamesFull
  <2>2. PICK d : d = status'.dir
    OBVIOUS
  <2>3. d \in Nat /\ d > status.dir /\ d # NoDir
    <3>1. d \in Nat
      BY <2>2, RunTypes DEF TypeOK, Status
    <3> QED BY <1>1, <1>2, <1>4, <2>2, <3>1 DEF NoDir
  <2>4. Used \subseteq Published'.files
    BY <2>1, <2>2, <2>3 DEF Full, Published
  <2>5. Store!Publish
    BY <2>2, <2>3, <2>4 DEF Store!Publish
  <2> QED BY <2>5 DEF Store!Next
<1> QED BY <1>3, <1>4

(* The controller implements BackupStore, for any files, any number of      *)
(* failures, restarts and edits, and reads however stale.                   *)
THEOREM BackupIsStore == Spec => ImplementsStore
<1>1. Init => Store!Init
  BY DEF Init, Store!Init, Published, NoDir, Missing
<1>2. TypeOK /\ TypeOK' /\ PublishInv /\ Later /\ [Next]_vars
      => [Store!Next]_<<status.dir, Published, status.cond = "True">>
  BY StoreStep
<1> QED
  BY <1>1, <1>2, BackupTypeCorrect, PublishInvariant, LaterInvariant, PTL
  DEF Spec, ImplementsStore, Store!Spec
=============================================================================
