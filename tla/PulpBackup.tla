---------------------------- MODULE PulpBackup ----------------------------
(***************************************************************************)
(* The backup controller (controllers/backup): one reconciliation of a     *)
(* PulpBackup resource writes one new directory on the backup claim, file  *)
(* by file, and names it in .status once everything is there.  An error    *)
(* starts over with a new directory.  Nothing keeps a finished backup from *)
(* being run again: a restart of the operator does.                        *)
(*                                                                         *)
(* Pulp keeps running meanwhile.  An artifact of it is a row of the        *)
(* database and a file of /var/lib/pulp: the file is written before the    *)
(* row, and removed after it.  pg_dump sees the rows of one moment, cp     *)
(* comes by every file at a moment of its own.                             *)
(***************************************************************************)
EXTENDS Naturals, Sequences

CONSTANTS
  Files,        \* what a backup consists of, in the order of the code
  Dump,         \* the one that pg_dump writes
  Dir,          \* the one that is the copy of /var/lib/pulp
  Used,         \* those that the Pulp resource and its storage call for
  FromStatus,   \* those whose Secret is named by the .status of Pulp
  Artifacts,    \* the artifacts Pulp may hold
  StaleReads,   \* r.Get may return a PulpBackup from before the last update
  FaultPoints,  \* the steps at which something may fail
  MaxFaults,    \* failures and restarts
  MaxEdits      \* changes of .spec

FileSet == {Files[i] : i \in DOMAIN Files}
Steps   == {"idle", "pvc", "pod", "mkdir", "files", "copy", "fields", "complete"}
MaxRuns == 1 + MaxFaults + MaxEdits

ASSUME FilesAssumption ==
  /\ Files \in Seq(STRING) /\ Files # <<>>
  /\ Used \subseteq FileSet /\ FromStatus \subseteq FileSet
  /\ {Dump, Dir} \subseteq FileSet /\ Dump \in Used /\ Dump # Dir
  /\ \A i, j \in DOMAIN Files : Files[i] = Dump /\ Files[j] = Dir => i < j

ASSUME BackupEnvironment ==
  /\ StaleReads \in BOOLEAN
  /\ FaultPoints \subseteq Steps
  /\ MaxFaults \in Nat /\ MaxEdits \in Nat

VARIABLES
  pc,       \* the step the reconciliation is at
  n,        \* the file it writes
  time,     \* the clock, as far as it names directories: runs started
  mem,      \* the status in the reconciliation's copy of the PulpBackup
  fresh,    \* that copy carries the current resourceVersion
  todo,     \* artifacts that cp has not come by
  queue,    \* the workqueue holds a request for the PulpBackup
  status,   \* the status stored: condition BackupComplete, backupDirectory
  dirs,     \* the directories on the claim, by the time in their name
  rows,     \* artifacts in the database of Pulp
  blobs,    \* artifacts in /var/lib/pulp
  gone,     \* artifacts that Pulp has removed since the run began
  named,    \* the .status of Pulp names its Secrets
  faults,   \* failures so far
  edits     \* changes of .spec so far

pulp  == <<rows, blobs, gone, named>>
local == <<pc, n, time, mem, fresh, todo>>
vars  == <<pc, n, time, mem, fresh, todo, queue, status, dirs, rows, blobs, gone, named, faults, edits>>

Times     == 1..MaxRuns
NoDir     == 0
Status    == [cond : {"none", "False", "True"}, dir : 0..MaxRuns]
Directory == [files : SUBSET FileSet, rows : SUBSET Artifacts, blobs : SUBSET Artifacts]
Missing   == [files |-> {}, rows |-> {}, blobs |-> {}]

-----------------------------------------------------------------------------
(* Something goes wrong at this step.  A run that Pulp itself makes fail is *)
(* counted too, which bounds the number of runs.                            *)
Retried == faults < MaxFaults /\ faults' = faults + 1
Fault   == pc \in FaultPoints /\ Retried

(* r.Status().Update(s): nobody looks at the outcome, and what is refused   *)
(* stays in the reconciliation's copy.                                      *)
Update(s) ==
  /\ mem' = s
  /\ \/ fresh /\ status' = s /\ UNCHANGED faults
     \/ ~fresh /\ UNCHANGED <<status, faults>>
     \/ Fault /\ UNCHANGED status

(* Every step begins with an update that says what is under way.            *)
Running == [mem EXCEPT !.cond = "False"]

(* Several files may belong to one step.                                    *)
Progress == Update(Running) \/ UNCHANGED <<mem, status, faults>>

(* The reconciliation ends; q: it returns an error and is tried again.      *)
Return(q) ==
  /\ pc' = "idle" /\ n' = 1 /\ todo' = {} /\ fresh' = FALSE
  /\ queue' = (queue \/ q)
  /\ UNCHANGED time

(* ... after an update that says that the step has failed.                  *)
Fail ==
  /\ Return(TRUE)
  /\ mem' = Running
  /\ status' = IF fresh THEN Running ELSE status

Goto(step) == pc' = step /\ UNCHANGED <<n, time, fresh, todo, queue>>

-----------------------------------------------------------------------------
(* Reconcile.  The time is taken first.  When the copy that is read is out  *)
(* of date, as it may be right after an update of the previous run, every   *)
(* status update of this run is refused.                                    *)
CurrentReads == IF StaleReads /\ time > 0 THEN BOOLEAN ELSE {TRUE}

StartNamed ==    \* mutant: the directory is named when the run starts
  /\ pc = "idle" /\ queue
  /\ time' = time + 1 /\ queue' = FALSE
  /\ fresh' \in CurrentReads
  /\ mem' = [cond |-> "False", dir |-> time + 1]
  /\ \/ fresh' /\ status' = mem' /\ UNCHANGED faults
     \/ ~fresh' /\ UNCHANGED <<status, faults>>
     \/ Fault /\ UNCHANGED status
  /\ pc' = "pvc" /\ gone' = {}
  /\ UNCHANGED <<n, todo, dirs, rows, blobs, named, edits>>

StartForgets ==    \* mutant: a run begins with an empty status
  /\ pc = "idle" /\ queue
  /\ time' = time + 1 /\ queue' = FALSE
  /\ fresh' \in CurrentReads
  /\ mem' = [cond |-> "False", dir |-> NoDir]
  /\ \/ fresh' /\ status' = mem' /\ UNCHANGED faults
     \/ ~fresh' /\ UNCHANGED <<status, faults>>
     \/ Fault /\ UNCHANGED status
  /\ pc' = "pvc" /\ gone' = {}
  /\ UNCHANGED <<n, todo, dirs, rows, blobs, named, edits>>

StartBackup ==
  /\ pc = "idle" /\ queue
  /\ time' = time + 1 /\ queue' = FALSE
  /\ fresh' \in CurrentReads
  /\ mem' = [status EXCEPT !.cond = "False"]
  /\ \/ fresh' /\ status' = mem' /\ UNCHANGED faults
     \/ ~fresh' /\ UNCHANGED <<status, faults>>
     \/ Fault /\ UNCHANGED status
  /\ pc' = "pvc" /\ gone' = {}
  /\ UNCHANGED <<n, todo, dirs, rows, blobs, named, edits>>

(* createBackupPVC, createBackupPod, createBackupDir.  The pod may not get  *)
(* ready in time: waitPodReady then returns no error, and mkdir fails.      *)
createBackupPVC ==
  /\ pc = "pvc"
  /\ \/ Goto("pod") /\ Update(Running)
     \/ Fault /\ Fail
  /\ UNCHANGED <<dirs, pulp, edits>>

createBackupPod ==
  /\ pc = "pod"
  /\ \/ Goto("mkdir") /\ Update(Running)
     \/ Fault /\ Fail
  /\ UNCHANGED <<dirs, pulp, edits>>

createBackupDir ==
  /\ pc = "mkdir"
  /\ \/ Goto("files") /\ Update(Running)
     \/ Fault /\ Fail
  /\ UNCHANGED <<dirs, pulp, edits>>

-----------------------------------------------------------------------------
(* backupConfigMap, backupDatabase, backupCR, backupSecret, backupPulpDir.  *)
File == Files[n]

NextFilePastTheEnd ==    \* mutant: one file too many
  /\ \/ n <= Len(Files) /\ n' = n + 1 /\ pc' = "files"
     \/ n > Len(Files) /\ n' = 1 /\ pc' = "fields"
  /\ UNCHANGED <<time, fresh, queue>>

NextFile ==
  /\ \/ n < Len(Files) /\ n' = n + 1 /\ pc' = "files"
     \/ n = Len(Files) /\ n' = 1 /\ pc' = "fields"
  /\ UNCHANGED <<time, fresh, queue>>

(* A Secret that .spec does not name has no file.                           *)
SkipFile ==
  /\ pc = "files" /\ File \notin Used
  /\ NextFile /\ Progress
  /\ UNCHANGED <<todo, dirs, pulp, edits>>

Readable == File \in FromStatus => named

BackupFile ==
  /\ pc = "files" /\ File \in Used /\ File # Dir /\ Readable
  /\ dirs' = [dirs EXCEPT ![time].files = @ \cup {File},
                          ![time].rows  = IF File = Dump THEN rows ELSE @]
  /\ NextFile /\ Progress
  /\ UNCHANGED <<todo, pulp, edits>>

GiveUp ==    \* mutant: a file that cannot be written ends the backup
  /\ pc = "files" /\ File \in Used
  /\ Fault \/ (~Readable /\ Retried)
  /\ Return(FALSE)
  /\ UNCHANGED <<mem, status, dirs, pulp, edits>>

(* The Secret cannot be found, or the command in the manager pod fails and  *)
(* leaves a file that is not complete.                                      *)
BackupFileFails ==
  /\ pc = "files" /\ File \in Used
  /\ Fault \/ (~Readable /\ Retried)
  /\ dirs' = [dirs EXCEPT ![time].files = @ \ {File}]
  /\ Fail
  /\ UNCHANGED <<pulp, edits>>

(* backupPulpDir: cp -fa comes by one artifact after the other.  One that   *)
(* is removed after the directory was read and before the file is opened    *)
(* makes cp fail.                                                           *)
StartCopy ==
  /\ pc = "files" /\ File = Dir /\ Dir \in Used
  /\ pc' = "copy" /\ todo' = Artifacts
  /\ Update(Running)
  /\ UNCHANGED <<n, time, fresh, queue, dirs, pulp, edits>>

CopyPublished(a) ==    \* mutant: the target is the directory of the status
  /\ pc = "copy" /\ a \in todo
  /\ todo' = todo \ {a}
  /\ LET target == IF status.dir = NoDir THEN time ELSE status.dir
     IN  dirs' = IF a \in blobs THEN [dirs EXCEPT ![target].blobs = @ \cup {a}] ELSE dirs
  /\ UNCHANGED <<pc, n, time, mem, fresh, queue, status, pulp, faults, edits>>

CopyArtifact(a) ==
  /\ pc = "copy" /\ a \in todo
  /\ todo' = todo \ {a}
  /\ dirs' = IF a \in blobs THEN [dirs EXCEPT ![time].blobs = @ \cup {a}] ELSE dirs
  /\ UNCHANGED <<pc, n, time, mem, fresh, queue, status, pulp, faults, edits>>

CopiedThenDumped ==    \* mutant: the database is dumped after the files
  /\ pc = "copy" /\ todo = {}
  /\ dirs' = [dirs EXCEPT ![time].files = @ \cup {Dir}, ![time].rows = rows]
  /\ NextFile
  /\ UNCHANGED <<mem, status, todo, pulp, faults, edits>>

Copied ==
  /\ pc = "copy" /\ todo = {}
  /\ dirs' = [dirs EXCEPT ![time].files = @ \cup {Dir}]
  /\ NextFile
  /\ UNCHANGED <<mem, status, todo, pulp, faults, edits>>

CopyFails ==
  /\ pc = "copy"
  /\ Fault \/ ((todo \cap gone) \ blobs # {} /\ Retried)
  /\ Fail
  /\ UNCHANGED <<dirs, pulp, edits>>

-----------------------------------------------------------------------------
(* The manager pod is deleted, and setStatusFields names the directory; a   *)
(* failed update is logged.                                                 *)
setStatusFields ==
  /\ pc = "fields"
  /\ Update([cond |-> "False", dir |-> time])
  /\ Goto("complete")
  /\ UNCHANGED <<dirs, pulp, edits>>

(* BackupComplete is set in the same copy.                                  *)
Complete ==
  /\ pc = "complete"
  /\ Update([mem EXCEPT !.cond = "True"])
  /\ Return(FALSE)
  /\ UNCHANGED <<dirs, pulp, edits>>

-----------------------------------------------------------------------------
(* The environment.                                                         *)

(* A user changes .spec of the PulpBackup: the one event that passes        *)
(* IgnoreUpdateCRStatusPredicate.                                           *)
EditSpec ==
  /\ edits < MaxEdits /\ edits' = edits + 1
  /\ fresh' = FALSE /\ queue' = TRUE
  /\ UNCHANGED <<pc, n, time, mem, todo, status, dirs, pulp, faults>>

(* The operator restarts, and reconciles every PulpBackup it lists.         *)
OperatorRestart ==
  /\ Fault /\ Return(TRUE)
  /\ UNCHANGED <<mem, status, dirs, pulp, edits>>

Backup == <<local, queue, status, dirs, faults, edits>>

SaveBlob(a) ==
  /\ a \notin blobs /\ blobs' = blobs \cup {a}
  /\ UNCHANGED <<Backup, rows, gone, named>>

SaveRow(a) ==
  /\ a \in blobs \ rows /\ rows' = rows \cup {a}
  /\ UNCHANGED <<Backup, blobs, gone, named>>

DeleteRow(a) ==
  /\ a \in rows /\ rows' = rows \ {a}
  /\ UNCHANGED <<Backup, blobs, gone, named>>

DeleteBlob(a) ==
  /\ a \in blobs \ rows /\ blobs' = blobs \ {a}
  /\ gone' = gone \cup {a}
  /\ UNCHANGED <<Backup, rows, named>>

(* setStatusFields of the Pulp controller.                                  *)
NameSecrets ==
  /\ ~named /\ named' = TRUE
  /\ UNCHANGED <<Backup, rows, blobs, gone>>

Init ==
  /\ pc = "idle" /\ n = 1 /\ time = 0 /\ todo = {} /\ fresh = FALSE
  /\ mem = [cond |-> "none", dir |-> NoDir]
  /\ status = [cond |-> "none", dir |-> NoDir]
  /\ queue = TRUE /\ dirs = [t \in Times |-> Missing]
  /\ rows = {} /\ blobs = {} /\ gone = {} /\ named = FALSE
  /\ faults = 0 /\ edits = 0

Reconcile ==
  \/ StartBackup \/ createBackupPVC \/ createBackupPod \/ createBackupDir
  \/ SkipFile \/ BackupFile \/ BackupFileFails
  \/ StartCopy \/ (\E a \in Artifacts : CopyArtifact(a)) \/ Copied \/ CopyFails
  \/ setStatusFields \/ Complete

Content(a) == SaveBlob(a) \/ SaveRow(a) \/ DeleteRow(a) \/ DeleteBlob(a)

Next ==
  \/ Reconcile
  \/ EditSpec \/ OperatorRestart
  \/ \E a \in Artifacts : Content(a)
  \/ NameSecrets

Spec == Init /\ [][Next]_vars
FairSpec == Spec /\ WF_vars(Reconcile) /\ WF_vars(NameSecrets)

-----------------------------------------------------------------------------
(* Properties.                                                              *)

TypeOK ==
  /\ pc \in Steps /\ n \in DOMAIN Files /\ time \in 0..MaxRuns
  /\ pc # "idle" => time > 0
  /\ mem \in Status /\ status \in Status
  /\ fresh \in BOOLEAN /\ queue \in BOOLEAN /\ named \in BOOLEAN
  /\ todo \subseteq Artifacts /\ gone \subseteq Artifacts
  /\ rows \subseteq Artifacts /\ blobs \subseteq Artifacts
  /\ dirs \in [Times -> Directory]
  /\ faults \in 0..MaxFaults /\ edits \in 0..MaxEdits

(* PulpRestore takes backupDirectory from the status without looking at     *)
(* BackupComplete: whatever failed, was edited or restarted, the directory  *)
(* it finds there is complete, and BackupComplete never comes without one.  *)
PublishedComplete ==
  /\ status.cond = "True" => status.dir # NoDir
  /\ status.dir # NoDir => Used \subseteq dirs[status.dir].files

(* A later run, or the retry of a failed one, never writes to the directory *)
(* that the status names: each one has the time in its name.                *)
PublishedUntouched ==
  [][status.dir # NoDir => dirs'[status.dir] = dirs[status.dir]]_vars

(* The controller implements BackupStore: seen through .status, all the     *)
(* runs, retries and restarts, with their directories half written and      *)
(* their updates refused, are publications of complete backups, each later  *)
(* than the one before, and reports of them.                                *)
Published == IF status.dir = NoDir THEN Missing ELSE dirs[status.dir]
Store == INSTANCE BackupStore
  WITH Needed <- Used, Nothing <- Missing,
       id <- status.dir, content <- Published, reported <- status.cond = "True"
ImplementsStore == Store!Spec

(* Every artifact that the dump of a finished directory refers to is among  *)
(* its files, or has been removed by an orphan cleanup meanwhile, although  *)
(* Pulp goes on storing artifacts: the database is dumped before            *)
(* /var/lib/pulp is copied.                                                 *)
DumpHasItsFiles ==
  pc \in {"fields", "complete"} /\ Dir \in Used =>
    dirs[time].rows \subseteq dirs[time].blobs \cup gone

(* Whatever fails on the way, the retries end, with a complete directory:   *)
(* every error of a step is returned to the workqueue.                      *)
Written == <>[](pc = "idle" /\ ~queue /\ Used \subseteq dirs[time].files)
=============================================================================
