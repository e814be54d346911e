---------------------------- MODULE PulpRestore ----------------------------
(***************************************************************************)
(* The restore controller (controllers/restore): one reconciliation of a   *)
(* PulpRestore resource is one pass through a fixed list of steps, every   *)
(* error starts it over from the first step, and the restore-lock          *)
(* ConfigMap, created last, keeps it from running again.                   *)
(*                                                                         *)
(* Its environment is the cluster that it restores to: the Pulp operator   *)
(* that provisions a database and a claim once the Pulp resource is back,  *)
(* pg_restore and cp inside the manager pod, and failing calls, timeouts   *)
(* and restarts of the operator.                                           *)
(***************************************************************************)
EXTENDS Naturals, Sequences, FiniteSets

CONSTANTS
  Items,          \* the ConfigMap and the Secrets, in the order of the code
  Required,       \* those whose missing backup file is an error
  InBackup,       \* those with a file in the backup
  PostgresSecret, \* the one with the credentials of the database
  KeepReplicas,   \* .spec.keep_replicas
  BackupReplicas, \* replicas in the Pulp resource of the backup
  Autoscaled,     \* the components that have hpa.enabled in it
  Storage,        \* "class", "pvc" or "object": where Pulp keeps its files
  IngressType,    \* "route", "ingress" or "nodeport"
  IsNginx,        \* .spec.is_nginx_ingress
  FaultPoints,    \* the steps at which something may fail
  MaxFaults,      \* failures and restarts
  MaxWrites       \* updates of the Pulp resource by its own controller

ItemSet    == {Items[n] : n \in DOMAIN Items}
Pulpcore   == {"api", "content", "worker"}
Components == Pulpcore \cup {"web"}
Replicas   == [Components -> Nat]
Steps    == {"idle", "pvc", "pod", "stat", "items", "cr", "db", "dir", "scale",
             "update", "cleanup", "lock", "complete"}

ASSUME BackupAssumption ==
  /\ Items \in Seq(STRING) /\ Items # <<>>
  /\ InBackup \subseteq ItemSet
  /\ Required \subseteq InBackup
  /\ PostgresSecret \in Required
  /\ BackupReplicas \in Replicas
  /\ Autoscaled \subseteq Pulpcore

ASSUME RestoreAssumption ==
  /\ KeepReplicas \in BOOLEAN /\ IsNginx \in BOOLEAN
  /\ Storage \in {"class", "pvc", "object"}
  /\ IngressType \in {"route", "ingress", "nodeport"}
  /\ FaultPoints \subseteq Steps
  /\ MaxFaults \in Nat /\ MaxWrites \in Nat

VARIABLES
  pc,        \* the step the reconciliation is at
  n,         \* the item it restores
  replicas,  \* podReplicas, as returned by restorePulpCR
  stale,     \* the Pulp resource was written since scaleDeployments read it
  queue,     \* the workqueue holds a request for the PulpRestore
  cond,      \* the RestoreComplete condition
  lock,      \* the restore-lock ConfigMap exists
  pod,       \* the manager pod: "none", without ("bare") or with file-storage
  restored,  \* the items created, by the restore or before it
  cr,        \* the Pulp resource
  db,        \* the database StatefulSet
  data,      \* what the database holds
  claim,     \* the file-storage claim exists
  dir,       \* what is in /var/lib/pulp
  faults,    \* failures so far
  writes     \* updates of the Pulp resource so far

local   == <<pc, n, replicas, stale>>
cluster == <<restored, cr, db, data, claim, dir>>
vars    == <<pc, n, replicas, stale, queue, cond, lock, pod, restored, cr, db, data,
             claim, dir, faults, writes>>

NoReplicas == [c \in Components |-> 0]

-----------------------------------------------------------------------------
(* Something goes wrong at this step.                                       *)
Fault == pc \in FaultPoints /\ faults < MaxFaults /\ faults' = faults + 1

(* The reconciliation ends; q: it returns an error and is tried again.      *)
Return(q) ==
  /\ pc' = "idle" /\ n' = 1 /\ replicas' = NoReplicas /\ stale' = FALSE
  /\ queue' = (queue \/ q)

Goto(step) == pc' = step /\ UNCHANGED <<n, replicas, stale, queue>>

(* Nothing but the reconciliation itself moves.                             *)
Quiet == UNCHANGED <<cond, lock, pod, cluster, writes>>

-----------------------------------------------------------------------------
(* Reconcile, up to the first command in the manager pod.                   *)

(* The backup directory is looked up, then the lock; only a lock that is    *)
(* read stops the restore, one whose reading fails does not.                *)
LockFirst ==    \* mutant: the lock is created at the beginning
  /\ pc = "idle" /\ queue /\ ~lock
  /\ lock' = TRUE /\ cond' = "False"
  /\ pc' = "pvc" /\ queue' = FALSE
  /\ UNCHANGED <<n, replicas, stale, pod, cluster, faults, writes>>

StartRestore ==
  /\ pc = "idle" /\ queue
  /\ \/ ~lock /\ cond' = "False" /\ UNCHANGED faults
     \/ Fault /\ cond' \in {cond, "False"}
  /\ pc' = "pvc" /\ queue' = FALSE
  /\ UNCHANGED <<n, replicas, stale, lock, pod, cluster, writes>>

Locked ==
  /\ pc = "idle" /\ queue /\ lock
  /\ queue' = FALSE
  /\ UNCHANGED <<local, cond, lock, pod, cluster, faults, writes>>

(* A PulpBackup that cannot be read is logged and not tried again.          *)
NoBackupDir ==
  /\ pc = "idle" /\ queue
  /\ Fault /\ queue' = FALSE
  /\ UNCHANGED <<local, cond, lock, pod, cluster, writes>>

PVCFound ==
  /\ pc = "pvc"
  /\ Goto("pod") /\ Quiet /\ UNCHANGED faults

(* `return ctrl.Result{}, err' returns the err of getBackupDir, which is    *)
(* nil here: a claim that cannot be read is not tried again either.         *)
PVCNotFound ==
  /\ pc = "pvc"
  /\ Fault /\ Return(FALSE)
  /\ cond' = "False"
  /\ UNCHANGED <<lock, pod, cluster, writes>>

(* cleanup deletes the manager pod and waits; after the timeout it goes on  *)
(* as if the pod were gone.                                                 *)
cleanup == \/ pod' = "none" /\ UNCHANGED faults
           \/ pod # "none" /\ pod' = pod /\ Fault

(* createRestorePod mounts file-storage if it finds the claim at this       *)
(* moment; an error counts as no claim.  A pod that cleanup left behind is  *)
(* used as it is.                                                           *)
isFileStorage == claim
NewPod        == IF isFileStorage THEN "mounted" ELSE "bare"

RedeployPod ==
  \/ pod' = NewPod /\ UNCHANGED faults
  \/ Fault /\ pod' \in {pod, "bare"} \ {"none"}

createRestorePod ==
  /\ pc = "pod"
  /\ RedeployPod
  /\ cond' = "False"
  /\ Goto("stat")
  /\ UNCHANGED <<lock, cluster, writes>>

(* The pod cannot be created.                                               *)
PodFails ==
  /\ pc = "pod"
  /\ pod' = "none" /\ Fault
  /\ cond' = "False"
  /\ Return(TRUE)
  /\ UNCHANGED <<lock, cluster, writes>>

StatBackupDir ==
  /\ pc = "stat"
  /\ \/ Goto("items") /\ UNCHANGED faults
     \/ Fault /\ Return(TRUE)
  /\ Quiet

-----------------------------------------------------------------------------
(* restoreConfigMap and restoreSecret.                                      *)
Item     == Items[n]

ItemsPastTheEnd ==    \* mutant: one item too many
  /\ \/ n <= Len(Items) /\ n' = n + 1 /\ pc' = pc
     \/ n > Len(Items) /\ n' = 1 /\ pc' = "cr"
  /\ UNCHANGED <<replicas, stale, queue>>

ItemsShort ==    \* mutant: the last item is never come to
  /\ \/ n < Len(Items) - 1 /\ n' = n + 1 /\ pc' = pc
     \/ n >= Len(Items) - 1 /\ n' = 1 /\ pc' = "cr"
  /\ UNCHANGED <<replicas, stale, queue>>

NextItem ==
  /\ \/ n < Len(Items) /\ n' = n + 1 /\ pc' = pc
     \/ n = Len(Items) /\ n' = 1 /\ pc' = "cr"
  /\ UNCHANGED <<replicas, stale, queue>>

(* An item is created unless it is there already.                           *)
RestoreItem ==
  /\ pc = "items" /\ Item \in InBackup
  /\ restored' = restored \cup {Item}
  /\ NextItem
  /\ UNCHANGED <<cond, lock, pod, cr, db, data, claim, dir, faults, writes>>

(* `test -f' fails: there is no such file, or the command could not be run. *)
(* The code does not tell the two apart.                                    *)
TestFails == (Item \notin InBackup /\ UNCHANGED faults) \/ Fault

(* What is not required is then passed over.  So is any item when looking   *)
(* for it in the cluster fails with another error than IsNotFound.          *)
SkipItem ==
  /\ pc = "items"
  /\ \/ Item \notin Required /\ TestFails
     \/ Item \in InBackup /\ Fault
  /\ NextItem /\ Quiet

(* A required file is missing, or reading it or creating the item fails.    *)
RestoreItemFails ==
  /\ pc = "items"
  /\ \/ Item \in Required /\ TestFails
     \/ Item \in InBackup /\ Fault
  /\ Return(TRUE) /\ Quiet

-----------------------------------------------------------------------------
(* restorePulpCR: the Pulp resource is created scaled down and with its     *)
(* migrations disabled, and the replicas of the backup are remembered.      *)
RestoreCRScaledUp ==    \* mutant: the Pulp resource is created as it was
  /\ pc = "cr" /\ ~cr.exists
  /\ cr' = [exists |-> TRUE, replicas |-> BackupReplicas, migrate |-> FALSE]
  /\ replicas' = BackupReplicas
  /\ pc' = "db"
  /\ UNCHANGED <<n, stale, queue, cond, lock, pod, restored, db, data, claim, dir, faults, writes>>

RestoreCR ==
  /\ pc = "cr" /\ ~cr.exists
  /\ cr' = [exists |-> TRUE, replicas |-> NoReplicas, migrate |-> FALSE]
  /\ replicas' = BackupReplicas
  /\ pc' = "db"
  /\ UNCHANGED <<n, stale, queue, cond, lock, pod, restored, db, data, claim, dir, faults, writes>>

(* It exists already, or reading it failed with an error that is not        *)
(* IsNotFound: nothing is created and no replicas are remembered.           *)
RecreateCR ==    \* mutant: a resource that exists is created again, and refused
  /\ pc = "cr" /\ cr.exists
  /\ Return(TRUE) /\ Quiet /\ UNCHANGED faults

KeepCR ==
  /\ pc = "cr"
  /\ \/ cr.exists /\ UNCHANGED faults
     \/ Fault
  /\ replicas' = NoReplicas
  /\ pc' = "db"
  /\ UNCHANGED <<n, stale, queue, cond, lock, pod, cluster, writes>>

RestoreCRFails ==
  /\ pc = "cr" /\ ~cr.exists
  /\ Fault /\ Return(TRUE) /\ Quiet

(* What the Pulp controller makes of the resource: a Deployment without a   *)
(* number of replicas, which Kubernetes takes for one, if the component is  *)
(* autoscaled, and with the number in .spec otherwise.                      *)
AsksForPods(c) == cr.exists /\ (c \in Autoscaled \/ cr.replicas[c] > 0)

-----------------------------------------------------------------------------
(* restoreDatabaseData.                                                     *)

(* waitDBReady compares two counters that are both zero as long as the      *)
(* StatefulSet is missing; otherwise it waits, at most two minutes.         *)
WaitedForDB == db # "starting"

RestoreDB ==
  /\ pc = "db" /\ PostgresSecret \in restored
  /\ db = "ready" /\ data = "empty"
  /\ data' = "restored"
  /\ Goto("dir")
  /\ UNCHANGED <<cond, lock, pod, restored, cr, db, claim, dir, faults, writes>>

(* The credentials are missing, or pg_restore cannot connect, or it reports *)
(* that what it creates exists.                                             *)
PgRestoreFails ==
  /\ pc = "db"
  /\ \/ PostgresSecret \notin restored
     \/ WaitedForDB /\ (db # "ready" \/ data # "empty")
  /\ Return(TRUE) /\ Quiet /\ UNCHANGED faults

(* The wait times out, or the command breaks off: pg_restore has then run   *)
(* not at all, in part or to its end.                                       *)
RestoreDBFails ==
  /\ pc = "db"
  /\ data' \in IF PostgresSecret \in restored /\ db = "ready" /\ data = "empty" THEN {"empty", "partial", "restored"} ELSE {data}
  /\ Fault /\ Return(TRUE)
  /\ UNCHANGED <<cond, lock, pod, restored, cr, db, claim, dir, writes>>

-----------------------------------------------------------------------------
(* restorePulpDir.                                                          *)
SkipDir ==
  /\ pc = "dir"
  /\ (~isFileStorage /\ UNCHANGED faults) \/ Fault
  /\ Goto("scale") /\ Quiet

(* `cp -fa <backup>/pulp/ /var/lib/pulp': the target exists, so the copy    *)
(* ends up in a directory pulp inside it.                                   *)
Copied == "nested"

RestoreDir ==
  /\ pc = "dir" /\ isFileStorage
  /\ RedeployPod
  /\ \/ pod' = "mounted" /\ dir' = Copied /\ Goto("scale")
     \/ pod' = "bare" /\ UNCHANGED dir /\ Return(TRUE)
  /\ UNCHANGED <<cond, lock, restored, cr, db, data, claim, writes>>

RestoreDirFails ==
  /\ pc = "dir" /\ isFileStorage
  /\ pod' \in {"none", "mounted"}
  /\ dir' \in {dir, Copied}
  /\ Fault /\ Return(TRUE)
  /\ UNCHANGED <<cond, lock, restored, cr, db, data, claim, writes>>

-----------------------------------------------------------------------------
(* scaleDeployments.                                                        *)
ScaleRead ==
  /\ pc = "scale"
  /\ \/ cr.exists /\ pc' = "update" /\ UNCHANGED <<n, replicas, stale, queue, faults>>
     \/ (Fault \/ (~cr.exists /\ UNCHANGED faults)) /\ Return(TRUE)
  /\ Quiet

isNginxIngress == IngressType = "ingress" /\ ~IsNginx

Scaled(old) ==
  IF KeepReplicas THEN replicas
  ELSE [c \in Components |->
          IF c = "web" /\ (IngressType = "route" \/ isNginxIngress) THEN old["web"] ELSE 1]

Scale ==
  /\ pc = "update" /\ ~stale
  /\ cr' = [cr EXCEPT !.replicas = Scaled(cr.replicas), !.migrate = TRUE]
  /\ Goto("cleanup")
  /\ UNCHANGED <<cond, lock, pod, restored, db, data, claim, dir, faults, writes>>

(* The update is refused (the object has been modified) or fails.           *)
ScaleErrorDropped ==    \* mutant: the outcome of the update is not looked at
  /\ pc = "update"
  /\ \/ stale /\ UNCHANGED faults
     \/ Fault
  /\ Goto("cleanup") /\ Quiet

ScaleFails ==
  /\ pc = "update"
  /\ \/ stale /\ UNCHANGED faults
     \/ Fault
  /\ Return(TRUE) /\ Quiet

-----------------------------------------------------------------------------
(* The end of Reconcile.  The errors of these three steps are dropped.      *)
Cleanup ==
  /\ pc = "cleanup"
  /\ cleanup
  /\ cond' = "False"
  /\ Goto("lock")
  /\ UNCHANGED <<lock, cluster, writes>>

(* The lock belongs to the PulpRestore, so its creation is an event too.    *)
CreateLock ==
  /\ pc = "lock"
  /\ \/ lock' = TRUE /\ queue' = TRUE /\ UNCHANGED faults
     \/ Fault /\ UNCHANGED <<lock, queue>>
  /\ pc' = "complete"
  /\ UNCHANGED <<n, replicas, stale, cond, pod, cluster, writes>>

Complete ==
  /\ pc = "complete"
  /\ \/ cond' = "True" /\ UNCHANGED faults
     \/ Fault /\ UNCHANGED cond
  /\ Return(FALSE)
  /\ UNCHANGED <<lock, pod, cluster, writes>>

-----------------------------------------------------------------------------
(* The environment.                                                         *)

(* The controller of the Pulp resource brings up the database and then the  *)
(* claim, and writes to the Pulp resource meanwhile.                        *)
ProvisionDB ==
  /\ cr.exists /\ db = "missing" /\ db' = "starting"
  /\ UNCHANGED <<local, queue, cond, lock, pod, restored, cr, data, claim, dir, faults, writes>>

DBReady ==
  /\ db = "starting" /\ db' = "ready"
  /\ UNCHANGED <<local, queue, cond, lock, pod, restored, cr, data, claim, dir, faults, writes>>

ProvisionStorage ==
  /\ Storage = "class" /\ db # "missing" /\ ~claim /\ claim' = TRUE
  /\ UNCHANGED <<local, queue, cond, lock, pod, restored, cr, db, data, dir, faults, writes>>

WritePulp ==
  /\ pc = "update" /\ ~stale /\ writes < MaxWrites
  /\ stale' = TRUE /\ writes' = writes + 1
  /\ UNCHANGED <<pc, n, replicas, queue, cond, lock, pod, cluster, faults>>

(* The operator restarts, and reconciles every PulpRestore it lists.        *)
OperatorRestart ==
  /\ Fault /\ Return(TRUE) /\ Quiet

Init ==
  /\ pc = "idle" /\ n = 1 /\ replicas = NoReplicas /\ stale = FALSE
  /\ queue = TRUE /\ cond = "none" /\ lock = FALSE /\ pod = "none"
  /\ restored = {}
  /\ cr = [exists |-> FALSE, replicas |-> NoReplicas, migrate |-> FALSE]
  /\ db = "missing" /\ data = "empty" /\ claim = FALSE /\ dir = "empty"
  /\ faults = 0 /\ writes = 0

Reconcile ==
  \/ StartRestore \/ Locked \/ NoBackupDir \/ PVCFound \/ PVCNotFound
  \/ createRestorePod \/ PodFails \/ StatBackupDir
  \/ RestoreItem \/ SkipItem \/ RestoreItemFails
  \/ RestoreCR \/ KeepCR \/ RestoreCRFails
  \/ RestoreDB \/ PgRestoreFails \/ RestoreDBFails
  \/ SkipDir \/ RestoreDir \/ RestoreDirFails
  \/ ScaleRead \/ Scale \/ ScaleFails
  \/ Cleanup \/ CreateLock \/ Complete

Provisioning == ProvisionDB \/ DBReady \/ ProvisionStorage

Next == Reconcile \/ Provisioning \/ WritePulp \/ OperatorRestart

Spec == Init /\ [][Next]_vars

(* The workqueue runs what it holds; the Pulp controller and Kubernetes     *)
(* provision what they are asked for.                                       *)
FairSpec == Spec /\ WF_vars(Reconcile) /\ WF_vars(ProvisionDB) /\ WF_vars(DBReady)

-----------------------------------------------------------------------------
(* Properties.                                                              *)

TypeOK ==
  /\ pc \in Steps /\ n \in DOMAIN Items /\ replicas \in Replicas
  /\ stale \in BOOLEAN /\ queue \in BOOLEAN /\ lock \in BOOLEAN /\ claim \in BOOLEAN
  /\ cond \in {"none", "False", "True"}
  /\ pod \in {"none", "bare", "mounted"}
  /\ restored \subseteq ItemSet
  /\ cr \in [exists : BOOLEAN, replicas : Replicas, migrate : BOOLEAN]
  /\ db \in {"missing", "starting", "ready"}
  /\ data \in {"empty", "partial", "restored"}
  /\ dir \in {"empty", "nested", "restored"}
  /\ faults \in 0..MaxFaults /\ writes \in 0..MaxWrites

(* RestoreComplete is only reported once the Pulp resource is back, its     *)
(* database has all of its data, and its migrations are enabled again,      *)
(* whatever failed and was retried or passed over on the way.               *)
CompleteMeansData == cond = "True" => cr.exists /\ cr.migrate /\ data = "restored"

(* Success may hide items of the backup that were passed over, since an     *)
(* error of `test -f', or of looking for the item in the cluster, is taken  *)
(* for an answer (restoreSecret); but each of them cost a failing call of   *)
(* its own, a retry makes up for the ones before it, and the credentials of *)
(* the database are never among them.                                       *)
OnlyFaultsHide ==
  cond = "True" => PostgresSecret \in restored /\ Cardinality(InBackup \ restored) <= faults

(* No migration runs against a database whose data has not been restored,  *)
(* and the operator asks for no pods that would use it: the Pulp resource   *)
(* is created scaled down and scaleDeployments is only reached past         *)
(* restoreDatabaseData.  Autoscaled components are the exception: their     *)
(* replicas are not looked at, and their pods come up at once.              *)
NoServiceBeforeData ==
  /\ cr.migrate => data = "restored"
  /\ \A c \in Components : AsksForPods(c) => data = "restored" \/ c \in Autoscaled

(* The lock "prevent[s] a new controller reconciliation loop to run and     *)
(* override any data".  It exists only when all data was restored; from     *)
(* then on no step changes the Pulp resource, the data or the files, and    *)
(* none undoes the lock.  This holds even though the restore runs once more *)
(* when reading the lock fails: it may create items that are missing, but   *)
(* pg_restore, which drops nothing, refuses what exists, and ends it there. *)
LockProtects ==
  [][lock => lock' /\ data = "restored" /\ restored \subseteq restored'
             /\ UNCHANGED <<cr, data, dir>>]_vars

(* The number of replicas of the backup is kept when asked for: "it will    *)
(* keep the same amount of replicas from backup".                           *)
ReplicasKept == cond = "True" /\ KeepReplicas => cr.replicas = BackupReplicas

(* A restore ends, whatever failed before: either it reports success or it  *)
(* gave up before it changed anything in the cluster.                       *)
Completes == <>[](cond = "True" \/ ~cr.exists)

(* The reconciliation ended for good (the errors of NoBackupDir and         *)
(* PVCNotFound are not returned), or it failed after pg_restore had begun,  *)
(* be it one that went on because the lock could not be read.               *)
GaveUp     == pc = "idle" /\ ~queue /\ cond # "True"
BrokenLate == pc = "idle" /\ data # "empty" /\ cond # "True"

(* Nothing else keeps a restore from its end: whatever fails up to the      *)
(* database step, with a database and a claim that come late, every retry   *)
(* gets past what the last one created.                                     *)
EndsUnlessLate == Completes \/ <>(GaveUp \/ BrokenLate)
=============================================================================
