------------------------- MODULE PulpRestoreProofs -------------------------
(***************************************************************************)
(* What the restore controller guarantees for every list of items, every   *)
(* number of failures, retries and restarts and every kind of storage:     *)
(* no migration and no pod that is not autoscaled comes before the data,   *)
(* success is reported only after it, and the lock is final.               *)
(***************************************************************************)
EXTENDS PulpRestore, FiniteSetTheorems, TLAPS

(* The steps up to pg_restore, those behind it, and those behind            *)
(* scaleDeployments.                                                        *)
BeforeDump == {"idle", "pvc", "pod", "stat", "items", "cr", "db"}
AfterDump  == {"dir", "scale", "update", "cleanup", "lock", "complete"}
AfterScale == {"cleanup", "lock", "complete"}

(* The inductive invariant: what each step may rely on.                     *)
RestoreInv ==
  /\ NoServiceBeforeData
  /\ CompleteMeansData
  /\ pc \in AfterDump => data = "restored"
  /\ pc = "update" => cr.exists
  /\ pc \in AfterScale => cr.exists /\ cr.migrate
  /\ lock => data = "restored" /\ cr.exists /\ pc \in BeforeDump \cup {"complete"}

(* What a step is worth.                                                    *)
RestoreStep ==
  /\ RestoreInv'
  /\ lock => /\ lock' /\ data = "restored" /\ restored \subseteq restored'
             /\ UNCHANGED <<cr, data, dir>>

-----------------------------------------------------------------------------
(* Types.                                                                   *)
LEMMA ItemTypes ==
  ASSUME n \in DOMAIN Items
  PROVE  Item \in ItemSet /\ 1 \in DOMAIN Items /\ (n < Len(Items) => n + 1 \in DOMAIN Items)
<1>1. Items \in Seq(STRING) /\ Items # <<>>
  BY BackupAssumption
<1>2. DOMAIN Items = 1..Len(Items) /\ Len(Items) \in Nat \ {0}
  BY <1>1
<1> QED BY <1>2 DEF Item, ItemSet

LEMMA FaultTypes ==
  ASSUME faults \in 0..MaxFaults, Fault \/ UNCHANGED faults
  PROVE  faults' \in 0..MaxFaults
  BY RestoreAssumption DEF Fault

LEMMA ReplicaTypes ==
  ASSUME replicas \in Replicas, cr \in [exists : BOOLEAN, replicas : Replicas, migrate : BOOLEAN]
  PROVE  /\ NoReplicas \in Replicas /\ BackupReplicas \in Replicas
         /\ Scaled(cr.replicas) \in Replicas
<1>1. BackupReplicas \in Replicas /\ NoReplicas \in Replicas
  BY BackupAssumption DEF NoReplicas, Replicas
<1>2. cr.replicas["web"] \in Nat
  BY DEF Replicas, Components
<1>3. [c \in Components |-> IF c = "web" /\ (IngressType = "route" \/ isNginxIngress)
                           THEN cr.replicas["web"] ELSE 1] \in Replicas
  BY <1>2 DEF Replicas
<1> QED BY <1>1, <1>3 DEF Scaled

(* TypeOK in two parts: the reconciliation's own state, and the cluster's.  *)
LocalOK ==
  /\ pc \in Steps /\ n \in DOMAIN Items /\ replicas \in Replicas
  /\ stale \in BOOLEAN /\ queue \in BOOLEAN

RestOK ==
  /\ lock \in BOOLEAN /\ cond \in {"none", "False", "True"} /\ pod \in {"none", "bare", "mounted"}
  /\ restored \subseteq ItemSet
  /\ cr \in [exists : BOOLEAN, replicas : Replicas, migrate : BOOLEAN]
  /\ db \in {"missing", "starting", "ready"} /\ data \in {"empty", "partial", "restored"}
  /\ claim \in BOOLEAN /\ dir \in {"empty", "nested", "restored"}
  /\ writes \in 0..MaxWrites

LEMMA TypeParts == TypeOK <=> LocalOK /\ RestOK /\ faults \in 0..MaxFaults
  BY DEF TypeOK, LocalOK, RestOK

LEMMA ReturnTypes ==
  ASSUME LocalOK, NEW q \in BOOLEAN, Return(q)
  PROVE  LocalOK'
<1>1. queue' \in BOOLEAN
  BY Zenon DEF Return
<1>2. 1 \in DOMAIN Items /\ NoReplicas \in Replicas
  BY ItemTypes DEF LocalOK, NoReplicas, Replicas
<1>3. pc' = "idle" /\ n' = 1 /\ replicas' = NoReplicas /\ stale' = FALSE
  BY DEF Return
<1> QED BY <1>1, <1>2, <1>3 DEF LocalOK, Steps

LEMMA GotoTypes ==
  ASSUME LocalOK, NEW step \in Steps, Goto(step)
  PROVE  LocalOK'
  BY DEF LocalOK, Goto

LEMMA NextItemTypes ==
  ASSUME LocalOK, NextItem
  PROVE  LocalOK'
<1>1. n' \in DOMAIN Items /\ pc' \in Steps
  BY ItemTypes DEF NextItem, LocalOK, Steps
<1> QED BY <1>1 DEF NextItem, LocalOK

LEMMA RestTypes ==
  ASSUME RestOK, UNCHANGED <<lock, cluster, writes>>,
         cond' = cond \/ cond' = "False",
         pod' \in {"none", "bare", "mounted"}
  PROVE  RestOK'
  BY DEF RestOK, cluster

LEMMA QuietTypes ==
  ASSUME RestOK, Quiet
  PROVE  RestOK'
  BY DEF RestOK, Quiet, cluster

LEMMA TypeNext == TypeOK /\ [Next]_vars => TypeOK'
<1> SUFFICES ASSUME TypeOK, [Next]_vars PROVE LocalOK' /\ RestOK' /\ faults' \in 0..MaxFaults
  BY TypeParts DEF TypeOK, LocalOK, RestOK
<1>0. LocalOK /\ RestOK /\ faults \in 0..MaxFaults
  BY TypeParts
<1>p. NewPod \in {"bare", "mounted"} /\ pod \in {"none", "bare", "mounted"}
  BY <1>0 DEF NewPod, RestOK
<1>f. \A b \in BOOLEAN : Return(b) => LocalOK'
  BY <1>0, ReturnTypes
<1>g. \A step \in Steps : Goto(step) => LocalOK'
  BY <1>0, GotoTypes
<1>q. Quiet => RestOK'
  BY <1>0, QuietTypes
<1>1. CASE StartRestore
  <2>1. LocalOK'
    BY <1>0, <1>1 DEF StartRestore, LocalOK, Steps
  <2>2. UNCHANGED <<lock, cluster, writes, pod>> /\ (cond' = cond \/ cond' = "False")
    BY <1>1 DEF StartRestore
  <2>3. RestOK'
    BY <1>0, <2>2, RestTypes DEF RestOK
  <2>4. Fault \/ UNCHANGED faults
    BY <1>1 DEF StartRestore
  <2> QED BY <1>0, <2>1, <2>3, <2>4, FaultTypes
<1>2. CASE Locked \/ NoBackupDir
  <2>1. LocalOK' /\ UNCHANGED <<lock, cluster, writes, pod, cond>> /\ (Fault \/ UNCHANGED faults)
    BY <1>0, <1>2 DEF Locked, NoBackupDir, LocalOK, local
  <2> QED BY <1>0, <2>1, RestTypes, FaultTypes DEF RestOK
<1>3. CASE PVCFound \/ StatBackupDir \/ SkipDir
  <2>1. \/ Goto("pod") \/ Goto("items") \/ Goto("scale") \/ Return(TRUE)
    BY <1>3 DEF PVCFound, StatBackupDir, SkipDir
  <2>2. Quiet /\ (Fault \/ UNCHANGED faults)
    BY <1>3 DEF PVCFound, StatBackupDir, SkipDir
  <2> QED BY <1>0, <1>f, <1>g, <1>q, <2>1, <2>2, FaultTypes DEF Steps
<1>4. CASE PVCNotFound \/ PodFails
  <2>1. (Return(TRUE) \/ Return(FALSE)) /\ Fault
    BY <1>4 DEF PVCNotFound, PodFails
  <2>2. /\ UNCHANGED <<lock, cluster, writes>> /\ cond' = "False"
        /\ pod' = pod \/ pod' = "none"
    BY <1>4 DEF PVCNotFound, PodFails
  <2>3. RestOK'
    BY <1>0, <2>2, RestTypes DEF RestOK
  <2> QED BY <1>0, <1>f, <2>1, <2>3, FaultTypes
<1>6. CASE createRestorePod
  <2>1. Goto("stat") /\ (Fault \/ UNCHANGED faults)
    BY <1>6 DEF createRestorePod, RedeployPod
  <2>2. UNCHANGED <<lock, cluster, writes>> /\ cond' = "False" /\ pod' \in {"none", "bare", "mounted"}
    BY <1>6, <1>p DEF createRestorePod, RedeployPod
  <2> QED BY <1>0, <1>g, <2>1, <2>2, RestTypes, FaultTypes DEF Steps
<1>8. CASE RestoreItem
  <2>1. /\ NextItem /\ restored' = restored \cup {Item}
        /\ UNCHANGED <<cond, lock, pod, cr, db, data, claim, dir, faults, writes>>
    BY <1>8 DEF RestoreItem
  <2>2. Item \in ItemSet
    BY <1>0, ItemTypes DEF LocalOK
  <2>3. RestOK'
    BY <1>0, <2>1, <2>2 DEF RestOK
  <2> QED BY <1>0, <2>1, <2>3, NextItemTypes
<1>9. CASE SkipItem
  <2>1. NextItem /\ Quiet /\ (Fault \/ UNCHANGED faults)
    BY <1>9 DEF SkipItem, TestFails
  <2> QED BY <1>0, <1>q, <2>1, NextItemTypes, FaultTypes
<1>10. CASE RestoreItemFails \/ RestoreCRFails \/ ScaleFails \/ OperatorRestart \/ PgRestoreFails
  <2>1. Return(TRUE) /\ Quiet /\ (Fault \/ UNCHANGED faults)
    BY <1>10 DEF RestoreItemFails, RestoreCRFails, ScaleFails, OperatorRestart, PgRestoreFails, TestFails
  <2> QED BY <1>0, <1>f, <1>q, <2>1, FaultTypes
<1>11. CASE RestoreCR
  <2>1. /\ cr' = [exists |-> TRUE, replicas |-> NoReplicas, migrate |-> FALSE]
        /\ replicas' = BackupReplicas /\ pc' = "db"
        /\ UNCHANGED <<n, stale, queue>>
        /\ UNCHANGED <<cond, lock, pod, restored, db, data, claim, dir, faults, writes>>
    BY <1>11 DEF RestoreCR
  <2>2. BackupReplicas \in Replicas /\ NoReplicas \in Replicas
    BY BackupAssumption DEF NoReplicas, Replicas
  <2>3. LocalOK'
    BY <1>0, <2>1, <2>2 DEF LocalOK, Steps
  <2>4. cr' \in [exists : BOOLEAN, replicas : Replicas, migrate : BOOLEAN]
    BY <2>1, <2>2
  <2>5. RestOK'
    BY <1>0, <2>1, <2>4 DEF RestOK
  <2> QED BY <1>0, <2>1, <2>3, <2>5
<1>12. CASE KeepCR
  <2>1. /\ Fault \/ UNCHANGED faults
        /\ replicas' = NoReplicas /\ pc' = "db"
        /\ UNCHANGED <<n, stale, queue, cond, lock, pod, cluster, writes>>
    BY <1>12 DEF KeepCR
  <2>2. NoReplicas \in Replicas
    BY DEF NoReplicas, Replicas
  <2>3. LocalOK'
    BY <1>0, <2>1, <2>2 DEF LocalOK, Steps
  <2>4. RestOK'
    BY <1>0, <2>1, RestTypes DEF RestOK
  <2> QED BY <1>0, <2>1, <2>3, <2>4, FaultTypes
<1>13. CASE RestoreDB \/ RestoreDBFails
  <2>1. /\ Goto("dir") \/ Return(TRUE)
        /\ Fault \/ UNCHANGED faults
    BY <1>13 DEF RestoreDB, RestoreDBFails
  <2>2. /\ UNCHANGED <<cond, lock, pod, restored, cr, db, claim, dir, writes>>
        /\ data' \in {"empty", "partial", "restored"}
    BY <1>0, <1>13 DEF RestoreDB, RestoreDBFails, RestOK
  <2>3. RestOK'
    BY <1>0, <2>2 DEF RestOK
  <2> QED BY <1>0, <1>f, <1>g, <2>1, <2>3, FaultTypes DEF Steps
<1>15. CASE RestoreDir \/ RestoreDirFails
  <2>1. /\ Goto("scale") \/ Return(TRUE)
        /\ Fault \/ UNCHANGED faults
    BY <1>15 DEF RestoreDir, RestoreDirFails, RedeployPod
  <2>2. /\ UNCHANGED <<cond, lock, restored, cr, db, data, claim, writes>>
        /\ pod' \in {"none", "bare", "mounted"} /\ dir' \in {dir, "nested"}
    BY <1>15 DEF RestoreDir, RestoreDirFails, Copied
  <2>3. RestOK'
    BY <1>0, <2>2 DEF RestOK
  <2> QED BY <1>0, <1>f, <1>g, <2>1, <2>3, FaultTypes DEF Steps
<1>17. CASE ScaleRead
  <2>1. /\ Quiet /\ (Fault \/ UNCHANGED faults)
        /\ Goto("update") \/ Return(TRUE)
    BY <1>17 DEF ScaleRead, Goto
  <2> QED BY <1>0, <1>f, <1>g, <1>q, <2>1, FaultTypes DEF Steps
<1>18. CASE Scale
  <2>1. /\ cr' = [cr EXCEPT !.replicas = Scaled(cr.replicas), !.migrate = TRUE] /\ Goto("cleanup")
        /\ UNCHANGED <<cond, lock, pod, restored, db, data, claim, dir, faults, writes>>
    BY <1>18 DEF Scale
  <2>2. Scaled(cr.replicas) \in Replicas
    BY <1>0, ReplicaTypes DEF LocalOK, RestOK
  <2>3. cr' \in [exists : BOOLEAN, replicas : Replicas, migrate : BOOLEAN]
    BY <1>0, <2>1, <2>2 DEF RestOK
  <2>4. RestOK'
    BY <1>0, <2>1, <2>3 DEF RestOK
  <2> QED BY <1>0, <1>g, <2>1, <2>4 DEF Steps
<1>19. CASE Cleanup
  <2>1. /\ Goto("lock") /\ (Fault \/ UNCHANGED faults)
        /\ UNCHANGED <<lock, cluster, writes>> /\ cond' = "False" /\ (pod' = pod \/ pod' = "none")
    BY <1>19 DEF Cleanup, cleanup
  <2>2. RestOK'
    BY <1>0, <2>1, RestTypes DEF RestOK
  <2> QED BY <1>0, <1>g, <2>1, <2>2, FaultTypes DEF Steps
<1>20. CASE CreateLock
  <2>1. /\ Fault \/ UNCHANGED faults
        /\ UNCHANGED <<n, replicas, stale, cond, pod, cluster, writes>> /\ pc' = "complete"
    BY <1>20 DEF CreateLock
  <2>2. (lock' = TRUE /\ queue' = TRUE) \/ UNCHANGED <<lock, queue>>
    BY <1>20 DEF CreateLock
  <2>3. lock' \in BOOLEAN /\ queue' \in BOOLEAN
    BY <1>0, <2>2 DEF LocalOK, RestOK
  <2>4. LocalOK'
    BY <1>0, <2>1, <2>3 DEF LocalOK, Steps
  <2>5. RestOK'
    BY <1>0, <2>1, <2>3 DEF RestOK, cluster
  <2> QED BY <1>0, <2>1, <2>4, <2>5, FaultTypes
<1>21. CASE Complete
  <2>1. /\ Return(FALSE) /\ (Fault \/ UNCHANGED faults)
        /\ cond' = "True" \/ UNCHANGED cond
        /\ UNCHANGED <<lock, pod, cluster, writes>>
    BY <1>21 DEF Complete
  <2>2. RestOK'
    BY <1>0, <2>1 DEF RestOK, cluster
  <2> QED BY <1>0, <1>f, <2>1, <2>2, FaultTypes
<1>22. CASE Provisioning
  <2>1. /\ UNCHANGED <<local, queue, cond, lock, pod, restored, cr, data, dir, faults, writes>>
        /\ db' = db \/ db' = "starting" \/ db' = "ready"
        /\ claim' = claim \/ claim' = TRUE
    BY <1>22 DEF Provisioning, ProvisionDB, DBReady, ProvisionStorage
  <2>2. LocalOK'
    BY <1>0, <2>1 DEF LocalOK, local
  <2>3. db' \in {"missing", "starting", "ready"} /\ claim' \in BOOLEAN
    BY <1>0, <2>1 DEF RestOK
  <2>4. RestOK'
    BY <1>0, <2>1, <2>3 DEF RestOK
  <2> QED BY <1>0, <2>1, <2>2, <2>4
<1>23. CASE WritePulp
  <2>1. /\ UNCHANGED <<pc, n, replicas, queue, cond, lock, pod, cluster, faults>>
        /\ stale' = TRUE /\ writes < MaxWrites /\ writes' = writes + 1
    BY <1>23 DEF WritePulp
  <2>2. writes' \in 0..MaxWrites
    BY <1>0, <2>1, RestoreAssumption DEF RestOK
  <2>3. LocalOK'
    BY <1>0, <2>1 DEF LocalOK
  <2>4. RestOK'
    BY <1>0, <2>1, <2>2 DEF RestOK, cluster
  <2> QED BY <1>0, <2>1, <2>3, <2>4
<1>24. CASE UNCHANGED vars
  BY <1>0, <1>24 DEF vars, LocalOK, RestOK
<1> QED
  BY <1>1, <1>2, <1>3, <1>4, <1>6, <1>8, <1>9, <1>10, <1>11, <1>12, <1>13, <1>15, <1>17,
     <1>18, <1>19, <1>20, <1>21, <1>22, <1>23, <1>24
  DEF Next, Reconcile

(* TypeOK: every variable keeps its type.                                   *)
THEOREM RestoreTypeCorrect == Spec => []TypeOK
<1>1. Init => TypeOK
  <2> SUFFICES ASSUME Init PROVE TypeOK
    OBVIOUS
  <2>1. 1 \in DOMAIN Items /\ NoReplicas \in Replicas
    BY BackupAssumption DEF NoReplicas, Replicas
  <2>2. LocalOK
    BY <2>1 DEF Init, LocalOK, Steps
  <2>3. cr \in [exists : BOOLEAN, replicas : Replicas, migrate : BOOLEAN]
    BY <2>1 DEF Init
  <2>4. lock \in BOOLEAN /\ claim \in BOOLEAN
    BY DEF Init
  <2>7. restored \subseteq ItemSet /\ writes \in 0..MaxWrites
    BY RestoreAssumption DEF Init
  <2>6. /\ cond \in {"none", "False", "True"} /\ pod \in {"none", "bare", "mounted"}
        /\ db \in {"missing", "starting", "ready"} /\ data \in {"empty", "partial", "restored"}
        /\ dir \in {"empty", "nested", "restored"}
    BY DEF Init
  <2>5. faults \in 0..MaxFaults
    BY RestoreAssumption DEF Init
  <2> QED BY <2>2, <2>3, <2>4, <2>5, <2>6, <2>7, TypeParts DEF RestOK
<1> QED BY <1>1, TypeNext, PTL DEF Spec

-----------------------------------------------------------------------------
(* Data before service, service before success, and the lock.               *)

(* A step that leaves the Pulp resource and the database alone and goes     *)
(* back to the start, or on to a step that asks for no more than this one.  *)
LEMMA KeepStep ==
  ASSUME RestoreInv, UNCHANGED <<cr, data, lock>>,
         cond' \in {cond, "False"},
         \/ pc' = pc
         \/ pc' = "idle"
         \/ pc' \in BeforeDump
         \/ pc \in {"dir", "scale"} /\ pc' \in {"dir", "scale"}
         \/ pc \in AfterScale /\ pc' \in AfterScale /\ pc # "complete",
         lock => restored \subseteq restored' /\ dir' = dir
  PROVE  RestoreStep
<1>1. NoServiceBeforeData' /\ CompleteMeansData'
  BY DEF RestoreInv, NoServiceBeforeData, CompleteMeansData, AsksForPods
<1>2. \/ pc' = pc \/ pc' = "idle" \/ pc' \in BeforeDump
      \/ (~lock /\ pc \in AfterDump /\ pc' \in {"dir", "scale"})
      \/ (~lock /\ pc \in AfterScale /\ pc' \in AfterScale)
  BY DEF RestoreInv, BeforeDump, AfterDump, AfterScale
<1> QED BY <1>1, <1>2 DEF RestoreStep, RestoreInv, BeforeDump, AfterDump, AfterScale

LEMMA RestoreNext ==
  ASSUME TypeOK, RestoreInv, [Next]_vars
  PROVE  RestoreStep
<1> USE DEF BeforeDump
<1>1. CASE StartRestore
  BY <1>1, KeepStep DEF StartRestore, cluster
<1>2. CASE Locked \/ NoBackupDir
  BY <1>2, KeepStep DEF Locked, NoBackupDir, local, cluster
<1>3. CASE PVCFound \/ StatBackupDir
  BY <1>3, KeepStep DEF PVCFound, StatBackupDir, Goto, Return, Quiet, cluster
<1>4. CASE PVCNotFound \/ PodFails
  BY <1>4, KeepStep DEF PVCNotFound, PodFails, Return, cluster
<1>5. CASE createRestorePod
  BY <1>5, KeepStep DEF createRestorePod, Goto, cluster
<1>6. CASE RestoreItem \/ SkipItem
  <2>1. pc' \in BeforeDump /\ restored \subseteq restored'
    BY <1>6 DEF RestoreItem, SkipItem, NextItem, Quiet, cluster
  <2> QED BY <1>6, <2>1, KeepStep DEF RestoreItem, SkipItem, Quiet, cluster
<1>7. CASE RestoreItemFails \/ RestoreCRFails \/ ScaleFails \/ OperatorRestart \/ PgRestoreFails
  BY <1>7, KeepStep
  DEF RestoreItemFails, RestoreCRFails, ScaleFails, OperatorRestart, PgRestoreFails, Quiet, cluster, Return
<1>8. CASE RestoreCR
  <2>1. /\ pc = "cr" /\ pc' = "db" /\ ~cr.exists /\ cr'.exists /\ ~cr'.migrate
        /\ cr'.replicas = NoReplicas /\ UNCHANGED <<data, lock, cond>>
    BY <1>8 DEF RestoreCR
  <2>2. ~lock /\ cond # "True"
    BY <2>1 DEF RestoreInv, CompleteMeansData
  <2>3. \A c \in Components : cr'.replicas[c] = 0
    BY <2>1 DEF NoReplicas
  <2>4. NoServiceBeforeData'
    BY <2>1, <2>3 DEF NoServiceBeforeData, AsksForPods
  <2> QED BY <2>1, <2>2, <2>4 DEF RestoreStep, RestoreInv, CompleteMeansData, AfterDump, AfterScale
<1>9. CASE KeepCR
  BY <1>9, KeepStep DEF KeepCR, cluster
<1>10. CASE RestoreDB
  <2>1. /\ pc = "db" /\ pc' = "dir" /\ data = "empty" /\ data' = "restored"
        /\ UNCHANGED <<cr, lock, cond>>
    BY <1>10 DEF RestoreDB, Goto
  <2>2. ~lock
    BY <2>1 DEF RestoreInv
  <2> QED BY <2>1, <2>2
          DEF RestoreStep, RestoreInv, NoServiceBeforeData, CompleteMeansData, AfterDump, AfterScale, AsksForPods
<1>11. CASE RestoreDBFails
  <2>1. /\ pc = "db" /\ pc' = "idle" /\ UNCHANGED <<cr, lock, cond, restored, dir>>
        /\ data = "restored" => data' = "restored"
    BY <1>11 DEF RestoreDBFails, Return
  <2> QED BY <2>1
          DEF RestoreStep, RestoreInv, NoServiceBeforeData, CompleteMeansData, AfterDump, AfterScale, AsksForPods
<1>12. CASE SkipDir \/ RestoreDir \/ RestoreDirFails
  <2>1. pc = "dir" /\ ~lock /\ pc' \in {"scale", "idle"} /\ UNCHANGED <<cr, data, lock, cond>>
    BY <1>12 DEF SkipDir, RestoreDir, RestoreDirFails, Goto, Return, Quiet, cluster, RestoreInv
  <2> QED BY <2>1, KeepStep
<1>13. CASE ScaleRead
  <2>1. /\ pc = "scale" /\ UNCHANGED <<cr, data, lock, cond, restored, dir>>
        /\ pc' = "idle" \/ (pc' = "update" /\ cr.exists)
    BY <1>13 DEF ScaleRead, Return, Quiet, cluster
  <2>2. ~lock /\ data = "restored"
    BY <2>1 DEF RestoreInv, AfterDump
  <2> QED BY <2>1, <2>2
          DEF RestoreStep, RestoreInv, NoServiceBeforeData, CompleteMeansData, AfterDump, AfterScale, AsksForPods
<1>14. CASE Scale
  <2>1. /\ pc = "update" /\ pc' = "cleanup" /\ UNCHANGED <<data, lock, cond>>
        /\ cr' = [cr EXCEPT !.replicas = Scaled(cr.replicas), !.migrate = TRUE]
    BY <1>14 DEF Scale, Goto
  <2>2. cr'.migrate /\ cr'.exists = cr.exists
    BY <2>1 DEF TypeOK
  <2>3. ~lock /\ data = "restored" /\ cr.exists
    BY <2>1 DEF RestoreInv, AfterDump
  <2> QED BY <2>1, <2>2, <2>3
          DEF RestoreStep, RestoreInv, NoServiceBeforeData, CompleteMeansData, AfterDump, AfterScale, AsksForPods
<1>15. CASE Cleanup
  <2>1. pc = "cleanup" /\ pc' = "lock" /\ cond' = "False" /\ UNCHANGED <<cr, data, lock, restored, dir>>
    BY <1>15 DEF Cleanup, Goto, cluster
  <2> QED BY <2>1, KeepStep DEF AfterScale
<1>16. CASE CreateLock
  <2>1. pc = "lock" /\ pc' = "complete" /\ UNCHANGED <<cr, data, cond, restored, dir>>
    BY <1>16 DEF CreateLock, cluster
  <2>2. ~lock /\ data = "restored" /\ cr.exists /\ cr.migrate
    BY <2>1 DEF RestoreInv, AfterDump, AfterScale
  <2> QED BY <2>1, <2>2
          DEF RestoreStep, RestoreInv, NoServiceBeforeData, CompleteMeansData, AfterDump, AfterScale, AsksForPods
<1>17. CASE Complete
  <2>1. pc = "complete" /\ pc' = "idle" /\ UNCHANGED <<cr, data, lock, restored, dir>>
    BY <1>17 DEF Complete, Return, cluster
  <2>2. data = "restored" /\ cr.exists /\ cr.migrate
    BY <2>1 DEF RestoreInv, AfterDump, AfterScale
  <2> QED BY <2>1, <2>2
          DEF RestoreStep, RestoreInv, NoServiceBeforeData, CompleteMeansData, AfterDump, AfterScale, AsksForPods
<1>18. CASE Provisioning \/ WritePulp \/ UNCHANGED vars
  BY <1>18, KeepStep
  DEF Provisioning, ProvisionDB, DBReady, ProvisionStorage, WritePulp, local, cluster, vars
<1> QED
  BY <1>1, <1>2, <1>3, <1>4, <1>5, <1>6, <1>7, <1>8, <1>9, <1>10, <1>11, <1>12, <1>13, <1>14, <1>15,
     <1>16, <1>17, <1>18
  DEF Next, Reconcile

LEMMA RestoreInit == Init => RestoreInv
  BY DEF Init, RestoreInv, NoServiceBeforeData, CompleteMeansData, AsksForPods, AfterDump, AfterScale

LEMMA RestoreInvariant == Spec => []RestoreInv
<1>1. TypeOK /\ RestoreInv /\ [Next]_vars => RestoreInv'
  BY RestoreNext DEF RestoreStep
<1> QED BY <1>1, RestoreInit, RestoreTypeCorrect, PTL DEF Spec

(* NoServiceBeforeData: no migration runs, and no pod of a component that   *)
(* is not autoscaled is asked for, before pg_restore has succeeded, however *)
(* often the restore is retried.                                            *)
THEOREM DataBeforeService == Spec => []NoServiceBeforeData
<1>1. RestoreInv => NoServiceBeforeData
  BY DEF RestoreInv
<1> QED BY <1>1, RestoreInvariant, PTL

(* CompleteMeansData: RestoreComplete is True only when the Pulp resource   *)
(* and the database are back and the migrations are enabled again.          *)
THEOREM SuccessMeansData == Spec => []CompleteMeansData
<1>1. RestoreInv => CompleteMeansData
  BY DEF RestoreInv
<1> QED BY <1>1, RestoreInvariant, PTL

(* LockProtects: once restore-lock exists, no reconciliation, retry or      *)
(* restart, not even one that could not read it, changes the data, the      *)
(* files or the Pulp resource, or takes an item away.                       *)
THEOREM LockIsFinal == Spec => LockProtects
<1>1. TypeOK /\ RestoreInv /\ [Next]_vars
      => [lock => lock' /\ data = "restored" /\ restored \subseteq restored'
                  /\ UNCHANGED <<cr, data, dir>>]_vars
  BY RestoreNext DEF RestoreStep
<1> QED BY <1>1, RestoreInvariant, RestoreTypeCorrect, PTL DEF Spec, LockProtects

-----------------------------------------------------------------------------
(* Items that are passed over.                                              *)
AfterItems == {"cr", "db"} \cup AfterDump

(* The items of the backup that this pass has come by.                      *)
Passed == {Items[i] : i \in 1..(n - 1)} \cap InBackup

(* The inductive invariant: what this pass has left out, and what it leaves *)
(* behind, cost a failure each; pg_restore had its credentials.             *)
PassedInv    == Cardinality(Passed \ restored) <= faults
HiddenInv    == pc \in AfterItems \/ cond = "True" => Cardinality(InBackup \ restored) <= faults
PasswordInv  == pc \in AfterDump \/ cond = "True" => PostgresSecret \in restored
HideInv      == PassedInv /\ HiddenInv /\ PasswordInv

LEMMA ItemsFinite == IsFiniteSet(ItemSet) /\ IsFiniteSet(InBackup)
<1>1. Items \in Seq(STRING) /\ Len(Items) \in Nat /\ DOMAIN Items = 1..Len(Items)
  BY BackupAssumption
<1>2. Items \in [1..Len(Items) -> ItemSet]
  BY <1>1 DEF ItemSet
<1>3. Items \in Surjection(1..Len(Items), ItemSet)
  BY <1>1, <1>2 DEF Surjection, ItemSet
<1>4. IsFiniteSet(1..Len(Items))
  BY <1>1, FS_Interval
<1>5. IsFiniteSet(ItemSet)
  BY <1>3, <1>4, FS_Surjection
<1>6. InBackup \in SUBSET ItemSet
  BY BackupAssumption
<1> QED BY <1>5, <1>6, FS_Subset

(* Sets of items, and what is added to them.                                *)
LEMMA Fewer ==
  ASSUME NEW S \in SUBSET InBackup, NEW T \in SUBSET S
  PROVE  Cardinality(S) \in Nat /\ Cardinality(T) \in Nat /\ Cardinality(T) <= Cardinality(S)
<1>1. IsFiniteSet(S)
  BY ItemsFinite, FS_Subset
<1>2. IsFiniteSet(T) /\ Cardinality(T) <= Cardinality(S)
  BY <1>1, FS_Subset
<1> QED BY <1>1, <1>2, FS_CardinalityType

LEMMA OneMore ==
  ASSUME NEW S \in SUBSET InBackup, NEW x
  PROVE  Cardinality(S) \in Nat /\ Cardinality(S \cup {x}) \in Nat /\ Cardinality(S \cup {x}) <= Cardinality(S) + 1
<1>1. IsFiniteSet(S)
  BY ItemsFinite, FS_Subset
<1>2. Cardinality(S) \in Nat
  BY <1>1, FS_CardinalityType
<1> QED BY <1>1, <1>2, FS_AddElement

(* The item that is passed next: the last one ends the pass.                *)
LEMMA PassedNext ==
  ASSUME TypeOK, NextItem, pc = "items"
  PROVE  /\ pc' = "items" => Passed' = Passed \cup ({Item} \cap InBackup)
         /\ pc' # "items" => Passed' = {} /\ InBackup = Passed \cup ({Item} \cap InBackup)
<1>1. n \in DOMAIN Items /\ DOMAIN Items = 1..Len(Items) /\ Len(Items) \in Nat
  BY BackupAssumption DEF TypeOK
<1>2. CASE n < Len(Items) /\ n' = n + 1 /\ pc' = pc
  <2>1. 1..(n' - 1) = 1..(n - 1) \cup {n}
    BY <1>1, <1>2
  <2> QED BY <1>2, <2>1 DEF Passed, Item
<1>3. CASE n = Len(Items) /\ n' = 1 /\ pc' = "cr"
  <2>1. 1..(n' - 1) = {} /\ 1..Len(Items) = 1..(n - 1) \cup {n}
    BY <1>1, <1>3
  <2>2. ItemSet = {Items[i] : i \in 1..(n - 1)} \cup {Item}
    BY <1>1, <2>1 DEF ItemSet, Item
  <2>3. Passed' = {}
    BY <2>1 DEF Passed
  <2>4. InBackup = Passed \cup ({Item} \cap InBackup)
    BY <2>2, BackupAssumption DEF Passed
  <2> QED BY <1>3, <2>3, <2>4
<1> QED BY <1>2, <1>3 DEF NextItem

(* Most steps restore nothing, and go on or start over.                     *)
LEMMA HideKept ==
  ASSUME TypeOK, HideInv, restored' = restored, Fault \/ UNCHANGED faults,
         n' = n \/ n' = 1,
         pc' \in AfterItems => pc \in AfterItems,
         pc' \in AfterDump => pc \in AfterDump,
         cond' = "True" => cond = "True" \/ pc \in AfterDump
  PROVE  HideInv'
<1>1. faults <= faults' /\ faults \in Nat /\ faults' \in Nat
  BY RestoreAssumption DEF TypeOK, Fault
<1>2. Passed' \in SUBSET Passed
  <2>1. CASE n' = n
    BY <2>1 DEF Passed
  <2>2. CASE n' = 1
    <3>1. 1..(n' - 1) = {}
      BY <2>2
    <3> QED BY <3>1 DEF Passed
  <2> QED BY <2>1, <2>2
<1>3. Passed \ restored \in SUBSET InBackup /\ Passed' \ restored' \in SUBSET (Passed \ restored)
  BY <1>2 DEF Passed
<1>4. /\ Cardinality(Passed \ restored) \in Nat /\ Cardinality(Passed' \ restored') \in Nat
      /\ Cardinality(Passed' \ restored') <= Cardinality(Passed \ restored)
  BY <1>3, Fewer
<1>5. Cardinality(InBackup \ restored) \in Nat
  BY Fewer
<1>6. PassedInv'
  BY <1>1, <1>4 DEF HideInv, PassedInv
<1>7. HiddenInv'
  BY <1>1, <1>5 DEF HideInv, HiddenInv, AfterItems
<1>8. PasswordInv'
  BY DEF HideInv, PasswordInv
<1> QED BY <1>6, <1>7, <1>8 DEF HideInv

LEMMA HideNext ==
  ASSUME TypeOK, HideInv, [Next]_vars
  PROVE  HideInv'
<1> USE DEF AfterItems, AfterDump
<1>f. faults \in Nat
  BY RestoreAssumption DEF TypeOK
<1>1. CASE StartRestore \/ Locked \/ NoBackupDir
  BY <1>1, HideKept DEF StartRestore, Locked, NoBackupDir, local, cluster
<1>2. CASE PVCFound \/ PVCNotFound \/ createRestorePod \/ PodFails \/ StatBackupDir
  BY <1>2, HideKept
  DEF PVCFound, PVCNotFound, createRestorePod, RedeployPod, PodFails, StatBackupDir, Goto, Return, Quiet, cluster
<1>3. CASE RestoreItem
  <2>1. pc = "items" /\ NextItem /\ restored' = restored \cup {Item} /\ UNCHANGED <<faults, cond>>
    BY <1>3 DEF RestoreItem
  <2>2. Passed' \ restored' \in SUBSET (Passed \ restored) /\ Passed \ restored \in SUBSET InBackup
    BY <2>1, PassedNext DEF NextItem, Passed
  <2>3. InBackup \ restored' \in SUBSET (InBackup \ restored)
    BY <2>1
  <2>4. pc' # "items" => InBackup \ restored' \in SUBSET (Passed \ restored)
    BY <2>1, PassedNext
  <2>5. PassedInv'
    BY <2>1, <2>2, <1>f, Fewer DEF HideInv, PassedInv
  <2>6. HiddenInv'
    <3>1. cond = "True" => Cardinality(InBackup \ restored') <= faults
      BY <2>3, <1>f, Fewer DEF HideInv, HiddenInv
    <3>2. pc' # "items" => Cardinality(InBackup \ restored') <= faults
      BY <2>2, <2>4, <1>f, Fewer DEF HideInv, PassedInv
    <3> QED BY <2>1, <3>1, <3>2 DEF HiddenInv
  <2>7. PasswordInv'
    BY <2>1 DEF HideInv, PasswordInv, NextItem
  <2> QED BY <2>5, <2>6, <2>7 DEF HideInv
<1>4. CASE SkipItem
  <2>1. pc = "items" /\ NextItem /\ restored' = restored /\ cond' = cond
    BY <1>4 DEF SkipItem, Quiet, cluster
  <2>2. (Item \notin InBackup /\ faults' = faults) \/ faults' = faults + 1
    BY <1>4 DEF SkipItem, TestFails, Fault
  <2> DEFINE left == (Passed \ restored) \cup ({Item} \cap InBackup)
  <2>3. Passed \ restored \in SUBSET InBackup /\ left \in SUBSET InBackup
    BY DEF Passed
  <2>4. Cardinality(left) <= faults' /\ Cardinality(left) \in Nat /\ faults' \in Nat
    <3>1. CASE Item \notin InBackup /\ faults' = faults
      <4>1. left = Passed \ restored
        BY <3>1
      <4> QED BY <2>3, <3>1, <4>1, <1>f, Fewer DEF HideInv, PassedInv
    <3>2. CASE faults' = faults + 1
      <4>1. left \in SUBSET ((Passed \ restored) \cup {Item})
        OBVIOUS
      <4>2. /\ Cardinality(Passed \ restored) \in Nat
            /\ CASE Item \in InBackup -> Cardinality(left) \in Nat /\ Cardinality(left) <= Cardinality(Passed \ restored) + 1
                 [] OTHER -> left = Passed \ restored
        BY <2>3, OneMore
      <4> QED BY <3>2, <4>2, <1>f DEF HideInv, PassedInv
    <3> QED BY <2>2, <3>1, <3>2
  <2>5. Passed' \ restored' \in SUBSET left
    BY <2>1, PassedNext DEF NextItem
  <2>6. pc' # "items" => InBackup \ restored' \in SUBSET left
    BY <2>1, PassedNext
  <2> HIDE DEF left
  <2>7. PassedInv'
    BY <2>3, <2>4, <2>5, Fewer DEF PassedInv
  <2>8. HiddenInv'
    <3>1. cond = "True" => Cardinality(InBackup \ restored') <= faults'
      BY <2>1, <2>2, <1>f, Fewer DEF HideInv, HiddenInv
    <3>2. pc' # "items" => Cardinality(InBackup \ restored') <= faults'
      BY <2>3, <2>4, <2>6, Fewer
    <3> QED BY <2>1, <3>1, <3>2 DEF HiddenInv
  <2>9. PasswordInv'
    BY <2>1 DEF HideInv, PasswordInv, NextItem
  <2> QED BY <2>7, <2>8, <2>9 DEF HideInv
<1>5. CASE RestoreItemFails \/ RestoreCRFails \/ PgRestoreFails \/ ScaleFails \/ OperatorRestart
  BY <1>5, HideKept
  DEF RestoreItemFails, TestFails, RestoreCRFails, PgRestoreFails, ScaleFails, OperatorRestart, Return, Quiet, cluster
<1>6. CASE RestoreCR \/ KeepCR
  BY <1>6, HideKept DEF RestoreCR, KeepCR, cluster
<1>7. CASE RestoreDB
  <2>1. /\ pc = "db" /\ pc' = "dir" /\ PostgresSecret \in restored
        /\ UNCHANGED <<n, restored, faults, cond>>
    BY <1>7 DEF RestoreDB, Goto
  <2>2. Passed' = Passed
    BY <2>1 DEF Passed
  <2> QED BY <2>1, <2>2 DEF HideInv, PassedInv, HiddenInv, PasswordInv
<1>8. CASE RestoreDBFails
  BY <1>8, HideKept DEF RestoreDBFails, Return
<1>9. CASE SkipDir \/ RestoreDir \/ RestoreDirFails \/ ScaleRead
  BY <1>9, HideKept
  DEF SkipDir, RestoreDir, RestoreDirFails, RedeployPod, ScaleRead, Goto, Return, Quiet, cluster
<1>10. CASE Scale \/ Cleanup \/ CreateLock \/ Complete
  BY <1>10, HideKept DEF Scale, Cleanup, cleanup, CreateLock, Complete, Goto, Return, cluster
<1>11. CASE Provisioning \/ WritePulp \/ UNCHANGED vars
  BY <1>11, HideKept
  DEF Provisioning, ProvisionDB, DBReady, ProvisionStorage, WritePulp, local, cluster, vars
<1> QED
  BY <1>1, <1>2, <1>3, <1>4, <1>5, <1>6, <1>7, <1>8, <1>9, <1>10, <1>11 DEF Next, Reconcile

LEMMA HideInit == Init => HideInv
<1> SUFFICES ASSUME Init PROVE HideInv
  OBVIOUS
<1>1. 1..(n - 1) = {} /\ faults = 0
  BY DEF Init
<1>2. Passed \ restored = {}
  BY <1>1 DEF Passed
<1>3. PassedInv
  BY <1>1, <1>2, FS_EmptySet DEF PassedInv
<1> QED BY <1>3 DEF Init, HideInv, HiddenInv, PasswordInv, AfterItems, AfterDump

(* OnlyFaultsHide: an item of the backup that a successful restore left out *)
(* cost a failing call of its own in the last pass, for every number of     *)
(* items, failures and retries; and the credentials that restoreSecret must *)
(* find are there.                                                          *)
THEOREM FaultsBoundHidden == Spec => []OnlyFaultsHide
<1>1. TypeOK /\ HideInv /\ [Next]_vars => HideInv'
  BY HideNext
<1>2. HideInv => OnlyFaultsHide
  BY DEF HideInv, HiddenInv, PasswordInv, OnlyFaultsHide
<1> QED BY <1>1, <1>2, HideInit, RestoreTypeCorrect, PTL DEF Spec
=============================================================================
