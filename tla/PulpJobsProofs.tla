--------------------------- MODULE PulpJobsProofs ---------------------------
(***************************************************************************)
(* What Jobs and restarts are never forgotten, for any values of .spec, any *)
(* number of edits of .spec and of Secrets, and any number of faults.       *)
(***************************************************************************)
EXTENDS PulpJobs, TLAPS

-----------------------------------------------------------------------------
(* Types.  Those of the ghosts and of the Deployments are needed too.       *)
Froms == {NoPods} \cup [image : Images, store : Stores, set : BOOLEAN, sums : Sums \cup {NoName}, last : Nat]
Runs  == [images : SUBSET Images, store : Stores \cup {NoName}, set : BOOLEAN, scripts : Nat,
          password : [of : AdminSecrets \cup {NoName}, data : Nat], sums : Sums \cup {NoName}]

Deployed == pods \in [Core -> [from : Froms, key : Nat]] /\ made \in Runs

-----------------------------------------------------------------------------
(* The inductive invariant.  As long as nothing is queued, the copy is the  *)
(* resource itself.                                                         *)
CopyInv == (fresh => cr = mem) /\ (pc # "idle" /\ ~queue => fresh)

(* Steps after those for migrations, scripts, key, the content Deployment,  *)
(* password and checksums.                                                  *)
AfterSums     == {"sumsStatus", "fields"}
AfterPassword == {"passwordLabel", "passwordStatus", "sums"} \cup AfterSums
AfterContent  == {"password", "passwordJob"} \cup AfterPassword
AfterKey      == {"content"} \cup AfterContent
AfterScripts  == {"scriptsLabel", "key", "keyRead", "keyLabel"} \cup AfterKey
AfterMigrate  == {"scripts", "scriptsJob"} \cup AfterScripts

(* Nothing came in since: what the steps of S did still holds.              *)
Still(S) == ~queue /\ pc \in S \cup {"idle"}

(* Migrations: what .status tells is what the latest one ran with; an image *)
(* that a Job, .status or a copy of it knows has been migrated.             *)
Known == made.images \cup missed

RecordInv ==
  /\ \/ cr.st.store = made.store \/ "store" \in missed
     \/ pc = "create" /\ cr.st.store = mem.spec.store
  /\ \/ cr.st.set = made.set \/ "set" \in missed
     \/ pc = "create" /\ cr.st.set = mem.spec.set

ImageInv ==
  /\ \A j \in jobs : j.image \in Known
  /\ cr.st.image \in Known \cup {NoName}
  /\ pc # "idle" => mem.st.image \in Known \cup {NoName}
  /\ pc \in AfterMigrate => mem.spec.image \in Known

MigrateInv == Still(AfterMigrate) /\ ~cr.spec.off => Unmade(cr.spec) \subseteq missed

(* Secrets: data only grows, and labels and copies are of data there was.   *)
DataInv ==
  /\ \A n \in Secrets : secret[n].data >= 1 /\ secret[n].label <= secret[n].data
  /\ pc \in {"scriptsJob", "scriptsLabel"} => copy <= secret["scripts"].data
  /\ pc \in {"passwordJob", "passwordLabel"} => copy <= secret[mem.spec.admin].data

(* A label that fits, or is about to, tells of a Job for that data.         *)
ScriptsInv ==
  /\ secret["scripts"].label = secret["scripts"].data =>
       made.scripts = secret["scripts"].data \/ "scripts" \in missed
  /\ pc = "scriptsLabel" /\ copy = secret["scripts"].data =>
       made.scripts = secret["scripts"].data \/ "scripts" \in missed
  /\ Still(AfterScripts) /\ cr.spec.sign => made.scripts = secret["scripts"].data \/ "scripts" \in missed

PasswordFor(n) == made.password = [of |-> n, data |-> secret[n].data]

PasswordInv ==
  /\ pc \notin {"passwordLabel", "passwordStatus"} => made.password.of = cr.st.admin \/ "password" \in missed
  /\ \A n \in AdminSecrets : made.password.of = n /\ secret[n].label = secret[n].data =>
       PasswordFor(n) \/ "password" \in missed
  /\ pc = "passwordLabel" /\ copy = secret[mem.spec.admin].data =>
       PasswordFor(mem.spec.admin) \/ "password" \in missed
  /\ Still(AfterPassword) => PasswordFor(cr.spec.admin) \/ "password" \in missed

SumsInv ==
  /\ pc # "sumsStatus" => made.sums = cr.st.sums \/ "sums" \in missed
  /\ Still(AfterSums) => made.sums = cr.spec.sums \/ "sums" \in missed

(* The signing key: pods that have another one than that of the label are   *)
(* of an earlier restart than the last.                                     *)
LastInv ==
  /\ pc \notin {"idle", "keyRead", "keyLabel"} => mem.st.last = cr.st.last
  /\ \A c \in Core : pods[c].from.last <= cr.st.last

KeyInv ==
  /\ \/ pc \notin {"keyRead", "keyLabel"} /\ secret["key"].label # secret["key"].data
     \/ "key" \in missed
     \/ \A c \in Core : pods[c].from.last < cr.st.last
                        \/ (pods[c].key = secret["key"].data /\ pc \notin {"keyRead", "keyLabel"})
  /\ Still(AfterKey) /\ cr.spec.sign => secret["key"].label = secret["key"].data
  /\ Still({"migrate", "create", "scripts", "scriptsJob", "scriptsLabel", "key"} \cup AfterKey) =>
       pods["api"].from.last = cr.st.last
  /\ Still(AfterContent) => pods["content"].from.last = cr.st.last

JobInv ==
  /\ CopyInv /\ RecordInv /\ ImageInv /\ MigrateInv /\ DataInv
  /\ ScriptsInv /\ PasswordInv /\ SumsInv /\ LastInv /\ KeyInv

-----------------------------------------------------------------------------
(* Lemmas on the operators of the model.                                    *)
LEMMA PulpThere == ASSUME NEW p \in Pulp PROVE p # NoCopy
  BY DEF Pulp, NoCopy

LEMMA PulpFields ==
  ASSUME NEW p \in Pulp
  PROVE  /\ p.spec \in Fields /\ p.spec.image \in Images /\ p.spec.store \in Stores /\ p.spec.set \in BOOLEAN
         /\ p.spec.sums \in Sums \cup {NoName} /\ p.spec.admin \in AdminSecrets /\ p.spec.admin \in Secrets
         /\ p.spec.sign \in BOOLEAN /\ p.spec.off \in BOOLEAN
         /\ p.st.image \in Images \cup {NoName} /\ p.st.store \in Stores \cup {NoName} /\ p.st.set \in BOOLEAN
         /\ p.st.sums \in Sums \cup {NoName} /\ p.st.admin \in AdminSecrets \cup {NoName} /\ p.st.last \in Nat
  BY DEF Pulp, Fields, Status, Secrets

LEMMA Names ==
  /\ {"scripts", "key"} \subseteq Secrets
  /\ \A n \in AdminSecrets : n # "scripts" /\ n # "key" /\ n # NoName
  /\ \A i \in Images : i \notin Tasks /\ i # NoName
  BY JobNames DEF Secrets

(* A field of .status is recorded in the copy: nothing else changes.        *)
LEMMA RecordField ==
  ASSUME NEW p \in Pulp
  PROVE  /\ [p EXCEPT !.st.store = p.spec.store] \in Pulp
         /\ [p EXCEPT !.st.set = p.spec.set] \in Pulp
         /\ [p EXCEPT !.st.last = p.st.last + 1] \in Pulp
         /\ [p EXCEPT !.st.admin = p.spec.admin] \in Pulp
         /\ [p EXCEPT !.st.sums = p.spec.sums] \in Pulp
         /\ [p EXCEPT !.st.image = p.spec.image] \in Pulp
  BY PulpFields DEF Pulp, Status

Others(p, q, f) ==
  /\ q.spec = p.spec
  /\ f # "image" => q.st.image = p.st.image
  /\ f # "store" => q.st.store = p.st.store
  /\ f # "set" => q.st.set = p.st.set
  /\ f # "sums" => q.st.sums = p.st.sums
  /\ f # "admin" => q.st.admin = p.st.admin
  /\ f # "last" => q.st.last = p.st.last

LEMMA RecordOthers ==
  ASSUME NEW p \in Pulp, NEW v
  PROVE  /\ Others(p, [p EXCEPT !.st.store = v], "store") /\ [p EXCEPT !.st.store = v].st.store = v
         /\ Others(p, [p EXCEPT !.st.set = v], "set") /\ [p EXCEPT !.st.set = v].st.set = v
         /\ Others(p, [p EXCEPT !.st.last = v], "last") /\ [p EXCEPT !.st.last = v].st.last = v
         /\ Others(p, [p EXCEPT !.st.admin = v], "admin") /\ [p EXCEPT !.st.admin = v].st.admin = v
         /\ Others(p, [p EXCEPT !.st.sums = v], "sums") /\ [p EXCEPT !.st.sums = v].st.sums = v
         /\ Others(p, [p EXCEPT !.st.image = v], "image") /\ [p EXCEPT !.st.image = v].st.image = v
  BY DEF Pulp, Status, Others

LEMMA TemplateType ==
  ASSUME NEW p \in Pulp
  PROVE  Template(p) \in Froms /\ Template(p).last = p.st.last
  BY PulpFields DEF Template, Froms

-----------------------------------------------------------------------------
(* Type correctness.                                                        *)
LocalOK == pc \in Steps /\ queue \in BOOLEAN /\ fresh \in BOOLEAN
CopyOK  == cr \in Pulp /\ mem \in {NoCopy} \cup Pulp /\ (pc # "idle" => mem # NoCopy)
DataOK  == secret \in [Secrets -> [data : Nat, label : Nat]] /\ copy \in Nat
OtherOK == jobs \subseteq Jobs /\ missed \subseteq Tasks \cup Images
CountOK == edits \in 0..MaxEdits /\ faults \in 0..MaxFaults
JobTypes == LocalOK /\ CopyOK /\ DataOK /\ OtherOK /\ CountOK /\ Deployed

LEMMA TypeParts == JobTypes => TypeOK
  BY DEF JobTypes, TypeOK, LocalOK, CopyOK, DataOK, OtherOK, CountOK, Deployed, Froms

LEMMA Copy == ASSUME CopyOK, pc # "idle" PROVE mem \in Pulp
  BY DEF CopyOK

LEMMA CountStep == ASSUME CountOK, Fault \/ UNCHANGED counts PROVE CountOK'
  BY JobConstants DEF CountOK, Fault, counts

LEMMA StoreTypes == ASSUME CopyOK, NEW p \in Pulp, Store(p) PROVE cr' \in Pulp /\ mem' \in Pulp /\ fresh' = fresh
  BY DEF Store, CopyOK

(* The step goes on with a copy, or ends the reconciliation.                *)
LEMMA GotoTypes ==
  ASSUME LocalOK, NEW s \in Steps, Goto(s), fresh' = fresh, cr' \in Pulp, mem' \in Pulp
  PROVE  LocalOK' /\ CopyOK'
  BY PulpThere DEF LocalOK, CopyOK, Goto

LEMMA NoUpdateTypes ==
  ASSUME CopyOK, pc # "idle", NoUpdate
  PROVE  fresh' = fresh /\ cr' \in Pulp /\ mem' \in Pulp
  BY DEF CopyOK, NoUpdate

LEMMA ReturnTypes ==
  ASSUME LocalOK, NEW q \in BOOLEAN, Return(q), cr' \in Pulp
  PROVE  LocalOK' /\ CopyOK'
  BY DEF LocalOK, CopyOK, Return, Steps

LEMMA LabelTypes ==
  ASSUME DataOK, CountOK, NEW n \in Secrets, SetHashLabel(n), copy' = 0
  PROVE  DataOK' /\ CountOK'
<1>1. CountOK'
  BY CountStep DEF SetHashLabel
<1>2. CASE secret' = [secret EXCEPT ![n].label = copy]
  BY <1>1, <1>2 DEF DataOK
<1>3. CASE UNCHANGED secret
  BY <1>1, <1>3 DEF DataOK
<1> QED BY <1>2, <1>3 DEF SetHashLabel

LEMMA ReadTypes ==
  ASSUME DataOK, CountOK, NEW n \in Secrets, Read(n), UNCHANGED secret
  PROVE  DataOK' /\ CountOK'
<1>1. CountOK'
  BY CountStep DEF Read
<1> QED BY <1>1 DEF DataOK, Read

LEMMA CreateTypes == ASSUME OtherOK, mem \in Pulp, Create PROVE jobs' \subseteq Jobs
<1>1. [image |-> mem.spec.image, active |-> TRUE] \in Jobs
  BY PulpFields DEF Jobs
<1> QED BY <1>1 DEF OtherOK, Create

LEMMA TaskTypes == \A s : Unmade(s) \subseteq Tasks \cup {s.image}
  BY DEF Unmade, Tasks

LEMMA ForgottenTypes == \A st : Forgotten(st) \subseteq Tasks
  BY DEF Forgotten, Tasks

LEMMA TypeStep ==
  ASSUME JobTypes, [Next]_vars
  PROVE  JobTypes'
<1>t. LocalOK /\ CopyOK /\ DataOK /\ OtherOK /\ CountOK /\ Deployed
  BY DEF JobTypes
<1> SUFFICES LocalOK' /\ CopyOK' /\ DataOK' /\ OtherOK' /\ CountOK' /\ Deployed'
  BY DEF JobTypes
<1>m. pc # "idle" => mem \in Pulp
  BY <1>t, Copy
<1>n. pc # "idle" /\ NoUpdate => fresh' = fresh /\ cr' \in Pulp /\ mem' \in Pulp
  BY <1>t, NoUpdateTypes
<1>cr. cr \in Pulp
  BY <1>t DEF CopyOK
<1>b. TRUE \in BOOLEAN /\ FALSE \in BOOLEAN
  OBVIOUS
<1>r. Return(TRUE) /\ UNCHANGED cr => LocalOK' /\ CopyOK'
  BY <1>t, <1>b, <1>cr, ReturnTypes
<1>d. UNCHANGED <<secret, copy>> => DataOK'
  BY <1>t DEF DataOK
<1>c. Fault \/ UNCHANGED counts => CountOK'
  BY <1>t, CountStep
<1>p. UNCHANGED <<pods, made>> => Deployed'
  BY <1>t DEF Deployed
<1>o. UNCHANGED <<jobs, missed>> => OtherOK'
  BY <1>t DEF OtherOK
<1>j. UNCHANGED jobs /\ missed' \subseteq missed \cup Tasks \cup Images => OtherOK'
  BY <1>t DEF OtherOK
<1>k. pc # "idle" /\ Create /\ missed' \subseteq missed \cup Tasks \cup Images => OtherOK'
  BY <1>t, <1>m, CreateTypes DEF OtherOK
<1>u. pc # "idle" => Unmade(mem.spec) \subseteq Tasks \cup Images
  BY <1>m, TaskTypes, PulpFields
<1>g. ASSUME NEW s \in Steps, Goto(s), NoUpdate, pc # "idle" PROVE LocalOK' /\ CopyOK'
  BY <1>g, <1>t, <1>n, GotoTypes
<1>1. CASE StartReconcile
  <2>1. LocalOK' /\ CopyOK'
    BY <1>1, <1>cr, PulpThere DEF StartReconcile, LocalOK, CopyOK, Steps, Core
  <2> QED BY <1>1, <2>1, <1>d, <1>c, <1>p, <1>o DEF StartReconcile, cluster, ghosts
<1>2. ASSUME NEW k \in Core, Provision(k)
      PROVE  LocalOK' /\ CopyOK' /\ DataOK' /\ OtherOK' /\ CountOK' /\ Deployed'
  <2>1. pc # "idle" /\ pc = k
    BY <1>2 DEF Provision, Core
  <2>2. DataOK' /\ OtherOK' /\ CountOK'
    BY <1>2, <1>d, <1>o, <1>c DEF Provision, ghosts
  <2>3. CASE pods[k].from = Template(mem)
    <3>1. After[k] \in Steps
      BY DEF After, Core, Steps
    <3>2. Goto(After[k]) /\ NoUpdate /\ UNCHANGED <<pods, made>>
      BY <1>2, <2>3 DEF Provision, NoUpdate, ghosts
    <3> HIDE DEF After
    <3> QED BY <2>1, <2>2, <3>1, <3>2, <1>g, <1>p
  <2>4. CASE pods[k].from # Template(mem)
    <3>1. LocalOK' /\ CopyOK'
      BY <1>2, <2>4, <1>r DEF Provision
    <3>2. Template(mem) \in Froms /\ secret["key"].data \in Nat
      BY <2>1, <1>m, <1>t, TemplateType, Names DEF DataOK
    <3>3. Deployed'
      BY <1>2, <2>4, <3>2, <1>t DEF Provision, Deployed, ghosts
    <3> QED BY <2>2, <3>1, <3>3
  <2> QED BY <2>3, <2>4
<1>3. ASSUME NEW k \in Core, ProvisionFails(k)
      PROVE  LocalOK' /\ CopyOK' /\ DataOK' /\ OtherOK' /\ CountOK' /\ Deployed'
  BY <1>3, <1>r, <1>d, <1>o, <1>c, <1>p DEF ProvisionFails, cluster, ghosts
<1>4. CASE MigrationsDisabled
  <2>1. LocalOK' /\ CopyOK'
    BY <1>4, <1>g DEF MigrationsDisabled, Steps
  <2>2. OtherOK'
    BY <1>4, <1>j DEF MigrationsDisabled, cluster
  <2> QED BY <1>4, <2>1, <2>2, <1>d, <1>c, <1>p DEF MigrationsDisabled, cluster
<1>5. CASE MigrateStorage
  <2>1. [mem EXCEPT !.st.store = mem.spec.store] \in Pulp
    BY <1>5, <1>m, RecordField DEF MigrateStorage
  <2>2. LocalOK' /\ CopyOK'
    BY <1>5, <2>1, <1>t, StoreTypes, GotoTypes DEF MigrateStorage, Steps
  <2> QED BY <1>5, <2>2, <1>d, <1>o, <1>c, <1>p DEF MigrateStorage, cluster, ghosts
<1>6. CASE MigrateSettings
  <2>1. [mem EXCEPT !.st.set = mem.spec.set] \in Pulp
    BY <1>6, <1>m, RecordField DEF MigrateSettings
  <2>2. cr' \in Pulp /\ mem' \in Pulp /\ fresh' = fresh
    BY <1>6, <2>1, <1>t, StoreTypes DEF MigrateSettings
  <2>3. Goto("scripts") \/ Goto("create")
    BY <1>6 DEF MigrateSettings
  <2>4. LocalOK' /\ CopyOK'
    BY <2>2, <2>3, <1>t, GotoTypes DEF Steps
  <2>5. missed' \subseteq missed \cup Tasks
    BY <1>6 DEF MigrateSettings, Tasks
  <2>6. CountOK'
    BY <1>6, <1>c DEF MigrateSettings, getMigrationJobs
  <2> QED BY <1>6, <2>4, <2>5, <2>6, <1>d, <1>j, <1>p DEF MigrateSettings, cluster
<1>7. CASE MigrateImage
  <2>1. Goto("scripts") \/ Goto("create")
    BY <1>7 DEF MigrateImage
  <2>2. LocalOK' /\ CopyOK'
    BY <1>7, <2>1, <1>g DEF MigrateImage, Steps
  <2>3. CountOK'
    BY <1>7, <1>c DEF MigrateImage, getMigrationJobs
  <2> QED BY <1>7, <2>2, <2>3, <1>d, <1>o, <1>p DEF MigrateImage, cluster, ghosts
<1>8. CASE migrationJob
  <2>1. LocalOK' /\ CopyOK' /\ mem \in Pulp
    BY <1>8, <1>g, <1>m DEF migrationJob, Steps
  <2>2. missed' \subseteq missed \cup Tasks
    BY <1>8 DEF migrationJob, Unrecorded, Tasks
  <2>3. made' \in Runs
    <3>1. mem.spec.image \in Images /\ mem.spec.store \in Stores /\ mem.spec.set \in BOOLEAN
      BY <2>1, PulpFields
    <3> QED BY <1>8, <3>1, <1>t DEF migrationJob, Deployed, Runs
  <2>4. Deployed'
    BY <1>8, <2>3, <1>t DEF migrationJob, Deployed
  <2> QED BY <1>8, <2>1, <2>2, <2>4, <1>d, <1>c, <1>k DEF migrationJob
<1>9. CASE migrationJobFails
  <2>1. LocalOK' /\ CopyOK'
    BY <1>9, <1>g DEF migrationJobFails, Steps
  <2> QED BY <1>9, <2>1, <1>u, <1>d, <1>c, <1>j, <1>p DEF migrationJobFails, cluster
<1>10. CASE ScriptsUnchanged \/ KeyUnchanged \/ PasswordUnchanged \/ ChecksumsUnchanged
  <2>1. LocalOK' /\ CopyOK'
    BY <1>10, <1>g DEF ScriptsUnchanged, KeyUnchanged, PasswordUnchanged, ChecksumsUnchanged, Steps, Core
  <2>2. UNCHANGED <<cluster, copy, ghosts, counts>>
    BY <1>10 DEF ScriptsUnchanged, KeyUnchanged, PasswordUnchanged, ChecksumsUnchanged
  <2> QED BY <2>1, <2>2, <1>d, <1>o, <1>c, <1>p DEF cluster, ghosts
<1>11. CASE ReadScripts
  <2>1. LocalOK' /\ CopyOK'
    BY <1>11, <1>g DEF ReadScripts, Steps
  <2>2. DataOK' /\ CountOK'
    <3>1. CASE Read("scripts")
      BY <1>11, <3>1, <1>t, Names, ReadTypes DEF ReadScripts, cluster
    <3>2. CASE Fault /\ copy' \in {0, secret["scripts"].data}
      BY <1>11, <3>2, <1>t, <1>c, Names DEF ReadScripts, cluster, DataOK
    <3> QED BY <1>11, <3>1, <3>2 DEF ReadScripts
  <2> QED BY <1>11, <2>1, <2>2, <1>o, <1>p DEF ReadScripts, cluster, ghosts
<1>12. CASE signingScriptJob
  <2>1. LocalOK' /\ CopyOK'
    BY <1>12, <1>g DEF signingScriptJob, Steps
  <2>2. OtherOK'
    BY <1>12, <1>j, <1>k DEF signingScriptJob, Tasks
  <2>3. CountOK'
    BY <1>12, <1>c DEF signingScriptJob
  <2>4. made' = made \/ made' = [made EXCEPT !.scripts = secret["scripts"].data]
    BY <1>12 DEF signingScriptJob
  <2>5. secret["scripts"].data \in Nat
    BY <1>t, Names DEF DataOK
  <2>6. Deployed'
    BY <1>12, <2>4, <2>5, <1>t DEF signingScriptJob, Deployed, Runs
  <2> QED BY <1>12, <2>1, <2>2, <2>3, <2>6, <1>d DEF signingScriptJob
<1>13. CASE LabelScripts \/ LabelPassword
  <2>1. pc # "idle" /\ pc' \in Steps /\ NoUpdate /\ UNCHANGED <<jobs, pods, ghosts>> /\ queue' \in BOOLEAN
    BY <1>13, <1>t DEF LabelScripts, LabelPassword, Steps, LocalOK
  <2>2. PICK n \in Secrets : SetHashLabel(n) /\ copy' = 0
    BY <1>13, <2>1, <1>m, Names, PulpFields DEF LabelScripts, LabelPassword
  <2>3. LocalOK' /\ CopyOK'
    BY <2>1, <1>t, <1>n, PulpThere DEF LocalOK, CopyOK
  <2>4. DataOK' /\ CountOK'
    BY <2>2, <1>t, LabelTypes
  <2> QED BY <2>1, <2>3, <2>4, <1>o, <1>p DEF ghosts
<1>14. CASE restartPulpCorePods
  <2>1. [mem EXCEPT !.st.last = mem.st.last + 1] \in Pulp
    BY <1>14, <1>m, RecordField DEF restartPulpCorePods
  <2>2. LocalOK' /\ CopyOK'
    BY <1>14, <2>1, <1>t, StoreTypes, GotoTypes DEF restartPulpCorePods, Steps
  <2>3. OtherOK'
    BY <1>14, <1>j DEF restartPulpCorePods, cluster, Tasks
  <2> QED BY <1>14, <2>2, <2>3, <1>d, <1>c, <1>p DEF restartPulpCorePods, cluster
<1>15. CASE ReadKey
  <2>1. LocalOK' /\ CopyOK'
    BY <1>15, <1>g DEF ReadKey, Steps
  <2>2. DataOK' /\ CountOK'
    BY <1>15, <1>t, Names, ReadTypes DEF ReadKey, cluster
  <2> QED BY <1>15, <2>1, <2>2, <1>o, <1>p DEF ReadKey, cluster, ghosts
<1>16. CASE LabelKey
  <2>1. DataOK' /\ CountOK'
    BY <1>16, <1>t, Names, LabelTypes DEF LabelKey
  <2> QED BY <1>16, <2>1, <1>r, <1>o, <1>p DEF LabelKey, ghosts
<1>17. CASE ReadPassword
  <2>1. LocalOK' /\ CopyOK'
    BY <1>17, <1>g DEF ReadPassword, Steps
  <2>2. DataOK' /\ CountOK'
    BY <1>17, <1>t, <1>m, PulpFields, ReadTypes DEF ReadPassword, cluster
  <2> QED BY <1>17, <2>1, <2>2, <1>o, <1>p DEF ReadPassword, cluster, ghosts
<1>18. CASE PasswordJob
  <2>1. LocalOK' /\ CopyOK' /\ mem \in Pulp
    BY <1>18, <1>g, <1>m DEF PasswordJob, Steps
  <2>2. OtherOK'
    BY <1>18, <1>j, <1>k DEF PasswordJob, Tasks
  <2>3. CountOK'
    BY <1>18, <1>c DEF PasswordJob
  <2>4. made' = made \/ made' = [made EXCEPT !.password = [of |-> mem.spec.admin, data |-> secret[mem.spec.admin].data]]
    BY <1>18 DEF PasswordJob
  <2>5. mem.spec.admin \in AdminSecrets /\ secret[mem.spec.admin].data \in Nat
    BY <2>1, <1>t, PulpFields DEF DataOK
  <2>6. Deployed'
    BY <1>18, <2>4, <2>5, <1>t DEF PasswordJob, Deployed, Runs
  <2> QED BY <1>18, <2>1, <2>2, <2>3, <2>6, <1>d DEF PasswordJob
<1>19. CASE PasswordStatus
  <2>1. [mem EXCEPT !.st.admin = mem.spec.admin] \in Pulp
    BY <1>19, <1>m, RecordField DEF PasswordStatus
  <2>2. cr' \in Pulp /\ mem' \in Pulp /\ fresh' = fresh
    BY <1>19, <2>1, <1>t, <1>n, StoreTypes DEF PasswordStatus
  <2>3. LocalOK' /\ CopyOK'
    BY <1>19, <2>2, <1>t, GotoTypes DEF PasswordStatus, Steps
  <2> QED BY <1>19, <2>3, <1>d, <1>c, <1>p, <1>j, ForgottenTypes DEF PasswordStatus, cluster
<1>20. CASE ChecksumsJob
  <2>1. LocalOK' /\ CopyOK' /\ mem \in Pulp
    BY <1>20, <1>g, <1>m DEF ChecksumsJob, Steps
  <2>2. OtherOK'
    BY <1>20, <1>j, <1>k DEF ChecksumsJob, Tasks
  <2>3. CountOK'
    BY <1>20, <1>c DEF ChecksumsJob
  <2>4. made' = made \/ made' = [made EXCEPT !.sums = mem.spec.sums]
    BY <1>20 DEF ChecksumsJob
  <2>5. mem.spec.sums \in Sums \cup {NoName}
    BY <2>1, PulpFields
  <2>6. Deployed'
    BY <1>20, <2>4, <2>5, <1>t DEF ChecksumsJob, Deployed, Runs
  <2> QED BY <1>20, <2>1, <2>2, <2>3, <2>6, <1>d DEF ChecksumsJob
<1>21. CASE ChecksumsStatus
  <2>1. [mem EXCEPT !.st.sums = mem.spec.sums] \in Pulp
    BY <1>21, <1>m, RecordField DEF ChecksumsStatus
  <2>2. LocalOK' /\ CopyOK'
    BY <1>21, <2>1, <1>t, StoreTypes, GotoTypes DEF ChecksumsStatus, Steps
  <2> QED BY <1>21, <2>2, <1>d, <1>c, <1>p, <1>j, ForgottenTypes DEF ChecksumsStatus, cluster
<1>22. CASE setStatusFields
  <2>1. [mem EXCEPT !.st.image = mem.spec.image] \in Pulp
    BY <1>22, <1>m, RecordField DEF setStatusFields
  <2>2. cr' \in Pulp
    BY <1>22, <2>1, <1>cr DEF setStatusFields
  <2>3. LocalOK' /\ CopyOK'
    BY <1>22, <2>2, <1>t, <1>b, ReturnTypes DEF setStatusFields
  <2> QED BY <1>22, <2>3, <1>d, <1>o, <1>c, <1>p DEF setStatusFields, cluster, ghosts
<1>23. CASE EditSpec
  <2>1. cr' \in Pulp
    BY <1>23, <1>cr, JobConstants DEF EditSpec, Pulp
  <2>2. LocalOK' /\ CopyOK'
    BY <1>23, <2>1, <1>t DEF EditSpec, LocalOK, CopyOK
  <2>3. CountOK'
    BY <1>23, <1>t, JobConstants DEF EditSpec, CountOK
  <2> QED BY <1>23, <2>2, <2>3, <1>d, <1>o, <1>p DEF EditSpec, cluster, ghosts
<1>24. ASSUME NEW n \in Secrets, EditSecret(n)
       PROVE  LocalOK' /\ CopyOK' /\ DataOK' /\ OtherOK' /\ CountOK' /\ Deployed'
  <2>1. DataOK'
    BY <1>24, <1>t DEF EditSecret, DataOK
  <2>2. CountOK'
    BY <1>24, <1>t, JobConstants DEF EditSecret, CountOK
  <2>3. LocalOK' /\ CopyOK'
    BY <1>24, <1>t DEF EditSecret, LocalOK, CopyOK, Watched
  <2> QED BY <1>24, <2>1, <2>2, <2>3, <1>o, <1>p DEF EditSecret, ghosts
<1>25. ASSUME NEW j \in jobs, JobEnds(j) \/ JobExpires(j)
       PROVE  LocalOK' /\ CopyOK' /\ DataOK' /\ OtherOK' /\ CountOK' /\ Deployed'
  <2>1. [j EXCEPT !.active = FALSE] \in Jobs
    BY <1>t DEF OtherOK, Jobs
  <2>2. OtherOK'
    BY <1>25, <2>1, <1>t DEF JobEnds, JobExpires, OtherOK, ghosts
  <2>3. LocalOK' /\ CopyOK'
    BY <1>25, <1>t DEF JobEnds, JobExpires, LocalOK, CopyOK
  <2> QED BY <1>25, <2>2, <2>3, <1>d, <1>c, <1>p DEF JobEnds, JobExpires, ghosts
<1>26. CASE OperatorRestart
  <2>1. LocalOK' /\ CopyOK'
    BY <1>26, <1>r DEF OperatorRestart
  <2>2. OtherOK'
    BY <1>26, <1>j, <1>u, ForgottenTypes DEF OperatorRestart, cluster
  <2>3. DataOK'
    BY <1>26, <1>t DEF OperatorRestart, cluster, DataOK
  <2> QED BY <1>26, <2>1, <2>2, <2>3, <1>c, <1>p DEF OperatorRestart, cluster
<1>27. CASE UNCHANGED vars
  BY <1>27, <1>t, <1>d, <1>o, <1>c, <1>p DEF vars, counts, LocalOK, CopyOK
<1> QED
  BY <1>1, <1>2, <1>3, <1>4, <1>5, <1>6, <1>7, <1>8, <1>9, <1>10, <1>11, <1>12, <1>13, <1>14, <1>15, <1>16,
     <1>17, <1>18, <1>19, <1>20, <1>21, <1>22, <1>23, <1>24, <1>25, <1>26, <1>27 DEF Next, Reconcile

LEMMA TypeInit == Init => JobTypes
<1> SUFFICES ASSUME Init PROVE JobTypes
  OBVIOUS
<1>1. PICK s \in Installed : cr = [spec |-> s, st |-> [image |-> NoName, store |-> NoName, set |-> FALSE,
                                                     sums |-> NoName, admin |-> NoName, last |-> 0]]
  BY DEF Init
<1>2. cr \in Pulp
  BY <1>1, JobConstants DEF Pulp, Status
<1>3. LocalOK /\ CopyOK /\ DataOK /\ OtherOK
  BY <1>2 DEF Init, LocalOK, CopyOK, DataOK, OtherOK, Steps
<1>4. CountOK
  BY JobConstants DEF Init, CountOK
<1>5. pods \in [Core -> [from : Froms, key : Nat]]
  BY DEF Init, Froms
<1>6. made \in Runs
  BY DEF Init, Runs
<1> QED BY <1>3, <1>4, <1>5, <1>6 DEF JobTypes, Deployed

LEMMA JobTypesHold == Spec => []JobTypes
<1>1. JobTypes /\ [Next]_vars => JobTypes'
  BY TypeStep
<1> QED BY <1>1, TypeInit, PTL DEF Spec

(* TypeOK of PulpJobs, for any values of .spec and any number of edits and  *)
(* faults.                                                                  *)
THEOREM JobTypeCorrect == Spec => []TypeOK
  BY JobTypesHold, TypeParts, PTL

-----------------------------------------------------------------------------
(* What a step may change, and which step it is.                            *)
Stored(f) == /\ Others(cr, cr', f) /\ Others(mem, mem', f)
             /\ fresh' = fresh /\ (fresh => cr' = mem')

LEMMA StoreEffect ==
  ASSUME CopyInv, NEW q, NEW f, Others(mem, q, f), Store(q)
  PROVE  Stored(f) /\ mem' = q /\ cr' = IF fresh THEN q ELSE cr
<1>1. mem' = q /\ fresh' = fresh /\ cr' = IF fresh THEN q ELSE cr
  BY DEF Store
<1>2. CASE fresh
  BY <1>1, <1>2 DEF CopyInv, Stored
<1>3. CASE ~fresh
  BY <1>1, <1>3 DEF Stored, Others
<1> QED BY <1>1, <1>2, <1>3

(* What the steps that record something in .status do.                      *)
LEMMA Records ==
  ASSUME JobTypes, CopyInv
  PROVE  /\ MigrateStorage => /\ Stored("store") /\ mem'.st.store = mem.spec.store
                              /\ cr'.st.store = IF fresh THEN mem.spec.store ELSE cr.st.store
         /\ MigrateSettings => /\ Stored("set") /\ mem'.st.set = mem.spec.set
                               /\ cr'.st.set = IF fresh THEN mem.spec.set ELSE cr.st.set
         /\ restartPulpCorePods => /\ Stored("last")
                                   /\ cr'.st.last = IF fresh THEN mem.st.last + 1 ELSE cr.st.last
         /\ PasswordStatus => /\ Stored("admin") /\ mem'.st.admin = mem.spec.admin
                              /\ cr'.st.admin = IF fresh THEN mem.spec.admin ELSE cr.st.admin
         /\ ChecksumsStatus => /\ Stored("sums") /\ mem'.st.sums = mem.spec.sums
                               /\ cr'.st.sums = IF fresh THEN mem.spec.sums ELSE cr.st.sums
         /\ setStatusFields => /\ Others(cr, cr', "image")
                               /\ cr'.st.image = IF fresh THEN mem.spec.image ELSE cr.st.image
<1>m. pc # "idle" => mem \in Pulp
  BY Copy DEF JobTypes
<1>1. ASSUME MigrateStorage
      PROVE  /\ Stored("store") /\ mem'.st.store = mem.spec.store
             /\ cr'.st.store = IF fresh THEN mem.spec.store ELSE cr.st.store
  <2>1. mem \in Pulp /\ Store([mem EXCEPT !.st.store = mem.spec.store])
    BY <1>1, <1>m DEF MigrateStorage
  <2> DEFINE q == [mem EXCEPT !.st.store = mem.spec.store]
  <2>2. Others(mem, q, "store") /\ q.st.store = mem.spec.store
    BY <2>1, RecordOthers
  <2>3. Store(q)
    BY <2>1
  <2> HIDE DEF q
  <2> QED BY <2>2, <2>3, StoreEffect
<1>2. ASSUME MigrateSettings
      PROVE  /\ Stored("set") /\ mem'.st.set = mem.spec.set
             /\ cr'.st.set = IF fresh THEN mem.spec.set ELSE cr.st.set
  <2>1. mem \in Pulp /\ Store([mem EXCEPT !.st.set = mem.spec.set])
    BY <1>2, <1>m DEF MigrateSettings
  <2> DEFINE q == [mem EXCEPT !.st.set = mem.spec.set]
  <2>2. Others(mem, q, "set") /\ q.st.set = mem.spec.set
    BY <2>1, RecordOthers
  <2>3. Store(q)
    BY <2>1
  <2> HIDE DEF q
  <2> QED BY <2>2, <2>3, StoreEffect
<1>3. ASSUME restartPulpCorePods
      PROVE  Stored("last") /\ cr'.st.last = IF fresh THEN mem.st.last + 1 ELSE cr.st.last
  <2>1. mem \in Pulp /\ Store([mem EXCEPT !.st.last = mem.st.last + 1])
    BY <1>3, <1>m DEF restartPulpCorePods
  <2> DEFINE q == [mem EXCEPT !.st.last = mem.st.last + 1]
  <2>2. Others(mem, q, "last") /\ q.st.last = mem.st.last + 1
    BY <2>1, RecordOthers
  <2>3. Store(q)
    BY <2>1
  <2> HIDE DEF q
  <2> QED BY <2>2, <2>3, StoreEffect
<1>4. ASSUME PasswordStatus
      PROVE  /\ Stored("admin") /\ mem'.st.admin = mem.spec.admin
             /\ cr'.st.admin = IF fresh THEN mem.spec.admin ELSE cr.st.admin
  <2>1. CASE mem.st.admin = mem.spec.admin
    BY <1>4, <2>1 DEF PasswordStatus, NoUpdate, Stored, Others, CopyInv
  <2>2. CASE mem.st.admin # mem.spec.admin
    <3>1. mem \in Pulp /\ Store([mem EXCEPT !.st.admin = mem.spec.admin])
      BY <1>4, <2>2, <1>m DEF PasswordStatus
    <3> DEFINE q == [mem EXCEPT !.st.admin = mem.spec.admin]
    <3>2. Others(mem, q, "admin") /\ q.st.admin = mem.spec.admin
      BY <3>1, RecordOthers
    <3>3. Store(q)
      BY <3>1
    <3> HIDE DEF q
    <3> QED BY <3>2, <3>3, StoreEffect
  <2> QED BY <2>1, <2>2
<1>5. ASSUME ChecksumsStatus
      PROVE  /\ Stored("sums") /\ mem'.st.sums = mem.spec.sums
             /\ cr'.st.sums = IF fresh THEN mem.spec.sums ELSE cr.st.sums
  <2>1. mem \in Pulp /\ Store([mem EXCEPT !.st.sums = mem.spec.sums])
    BY <1>5, <1>m DEF ChecksumsStatus
  <2> DEFINE q == [mem EXCEPT !.st.sums = mem.spec.sums]
  <2>2. Others(mem, q, "sums") /\ q.st.sums = mem.spec.sums
    BY <2>1, RecordOthers
  <2>3. Store(q)
    BY <2>1
  <2> HIDE DEF q
  <2> QED BY <2>2, <2>3, StoreEffect
<1>6. ASSUME setStatusFields
      PROVE  /\ Others(cr, cr', "image")
             /\ cr'.st.image = IF fresh THEN mem.spec.image ELSE cr.st.image
  <2>1. mem \in Pulp /\ cr' = IF fresh THEN [mem EXCEPT !.st.image = mem.spec.image] ELSE cr
    BY <1>6, <1>m DEF setStatusFields
  <2>2. CASE fresh
    BY <2>1, <2>2, RecordOthers DEF CopyInv
  <2>3. CASE ~fresh
    BY <2>1, <2>3 DEF Others
  <2> QED BY <2>2, <2>3
<1> QED BY <1>1, <1>2, <1>3, <1>4, <1>5, <1>6

(* Who may change which part of the resource and of its copy.               *)
ResourceFrame ==
  /\ ~EditSpec => cr'.spec = cr.spec
  /\ ~MigrateStorage => cr'.st.store = cr.st.store
  /\ ~MigrateSettings => cr'.st.set = cr.st.set
  /\ ~restartPulpCorePods => cr'.st.last = cr.st.last
  /\ ~PasswordStatus => cr'.st.admin = cr.st.admin
  /\ ~ChecksumsStatus => cr'.st.sums = cr.st.sums
  /\ ~setStatusFields => cr'.st.image = cr.st.image

CopyFrame ==
  \/ StartReconcile
  \/ pc' = "idle"
  \/ /\ pc # "idle" /\ mem'.spec = mem.spec /\ mem'.st.image = mem.st.image
     /\ ~restartPulpCorePods => mem'.st.last = mem.st.last

(* A request that is not queued any more was taken; the reconciliation ends *)
(* without one only after its last step.                                    *)
QueueFrame ==
  /\ ~queue' => ~queue \/ StartReconcile
  /\ ~queue' /\ pc' = "idle" => pc = "idle" \/ setStatusFields

LEMMA ResourceStep ==
  ASSUME JobTypes, CopyInv, [Next]_vars
  PROVE  CopyInv' /\ ResourceFrame /\ CopyFrame /\ QueueFrame
<1>b. fresh \in BOOLEAN /\ queue \in BOOLEAN
  BY DEF JobTypes, LocalOK
<1>1. CASE StartReconcile
  BY <1>1 DEF StartReconcile, CopyInv, ResourceFrame, CopyFrame, QueueFrame
<1>2. ASSUME NoUpdate, pc # "idle", pc' # "idle", queue => queue'
      PROVE  CopyInv' /\ ResourceFrame /\ CopyFrame /\ QueueFrame
  BY <1>2, <1>b DEF NoUpdate, CopyInv, ResourceFrame, CopyFrame, QueueFrame
<1>3. ASSUME Return(TRUE), UNCHANGED cr
      PROVE  CopyInv' /\ ResourceFrame /\ CopyFrame /\ QueueFrame
  BY <1>3 DEF Return, CopyInv, ResourceFrame, CopyFrame, QueueFrame
<1>4. ASSUME NEW f \in {"store", "set", "last", "admin", "sums"}, Stored(f), pc # "idle", pc' # "idle", queue' = queue,
             f = "store" => MigrateStorage, f = "set" => MigrateSettings, f = "last" => restartPulpCorePods,
             f = "admin" => PasswordStatus, f = "sums" => ChecksumsStatus
      PROVE  CopyInv' /\ ResourceFrame /\ CopyFrame /\ QueueFrame
  BY <1>4, <1>b DEF Stored, Others, CopyInv, ResourceFrame, CopyFrame, QueueFrame
<1>5. ASSUME NEW k \in Core, Provision(k) \/ ProvisionFails(k)
      PROVE  CopyInv' /\ ResourceFrame /\ CopyFrame /\ QueueFrame
  <2>1. CASE Return(TRUE)
    BY <1>3, <1>5, <2>1 DEF Provision, ProvisionFails
  <2>2. CASE Goto(After[k]) /\ NoUpdate
    <3>1. After[k] # "idle" /\ k # "idle"
      BY DEF Core, After
    <3> HIDE DEF After
    <3> QED BY <1>2, <1>5, <2>2, <3>1 DEF Provision, ProvisionFails, Goto
  <2> QED BY <1>5, <2>1, <2>2 DEF Provision, ProvisionFails, NoUpdate
<1>6. CASE MigrateStorage \/ MigrateSettings \/ restartPulpCorePods \/ PasswordStatus \/ ChecksumsStatus
  <2>1. pc # "idle" /\ pc' # "idle" /\ queue' = queue
    BY <1>6 DEF MigrateStorage, MigrateSettings, restartPulpCorePods, PasswordStatus, ChecksumsStatus, Goto
  <2> QED BY <1>4, <1>6, <2>1, Records
<1>7. CASE setStatusFields
  <2>1. pc = "fields" /\ pc' = "idle" /\ queue' = queue /\ fresh' = FALSE
    BY <1>7, <1>b DEF setStatusFields, Return
  <2> QED BY <1>7, <2>1, Records DEF CopyInv, ResourceFrame, CopyFrame, QueueFrame, Others
<1>8. CASE MigrationsDisabled \/ MigrateImage \/ migrationJob \/ migrationJobFails \/ ScriptsUnchanged \/ ReadScripts
           \/ signingScriptJob \/ KeyUnchanged \/ ReadKey
  BY <1>2, <1>8 DEF MigrationsDisabled, MigrateImage, migrationJob, migrationJobFails, ScriptsUnchanged, ReadScripts,
                    signingScriptJob, KeyUnchanged, ReadKey, Goto
<1>9. CASE PasswordUnchanged \/ ReadPassword \/ PasswordJob \/ ChecksumsUnchanged \/ ChecksumsJob
           \/ LabelScripts \/ LabelPassword
  <2>1. NoUpdate /\ pc # "idle" /\ pc' # "idle" /\ (queue => queue')
    <3>1. CASE PasswordUnchanged \/ ReadPassword \/ PasswordJob \/ ChecksumsUnchanged \/ ChecksumsJob
      BY <3>1 DEF PasswordUnchanged, ReadPassword, PasswordJob, ChecksumsUnchanged, ChecksumsJob, Goto
    <3>2. CASE LabelScripts \/ LabelPassword
      BY <3>2 DEF LabelScripts, LabelPassword
    <3> QED BY <1>9, <3>1, <3>2
  <2> QED BY <2>1, <1>b DEF NoUpdate, CopyInv, ResourceFrame, CopyFrame, QueueFrame
<1>10. CASE LabelKey \/ OperatorRestart
  BY <1>3, <1>10 DEF LabelKey, OperatorRestart
<1>11. CASE EditSpec
  <2>1. cr'.st = cr.st
    <3>1. cr \in Pulp
      BY DEF JobTypes, CopyOK
    <3> QED BY <1>11, <3>1 DEF EditSpec, Pulp
  <2> QED BY <1>11, <2>1 DEF EditSpec, CopyInv, ResourceFrame, CopyFrame, QueueFrame
<1>12. ASSUME NEW n \in Secrets, EditSecret(n)
       PROVE  CopyInv' /\ ResourceFrame /\ CopyFrame /\ QueueFrame
  BY <1>12 DEF EditSecret, CopyInv, ResourceFrame, CopyFrame, QueueFrame
<1>13. ASSUME NEW j \in jobs, JobEnds(j) \/ JobExpires(j)
       PROVE  CopyInv' /\ ResourceFrame /\ CopyFrame /\ QueueFrame
  BY <1>13 DEF JobEnds, JobExpires, CopyInv, ResourceFrame, CopyFrame, QueueFrame
<1>14. CASE UNCHANGED vars
  BY <1>14 DEF vars, CopyInv, ResourceFrame, CopyFrame, QueueFrame
<1> QED
  BY <1>1, <1>5, <1>6, <1>7, <1>8, <1>9, <1>10, <1>11, <1>12, <1>13, <1>14 DEF Next, Reconcile

(* Who may change what is remembered of Jobs, and which tasks are dropped   *)
(* no longer.                                                               *)
GhostFrame ==
  /\ ~migrationJob => /\ made'.store = made.store /\ made'.set = made.set
                      /\ "store" \in missed => "store" \in missed'
                      /\ ~MigrateSettings => ("set" \in missed => "set" \in missed')
  /\ ~signingScriptJob => made'.scripts = made.scripts /\ ("scripts" \in missed => "scripts" \in missed')
  /\ ~PasswordJob => made'.password = made.password /\ ("password" \in missed => "password" \in missed')
  /\ ~ChecksumsJob => made'.sums = made.sums /\ ("sums" \in missed => "sums" \in missed')
  /\ ~restartPulpCorePods => ("key" \in missed => "key" \in missed')
  /\ \A i \in Images : i \in Known => i \in Known'

LEMMA GhostStep ==
  ASSUME JobTypes, [Next]_vars
  PROVE  GhostFrame
<1>1. CASE made' = made /\ missed \subseteq missed'
  BY <1>1 DEF GhostFrame, Known
<1>i. \A i \in Images : i \notin Tasks
  BY Names
<1>2. CASE migrationJob
  <2>1. mem \in Pulp
    BY <1>2, Copy DEF JobTypes, migrationJob
  <2>2. mem.spec.image \in Images
    BY <2>1, PulpFields
  <2>3. made'.images = made.images \cup {mem.spec.image} /\ made'.scripts = made.scripts
        /\ made'.password = made.password /\ made'.sums = made.sums
    BY <1>2 DEF migrationJob, JobTypes, Deployed, Runs
  <2>4. missed' = (missed \ {mem.spec.image, "store", "set"}) \cup Unrecorded
    BY <1>2 DEF migrationJob
  <2>5. \A t \in Tasks \ {"store", "set"} : t \in missed => t \in missed'
    BY <2>2, <2>4, <1>i
  <2>6. \A i \in Images : i \in Known => i \in Known'
    BY <2>3, <2>4, <1>i DEF Known, Tasks
  <2>7. {"scripts", "password", "sums", "key"} \subseteq Tasks \ {"store", "set"}
    BY DEF Tasks
  <2> QED BY <1>2, <2>3, <2>5, <2>6, <2>7 DEF GhostFrame
<1>3. CASE MigrateSettings
  <2>1. made' = made /\ (missed \ {"set"} \subseteq missed')
    BY <1>3 DEF MigrateSettings
  <2> QED BY <1>3, <2>1, <1>i DEF GhostFrame, Known, Tasks
<1>4. CASE signingScriptJob
  <2>1. missed \ {"scripts"} \subseteq missed'
    BY <1>4 DEF signingScriptJob
  <2>2. made' = made \/ made' = [made EXCEPT !.scripts = secret["scripts"].data]
    BY <1>4 DEF signingScriptJob
  <2>3. /\ made'.images = made.images /\ made'.store = made.store /\ made'.set = made.set
        /\ made'.password = made.password /\ made'.sums = made.sums
    BY <2>2 DEF JobTypes, Deployed, Runs
  <2> QED BY <1>4, <2>1, <2>3, <1>i DEF GhostFrame, Known, Tasks
<1>5. CASE PasswordJob
  <2>1. missed \ {"password"} \subseteq missed'
    BY <1>5 DEF PasswordJob
  <2>2. made' = made \/ made' = [made EXCEPT !.password = [of |-> mem.spec.admin, data |-> secret[mem.spec.admin].data]]
    BY <1>5 DEF PasswordJob
  <2>3. /\ made'.images = made.images /\ made'.store = made.store /\ made'.set = made.set
        /\ made'.scripts = made.scripts /\ made'.sums = made.sums
    BY <2>2 DEF JobTypes, Deployed, Runs
  <2> QED BY <1>5, <2>1, <2>3, <1>i DEF GhostFrame, Known, Tasks
<1>6. CASE ChecksumsJob
  <2>1. missed \ {"sums"} \subseteq missed'
    BY <1>6 DEF ChecksumsJob
  <2>2. made' = made \/ made' = [made EXCEPT !.sums = mem.spec.sums]
    BY <1>6 DEF ChecksumsJob
  <2>3. /\ made'.images = made.images /\ made'.store = made.store /\ made'.set = made.set
        /\ made'.scripts = made.scripts /\ made'.password = made.password
    BY <2>2 DEF JobTypes, Deployed, Runs
  <2> QED BY <1>6, <2>1, <2>3, <1>i DEF GhostFrame, Known, Tasks
<1>7. CASE restartPulpCorePods
  <2>1. made' = made /\ (missed \ {"key"} \subseteq missed')
    BY <1>7 DEF restartPulpCorePods
  <2> QED BY <1>7, <2>1, <1>i DEF GhostFrame, Known, Tasks
<1>8. ASSUME NEW k \in Core, Provision(k) \/ ProvisionFails(k)
      PROVE  made' = made /\ missed \subseteq missed'
  BY <1>8 DEF Provision, ProvisionFails, ghosts
<1>9. CASE StartReconcile \/ MigrationsDisabled \/ MigrateStorage \/ MigrateImage \/ migrationJobFails
           \/ ScriptsUnchanged \/ ReadScripts \/ LabelScripts \/ KeyUnchanged \/ ReadKey \/ LabelKey
  BY <1>1, <1>9 DEF StartReconcile, MigrationsDisabled, MigrateStorage, MigrateImage, migrationJobFails,
           ScriptsUnchanged, ReadScripts, LabelScripts, KeyUnchanged, ReadKey, LabelKey, ghosts
<1>10. CASE PasswordUnchanged \/ ReadPassword \/ LabelPassword \/ PasswordStatus \/ ChecksumsUnchanged
           \/ ChecksumsStatus \/ setStatusFields \/ EditSpec \/ OperatorRestart \/ UNCHANGED vars
  BY <1>1, <1>10 DEF PasswordUnchanged, ReadPassword, LabelPassword, PasswordStatus, ChecksumsUnchanged,
           ChecksumsStatus, setStatusFields, EditSpec, OperatorRestart, vars, ghosts
<1>11. ASSUME NEW n \in Secrets, EditSecret(n)
       PROVE  made' = made /\ missed \subseteq missed'
  BY <1>11 DEF EditSecret, ghosts
<1>12. ASSUME NEW j \in jobs, JobEnds(j) \/ JobExpires(j)
       PROVE  made' = made /\ missed \subseteq missed'
  BY <1>12 DEF JobEnds, JobExpires, ghosts
<1> QED
  BY <1>1, <1>2, <1>3, <1>4, <1>5, <1>6, <1>7, <1>8, <1>9, <1>10, <1>11, <1>12 DEF Next, Reconcile

(* The data of a Secret grows, and only in the hands of users; a label is   *)
(* made of the copy, if the data is still that.  A Deployment is written by *)
(* its own step only.                                                       *)
SecretFrame ==
  /\ \A n \in Secrets :
       \/ secret'[n] = secret[n]
       \/ /\ EditSecret(n) /\ secret'[n].data = secret[n].data + 1 /\ secret'[n].label = secret[n].label
       \/ /\ secret'[n].data = secret[n].data /\ copy = secret[n].data /\ secret'[n].label = copy
          /\ \/ LabelScripts /\ n = "scripts"
             \/ LabelKey /\ n = "key"
             \/ LabelPassword /\ n = mem.spec.admin
  /\ \A k \in Core : pods'[k] = pods[k] \/ Provision(k)

LEMMA LabelStep ==
  ASSUME DataOK, NEW n \in Secrets, SetHashLabel(n)
  PROVE  /\ \A o \in Secrets : o # n => secret'[o] = secret[o]
         /\ \/ secret'[n] = secret[n]
            \/ secret'[n].data = secret[n].data /\ copy = secret[n].data /\ secret'[n].label = copy
  BY DEF DataOK, SetHashLabel

LEMMA SecretStep ==
  ASSUME JobTypes, [Next]_vars
  PROVE  SecretFrame
<1>t. DataOK /\ pods \in [Core -> [from : Froms, key : Nat]]
  BY DEF JobTypes, Deployed
<1>1. CASE UNCHANGED <<secret, pods>>
  BY <1>1 DEF SecretFrame
<1>2. CASE LabelScripts
  BY <1>2, <1>t, LabelStep, Names DEF LabelScripts, SecretFrame
<1>3. CASE LabelKey
  BY <1>3, <1>t, LabelStep, Names DEF LabelKey, SecretFrame
<1>4. CASE LabelPassword
  <2>1. mem \in Pulp
    BY <1>4, Copy DEF JobTypes, LabelPassword
  <2> QED BY <1>4, <2>1, <1>t, LabelStep, PulpFields DEF LabelPassword, SecretFrame
<1>5. ASSUME NEW n \in Secrets, EditSecret(n)
      PROVE  SecretFrame
  BY <1>5, <1>t DEF EditSecret, DataOK, SecretFrame
<1>6. ASSUME NEW k \in Core, Provision(k) \/ ProvisionFails(k)
      PROVE  SecretFrame
  BY <1>6, <1>t DEF Provision, ProvisionFails, cluster, SecretFrame
<1>7. CASE StartReconcile \/ MigrationsDisabled \/ MigrateStorage \/ MigrateSettings \/ MigrateImage \/ migrationJob
           \/ migrationJobFails \/ ScriptsUnchanged \/ ReadScripts \/ signingScriptJob \/ KeyUnchanged
           \/ restartPulpCorePods \/ ReadKey
  BY <1>1, <1>7 DEF StartReconcile, MigrationsDisabled, MigrateStorage, MigrateSettings, MigrateImage, migrationJob,
           migrationJobFails, ScriptsUnchanged, ReadScripts, signingScriptJob, KeyUnchanged, restartPulpCorePods,
           ReadKey, cluster
<1>8. CASE PasswordUnchanged \/ ReadPassword \/ PasswordJob \/ PasswordStatus \/ ChecksumsUnchanged \/ ChecksumsJob
           \/ ChecksumsStatus \/ setStatusFields \/ EditSpec \/ OperatorRestart \/ UNCHANGED vars
  BY <1>1, <1>8 DEF PasswordUnchanged, ReadPassword, PasswordJob, PasswordStatus, ChecksumsUnchanged, ChecksumsJob,
           ChecksumsStatus, setStatusFields, EditSpec, OperatorRestart, vars, cluster
<1>9. ASSUME NEW j \in jobs, JobEnds(j) \/ JobExpires(j)
      PROVE  UNCHANGED <<secret, pods>>
  BY <1>9 DEF JobEnds, JobExpires
<1> QED
  BY <1>1, <1>2, <1>3, <1>4, <1>5, <1>6, <1>7, <1>8, <1>9 DEF Next, Reconcile

(* How the reconciliation gets into each of its parts, and out of the ones  *)
(* that leave something half done.                                          *)
ApiDone == {"migrate", "create"} \cup AfterMigrate

FlowFrame ==
  /\ pc' \in ApiDone /\ pc \notin ApiDone => pc = "api" /\ Provision("api")
  /\ pc' = "create" /\ pc # "create" => MigrateStorage \/ MigrateSettings \/ MigrateImage
  /\ pc = "create" /\ pc' # "create" => migrationJob \/ migrationJobFails \/ OperatorRestart
  /\ pc' \in AfterMigrate /\ pc \notin AfterMigrate =>
       MigrationsDisabled \/ MigrateSettings \/ MigrateImage \/ migrationJob \/ migrationJobFails
  /\ pc' \in AfterScripts /\ pc \notin AfterScripts => ScriptsUnchanged \/ signingScriptJob
  /\ pc' = "scriptsJob" /\ pc # "scriptsJob" => ReadScripts
  /\ pc' = "scriptsLabel" /\ pc # "scriptsLabel" => signingScriptJob
  /\ pc' = "keyRead" /\ pc # "keyRead" => restartPulpCorePods
  /\ pc' = "keyLabel" /\ pc # "keyLabel" => pc = "keyRead"
  /\ pc \in {"keyRead", "keyLabel"} /\ pc' \notin {"keyRead", "keyLabel"} => pc' = "idle" /\ queue' = TRUE
  /\ pc' \in AfterKey /\ pc \notin AfterKey => KeyUnchanged
  /\ pc' \in AfterContent /\ pc \notin AfterContent => pc = "content" /\ Provision("content")
  /\ pc' = "passwordJob" /\ pc # "passwordJob" => ReadPassword
  /\ pc' = "passwordLabel" /\ pc # "passwordLabel" => PasswordJob
  /\ pc' = "passwordStatus" /\ pc # "passwordStatus" => pc = "passwordLabel"
  /\ pc \in {"passwordLabel", "passwordStatus"} /\ pc' \notin {"passwordLabel", "passwordStatus"} =>
       PasswordStatus \/ OperatorRestart
  /\ pc' \in AfterPassword /\ pc \notin AfterPassword => PasswordUnchanged \/ PasswordJob
  /\ pc' = "sumsStatus" /\ pc # "sumsStatus" => ChecksumsJob
  /\ pc = "sumsStatus" /\ pc' # "sumsStatus" => ChecksumsStatus \/ OperatorRestart
  /\ pc' \in AfterSums /\ pc \notin AfterSums => ChecksumsUnchanged \/ ChecksumsJob
  /\ copy' # copy => \/ pc' = "idle"
                     \/ pc' \in {"scriptsJob", "passwordJob", "keyLabel"} /\ pc # pc'
                     \/ pc = "scriptsLabel" /\ pc' = "key"
                     \/ pc = "passwordLabel" /\ pc' = "passwordStatus"

LEMMA FlowStep ==
  ASSUME [Next]_vars
  PROVE  FlowFrame
<1> USE DEF AfterSums, AfterPassword, AfterContent, AfterKey, AfterScripts, AfterMigrate, ApiDone
<1>1. CASE pc' = pc /\ copy' = copy
  BY <1>1 DEF FlowFrame
<1>2. CASE StartReconcile
  BY <1>2 DEF FlowFrame, StartReconcile
<1>3. ASSUME NEW k \in Core, Provision(k) \/ ProvisionFails(k)
      PROVE  FlowFrame
  <2>1. Provision(k) => copy' = copy /\ pc = k /\ (pc' = "idle" \/ pc' = After[k])
    BY DEF Provision, Return, Goto
  <2>5. ProvisionFails(k) => copy' = copy /\ pc = k /\ pc' = "idle"
    BY DEF ProvisionFails, Return
  <2>2. After["api"] = "migrate" /\ After["content"] = "password"
    BY DEF After
  <2> HIDE DEF After
  <2>3. CASE k = "api"
    BY <1>3, <2>1, <2>2, <2>3, <2>5 DEF FlowFrame
  <2>4. CASE k = "content"
    BY <1>3, <2>1, <2>2, <2>4, <2>5 DEF FlowFrame
  <2> QED BY <2>3, <2>4 DEF Core
<1>4. CASE MigrationsDisabled \/ MigrateStorage \/ MigrateSettings \/ MigrateImage
  <2>1. pc = "migrate" /\ copy' = copy /\ pc' \in {"create", "scripts"} /\ (pc' = "create" => ~MigrationsDisabled)
        /\ (pc' = "scripts" => ~MigrateStorage)
    BY <1>4 DEF MigrationsDisabled, MigrateStorage, MigrateSettings, MigrateImage, Goto
  <2> QED BY <1>4, <2>1 DEF FlowFrame
<1>5. CASE migrationJob \/ migrationJobFails
  <2>1. pc = "create" /\ copy' = copy /\ pc' = "scripts"
    BY <1>5 DEF migrationJob, migrationJobFails, Goto
  <2> QED BY <1>5, <2>1 DEF FlowFrame
<1>6. CASE ScriptsUnchanged \/ ReadScripts
  <2>1. ScriptsUnchanged => pc = "scripts" /\ pc' = "key" /\ copy' = copy
    BY DEF ScriptsUnchanged, Goto
  <2>2. ReadScripts => pc = "scripts" /\ pc' = "scriptsJob"
    BY DEF ReadScripts, Goto
  <2> QED BY <1>6, <2>1, <2>2 DEF FlowFrame
<1>7. CASE signingScriptJob
  <2>1. pc = "scriptsJob" /\ pc' = "scriptsLabel" /\ copy' = copy
    BY <1>7 DEF signingScriptJob, Goto
  <2> QED BY <1>7, <2>1 DEF FlowFrame
<1>8. CASE LabelScripts
  BY <1>8 DEF LabelScripts, FlowFrame
<1>9. CASE KeyUnchanged \/ restartPulpCorePods
  <2>1. KeyUnchanged => pc = "key" /\ copy' = copy /\ pc' = "content"
    BY DEF KeyUnchanged, Goto
  <2>2. restartPulpCorePods => pc = "key" /\ copy' = copy /\ pc' = "keyRead"
    BY DEF restartPulpCorePods, Goto
  <2> QED BY <1>9, <2>1, <2>2 DEF FlowFrame
<1>10. CASE ReadKey \/ LabelKey
  <2>1. (pc = "keyRead" /\ pc' = "keyLabel") \/ (pc = "keyLabel" /\ pc' = "idle" /\ queue' = TRUE)
    BY <1>10 DEF ReadKey, LabelKey, Goto, Return
  <2> QED BY <2>1 DEF FlowFrame
<1>11. CASE PasswordUnchanged \/ ReadPassword
  <2>1. PasswordUnchanged => pc = "password" /\ pc' = "sums" /\ copy' = copy
    BY DEF PasswordUnchanged, Goto
  <2>2. ReadPassword => pc = "password" /\ pc' = "passwordJob"
    BY DEF ReadPassword, Goto
  <2> QED BY <1>11, <2>1, <2>2 DEF FlowFrame
<1>12. CASE PasswordJob
  <2>1. pc = "passwordJob" /\ pc' = "passwordLabel" /\ copy' = copy
    BY <1>12 DEF PasswordJob, Goto
  <2> QED BY <1>12, <2>1 DEF FlowFrame
<1>13. CASE LabelPassword
  BY <1>13 DEF LabelPassword, FlowFrame
<1>14. CASE PasswordStatus
  <2>1. pc = "passwordStatus" /\ pc' = "sums" /\ copy' = copy
    BY <1>14 DEF PasswordStatus, Goto
  <2> QED BY <1>14, <2>1 DEF FlowFrame
<1>15. CASE ChecksumsUnchanged \/ ChecksumsJob
  <2>1. ChecksumsUnchanged => pc = "sums" /\ copy' = copy /\ pc' = "fields"
    BY DEF ChecksumsUnchanged, Goto
  <2>2. ChecksumsJob => pc = "sums" /\ copy' = copy /\ pc' = "sumsStatus"
    BY DEF ChecksumsJob, Goto
  <2> QED BY <1>15, <2>1, <2>2 DEF FlowFrame
<1>16. CASE ChecksumsStatus
  <2>1. pc = "sumsStatus" /\ pc' = "fields" /\ copy' = copy
    BY <1>16 DEF ChecksumsStatus, Goto
  <2> QED BY <1>16, <2>1 DEF FlowFrame
<1>17. CASE setStatusFields
  <2>1. pc = "fields" /\ pc' = "idle" /\ copy' = copy
    BY <1>17 DEF setStatusFields, Return
  <2> QED BY <1>17, <2>1 DEF FlowFrame
<1>18. CASE OperatorRestart
  <2>1. pc' = "idle" /\ queue' = TRUE /\ copy' = 0
    BY <1>18 DEF OperatorRestart, Return
  <2> QED BY <1>18, <2>1 DEF FlowFrame
<1>19. CASE EditSpec \/ UNCHANGED vars
  BY <1>1, <1>19 DEF EditSpec, vars
<1>20. ASSUME NEW n \in Secrets, EditSecret(n)
       PROVE  pc' = pc /\ copy' = copy
  BY <1>20 DEF EditSecret
<1>21. ASSUME NEW j \in jobs, JobEnds(j) \/ JobExpires(j)
       PROVE  pc' = pc /\ copy' = copy
  BY <1>21 DEF JobEnds, JobExpires
<1> QED
  BY <1>1, <1>2, <1>3, <1>4, <1>5, <1>6, <1>7, <1>8, <1>9, <1>10, <1>11, <1>12, <1>13, <1>14, <1>15, <1>16, <1>17,
     <1>18, <1>19, <1>20, <1>21 DEF Next, Reconcile

-----------------------------------------------------------------------------
(* Migrations.                                                              *)
LEMMA RecordStep ==
  ASSUME JobTypes, CopyInv, RecordInv, [Next]_vars
  PROVE  RecordInv'
<1>f. ResourceFrame /\ CopyFrame /\ GhostFrame /\ FlowFrame
  BY ResourceStep, GhostStep, FlowStep
<1>1. CASE MigrateStorage
  <2>1. pc = "migrate" /\ pc' = "create" /\ UNCHANGED <<made, missed>>
    BY <1>1 DEF MigrateStorage, Goto, ghosts
  <2>2. mem'.spec = mem.spec /\ cr'.st.store = IF fresh THEN mem.spec.store ELSE cr.st.store
    BY <1>1, Records DEF Stored, Others
  <2>3. cr'.st.set = cr.st.set
    BY <1>1, Records DEF Stored, Others
  <2> QED BY <2>1, <2>2, <2>3 DEF RecordInv
<1>2. CASE MigrateSettings
  <2>1. pc = "migrate" /\ made' = made /\ fresh \in BOOLEAN
    BY <1>2 DEF MigrateSettings, JobTypes, LocalOK
  <2>2. \/ pc' = "create" /\ missed' = missed
        \/ missed' = CASE mem.spec.set # made.set -> missed \cup {"set"}
                       [] mem.spec.set = made.set /\ fresh -> missed \ {"set"}
                       [] OTHER -> missed
    BY <1>2 DEF MigrateSettings, Goto
  <2>3. mem'.spec = mem.spec /\ cr'.st.set = IF fresh THEN mem.spec.set ELSE cr.st.set
    BY <1>2, Records DEF Stored, Others
  <2>4. cr'.st.store = cr.st.store /\ ("store" \in missed => "store" \in missed')
    BY <1>2, <2>2, Records DEF Stored, Others
  <2>5. cr'.st.set = made'.set \/ "set" \in missed' \/ (pc' = "create" /\ cr'.st.set = mem'.spec.set)
    BY <2>1, <2>2, <2>3 DEF RecordInv
  <2> QED BY <2>1, <2>4, <2>5 DEF RecordInv
<1>3. CASE migrationJob
  <2>1. made'.store = mem.spec.store /\ made'.set = mem.spec.set /\ Unrecorded \subseteq missed' /\ cr' = cr
    BY <1>3 DEF migrationJob, NoUpdate, JobTypes, Deployed, Runs
  <2> QED BY <2>1 DEF RecordInv, Unrecorded
<1>4. CASE migrationJobFails \/ (OperatorRestart /\ pc = "create")
  <2>1. made' = made /\ missed \cup Unmade(mem.spec) \subseteq missed' /\ cr' = cr
    BY <1>4 DEF migrationJobFails, OperatorRestart, NoUpdate
  <2> QED BY <2>1 DEF RecordInv, Unmade
<1>5. CASE ~MigrateStorage /\ ~MigrateSettings /\ ~migrationJob /\ ~migrationJobFails /\ ~(OperatorRestart /\ pc = "create")
  <2>1. made'.store = made.store /\ made'.set = made.set /\ ("store" \in missed => "store" \in missed')
        /\ ("set" \in missed => "set" \in missed') /\ cr'.st.store = cr.st.store /\ cr'.st.set = cr.st.set
    BY <1>5, <1>f DEF GhostFrame, ResourceFrame
  <2>2. pc = "create" => pc' = "create" /\ mem'.spec = mem.spec
    BY <1>5, <1>f DEF FlowFrame, CopyFrame, StartReconcile
  <2> QED BY <2>1, <2>2 DEF RecordInv
<1> QED BY <1>1, <1>2, <1>3, <1>4, <1>5

(* A Job that is there was there before, or has the image of the copy.      *)
LEMMA JobsStep ==
  ASSUME JobTypes, [Next]_vars
  PROVE  \A j \in jobs' : \/ \E i \in jobs : i.image = j.image
                          \/ j.image = mem.spec.image /\ (migrationJob \/ pc \in AfterMigrate)
<1>1. CASE jobs' = jobs
  BY <1>1
<1>2. ASSUME Create PROVE \A j \in jobs' : (\E i \in jobs : i.image = j.image) \/ j.image = mem.spec.image
  BY <1>2 DEF Create
<1>3. CASE migrationJob
  BY <1>2, <1>3 DEF migrationJob
<1>4. CASE signingScriptJob \/ PasswordJob \/ ChecksumsJob
  <2>1. pc \in AfterMigrate
    BY <1>4 DEF signingScriptJob, PasswordJob, ChecksumsJob, AfterMigrate, AfterScripts, AfterKey, AfterContent,
                AfterPassword
  <2>2. Create \/ UNCHANGED jobs
    BY <1>4 DEF signingScriptJob, PasswordJob, ChecksumsJob
  <2> QED BY <1>2, <2>1, <2>2
<1>5. ASSUME NEW i \in jobs, JobEnds(i) \/ JobExpires(i)
      PROVE  \A j \in jobs' : \E o \in jobs : o.image = j.image
  <2>1. i \in Jobs
    BY DEF JobTypes, OtherOK
  <2>2. [i EXCEPT !.active = FALSE].image = i.image
    BY <2>1 DEF Jobs
  <2> QED BY <1>5, <2>2 DEF JobEnds, JobExpires
<1>6. ASSUME NEW k \in Core, Provision(k) \/ ProvisionFails(k)
      PROVE  jobs' = jobs
  BY <1>6 DEF Provision, ProvisionFails, cluster
<1>7. CASE StartReconcile \/ MigrationsDisabled \/ MigrateStorage \/ MigrateSettings \/ MigrateImage
           \/ migrationJobFails \/ ScriptsUnchanged \/ ReadScripts \/ LabelScripts \/ KeyUnchanged
           \/ restartPulpCorePods \/ ReadKey \/ LabelKey
  BY <1>1, <1>7 DEF StartReconcile, MigrationsDisabled, MigrateStorage, MigrateSettings, MigrateImage,
           migrationJobFails, ScriptsUnchanged, ReadScripts, LabelScripts, KeyUnchanged, restartPulpCorePods,
           ReadKey, LabelKey, cluster
<1>8. CASE PasswordUnchanged \/ ReadPassword \/ LabelPassword \/ PasswordStatus \/ ChecksumsUnchanged
           \/ ChecksumsStatus \/ setStatusFields \/ EditSpec \/ OperatorRestart \/ UNCHANGED vars
  BY <1>1, <1>8 DEF PasswordUnchanged, ReadPassword, LabelPassword, PasswordStatus, ChecksumsUnchanged,
           ChecksumsStatus, setStatusFields, EditSpec, OperatorRestart, vars, cluster
<1>9. ASSUME NEW n \in Secrets, EditSecret(n)
      PROVE  jobs' = jobs
  BY <1>9 DEF EditSecret
<1> QED
  BY <1>1, <1>3, <1>4, <1>5, <1>6, <1>7, <1>8, <1>9 DEF Next, Reconcile

(* Past the migrations, the image of the copy has been migrated.            *)
LEMMA ImageEntered ==
  ASSUME JobTypes, CopyInv, ImageInv, mem \in Pulp, pc' \in AfterMigrate,
         MigrationsDisabled \/ MigrateSettings \/ MigrateImage \/ migrationJob \/ migrationJobFails
  PROVE  mem.spec.image \in Known'
<1>i. mem.spec.image \in Images /\ mem.spec.image # NoName /\ mem.spec.image \notin Tasks
  BY PulpFields, Names
<1>1. CASE MigrationsDisabled \/ migrationJobFails
  <2>1. made' = made /\ (Unmade(mem.spec) \cap Images) \subseteq missed' /\ missed \subseteq missed'
    BY <1>1 DEF MigrationsDisabled, migrationJobFails
  <2> QED BY <2>1, <1>i DEF Unmade, Known
<1>2. CASE migrationJob
  <2>1. made'.images = made.images \cup {mem.spec.image}
    BY <1>2 DEF migrationJob, JobTypes, Deployed, Runs
  <2> QED BY <2>1 DEF Known
<1>3. CASE MigrateSettings \/ MigrateImage
  <2>1. pc = "migrate" /\ made' = made /\ missed \ {"set"} \subseteq missed'
    BY <1>3 DEF MigrateSettings, MigrateImage, ghosts
  <2>2. pc' # "create"
    BY DEF AfterMigrate, AfterScripts, AfterKey, AfterContent, AfterPassword, AfterSums
  <2>3. PICK list : list \in {jobs, {}} /\ ~(ImageChanged /\ ~migrationDone(list))
    <3>1. CASE MigrateSettings
      <4>1. PICK list \in {jobs, {}} : IF hasActiveJobRunning(list) /\ ~(ImageChanged /\ ~migrationDone(list))
                                       THEN Goto("scripts") ELSE Goto("create")
        BY <3>1 DEF MigrateSettings
      <4> QED BY <4>1, <2>2 DEF Goto
    <3>2. CASE MigrateImage
      <4>1. PICK list \in {jobs, {}} : Goto(IF ImageChanged /\ ~migrationDone(list) THEN "create" ELSE "scripts")
        BY <3>2 DEF MigrateImage
      <4> QED BY <4>1, <2>2 DEF Goto
    <3> QED BY <1>3, <3>1, <3>2
  <2>4. mem.spec.image \in Known
    <3>1. CASE ~ImageChanged
      BY <3>1, <2>1, <1>i DEF ImageChanged, ImageInv
    <3>2. CASE migrationDone(list)
      BY <3>2, <2>3 DEF migrationDone, ImageInv
    <3> QED BY <2>3, <3>1, <3>2
  <2>5. "set" \in Tasks
    BY DEF Tasks
  <2> QED BY <2>1, <2>4, <2>5, <1>i DEF Known
<1> QED BY <1>1, <1>2, <1>3

LEMMA ImageStep ==
  ASSUME JobTypes, CopyInv, ImageInv, [Next]_vars
  PROVE  ImageInv'
<1>f. ResourceFrame /\ CopyFrame /\ GhostFrame /\ FlowFrame
  BY ResourceStep, GhostStep, FlowStep
<1>c. cr \in Pulp /\ (pc # "idle" => mem \in Pulp) /\ jobs \subseteq Jobs
  BY Copy DEF JobTypes, CopyOK, OtherOK
<1>k. \A i \in Images : i \in Known => i \in Known'
  BY <1>f DEF GhostFrame
<1>e. AfterMigrate \cap {"idle", "migrate", "create", "api"} = {}
  BY DEF AfterMigrate, AfterScripts, AfterKey, AfterContent, AfterPassword, AfterSums
<1>1. \A j \in jobs' : j.image \in Known'
  <2> SUFFICES ASSUME NEW j \in jobs' PROVE j.image \in Known'
    OBVIOUS
  <2>1. CASE \E i \in jobs : i.image = j.image
    BY <2>1, <1>c, <1>k DEF ImageInv, Jobs
  <2>2. CASE j.image = mem.spec.image /\ pc \in AfterMigrate
    BY <2>2, <1>c, <1>k, <1>e, PulpFields DEF ImageInv
  <2>3. CASE j.image = mem.spec.image /\ migrationJob
    <3>1. made'.images = made.images \cup {mem.spec.image}
      BY <2>3 DEF migrationJob, JobTypes, Deployed, Runs
    <3> QED BY <2>3, <3>1 DEF Known
  <2> QED BY <2>1, <2>2, <2>3, JobsStep
<1>2. cr'.st.image \in Known' \cup {NoName}
  <2>1. CASE setStatusFields
    <3>1. pc \in AfterMigrate /\ mem \in Pulp
      BY <2>1, <1>c DEF setStatusFields, AfterMigrate, AfterScripts, AfterKey, AfterContent, AfterPassword, AfterSums
    <3>2. cr'.st.image = mem.spec.image \/ cr'.st.image = cr.st.image
      BY <2>1, Records
    <3> QED BY <3>1, <3>2, <1>c, <1>k, PulpFields DEF ImageInv
  <2>2. CASE ~setStatusFields
    BY <2>2, <1>f, <1>c, <1>k, PulpFields DEF ResourceFrame, ImageInv
  <2> QED BY <2>1, <2>2
<1>3. pc' # "idle" => mem'.st.image \in Known' \cup {NoName}
  <2>1. CASE StartReconcile
    BY <2>1, <1>c, <1>k, PulpFields DEF StartReconcile, ImageInv
  <2>2. CASE ~StartReconcile
    BY <2>2, <1>f, <1>c, <1>k, PulpFields DEF CopyFrame, ImageInv
  <2> QED BY <2>1, <2>2
<1>4. pc' \in AfterMigrate => mem'.spec.image \in Known'
  <2> HAVE pc' \in AfterMigrate
  <2>1. ~StartReconcile /\ pc' # "idle"
    BY <1>e DEF StartReconcile
  <2>2. pc # "idle" /\ mem'.spec = mem.spec
    BY <2>1, <1>f DEF CopyFrame
  <2>3. CASE pc \in AfterMigrate
    BY <2>2, <2>3, <1>c, <1>k, PulpFields DEF ImageInv
  <2>4. CASE pc \notin AfterMigrate
    BY <2>2, <2>4, <1>f, <1>c, ImageEntered DEF FlowFrame
  <2> QED BY <2>3, <2>4
<1> QED BY <1>1, <1>2, <1>3, <1>4 DEF ImageInv

(* Nothing came in since the steps of S: it was so before, or the last of   *)
(* them was just made, with a copy that is the resource.                    *)
LEMMA StillStep ==
  ASSUME JobTypes, CopyInv, [Next]_vars, NEW S, "fields" \in S, S \cap {"api", "idle"} = {}, Still(S)'
  PROVE  /\ queue = FALSE /\ cr'.spec = cr.spec
         /\ Still(S) \/ (pc' \in S /\ pc \notin S /\ pc # "idle" /\ fresh /\ cr = mem)
<1>f. ResourceFrame /\ CopyFrame /\ QueueFrame
  BY ResourceStep
<1>b. queue \in BOOLEAN /\ queue' \in BOOLEAN /\ ~queue'
  BY TypeStep DEF JobTypes, LocalOK, Still
<1>1. ~StartReconcile
  BY DEF StartReconcile, Still
<1>2. queue = FALSE
  BY <1>1, <1>b, <1>f DEF QueueFrame
<1>3. ~EditSpec
  BY <1>b DEF EditSpec
<1>4. cr'.spec = cr.spec
  BY <1>3, <1>f DEF ResourceFrame
<1>5. CASE pc' = "idle"
  <2>1. pc = "idle" \/ pc = "fields"
    BY <1>5, <1>b, <1>f DEF QueueFrame, setStatusFields
  <2> QED BY <2>1, <1>2, <1>4 DEF Still
<1>6. CASE pc' # "idle"
  <2>1. pc # "idle" /\ pc' \in S
    BY <1>1, <1>6, <1>f DEF CopyFrame, Still
  <2> QED BY <2>1, <1>2, <1>4 DEF Still, CopyInv
<1> QED BY <1>5, <1>6

LEMMA Parts ==
  /\ \A S \in {ApiDone, AfterMigrate, AfterScripts, AfterKey, AfterContent, AfterPassword, AfterSums} :
       "fields" \in S /\ S \cap {"api", "idle"} = {}
  /\ AfterMigrate \cap {"migrate", "create"} = {}
  /\ AfterScripts \cap {"migrate", "create", "scripts", "scriptsJob"} = {}
  /\ AfterKey \cap {"scripts", "scriptsJob", "scriptsLabel", "key", "keyRead", "keyLabel"} = {}
  /\ AfterContent \cap {"content", "key", "keyRead", "keyLabel"} = {}
  /\ AfterPassword \cap {"password", "passwordJob"} = {}
  /\ AfterSums \cap {"password", "passwordJob", "passwordLabel", "passwordStatus", "sums"} = {}
  BY DEF ApiDone, AfterMigrate, AfterScripts, AfterKey, AfterContent, AfterPassword, AfterSums

LEMMA MigrateStep ==
  ASSUME JobTypes, CopyInv, RecordInv, ImageInv, MigrateInv, [Next]_vars
  PROVE  MigrateInv'
<1> SUFFICES ASSUME Still(AfterMigrate)', ~cr'.spec.off
             PROVE  Unmade(cr.spec)' \subseteq missed'
  BY DEF MigrateInv
<1>s. /\ queue = FALSE /\ cr'.spec = cr.spec
      /\ \/ Still(AfterMigrate)
         \/ pc' \in AfterMigrate /\ pc \notin AfterMigrate /\ pc # "idle" /\ fresh /\ cr = mem
  BY StillStep, Parts
<1>f. GhostFrame /\ FlowFrame
  BY GhostStep, FlowStep
<1>c. cr \in Pulp /\ cr.spec.image \in Images
  BY PulpFields DEF JobTypes, CopyOK
<1> SUFFICES /\ cr.spec.image \in Known'
             /\ cr.spec.store = made'.store \/ "store" \in missed'
             /\ cr.spec.set = made'.set \/ "set" \in missed'
  BY <1>s DEF Unmade, Known
<1>1. CASE Still(AfterMigrate)
  <2>1. Unmade(cr.spec) \subseteq missed
    BY <1>1, <1>s DEF MigrateInv
  <2>2. cr.spec.image \in Known'
    BY <2>1, <1>f, <1>c DEF Unmade, Known, GhostFrame
  <2>3. ~migrationJob /\ ~MigrateSettings
    BY <1>1, Parts DEF Still, migrationJob, MigrateSettings
  <2> QED BY <2>1, <2>2, <2>3, <1>f DEF GhostFrame, Unmade
<1>2. CASE pc' \in AfterMigrate /\ pc \notin AfterMigrate /\ pc # "idle" /\ fresh /\ cr = mem
  <2>1. MigrateSettings \/ MigrateImage \/ migrationJob \/ migrationJobFails
    BY <1>2, <1>f, <1>s DEF FlowFrame, MigrationsDisabled
  <2>2. cr.spec.image \in Known'
    BY <1>2, <2>1, <1>c, ImageEntered
  <2>3. CASE MigrateSettings \/ MigrateImage
    <3>1. pc = "migrate" /\ made' = made /\ missed \ {"set"} \subseteq missed' /\ mem.st.store = mem.spec.store
      BY <2>3 DEF MigrateSettings, MigrateImage, ghosts, StorageTypeChanged
    <3>2. cr.spec.store = made.store \/ "store" \in missed
      BY <3>1, <1>2 DEF RecordInv
    <3>3. cr.spec.set = made.set \/ "set" \in missed'
      <4>1. CASE MigrateImage
        <5>1. mem.st.set = mem.spec.set /\ missed' = missed
          BY <4>1 DEF MigrateImage, SettingsChanged, ghosts
        <5> QED BY <5>1, <3>1, <1>2 DEF RecordInv
      <4>2. CASE MigrateSettings
        <5>1. pc' # "create"
          BY <1>2, Parts
        <5>2. missed' = CASE mem.spec.set # made.set -> missed \cup {"set"}
                          [] mem.spec.set = made.set /\ fresh -> missed \ {"set"}
                          [] OTHER -> missed
          BY <4>2, <5>1 DEF MigrateSettings, Goto
        <5> QED BY <5>2, <1>2
      <4> QED BY <2>3, <4>1, <4>2
    <3> QED BY <2>2, <3>1, <3>2, <3>3
  <2>4. CASE migrationJob
    <3>1. made'.store = mem.spec.store /\ made'.set = mem.spec.set
      BY <2>4 DEF migrationJob, JobTypes, Deployed, Runs
    <3> QED BY <2>2, <3>1, <1>2
  <2>5. CASE migrationJobFails
    <3>1. made' = made /\ Unmade(mem.spec) \subseteq missed'
      BY <2>5 DEF migrationJobFails
    <3> QED BY <2>2, <3>1, <1>2 DEF Unmade
  <2> QED BY <2>1, <2>3, <2>4, <2>5
<1> QED BY <1>s, <1>1, <1>2

-----------------------------------------------------------------------------
(* The Secrets.                                                             *)
LEMMA DataStep ==
  ASSUME JobTypes, CopyInv, DataInv, [Next]_vars
  PROVE  DataInv'
<1>f. CopyFrame /\ SecretFrame /\ FlowFrame
  BY ResourceStep, SecretStep, FlowStep
<1>t. /\ \A n \in Secrets : secret[n].data \in Nat /\ secret[n].label \in Nat
      /\ copy \in Nat
  BY DEF JobTypes, DataOK
<1>1. \A n \in Secrets : secret[n].data <= secret'[n].data
  BY <1>f, <1>t DEF SecretFrame
<1>2. \A n \in Secrets : secret'[n].data >= 1 /\ secret'[n].label <= secret'[n].data
  BY <1>f, <1>t DEF SecretFrame, DataInv
<1>t2. \A n \in Secrets : secret'[n].data \in Nat
  BY TypeStep DEF JobTypes, DataOK
<1>3. pc' \in {"scriptsJob", "scriptsLabel"} => copy' <= secret'["scripts"].data
  <2> HAVE pc' \in {"scriptsJob", "scriptsLabel"}
  <2>1. CASE ReadScripts
    BY <2>1, <1>t, Names DEF ReadScripts, Read, cluster
  <2>2. CASE signingScriptJob
    BY <2>2, <1>1, Names DEF signingScriptJob, DataInv
  <2>3. CASE ~ReadScripts /\ ~signingScriptJob
    <3>1. pc = pc' /\ copy' = copy
      BY <2>3, <1>f DEF FlowFrame
    <3> QED BY <3>1, <1>1, <1>t, <1>t2, Names DEF DataInv
  <2> QED BY <2>1, <2>2, <2>3
<1>4. pc' \in {"passwordJob", "passwordLabel"} => copy' <= secret'[mem'.spec.admin].data
  <2> HAVE pc' \in {"passwordJob", "passwordLabel"}
  <2>0. pc # "idle" /\ mem'.spec = mem.spec
    BY <1>f DEF CopyFrame, StartReconcile
  <2>m. mem.spec.admin \in Secrets
    BY <2>0, Copy, PulpFields DEF JobTypes
  <2>1. CASE ReadPassword
    BY <2>0, <2>m, <2>1, <1>t DEF ReadPassword, Read, cluster
  <2>2. CASE PasswordJob
    BY <2>0, <2>m, <2>2, <1>1 DEF PasswordJob, DataInv
  <2>3. CASE ~ReadPassword /\ ~PasswordJob
    <3>1. pc = pc' /\ copy' = copy
      BY <2>3, <1>f DEF FlowFrame
    <3> QED BY <2>0, <2>m, <3>1, <1>1, <1>t, <1>t2 DEF DataInv
  <2> QED BY <2>1, <2>2, <2>3
<1> QED BY <1>2, <1>3, <1>4 DEF DataInv

(* Scripts of the Secret's data were handed to a Job, or that was dropped.  *)
ScriptsDone == made.scripts = secret["scripts"].data \/ "scripts" \in missed

LEMMA ScriptsJobMade ==
  ASSUME JobTypes, signingScriptJob
  PROVE  ScriptsDone'
<1>1. CASE "scripts" \in missed'
  BY <1>1 DEF ScriptsDone
<1>2. CASE made' = [made EXCEPT !.scripts = secret["scripts"].data]
  <2>1. made'.scripts = secret["scripts"].data /\ secret' = secret
    BY <1>2 DEF signingScriptJob, JobTypes, Deployed, Runs
  <2> QED BY <2>1 DEF ScriptsDone
<1> QED BY <1>1, <1>2 DEF signingScriptJob

LEMMA ScriptsStep ==
  ASSUME JobTypes, CopyInv, DataInv, ScriptsInv, [Next]_vars
  PROVE  ScriptsInv'
<1>f. ResourceFrame /\ SecretFrame /\ FlowFrame /\ GhostFrame /\ "scripts" \in Secrets
  BY ResourceStep, SecretStep, FlowStep, GhostStep, Names
<1>t. secret["scripts"].data \in Nat /\ secret["scripts"].label \in Nat /\ copy \in Nat
  BY <1>f DEF JobTypes, DataOK
<1>1. signingScriptJob => ScriptsDone'
  BY ScriptsJobMade
<1>2. ScriptsDone /\ ~EditSecret("scripts") => ScriptsDone'
  <2>1. ~EditSecret("scripts") => secret'["scripts"].data = secret["scripts"].data
    BY <1>f DEF SecretFrame
  <2> QED BY <2>1, <1>1, <1>f DEF GhostFrame, ScriptsDone
<1>3. EditSecret("scripts") =>
        /\ secret["scripts"].label < secret'["scripts"].data /\ secret'["scripts"].label = secret["scripts"].label
        /\ pc = "scriptsLabel" => copy < secret'["scripts"].data
  BY <1>f, <1>t DEF EditSecret, JobTypes, DataOK, DataInv
<1>4. secret'["scripts"].label = secret'["scripts"].data => ScriptsDone'
  <2> HAVE secret'["scripts"].label = secret'["scripts"].data
  <2>1. ~EditSecret("scripts")
    BY <1>3, <1>t
  <2>2. CASE secret'["scripts"] = secret["scripts"]
    BY <2>1, <2>2, <1>2 DEF ScriptsInv, ScriptsDone
  <2>3. CASE LabelScripts /\ copy = secret["scripts"].data
    BY <2>1, <2>3, <1>2 DEF ScriptsInv, ScriptsDone, LabelScripts
  <2>4. CASE LabelPassword /\ "scripts" = mem.spec.admin
    <3>1. mem \in Pulp
      BY <2>4, Copy DEF JobTypes, LabelPassword
    <3> QED BY <2>4, <3>1, PulpFields, Names
  <2> QED BY <2>1, <2>2, <2>3, <2>4, <1>f DEF SecretFrame
<1>5. pc' = "scriptsLabel" /\ copy' = secret'["scripts"].data => ScriptsDone'
  <2> HAVE pc' = "scriptsLabel" /\ copy' = secret'["scripts"].data
  <2>1. CASE ~signingScriptJob
    <3>1. pc = "scriptsLabel" /\ copy' = copy
      BY <2>1, <1>f DEF FlowFrame
    <3>2. ~EditSecret("scripts")
      BY <3>1, <1>3, <1>t
    <3>3. copy = secret["scripts"].data
      BY <3>1, <3>2, <1>f DEF SecretFrame
    <3> QED BY <3>1, <3>2, <3>3, <1>2 DEF ScriptsInv, ScriptsDone
  <2> QED BY <2>1, <1>1
<1>6. Still(AfterScripts)' /\ cr'.spec.sign => ScriptsDone'
  <2> HAVE Still(AfterScripts)' /\ cr'.spec.sign
  <2>s. /\ queue = FALSE /\ cr'.spec = cr.spec
        /\ \/ Still(AfterScripts)
           \/ pc' \in AfterScripts /\ pc \notin AfterScripts /\ pc # "idle" /\ fresh /\ cr = mem
    BY StillStep, Parts
  <2>1. ~EditSecret("scripts")
    BY <2>s DEF EditSecret, Watched, Still
  <2>2. CASE Still(AfterScripts)
    BY <2>s, <2>1, <2>2, <1>2 DEF ScriptsInv, ScriptsDone
  <2>3. CASE ScriptsUnchanged /\ cr = mem
    BY <2>s, <2>1, <2>3, <1>2 DEF ScriptsUnchanged, secretModified, ScriptsInv, ScriptsDone
  <2> QED BY <2>s, <2>2, <2>3, <1>1, <1>f DEF FlowFrame
<1> QED BY <1>4, <1>5, <1>6 DEF ScriptsInv, ScriptsDone

(* The same of the admin password in a Secret n.                            *)
PasswordDone(n) == PasswordFor(n) \/ "password" \in missed

LEMMA PasswordJobMade ==
  ASSUME JobTypes, PasswordJob
  PROVE  /\ PasswordDone(mem.spec.admin)'
         /\ \A n \in AdminSecrets : made'.password.of = n => PasswordDone(n)'
<1>1. CASE "password" \in missed'
  BY <1>1 DEF PasswordDone
<1>2. CASE made' = [made EXCEPT !.password = [of |-> mem.spec.admin, data |-> secret[mem.spec.admin].data]]
  <2>1. made'.password = [of |-> mem.spec.admin, data |-> secret[mem.spec.admin].data] /\ secret' = secret
        /\ mem' = mem
    BY <1>2 DEF PasswordJob, JobTypes, Deployed, Runs, NoUpdate
  <2> QED BY <2>1 DEF PasswordDone, PasswordFor
<1> QED BY <1>1, <1>2 DEF PasswordJob

LEMMA PasswordStep ==
  ASSUME JobTypes, CopyInv, DataInv, PasswordInv, [Next]_vars
  PROVE  PasswordInv'
<1>f. ResourceFrame /\ CopyFrame /\ SecretFrame /\ FlowFrame /\ GhostFrame
  BY ResourceStep, SecretStep, FlowStep, GhostStep
<1>n. AdminSecrets \subseteq Secrets
  BY DEF Secrets
<1>t. copy \in Nat /\ \A n \in Secrets : secret[n].data \in Nat /\ secret[n].label \in Nat
  BY DEF JobTypes, DataOK
<1>c. cr \in Pulp /\ cr.spec.admin \in AdminSecrets /\ (pc # "idle" => mem \in Pulp /\ mem.spec.admin \in AdminSecrets)
  BY Copy, PulpFields DEF JobTypes, CopyOK
<1>2. \A n \in AdminSecrets : PasswordDone(n) /\ ~EditSecret(n) /\ ~PasswordJob => PasswordDone(n)'
  <2>1. \A n \in AdminSecrets : ~EditSecret(n) => secret'[n].data = secret[n].data
    BY <1>f, <1>n DEF SecretFrame
  <2> QED BY <2>1, <1>f DEF GhostFrame, PasswordDone, PasswordFor
<1>3. \A n \in AdminSecrets : EditSecret(n) =>
        /\ secret[n].label < secret'[n].data /\ secret'[n].label = secret[n].label
        /\ pc = "passwordLabel" /\ n = mem.spec.admin => copy < secret'[n].data
  BY <1>n, <1>t DEF EditSecret, JobTypes, DataOK, DataInv
<1>4. pc' \notin {"passwordLabel", "passwordStatus"} => made'.password.of = cr'.st.admin \/ "password" \in missed'
  <2> HAVE pc' \notin {"passwordLabel", "passwordStatus"}
  <2>1. CASE PasswordStatus \/ OperatorRestart
    BY <2>1 DEF PasswordStatus, OperatorRestart, Forgotten
  <2>2. CASE ~PasswordStatus /\ ~OperatorRestart
    <3>1. pc \notin {"passwordLabel", "passwordStatus"} /\ ~PasswordJob
      BY <2>2, <1>f DEF FlowFrame, PasswordJob, Goto
    <3> QED BY <2>2, <3>1, <1>f DEF PasswordInv, ResourceFrame, GhostFrame
  <2> QED BY <2>1, <2>2
<1>5. ASSUME NEW n \in AdminSecrets, made'.password.of = n, secret'[n].label = secret'[n].data
      PROVE  PasswordDone(n)'
  <2>1. CASE PasswordJob
    BY <2>1, <1>5, PasswordJobMade
  <2>2. CASE ~PasswordJob
    <3>1. made.password = made'.password /\ ~EditSecret(n)
      BY <2>2, <1>3, <1>5, <1>f, <1>n, <1>t DEF GhostFrame
    <3>2. n # "scripts" /\ n # "key"
      BY Names
    <3>3. CASE secret'[n] = secret[n]
      BY <2>2, <3>1, <3>3, <1>2, <1>5 DEF PasswordInv, PasswordDone
    <3>4. CASE LabelPassword /\ n = mem.spec.admin /\ copy = secret[n].data
      BY <2>2, <3>1, <3>4, <1>2 DEF PasswordInv, PasswordDone, LabelPassword
    <3> QED BY <3>1, <3>2, <3>3, <3>4, <1>f, <1>n DEF SecretFrame
  <2> QED BY <2>1, <2>2
<1>6. pc' = "passwordLabel" /\ copy' = secret'[mem'.spec.admin].data => PasswordDone(mem.spec.admin)'
  <2> HAVE pc' = "passwordLabel" /\ copy' = secret'[mem'.spec.admin].data
  <2>1. CASE ~PasswordJob
    <3>1. pc = "passwordLabel" /\ copy' = copy /\ mem'.spec = mem.spec
      BY <2>1, <1>f DEF FlowFrame, CopyFrame, StartReconcile
    <3>5. mem.spec.admin \in AdminSecrets
      BY <3>1, <1>c
    <3>6. copy = secret'[mem.spec.admin].data
      BY <3>1
    <3>2. mem.spec.admin \in AdminSecrets /\ ~EditSecret(mem.spec.admin)
      BY <3>1, <3>5, <3>6, <1>3, <1>t
    <3>3. copy = secret[mem.spec.admin].data
      BY <3>1, <3>2, <1>f, <1>n DEF SecretFrame
    <3>4. PasswordDone(mem.spec.admin)
      BY <3>1, <3>3 DEF PasswordInv, PasswordDone
    <3> QED BY <2>1, <3>1, <3>2, <3>4, <1>2 DEF PasswordDone, PasswordFor
  <2> QED BY <2>1, PasswordJobMade
<1>7. Still(AfterPassword)' => PasswordDone(cr.spec.admin)'
  <2> HAVE Still(AfterPassword)'
  <2>s. /\ queue = FALSE /\ cr'.spec = cr.spec
        /\ \/ Still(AfterPassword)
           \/ pc' \in AfterPassword /\ pc \notin AfterPassword /\ pc # "idle" /\ fresh /\ cr = mem
    BY StillStep, Parts
  <2>1. ~EditSecret(cr.spec.admin)
    BY <2>s DEF EditSecret, Watched, Still
  <2>2. CASE PasswordDone(cr.spec.admin) /\ ~PasswordJob
    BY <2>s, <2>1, <2>2, <1>2, <1>c DEF PasswordDone, PasswordFor
  <2>3. CASE Still(AfterPassword)
    <3>1. ~PasswordJob
      BY <2>3, Parts DEF Still, PasswordJob
    <3> QED BY <2>2, <2>3, <3>1 DEF PasswordInv, PasswordDone
  <2>4. CASE PasswordUnchanged /\ cr = mem
    <3>1. pc = "password" /\ cr.st.admin = cr.spec.admin /\ secret[cr.spec.admin].label = secret[cr.spec.admin].data
          /\ ~PasswordJob
      BY <2>4 DEF PasswordUnchanged, secretModified, PasswordJob
    <3> QED BY <2>2, <3>1, <1>c DEF PasswordInv, PasswordDone
  <2>5. CASE PasswordJob /\ cr = mem
    <3>1. PasswordDone(mem.spec.admin)' /\ mem' = mem
      BY <2>5, PasswordJobMade DEF PasswordJob, NoUpdate
    <3> QED BY <2>5, <2>s, <3>1 DEF PasswordDone, PasswordFor
  <2> QED BY <2>s, <2>3, <2>4, <2>5, <1>f DEF FlowFrame
<1> QED BY <1>4, <1>5, <1>6, <1>7 DEF PasswordInv, PasswordDone

LEMMA SumsStep ==
  ASSUME JobTypes, CopyInv, SumsInv, [Next]_vars
  PROVE  SumsInv'
<1>f. ResourceFrame /\ FlowFrame /\ GhostFrame
  BY ResourceStep, FlowStep, GhostStep
<1>1. pc' # "sumsStatus" => made'.sums = cr'.st.sums \/ "sums" \in missed'
  <2> HAVE pc' # "sumsStatus"
  <2>1. CASE ChecksumsStatus \/ OperatorRestart
    BY <2>1 DEF ChecksumsStatus, OperatorRestart, Forgotten
  <2>2. CASE ~ChecksumsStatus /\ ~OperatorRestart
    <3>1. pc # "sumsStatus" /\ ~ChecksumsJob
      BY <2>2, <1>f DEF FlowFrame, ChecksumsJob, Goto
    <3> QED BY <2>2, <3>1, <1>f DEF SumsInv, ResourceFrame, GhostFrame
  <2> QED BY <2>1, <2>2
<1>2. Still(AfterSums)' => made'.sums = cr'.spec.sums \/ "sums" \in missed'
  <2> HAVE Still(AfterSums)'
  <2>s. /\ queue = FALSE /\ cr'.spec = cr.spec
        /\ \/ Still(AfterSums)
           \/ pc' \in AfterSums /\ pc \notin AfterSums /\ pc # "idle" /\ fresh /\ cr = mem
    BY StillStep, Parts
  <2>1. CASE Still(AfterSums)
    <3>1. ~ChecksumsJob
      BY <2>1, Parts DEF Still, ChecksumsJob
    <3> QED BY <2>s, <2>1, <3>1, <1>f DEF SumsInv, GhostFrame
  <2>2. CASE ChecksumsUnchanged /\ cr = mem
    BY <2>s, <2>2 DEF ChecksumsUnchanged, SumsInv, ghosts
  <2>3. CASE ChecksumsJob /\ cr = mem
    <3>1. "sums" \in missed' \/ made' = [made EXCEPT !.sums = mem.spec.sums]
      BY <2>3 DEF ChecksumsJob
    <3>2. "sums" \in missed' \/ made'.sums = mem.spec.sums
      BY <3>1 DEF JobTypes, Deployed, Runs
    <3> QED BY <2>s, <2>3, <3>2
  <2> QED BY <2>s, <2>1, <2>2, <2>3, <1>f DEF FlowFrame
<1> QED BY <1>1, <1>2 DEF SumsInv

-----------------------------------------------------------------------------
(* The signing key.                                                         *)
LEMMA FromTypes == \A f \in Froms : f.last \in Nat
  BY DEF Froms, NoPods

(* A Deployment that is not written fits the copy; one that is has the key. *)
LEMMA Provisioned ==
  ASSUME JobTypes, NEW k \in Core, Provision(k)
  PROVE  /\ pc = k /\ mem \in Pulp /\ cr' = cr /\ secret' = secret /\ pods'[k].from.last = mem.st.last
         /\ pods'[k] = pods[k] \/ pods'[k].key = secret["key"].data
         /\ pc' \notin {"keyRead", "keyLabel"}
<1>1. pc = k /\ pc # "idle" /\ cr' = cr /\ secret' = secret
  BY DEF Provision, Core
<1>2. mem \in Pulp
  BY <1>1, Copy DEF JobTypes
<1>3. Template(mem).last = mem.st.last
  BY <1>2, TemplateType
<1>4. pods \in [Core -> [from : Froms, key : Nat]]
  BY DEF JobTypes, Deployed
<1>5. CASE pods[k].from = Template(mem)
  <2>1. pods' = pods /\ pc' = After[k]
    BY <1>5 DEF Provision, Goto
  <2>2. After[k] \notin {"keyRead", "keyLabel"}
    BY DEF After, Core
  <2> HIDE DEF After
  <2> QED BY <1>1, <1>2, <1>3, <1>5, <2>1, <2>2
<1>6. CASE pods[k].from # Template(mem)
  <2>1. pods' = [pods EXCEPT ![k] = [from |-> Template(mem), key |-> secret["key"].data]] /\ pc' = "idle"
    BY <1>6 DEF Provision, Return
  <2>2. pods'[k] = [from |-> Template(mem), key |-> secret["key"].data]
    BY <2>1, <1>4
  <2> QED BY <1>1, <1>2, <1>3, <2>1, <2>2
<1> QED BY <1>5, <1>6

LEMMA LastStep ==
  ASSUME JobTypes, CopyInv, LastInv, [Next]_vars
  PROVE  LastInv'
<1>f. ResourceFrame /\ CopyFrame /\ SecretFrame /\ FlowFrame
  BY ResourceStep, SecretStep, FlowStep
<1>t. /\ cr \in Pulp /\ cr.st.last \in Nat /\ (pc # "idle" => mem \in Pulp /\ mem.st.last \in Nat)
      /\ \A c \in Core : pods[c].from.last \in Nat
  BY Copy, PulpFields, FromTypes DEF JobTypes, CopyOK, Deployed
<1>1. pc' \notin {"idle", "keyRead", "keyLabel"} => mem'.st.last = cr'.st.last
  <2> HAVE pc' \notin {"idle", "keyRead", "keyLabel"}
  <2>1. CASE StartReconcile
    BY <2>1 DEF StartReconcile
  <2>2. CASE ~StartReconcile
    <3>1. ~restartPulpCorePods
      BY DEF restartPulpCorePods, Goto
    <3>2. pc \notin {"idle", "keyRead", "keyLabel"}
      BY <2>2, <1>f DEF CopyFrame, FlowFrame
    <3> QED BY <2>2, <3>1, <3>2, <1>f DEF CopyFrame, ResourceFrame, LastInv
  <2> QED BY <2>1, <2>2
<1>2. cr.st.last <= cr'.st.last /\ cr'.st.last \in Nat
  <2>1. CASE restartPulpCorePods
    <3>1. pc = "key" /\ cr'.st.last = IF fresh THEN mem.st.last + 1 ELSE cr.st.last
      BY <2>1, Records DEF restartPulpCorePods
    <3> QED BY <3>1, <1>t DEF LastInv
  <2>2. CASE ~restartPulpCorePods
    BY <2>2, <1>f, <1>t DEF ResourceFrame
  <2> QED BY <2>1, <2>2
<1>3. ASSUME NEW c \in Core PROVE pods'[c].from.last <= cr'.st.last
  <2>1. CASE pods'[c] = pods[c]
    BY <2>1, <1>2, <1>t DEF LastInv
  <2>2. CASE Provision(c)
    <3>1. pc = c /\ pods'[c].from.last = mem.st.last
      BY <2>2, Provisioned
    <3>2. mem.st.last = cr.st.last
      BY <3>1 DEF Core, LastInv
    <3> QED BY <3>1, <3>2, <1>2, <1>t
  <2> QED BY <2>1, <2>2, <1>f DEF SecretFrame
<1> QED BY <1>1, <1>3 DEF LastInv

KeyRun == pc \in {"keyRead", "keyLabel"}

(* The key is still to be labelled, was dropped, or every pod has it or     *)
(* will be restarted.                                                       *)
KeyReaches ==
  \/ ~KeyRun /\ secret["key"].label # secret["key"].data
  \/ "key" \in missed
  \/ \A c \in Core : pods[c].from.last < cr.st.last \/ (pods[c].key = secret["key"].data /\ ~KeyRun)

LEMMA KeyReachesStep ==
  ASSUME JobTypes, CopyInv, DataInv, LastInv, KeyReaches, [Next]_vars
  PROVE  KeyReaches'
<1>f. ResourceFrame /\ SecretFrame /\ FlowFrame /\ GhostFrame /\ "key" \in Secrets
  BY ResourceStep, SecretStep, FlowStep, GhostStep, Names
<1>t. /\ cr.st.last \in Nat /\ (pc # "idle" => mem \in Pulp /\ mem.st.last \in Nat)
      /\ \A c \in Core : pods[c].from.last \in Nat
      /\ secret["key"].data \in Nat /\ secret["key"].label \in Nat
  BY <1>f, Copy, PulpFields, FromTypes DEF JobTypes, CopyOK, Deployed, DataOK
<1>1. CASE restartPulpCorePods
  <2>1. pc = "key" /\ pods' = pods /\ cr'.st.last = IF fresh THEN mem.st.last + 1 ELSE cr.st.last
    BY <1>1, Records DEF restartPulpCorePods, cluster
  <2>2. CASE fresh
    <3>1. \A c \in Core : pods'[c].from.last < cr'.st.last
      BY <2>1, <2>2, <1>t DEF LastInv
    <3> QED BY <3>1 DEF KeyReaches
  <2>3. CASE ~fresh
    <3>1. "key" \in missed'
      BY <1>1, <2>3 DEF restartPulpCorePods
    <3> QED BY <3>1 DEF KeyReaches
  <2> QED BY <2>2, <2>3
<1>2. CASE ~restartPulpCorePods
  <2>1. cr'.st.last = cr.st.last /\ ("key" \in missed => "key" \in missed') /\ (~KeyRun => ~KeyRun')
    BY <1>2, <1>f DEF ResourceFrame, GhostFrame, FlowFrame, KeyRun
  <2>2. CASE ~KeyRun /\ secret["key"].label # secret["key"].data
    <3>1. ~LabelKey
      BY <2>2 DEF LabelKey, KeyRun
    <3>2. ~(LabelPassword /\ "key" = mem.spec.admin)
      BY <1>t, PulpFields, Names DEF LabelPassword
    <3>3. secret'["key"].label # secret'["key"].data
      BY <2>2, <3>1, <3>2, <1>f, <1>t DEF SecretFrame, DataInv
    <3> QED BY <2>1, <2>2, <3>3 DEF KeyReaches
  <2>3. CASE "key" \in missed
    BY <2>1, <2>3 DEF KeyReaches
  <2>4. CASE \A c \in Core : pods[c].from.last < cr.st.last \/ (pods[c].key = secret["key"].data /\ ~KeyRun)
    <3>1. CASE KeyRun
      <4>1. \A c \in Core : ~Provision(c)
        BY <3>1 DEF Provision, KeyRun, Core
      <4>2. \A c \in Core : pods'[c] = pods[c]
        BY <4>1, <1>f DEF SecretFrame
      <4> QED BY <2>1, <2>4, <3>1, <4>2 DEF KeyReaches
    <3>2. CASE ~KeyRun /\ EditSecret("key")
      <4>1. secret'["key"].label # secret'["key"].data
        BY <3>2, <1>f, <1>t DEF EditSecret, DataInv, JobTypes, DataOK
      <4> QED BY <2>1, <3>2, <4>1 DEF KeyReaches
    <3>3. CASE ~KeyRun /\ ~EditSecret("key")
      <4>1. secret'["key"].data = secret["key"].data
        BY <3>3, <1>f DEF SecretFrame
      <4>2. ASSUME NEW c \in Core PROVE pods'[c].from.last < cr'.st.last \/ pods'[c].key = secret'["key"].data
        <5>1. CASE pods'[c] = pods[c]
          BY <2>1, <2>4, <4>1, <5>1
        <5>2. CASE Provision(c)
          BY <2>1, <2>4, <4>1, <5>1, <5>2, Provisioned
        <5> QED BY <5>1, <5>2, <1>f DEF SecretFrame
      <4> QED BY <2>1, <3>3, <4>2 DEF KeyReaches
    <3> QED BY <3>1, <3>2, <3>3
  <2> QED BY <2>2, <2>3, <2>4 DEF KeyReaches
<1> QED BY <1>1, <1>2

(* The steps after the api Deployment, but for those that leave it behind.  *)
ApiFits == {"migrate", "create", "scripts", "scriptsJob", "scriptsLabel", "key"} \cup AfterKey

LEMMA KeyStep ==
  ASSUME JobTypes, CopyInv, DataInv, LastInv, KeyInv, [Next]_vars
  PROVE  KeyInv'
<1>f. ResourceFrame /\ SecretFrame /\ FlowFrame /\ "key" \in Secrets
  BY ResourceStep, SecretStep, FlowStep, Names
<1>1. KeyReaches'
  BY KeyReachesStep DEF KeyInv, KeyReaches, KeyRun
<1>2. Still(AfterKey)' /\ cr'.spec.sign => secret'["key"].label = secret'["key"].data
  <2> HAVE Still(AfterKey)' /\ cr'.spec.sign
  <2>s. /\ queue = FALSE /\ cr'.spec = cr.spec
        /\ Still(AfterKey) \/ (pc' \in AfterKey /\ pc \notin AfterKey /\ pc # "idle" /\ fresh /\ cr = mem)
    BY StillStep, Parts
  <2>1. ~EditSecret("key")
    BY <2>s DEF EditSecret, Watched, Still
  <2>2. CASE secret["key"].label = secret["key"].data
    BY <2>1, <2>2, <1>f DEF SecretFrame
  <2>3. CASE Still(AfterKey)
    BY <2>s, <2>2, <2>3 DEF KeyInv
  <2>4. CASE KeyUnchanged /\ cr = mem
    BY <2>s, <2>2, <2>4 DEF KeyUnchanged, secretModified
  <2> QED BY <2>s, <2>3, <2>4, <1>f DEF FlowFrame
<1>3. ASSUME NEW k \in Core, NEW S, "fields" \in S, S \cap {"api", "idle", "keyRead", "keyLabel"} = {}, k \notin S, Still(S)',
             pc' \in S /\ pc \notin S /\ pc # "idle" => pc = k /\ Provision(k),
             Still(S) => pods[k].from.last = cr.st.last
      PROVE  pods'[k].from.last = cr'.st.last
  <2>s. Still(S) \/ (pc' \in S /\ pc \notin S /\ pc # "idle" /\ fresh /\ cr = mem)
    BY <1>3, StillStep
  <2>1. ~restartPulpCorePods
    BY <1>3 DEF restartPulpCorePods, Goto, Still
  <2>2. cr'.st.last = cr.st.last
    BY <2>1, <1>f DEF ResourceFrame
  <2>3. CASE Still(S)
    <3>1. ~Provision(k)
      BY <1>3, <2>3 DEF Still, Provision, Core
    <3> QED BY <1>3, <2>2, <2>3, <3>1, <1>f DEF SecretFrame
  <2>4. CASE Provision(k) /\ cr = mem
    BY <2>2, <2>4, Provisioned
  <2> QED BY <1>3, <2>s, <2>3, <2>4
<1>4. Still(ApiFits)' => pods'["api"].from.last = cr'.st.last
  <2> HAVE Still(ApiFits)'
  <2>1. "api" \in Core /\ "fields" \in ApiFits /\ ApiFits \cap {"api", "idle", "keyRead", "keyLabel"} = {}
    BY DEF Core, ApiFits, AfterKey, AfterContent, AfterPassword, AfterSums
  <2>2. ApiDone = ApiFits \cup {"keyRead", "keyLabel"}
    BY DEF ApiDone, ApiFits, AfterMigrate, AfterScripts
  <2>3. pc' \in ApiFits /\ pc \notin ApiFits /\ pc # "idle" => pc = "api" /\ Provision("api")
    BY <2>1, <2>2, <1>f DEF FlowFrame
  <2>4. Still(ApiFits) => pods["api"].from.last = cr.st.last
    BY DEF KeyInv, ApiFits
  <2> QED BY <2>1, <2>3, <2>4, <1>3
<1>5. Still(AfterContent)' => pods'["content"].from.last = cr'.st.last
  <2> HAVE Still(AfterContent)'
  <2>1. "content" \in Core /\ "content" \notin AfterContent /\ "fields" \in AfterContent
        /\ AfterContent \cap {"api", "idle", "keyRead", "keyLabel"} = {}
    BY DEF Core, AfterContent, AfterPassword, AfterSums
  <2>2. pc' \in AfterContent /\ pc \notin AfterContent => pc = "content" /\ Provision("content")
    BY <1>f DEF FlowFrame
  <2>3. Still(AfterContent) => pods["content"].from.last = cr.st.last
    BY DEF KeyInv
  <2> QED BY <2>1, <2>2, <2>3, <1>3
<1> QED BY <1>1, <1>2, <1>4, <1>5 DEF KeyInv, KeyReaches, KeyRun, ApiFits

-----------------------------------------------------------------------------
LEMMA InvInit == Init => JobTypes /\ JobInv
<1> SUFFICES ASSUME Init PROVE JobTypes /\ JobInv
  OBVIOUS
<1>1. JobTypes
  BY TypeInit
<1>2. /\ pc = "idle" /\ queue = TRUE /\ fresh = FALSE /\ copy = 0 /\ jobs = {} /\ missed = {}
      /\ secret = [n \in Secrets |-> [data |-> 1, label |-> 0]]
      /\ pods = [c \in Core |-> [from |-> NoPods, key |-> 0]]
      /\ cr.st = [image |-> NoName, store |-> NoName, set |-> FALSE, sums |-> NoName, admin |-> NoName, last |-> 0]
      /\ made = [images |-> {}, store |-> NoName, set |-> FALSE, scripts |-> 0,
                 password |-> [of |-> NoName, data |-> 0], sums |-> NoName]
  BY DEF Init
<1>3. CopyInv /\ RecordInv /\ MigrateInv
  BY <1>2 DEF CopyInv, RecordInv, MigrateInv, Still
<1>4. ImageInv
  BY <1>2, Parts DEF ImageInv
<1>5. DataInv /\ ScriptsInv /\ SumsInv
  BY <1>2, Names DEF DataInv, ScriptsInv, SumsInv, Still
<1>6. PasswordInv
  BY <1>2, Names DEF PasswordInv, Still
<1>7. LastInv /\ KeyInv
  BY <1>2, Names DEF LastInv, KeyInv, Still, NoPods
<1> QED BY <1>1, <1>3, <1>4, <1>5, <1>6, <1>7 DEF JobInv

LEMMA InvStep == JobTypes /\ JobInv /\ [Next]_vars => JobTypes' /\ JobInv'
<1> SUFFICES ASSUME JobTypes, JobInv, [Next]_vars PROVE JobTypes' /\ JobInv'
  OBVIOUS
<1>1. JobTypes' /\ CopyInv'
  BY TypeStep, ResourceStep DEF JobInv
<1>2. RecordInv' /\ ImageInv' /\ MigrateInv'
  BY RecordStep, ImageStep, MigrateStep DEF JobInv
<1>3. DataInv' /\ ScriptsInv' /\ PasswordInv' /\ SumsInv'
  BY DataStep, ScriptsStep, PasswordStep, SumsStep DEF JobInv
<1>4. LastInv' /\ KeyInv'
  BY LastStep, KeyStep DEF JobInv
<1> QED BY <1>1, <1>2, <1>3, <1>4 DEF JobInv

(* JobInv is an invariant: what .status, the labels and the copy of the     *)
(* resource tell is true of the Jobs that were created, at every step of    *)
(* the reconciliation.                                                      *)
THEOREM JobsRemembered == Spec => [](JobTypes /\ JobInv)
  BY InvInit, InvStep, PTL DEF Spec

(* No migration is lost: with migrations enabled, pulpcoreMigrate leaves    *)
(* none undone that .spec asks for, whatever is edited while it runs and    *)
(* whichever status updates are refused, unless that is one of the listed   *)
(* ways to drop it.                                                         *)
THEOREM MigrationsNotLost == Spec => []MigrationsRun
<1>1. JobTypes /\ JobInv => MigrationsRun
  BY DEF JobInv, MigrateInv, MigrationsRun, AtRest, Still
<1> QED BY <1>1, JobsRemembered, PTL

(* No change of the admin password, of the signing scripts or of the        *)
(* content checksums is lost, even one made between the read of a Secret    *)
(* and the update of its hash label.                                        *)
THEOREM SecretsNotLost == Spec => []SecretsActedOn
<1>1. JobTypes /\ JobInv => SecretsActedOn
  <2> SUFFICES ASSUME JobInv, AtRest
               PROVE  /\ PasswordFor(cr.spec.admin) \/ "password" \in missed
                      /\ cr.spec.sign => made.scripts = secret["scripts"].data \/ "scripts" \in missed
                      /\ made.sums = cr.spec.sums \/ "sums" \in missed
    BY DEF SecretsActedOn, PasswordFor
  <2> QED BY DEF JobInv, PasswordInv, ScriptsInv, SumsInv, AtRest, Still
<1> QED BY <1>1, JobsRemembered, PTL

(* All pods have started with the latest signing key: restartPulpCorePods   *)
(* comes before the label that says the key was dealt with, and             *)
(* .status.lastDeploymentUpdate reaches every Deployment.                   *)
THEOREM KeysReachPods == Spec => []PodsHaveKey
<1>1. JobTypes /\ JobInv => PodsHaveKey
  <2> SUFFICES ASSUME JobTypes, JobInv, AtRest, cr.spec.sign, "key" \notin missed, NEW c \in Core
               PROVE  pods[c].key = secret["key"].data
    BY DEF PodsHaveKey
  <2>1. \A S : Still(S)
    BY DEF AtRest, Still
  <2>2. secret["key"].label = secret["key"].data
    BY <2>1 DEF JobInv, KeyInv
  <2>3. pods["api"].from.last = cr.st.last /\ pods["content"].from.last = cr.st.last /\ cr.st.last \in Nat
    BY <2>1, PulpFields DEF JobInv, KeyInv, JobTypes, CopyOK
  <2>4. pods[c].from.last = cr.st.last
    BY <2>3 DEF Core
  <2> QED BY <2>2, <2>3, <2>4 DEF JobInv, KeyInv
<1> QED BY <1>1, JobsRemembered, PTL
=============================================================================
