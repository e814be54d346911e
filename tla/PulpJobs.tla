------------------------------ MODULE PulpJobs ------------------------------
(***************************************************************************)
(* The Jobs and restarts that a Pulp reconciliation triggers: migrations,   *)
(* the signing scripts, a new signing key, the admin password and the       *)
(* content checksums.  What has been done is remembered in fields of        *)
(* .status and in the hash labels of Secrets; Jobs are never looked at      *)
(* again, except to find out whether one of them is there or runs.          *)
(*                                                                          *)
(* Reads return the current objects; stale ones are the subject of          *)
(* RepoManager.                                                             *)
(***************************************************************************)
EXTENDS Naturals

CONSTANTS
  Images, Stores, Sums,  \* values of image, storage type, allowed_content_checksums
  AdminSecrets,          \* names of Secrets with the admin password
  Specs,                 \* the values that users give to the fields of .spec
  Installed,             \* those a new installation begins with
  MaxEdits,              \* changes of .spec and of Secrets
  MaxFaults              \* calls that fail, and restarts

NoName == ""

(* set: the settings that need a migration; sign: the two signing Secrets   *)
(* are named; off: disable_migrations.                                      *)
Fields == [image : Images, store : Stores, set : BOOLEAN, sums : Sums \cup {NoName},
           admin : AdminSecrets, sign : BOOLEAN, off : BOOLEAN]

(* What a Job or a restart may be due for, besides a new image.             *)
Tasks == {"store", "set", "scripts", "key", "password", "sums"}

ASSUME JobConstants ==
  /\ Specs \subseteq Fields /\ Installed \subseteq Specs
  /\ MaxEdits \in Nat /\ MaxFaults \in Nat
ASSUME JobNames ==
  /\ NoName \notin Images \cup Stores \cup Sums \cup AdminSecrets
  /\ {"scripts", "key"} \cap AdminSecrets = {} /\ Tasks \cap Images = {}

Status  == [image : Images \cup {NoName}, store : Stores \cup {NoName}, set : BOOLEAN,
            sums : Sums \cup {NoName}, admin : AdminSecrets \cup {NoName}, last : Nat]
Pulp    == [spec : Fields, st : Status]
Secrets == AdminSecrets \cup {"scripts", "key"}
Core    == {"api", "content"}    \* content stands for worker too

(* A Job is told apart by its image, and whether it has active pods.        *)
Jobs  == [image : Images, active : BOOLEAN]
Steps == {"idle", "migrate", "create", "scripts", "scriptsJob", "scriptsLabel",
          "key", "keyRead", "keyLabel", "password", "passwordJob", "passwordLabel",
          "passwordStatus", "sums", "sumsStatus", "fields"} \cup Core

VARIABLES
  pc,      \* the step the reconciliation is at
  queue,   \* the workqueue holds a request
  cr,      \* the Pulp resource
  mem,     \* the reconciliation's copy of it
  fresh,   \* that copy carries the current resourceVersion
  secret,  \* the version of each Secret's data, and the one its label was made of
  copy,    \* the data of the Secret that was read, 0 if the read failed
  jobs,    \* the Jobs there are: two alike are one element
  pods,    \* what each Deployment was made from, and the signing key its pods started with
  made,    \* what Jobs were created for: the latest of each kind, and the images of
           \* all migrations
  missed,  \* tasks that were dropped: an error was ignored, they were disabled,
           \* another Job was running, or .status does not tell of their Job
  edits, faults

cluster == <<secret, jobs, pods>>
ghosts  == <<made, missed>>
counts  == <<edits, faults>>
vars    == <<pc, queue, cr, mem, fresh, secret, copy, jobs, pods, made, missed, edits, faults>>

Fault      == faults < MaxFaults /\ faults' = faults + 1 /\ UNCHANGED edits
(* The reconciliation ends, and its copy of the resource is gone.           *)
NoCopy     == [no |-> "copy"]
Return(q)  == pc' = "idle" /\ queue' = (queue \/ q) /\ mem' = NoCopy /\ fresh' = FALSE
Goto(step) == pc' = step /\ UNCHANGED queue
NoUpdate   == UNCHANGED <<cr, mem, fresh>>

(* r.Status().Update, whose outcome is dropped.  It is refused if the       *)
(* resource has changed; that it fails for another reason is left out.      *)
Store(new) ==
  /\ mem' = new
  /\ cr' = IF fresh THEN new ELSE cr
  /\ UNCHANGED fresh

(* Tasks of which .status does not tell what their Job was created for.     *)
Forgotten(st) ==
  (IF made.password.of = st.admin THEN {} ELSE {"password"})
    \cup (IF made.sums = st.sums THEN {} ELSE {"sums"})

StartReconcile ==
  /\ pc = "idle" /\ queue /\ queue' = FALSE
  /\ mem' = cr /\ fresh' = TRUE
  /\ pc' = "api"
  /\ UNCHANGED <<cr, cluster, copy, ghosts, counts>>

-----------------------------------------------------------------------------
(* The controllers of api, content and worker, as far as they concern the   *)
(* order of things: a Deployment that differs is written, which restarts    *)
(* its pods, and the reconciliation begins anew.                            *)
TemplateWithoutRestart(m) ==    \* mutant: restartedAt is not in the pod template
  [image |-> m.spec.image, store |-> m.spec.store, set |-> m.spec.set, sums |-> m.spec.sums, last |-> 0]

Template(m) ==
  [image |-> m.spec.image, store |-> m.spec.store, set |-> m.spec.set, sums |-> m.spec.sums, last |-> m.st.last]

After == [api |-> "migrate", content |-> "password"]

ProvisionAlways(c) ==    \* mutant: the comparison with what is there always differs
  /\ pc = c
  /\ pods' = [pods EXCEPT ![c] = [from |-> Template(mem), key |-> secret["key"].data]]
  /\ Return(TRUE)
  /\ UNCHANGED <<cr, secret, jobs, copy, ghosts, counts>>

Provision(c) ==
  /\ pc = c
  /\ IF pods[c].from = Template(mem)
     THEN Goto(After[c]) /\ UNCHANGED <<pods, mem, fresh>>
     ELSE pods' = [pods EXCEPT ![c] = [from |-> Template(mem), key |-> secret["key"].data]] /\ Return(TRUE)
  /\ UNCHANGED <<cr, secret, jobs, copy, ghosts, counts>>

ProvisionFails(c) ==
  /\ pc = c /\ pods[c].from # Template(mem)
  /\ Fault /\ Return(TRUE)
  /\ UNCHANGED <<cr, cluster, copy, ghosts>>

-----------------------------------------------------------------------------
(* needsMigration.                                                          *)
StorageTypeChanged == mem.st.store # mem.spec.store
SettingsChanged    == mem.st.set # mem.spec.set
ImageChanged       == mem.st.image # mem.spec.image

(* What no migration Job was created for: the image none of them had, the   *)
(* storage type and the settings the latest one did not have.               *)
Unmade(s) ==
  ({s.image} \ made.images)
    \cup (IF s.store = made.store THEN {} ELSE {"store"})
    \cup (IF s.set = made.set THEN {} ELSE {"set"})

(* An error of List is dropped, and leaves an empty list.                   *)
getMigrationJobs(list) ==
  \/ list = jobs /\ UNCHANGED counts
  \/ list = {} /\ jobs # {} /\ Fault

anyJob(list) == list # {}    \* mutant: a Job with any image will do
migrationDone(list)       == \E j \in list : j.image = mem.spec.image
hasActiveJobRunning(list) == \E j \in list : j.active

MigrationsDisabled ==
  /\ pc = "migrate" /\ mem.spec.off
  /\ missed' = missed \cup (Unmade(mem.spec) \cap Images)
  /\ Goto("scripts")
  /\ NoUpdate /\ UNCHANGED <<cluster, copy, made, counts>>

MigrateStorage ==
  /\ pc = "migrate" /\ ~mem.spec.off /\ StorageTypeChanged
  /\ Store([mem EXCEPT !.st.store = mem.spec.store])
  /\ Goto("create")
  /\ UNCHANGED <<cluster, copy, ghosts, counts>>

MigrateSettings ==
  /\ pc = "migrate" /\ ~mem.spec.off /\ ~StorageTypeChanged /\ SettingsChanged
  /\ Store([mem EXCEPT !.st.set = mem.spec.set])
  /\ \E list \in {jobs, {}} :
       /\ getMigrationJobs(list)
       /\ IF hasActiveJobRunning(list) /\ ~(ImageChanged /\ ~migrationDone(list))
          THEN /\ Goto("scripts")
               /\ missed' = CASE mem.spec.set # made.set -> missed \cup {"set"}
                              [] mem.spec.set = made.set /\ fresh -> missed \ {"set"}
                              [] OTHER -> missed
          ELSE Goto("create") /\ UNCHANGED missed
  /\ UNCHANGED <<cluster, copy, made>>

MigrateImage ==
  /\ pc = "migrate" /\ ~mem.spec.off /\ ~StorageTypeChanged /\ ~SettingsChanged
  /\ \E list \in {jobs, {}} :
       /\ getMigrationJobs(list)
       /\ Goto(IF ImageChanged /\ ~migrationDone(list) THEN "create" ELSE "scripts")
  /\ NoUpdate /\ UNCHANGED <<cluster, copy, ghosts>>

Create == jobs' = jobs \cup {[image |-> mem.spec.image, active |-> TRUE]}

(* What .status does not tell of the Job: its update was refused, or only   *)
(* the storage type was recorded.                                           *)
Unrecorded ==
  (IF cr.st.store = mem.spec.store THEN {} ELSE {"store"})
    \cup (IF cr.st.set = mem.spec.set THEN {} ELSE {"set"})

migrationJob ==
  /\ pc = "create"
  /\ Create
  /\ made' = [made EXCEPT !.images = made.images \cup {mem.spec.image},
                          !.store = mem.spec.store, !.set = mem.spec.set]
  /\ missed' = (missed \ {mem.spec.image, "store", "set"}) \cup Unrecorded
  /\ Goto("scripts")
  /\ NoUpdate /\ UNCHANGED <<secret, pods, copy, counts>>

migrationJobFails ==
  /\ pc = "create" /\ Fault
  /\ missed' = missed \cup Unmade(mem.spec)
  /\ Goto("scripts")
  /\ NoUpdate /\ UNCHANGED <<cluster, copy, made>>

-----------------------------------------------------------------------------
(* Hash labels.                                                             *)
secretModified(n) == secret[n].label # secret[n].data

(* The Secret n is read.  A read that fails goes on with an empty one.      *)
Read(n) ==
  \/ copy' = secret[n].data /\ UNCHANGED counts
  \/ copy' = 0 /\ Fault

LabelWhatIsThere(n) ==    \* mutant: the label is made of the data that is there now
  /\ secret' = [secret EXCEPT ![n].label = secret[n].data]
  /\ UNCHANGED counts

(* r.Update of the Secret that was read: refused if it has changed since.   *)
SetHashLabel(n) ==
  \/ /\ secret[n].data = copy
     /\ secret' = [secret EXCEPT ![n].label = copy] /\ UNCHANGED counts
  \/ secret[n].data # copy /\ UNCHANGED <<secret, counts>>
  \/ Fault /\ UNCHANGED secret

(* The operator watches the Secrets that .spec names.                       *)
Watched(n) == n = cr.spec.admin \/ (n \in {"scripts", "key"} /\ cr.spec.sign)

(* runSigningScriptJob, signingScriptJob.                                   *)
ScriptsUnchanged ==
  /\ pc = "scripts" /\ (mem.spec.sign => ~secretModified("scripts"))
  /\ Goto("key")
  /\ NoUpdate /\ UNCHANGED <<cluster, copy, ghosts, counts>>

ReadScripts ==
  /\ pc = "scripts" /\ mem.spec.sign
  /\ \/ secretModified("scripts") /\ Read("scripts")
     \/ Fault /\ copy' \in {0, secret["scripts"].data}    \* the read of secretModified fails
  /\ Goto("scriptsJob")
  /\ NoUpdate /\ UNCHANGED <<cluster, ghosts>>

signingScriptJob ==
  /\ pc = "scriptsJob"
  /\ \/ /\ Create /\ UNCHANGED counts
        /\ IF copy = 0
           THEN missed' = missed \cup {"scripts"} /\ UNCHANGED made    \* a Job without scripts
           ELSE /\ made' = [made EXCEPT !.scripts = secret["scripts"].data]
                /\ missed' = missed \ {"scripts"}
     \/ Fault /\ missed' = missed \cup {"scripts"} /\ UNCHANGED <<jobs, made>>
  /\ Goto("scriptsLabel")
  /\ NoUpdate /\ UNCHANGED <<secret, pods, copy>>

LabelScripts ==
  /\ pc = "scriptsLabel"
  /\ SetHashLabel("scripts") /\ copy' = 0
  /\ pc' = "key" /\ queue' = (queue \/ (secret' # secret /\ Watched("scripts")))
  /\ NoUpdate /\ UNCHANGED <<jobs, pods, ghosts>>

(* runSigningSecretTasks, restartPulpCorePods.                              *)
KeyUnchanged ==
  /\ pc = "key" /\ (mem.spec.sign => ~secretModified("key"))
  /\ Goto("content")
  /\ NoUpdate /\ UNCHANGED <<cluster, copy, ghosts, counts>>

restartPulpCorePods ==
  /\ pc = "key" /\ mem.spec.sign
  /\ (secretModified("key") /\ UNCHANGED counts) \/ Fault
  /\ Store([mem EXCEPT !.st.last = mem.st.last + 1])
  /\ missed' = IF fresh THEN missed \ {"key"} ELSE missed \cup {"key"}
  /\ Goto("keyRead")
  /\ UNCHANGED <<cluster, copy, made>>

ReadKey ==
  /\ pc = "keyRead"
  /\ Read("key") /\ Goto("keyLabel")
  /\ NoUpdate /\ UNCHANGED <<cluster, ghosts>>

LabelKey ==
  /\ pc = "keyLabel"
  /\ SetHashLabel("key") /\ copy' = 0
  /\ Return(TRUE)
  /\ UNCHANGED <<cr, jobs, pods, ghosts>>

-----------------------------------------------------------------------------
(* updateAdminPasswordJob.  The Job mounts the Secret and finds the data    *)
(* that is there when its pod starts.                                       *)
PasswordUnchanged ==
  /\ pc = "password" /\ mem.st.admin = mem.spec.admin /\ ~secretModified(mem.spec.admin)
  /\ Goto("sums")
  /\ NoUpdate /\ UNCHANGED <<cluster, copy, ghosts, counts>>

ReadPassword ==
  /\ pc = "password"
  /\ Read(mem.spec.admin)
  /\ mem.st.admin # mem.spec.admin \/ secretModified(mem.spec.admin) \/ copy' = 0
  /\ Goto("passwordJob")
  /\ NoUpdate /\ UNCHANGED <<cluster, ghosts>>

PasswordJob ==
  /\ pc = "passwordJob"
  /\ \/ /\ Create /\ UNCHANGED counts
        /\ made' = [made EXCEPT !.password = [of |-> mem.spec.admin, data |-> secret[mem.spec.admin].data]]
        /\ missed' = missed \ {"password"}
     \/ Fault /\ missed' = missed \cup {"password"} /\ UNCHANGED <<jobs, made>>
  /\ Goto("passwordLabel")
  /\ NoUpdate /\ UNCHANGED <<secret, pods, copy>>

LabelPassword ==
  /\ pc = "passwordLabel"
  /\ SetHashLabel(mem.spec.admin) /\ copy' = 0
  /\ pc' = "passwordStatus" /\ queue' = (queue \/ (secret' # secret /\ Watched(mem.spec.admin)))
  /\ NoUpdate /\ UNCHANGED <<jobs, pods, ghosts>>

PasswordStatus ==
  /\ pc = "passwordStatus"
  /\ IF mem.st.admin = mem.spec.admin THEN NoUpdate
     ELSE Store([mem EXCEPT !.st.admin = mem.spec.admin])
  /\ missed' = missed \cup Forgotten(cr'.st)
  /\ Goto("sums")
  /\ UNCHANGED <<cluster, copy, made, counts>>

(* updateContentChecksumsJob.                                               *)
ChecksumsUnchanged ==
  /\ pc = "sums" /\ mem.st.sums = mem.spec.sums
  /\ Goto("fields")
  /\ NoUpdate /\ UNCHANGED <<cluster, copy, ghosts, counts>>

ChecksumsJob ==
  /\ pc = "sums" /\ mem.st.sums # mem.spec.sums
  /\ \/ /\ Create /\ UNCHANGED counts
        /\ made' = [made EXCEPT !.sums = mem.spec.sums]
        /\ missed' = missed \ {"sums"}
     \/ Fault /\ missed' = missed \cup {"sums"} /\ UNCHANGED <<jobs, made>>
  /\ Goto("sumsStatus")
  /\ NoUpdate /\ UNCHANGED <<secret, pods, copy>>

ChecksumsStatus ==
  /\ pc = "sumsStatus"
  /\ Store([mem EXCEPT !.st.sums = mem.spec.sums])
  /\ missed' = missed \cup Forgotten(cr'.st)
  /\ Goto("fields")
  /\ UNCHANGED <<cluster, copy, made, counts>>

fieldMixedUp ==    \* mutant: the value of another field is recorded
  /\ pc = "fields"
  /\ cr' = IF fresh THEN [mem EXCEPT !.st.image = mem.spec.store] ELSE cr
  /\ Return(FALSE)
  /\ UNCHANGED <<cluster, copy, ghosts, counts>>

(* setStatusFields: the image.                                              *)
setStatusFields ==
  /\ pc = "fields"
  /\ cr' = IF fresh THEN [mem EXCEPT !.st.image = mem.spec.image] ELSE cr
  /\ Return(FALSE)
  /\ UNCHANGED <<cluster, copy, ghosts, counts>>

-----------------------------------------------------------------------------
(* The environment.  The end of a Job queues nothing: Jobs are not watched. *)

EditSpec ==
  /\ edits < MaxEdits /\ edits' = edits + 1
  /\ \E s \in Specs \ {cr.spec} : cr' = [cr EXCEPT !.spec = s]
  /\ fresh' = FALSE /\ queue' = TRUE
  /\ UNCHANGED <<pc, mem, cluster, copy, ghosts, faults>>

EditSecret(n) ==
  /\ edits < MaxEdits /\ edits' = edits + 1
  /\ secret' = [secret EXCEPT ![n].data = secret[n].data + 1]
  /\ queue' = (queue \/ Watched(n))
  /\ UNCHANGED <<pc, cr, mem, fresh, copy, jobs, pods, ghosts, faults>>

JobEnds(j) ==
  /\ j.active
  /\ jobs' = (jobs \ {j}) \cup {[j EXCEPT !.active = FALSE]}
  /\ UNCHANGED <<pc, queue, cr, mem, fresh, secret, copy, pods, ghosts, counts>>

JobExpires(j) ==
  /\ ~j.active /\ jobs' = jobs \ {j}
  /\ UNCHANGED <<pc, queue, cr, mem, fresh, secret, copy, pods, ghosts, counts>>

OperatorRestart ==
  /\ Fault
  /\ Return(TRUE)
  /\ missed' = missed \cup Forgotten(cr.st) \cup (IF pc = "create" THEN Unmade(mem.spec) ELSE {})
  /\ copy' = 0
  /\ UNCHANGED <<cr, cluster, made>>

NoPods == [image |-> NoName, store |-> NoName, set |-> FALSE, sums |-> NoName, last |-> 0]

Init ==
  /\ pc = "idle" /\ queue = TRUE
  /\ \E s \in Installed :
       cr = [spec |-> s, st |-> [image |-> NoName, store |-> NoName, set |-> FALSE,
                                 sums |-> NoName, admin |-> NoName, last |-> 0]]
  /\ mem = NoCopy /\ fresh = FALSE
  /\ secret = [n \in Secrets |-> [data |-> 1, label |-> 0]] /\ copy = 0
  /\ jobs = {} /\ pods = [c \in Core |-> [from |-> NoPods, key |-> 0]]
  /\ made = [images |-> {}, store |-> NoName, set |-> FALSE, scripts |-> 0,
             password |-> [of |-> NoName, data |-> 0], sums |-> NoName]
  /\ missed = {} /\ edits = 0 /\ faults = 0

Reconcile ==
  \/ StartReconcile
  \/ \E c \in Core : Provision(c) \/ ProvisionFails(c)
  \/ MigrationsDisabled \/ MigrateStorage \/ MigrateSettings \/ MigrateImage
  \/ migrationJob \/ migrationJobFails
  \/ ScriptsUnchanged \/ ReadScripts \/ signingScriptJob \/ LabelScripts
  \/ KeyUnchanged \/ restartPulpCorePods \/ ReadKey \/ LabelKey
  \/ PasswordUnchanged \/ ReadPassword \/ PasswordJob \/ LabelPassword \/ PasswordStatus
  \/ ChecksumsUnchanged \/ ChecksumsJob \/ ChecksumsStatus \/ setStatusFields

Next ==
  \/ Reconcile
  \/ EditSpec \/ (\E n \in Secrets : EditSecret(n))
  \/ (\E j \in jobs : JobEnds(j) \/ JobExpires(j))
  \/ OperatorRestart

Spec     == Init /\ [][Next]_vars
FairSpec == Spec /\ WF_vars(Reconcile)

-----------------------------------------------------------------------------
(* Properties.                                                              *)

TypeOK ==
  /\ pc \in Steps /\ queue \in BOOLEAN
  /\ cr \in Pulp /\ mem \in {NoCopy} \cup Pulp /\ (pc # "idle" => mem # NoCopy) /\ fresh \in BOOLEAN
  /\ secret \in [Secrets -> [data : Nat, label : Nat]] /\ copy \in Nat
  /\ jobs \subseteq Jobs
  /\ \A c \in Core : /\ pods[c].key \in Nat
                     /\ pods[c].from \in {NoPods} \cup
                          [image : Images, store : Stores, set : BOOLEAN, sums : Sums \cup {NoName}, last : Nat]
  /\ missed \subseteq Tasks \cup Images
  /\ edits \in 0..MaxEdits /\ faults \in 0..MaxFaults

AtRest == pc = "idle" /\ ~queue

(* With migrations enabled, the operator does not come to rest before a     *)
(* migration Job was created with the image, the storage type and the       *)
(* settings of .spec, in whatever order they changed, unless it dropped     *)
(* that task.                                                               *)
MigrationsRun == AtRest /\ ~cr.spec.off => Unmade(cr.spec) \subseteq missed

(* Nor before a Job was created for the latest data of the admin password   *)
(* Secret and of the signing scripts, and the latest content checksums: a   *)
(* change between the read and the label is not lost.                       *)
SecretsActedOn ==
  AtRest =>
    /\ made.password = [of |-> cr.spec.admin, data |-> secret[cr.spec.admin].data] \/ "password" \in missed
    /\ cr.spec.sign => made.scripts = secret["scripts"].data \/ "scripts" \in missed
    /\ made.sums = cr.spec.sums \/ "sums" \in missed

(* Nor before all pods have started with the latest signing key.            *)
PodsHaveKey ==
  AtRest /\ cr.spec.sign /\ "key" \notin missed =>
    \A c \in Core : pods[c].key = secret["key"].data

(* It does come to rest: no Job or restart triggers itself over and over.   *)
Settles == <>[]AtRest
=============================================================================
